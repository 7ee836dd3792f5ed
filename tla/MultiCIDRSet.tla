---------------------------- MODULE MultiCIDRSet ----------------------------
(***************************************************************************)
(* One MultiCIDRSet and the calls the range allocator makes on it, loop    *)
(* iteration by loop iteration: Occupy, Release, and allocateCIDR with the *)
(* NextCandidate scan inside it.  All calls are made under the allocator's *)
(* lock, so at most one is in progress.                                    *)
(*                                                                         *)
(* The closed forms of module CIDRSet say what a whole call computes; the  *)
(* invariants below say that the loops compute it.                         *)
(***************************************************************************)
EXTENDS CIDRSet

CONSTANTS
    Ranges,     \* the ranges a set may be built for
    Inputs      \* the CIDRs handed to Occupy and Release

ASSUME RangesAssumption == \A r \in Ranges : MaxCIDRs(r) \in Nat

VARIABLES
    range,      \* ClusterCIDR, clusterMaskSize, NodeMaskSize: never change
    alloc,      \* allocatedCIDRMap
    count,      \* allocatedCIDRs
    next,       \* nextCandidate
    pc,         \* where the call in progress is
    op,         \* which call it is
    first, last,\* Occupy and Release: begin and end
    i,          \* Occupy and Release: loop index; NextCandidate: iterations
    cand,       \* NextCandidate: candidate
    evaluated,  \* allocateCIDR: evaluated
    taken,      \* allocateCIDR: indices another ClusterCIDR's blocks overlap
    err,        \* the error the call returned: "nil" or "exhausted"
    old         \* the set's state when the call began

vars == <<range, alloc, count, next, pc, op, first, last, i, cand, evaluated,
          taken, err, old>>

loopVars == <<first, last, cand, evaluated, taken, err>>

Max == MaxCIDRs(range)

Index == 0 .. Max - 1

Current == [alloc |-> alloc, count |-> count, next |-> next]

Init ==
    /\ range \in Ranges
    /\ alloc = {} /\ count = 0 /\ next = 0
    /\ pc = "idle" /\ op = "none"
    /\ first = 0 /\ last = 0 /\ i = 0 /\ cand = 0 /\ evaluated = 0
    /\ taken = {} /\ err = "nil" /\ old = Current

-----------------------------------------------------------------------------
\* Occupy(cidr) and Release(cidr).
CallWithCIDR(name, cidr) ==
    /\ pc = "idle"
    /\ InRange(range, cidr)
    /\ pc' = name /\ op' = name /\ old' = Current
    /\ first' = BeginIndex(range, cidr) /\ last' = EndIndex(range, cidr)
    /\ i' = first'
    /\ UNCHANGED <<range, alloc, count, next, cand, evaluated, taken, err>>

\* Mutant of OccupyStep: a block that is already marked is counted again.
OccupyStepCountsTwice ==
    /\ pc = "occupy" /\ i <= last
    /\ alloc' = alloc \cup {i} /\ count' = count + 1 /\ i' = i + 1
    /\ UNCHANGED <<range, next, pc, op, old, loopVars>>

OccupyStep ==
    /\ pc = "occupy" /\ i <= last
    /\ alloc' = alloc \cup {i}
    /\ count' = IF i \in alloc THEN count ELSE count + 1
    /\ i' = i + 1
    /\ UNCHANGED <<range, next, pc, op, old, loopVars>>

ReleaseStep ==
    /\ pc = "release" /\ i <= last
    /\ alloc' = alloc \ {i}
    /\ count' = IF i \in alloc THEN count - 1 ELSE count
    /\ i' = i + 1
    /\ UNCHANGED <<range, next, pc, op, old, loopVars>>

\* Mutant of LoopReturn: the loop may end before the last block.
LoopReturnEarly ==
    /\ pc \in {"occupy", "release"} /\ i >= last
    /\ pc' = "done"
    /\ err' = "nil"
    /\ UNCHANGED <<range, alloc, count, next, op, old, i, first, last, cand,
                   evaluated, taken>>

LoopReturn ==
    /\ pc \in {"occupy", "release"} /\ i > last
    /\ pc' = "done"
    /\ err' = "nil"
    /\ UNCHANGED <<range, alloc, count, next, op, old, i, first, last, cand,
                   evaluated, taken>>

-----------------------------------------------------------------------------
\* allocateCIDR, entered with the indices the other ClusterCIDRs rule out.
CallAllocate(T) ==
    /\ pc = "idle"
    /\ pc' = "evaluate" /\ op' = "allocate" /\ old' = Current
    /\ taken' = T /\ evaluated' = 0
    /\ UNCHANGED <<range, alloc, count, next, i, first, last, cand, err>>

Fail ==
    /\ pc' = "done" /\ err' = "exhausted"
    /\ UNCHANGED <<range, alloc, count, next, op, old, i, first, last, cand,
                   evaluated, taken>>

\* The head of allocateCIDR's loop, and NextCandidate up to its own loop.
Evaluate ==
    /\ pc = "evaluate"
    /\ \/ /\ evaluated >= Max \/ count = Max
          /\ Fail
       \/ /\ evaluated < Max /\ count # Max
          /\ pc' = "scan" /\ cand' = next /\ i' = 0
          /\ UNCHANGED <<range, alloc, count, next, op, old, first, last,
                         evaluated, taken, err>>

\* Mutant of NextCandidate: no wrap-around.
NextCandidateNoWrap ==
    /\ pc = "scan" /\ i < Max /\ cand \notin alloc
    /\ next' = cand + 1
    /\ evaluated' = evaluated + i
    /\ pc' = "offered"
    /\ UNCHANGED <<range, alloc, count, op, old, i, first, last, cand, taken, err>>

\* Mutant of NextCandidate: the indices it passes over are counted twice.
NextCandidateOvercounts ==
    /\ pc = "scan"
    /\ \/ /\ i < Max /\ cand \in alloc
          /\ cand' = (cand + 1) % Max /\ i' = i + 2
          /\ UNCHANGED <<range, alloc, count, next, pc, op, old, first, last,
                         evaluated, taken, err>>
       \/ /\ i < Max /\ cand \notin alloc
          /\ next' = (cand + 1) % Max
          /\ evaluated' = evaluated + i
          /\ pc' = "offered"
          /\ UNCHANGED <<range, alloc, count, op, old, i, first, last, cand, taken, err>>
       \/ /\ i >= Max
          /\ Fail

\* One iteration of NextCandidate's loop.
NextCandidate ==
    /\ pc = "scan"
    /\ \/ /\ i >= Max
          /\ Fail
       \/ /\ i < Max /\ cand \in alloc
          /\ cand' = (cand + 1) % Max /\ i' = i + 1
          /\ UNCHANGED <<range, alloc, count, next, pc, op, old, first, last,
                         evaluated, taken, err>>
       \/ /\ i < Max /\ cand \notin alloc
          /\ next' = (cand + 1) % Max
          /\ evaluated' = evaluated + i
          /\ pc' = "offered"
          /\ UNCHANGED <<range, alloc, count, op, old, i, first, last, cand,
                         taken, err>>

\* Mutant of CheckCandidate: a rejected candidate is not counted as evaluated.
CheckCandidateUncounted ==
    /\ pc = "offered"
    /\ \/ /\ cand \in taken
          /\ pc' = "evaluate"
          /\ UNCHANGED <<range, alloc, count, next, op, old, i, first, last,
                         cand, evaluated, taken, err>>
       \/ /\ cand \notin taken
          /\ alloc' = alloc \cup {cand}
          /\ count' = count + 1
          /\ pc' = "done" /\ err' = "nil"
          /\ UNCHANGED <<range, next, op, old, i, first, last, cand,
                         evaluated, taken>>

\* The checks on the candidate, and its occupation.
CheckCandidate ==
    /\ pc = "offered"
    /\ \/ /\ cand \in taken
          /\ evaluated' = evaluated + 1
          /\ pc' = "evaluate"
          /\ UNCHANGED <<range, alloc, count, next, op, old, i, first, last,
                         cand, taken, err>>
       \/ /\ cand \notin taken
          /\ alloc' = alloc \cup {cand}
          /\ count' = count + 1
          /\ pc' = "done" /\ err' = "nil"
          /\ UNCHANGED <<range, next, op, old, i, first, last, cand,
                         evaluated, taken>>

\* The caller takes the result; the frame of the call is gone.
Return ==
    /\ pc = "done"
    /\ pc' = "idle" /\ op' = "none" /\ err' = "nil" /\ old' = Current
    /\ first' = 0 /\ last' = 0 /\ i' = 0 /\ cand' = 0 /\ evaluated' = 0
    /\ taken' = {}
    /\ UNCHANGED <<range, alloc, count, next>>

Step ==
    \/ OccupyStep \/ ReleaseStep \/ LoopReturn
    \/ Evaluate \/ NextCandidate \/ CheckCandidate \/ Return

Next ==
    \/ \E cidr \in Inputs : \/ CallWithCIDR("occupy", cidr)
                            \/ CallWithCIDR("release", cidr)
    \/ \E T \in SUBSET Index : CallAllocate(T)
    \/ Step

Spec == Init /\ [][Next]_vars

-----------------------------------------------------------------------------
\* Every index in use is one of the set's blocks.
TypeOK ==
    /\ range \in Ranges
    /\ alloc \in SUBSET Index
    /\ count \in Int
    /\ next \in Index \cup {0}
    /\ pc \in {"idle", "occupy", "release", "evaluate", "scan", "offered", "done"}
    /\ op \in {"none", "occupy", "release", "allocate"}
    /\ first \in Nat /\ last \in Index \cup {-1, 0} /\ i \in Nat
    /\ cand \in Index \cup {0} /\ evaluated \in Nat
    /\ taken \in SUBSET Index
    /\ err \in {"nil", "exhausted"}
    /\ old \in [alloc : SUBSET Index, count : Int, next : Index \cup {0}]

\* allocatedCIDRs is the number of allocated blocks after every iteration of
\* every loop: Occupy and Release count a block once however the ranges they
\* are called with overlap.  NextCandidate's exhaustion test relies on it.
CountExact == count = Cardinality(alloc)

\* Occupy and Release change exactly the blocks the CIDR covers or lies in:
\* when the loop returns, the set is what the closed form says.
LoopsMeetClosedForm ==
    /\ pc = "done" /\ op = "occupy" => Current = OccupyIndices(old, first .. last)
    /\ pc = "done" /\ op = "release" => Current = ReleaseIndices(old, first .. last)

\* allocateCIDR returns the first acceptable block at or after nextCandidate,
\* marked, and fails only when no block is acceptable: its loop counts
\* indices over several NextCandidate calls without skipping one.
AllocateMeetsClosedForm ==
    pc = "done" /\ op = "allocate" =>
        /\ err = "nil" <=> CanAllocate(Max, old, taken)
        /\ err = "nil" => cand = AllocatedIndex(Max, old, taken)
        /\ Current = IF err = "nil" THEN Allocate(Max, old, taken) ELSE AllocateFailed(Max, old)

\* Every call returns: the wrap-around scan and the evaluation counter always
\* reach their limits.
CallsReturn == (pc # "idle") ~> (pc = "done")
=============================================================================
