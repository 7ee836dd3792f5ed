------------------------- MODULE MultiCIDRSetProofs -------------------------
(***************************************************************************)
(* Proofs about MultiCIDRSet for every range, every CIDR handed to it and  *)
(* every set of blocks the other ClusterCIDRs rule out: its counter is     *)
(* exact, and its loops compute the closed forms of module CIDRSet. And    *)
(* about the specs that sets are made from: what passes the validation has *)
(* blocks.                                                                 *)
(***************************************************************************)
EXTENDS MultiCIDRSet, Validation, FiniteSetTheorems, TLAPS

\* What the loops of Occupy and Release know about their bounds, and what the
\* scan knows about its candidate: without it TypeOK is not inductive.
Frame ==
    /\ pc \in {"occupy", "release"} => last \in Index \cup {-1}
    /\ pc \in {"scan", "offered"} => Max > 0
    /\ pc = "offered" => cand \notin alloc

\* How far the loops of Occupy and Release have come.
Progress ==
    /\ pc # "idle" => old.count = Cardinality(old.alloc)
    /\ pc \in {"occupy", "release"} => /\ op = pc
                                       /\ i = first \/ i <= last + 1
                                       /\ i >= first
                                       /\ next = old.next
    /\ pc = "occupy" => alloc = old.alloc \cup (first .. (i - 1))
    /\ pc = "release" => alloc = old.alloc \ (first .. (i - 1))
    /\ pc \in {"evaluate", "scan", "offered"} => op = "allocate"
    /\ pc = "idle" => op = "none"

\* getMaxCIDRs gives a natural number for every range in use.
LEMMA MaxNat == range \in Ranges => Max \in Nat
  BY RangesAssumption DEF Max

\* A remainder of a division by Max is an index.
LEMMA ModIndex ==
    ASSUME NEW m \in Nat, m > 0, NEW x \in Nat
    PROVE  x % m \in 0 .. m - 1
  OBVIOUS

\* Every set of indices is finite.
LEMMA IndexFinite ==
    ASSUME NEW m \in Nat, NEW S \in SUBSET (0 .. m - 1)
    PROVE  IsFiniteSet(S) /\ Cardinality(S) \in Nat
  <1>1. IsFiniteSet(0 .. m - 1)
    BY FS_Interval
  <1>2. IsFiniteSet(S)
    BY <1>1, FS_Subset
  <1> QED
    BY <1>2, FS_CardinalityType

\* Every index the calls of a MultiCIDRSet use is one of its blocks, after every
\* iteration of every loop: the wrap-around of NextCandidate and the bounds of
\* getBeginningAndEndIndices never leave 0 .. MaxCIDRs - 1.
THEOREM TypeCorrect == Spec => [](TypeOK /\ Frame)
<1>1. Init => TypeOK /\ Frame
  <2> SUFFICES ASSUME Init PROVE TypeOK /\ Frame
    OBVIOUS
  <2> QED
    BY MaxNat DEF Init, TypeOK, Frame, Current, Index
<1>2. TypeOK /\ Frame /\ [Next]_vars => TypeOK' /\ Frame'
  <2> SUFFICES ASSUME TypeOK, Frame, [Next]_vars
               PROVE  TypeOK' /\ Frame'
    OBVIOUS
  <2> Max \in Nat
    BY MaxNat DEF TypeOK
  <2> range' = range => Max' = Max /\ Index' = Index
    BY DEF Max, Index
  <2>1. ASSUME NEW cidr \in Inputs, NEW name \in {"occupy", "release"},
               CallWithCIDR(name, cidr)
        PROVE  TypeOK' /\ Frame'
    <3> /\ BeginIndex(range, cidr) \in Nat
        /\ EndIndex(range, cidr) \in Index \cup {-1}
      BY <2>1 DEF CallWithCIDR, InRange, BeginIndex, EndIndex, Index, Max
    <3> QED
      BY <2>1 DEF CallWithCIDR, TypeOK, Frame, Current
  <2>2. CASE OccupyStep
    BY <2>2 DEF OccupyStep, TypeOK, Frame, loopVars, Index
  <2>3. CASE ReleaseStep
    BY <2>3 DEF ReleaseStep, TypeOK, Frame, loopVars, Index
  <2>4. CASE LoopReturn
    BY <2>4 DEF LoopReturn, TypeOK, Frame
  <2>5. ASSUME NEW T \in SUBSET Index, CallAllocate(T)
        PROVE  TypeOK' /\ Frame'
    BY <2>5 DEF CallAllocate, TypeOK, Frame, Current
  <2>6. CASE Evaluate
    BY <2>6 DEF Evaluate, Fail, TypeOK, Frame
  <2>7. CASE NextCandidate
    <3> Max > 0 /\ (cand + 1) % Max \in Index
      BY <2>7, ModIndex DEF NextCandidate, TypeOK, Frame, Index
    <3> QED
      BY <2>7 DEF NextCandidate, Fail, TypeOK, Frame
  <2>8. CASE CheckCandidate
    <3> cand \in Index
      BY <2>8 DEF CheckCandidate, TypeOK, Frame, Index
    <3> QED
      BY <2>8 DEF CheckCandidate, TypeOK, Frame
  <2>9. CASE Return
    BY <2>9 DEF Return, TypeOK, Frame, Current
  <2>10. CASE UNCHANGED vars
    BY <2>10 DEF vars, TypeOK, Frame
  <2> QED
    BY <2>1, <2>2, <2>3, <2>4, <2>5, <2>6, <2>7, <2>8, <2>9, <2>10 DEF Next, Step
<1> QED
  BY <1>1, <1>2, PTL DEF Spec

-----------------------------------------------------------------------------
\* allocatedCIDRs always equals the number of allocated blocks, so the
\* exhaustion test of NextCandidate never fires early or late.
THEOREM CountIsExact == Spec => []CountExact
<1>1. Init => CountExact
  BY FS_EmptySet DEF Init, CountExact
<1>2. TypeOK /\ Frame /\ CountExact /\ [Next]_vars => CountExact'
  <2> SUFFICES ASSUME TypeOK, Frame, CountExact, [Next]_vars
               PROVE  CountExact'
    OBVIOUS
  <2>1. IsFiniteSet(alloc) /\ Cardinality(alloc) \in Nat
    BY MaxNat, IndexFinite DEF TypeOK, Index
  <2>2. \A x : Cardinality(alloc \cup {x}) =
                 IF x \in alloc THEN Cardinality(alloc) ELSE Cardinality(alloc) + 1
    BY <2>1, FS_AddElement
  <2>3. \A x : Cardinality(alloc \ {x}) =
                 IF x \in alloc THEN Cardinality(alloc) - 1 ELSE Cardinality(alloc)
    BY <2>1, FS_RemoveElement
  <2>4. CASE OccupyStep
    BY <2>2, <2>4 DEF OccupyStep, CountExact
  <2>5. CASE ReleaseStep
    BY <2>3, <2>5 DEF ReleaseStep, CountExact
  <2>6. CASE CheckCandidate
    BY <2>2, <2>6 DEF CheckCandidate, CountExact, Frame
  <2>7. CASE UNCHANGED <<alloc, count>>
    BY <2>7 DEF CountExact
  <2> QED
    BY <2>4, <2>5, <2>6, <2>7
    DEF Next, Step, vars, CallWithCIDR, LoopReturn, CallAllocate, Evaluate,
        NextCandidate, Fail, Return
<1> QED
  BY <1>1, <1>2, TypeCorrect, PTL DEF Spec

-----------------------------------------------------------------------------
\* A step keeps Progress: after an iteration of Occupy or Release the blocks
\* from begin up to the loop index, and no others, have been dealt with.
LEMMA ProgressInductive ==
    TypeOK /\ Frame /\ CountExact /\ Progress /\ [Next]_vars => Progress'
  <1> SUFFICES ASSUME TypeOK, Frame, CountExact, Progress, [Next]_vars
               PROVE  Progress'
    OBVIOUS
  <1>1. ASSUME NEW cidr \in Inputs, NEW name \in {"occupy", "release"},
               CallWithCIDR(name, cidr)
        PROVE  Progress'
    <2> first' \in Int /\ (first' .. (first' - 1)) = {}
      BY <1>1 DEF CallWithCIDR, InRange, BeginIndex
    <2> QED
      BY <1>1 DEF CallWithCIDR, Progress, Current, CountExact
  <1>2. CASE OccupyStep
    <2> first .. ((i + 1) - 1) = (first .. (i - 1)) \cup {i}
      BY <1>2 DEF OccupyStep, TypeOK, Progress
    <2> i + 1 <= last + 1 /\ i + 1 >= first /\ i' = i + 1
      BY <1>2 DEF OccupyStep, TypeOK, Progress, Index
    <2> alloc' = old.alloc \cup (first .. ((i + 1) - 1))
      BY <1>2 DEF OccupyStep, Progress
    <2> QED
      BY <1>2 DEF OccupyStep, Progress, loopVars
  <1>3. CASE ReleaseStep
    <2> first .. ((i + 1) - 1) = (first .. (i - 1)) \cup {i}
      BY <1>3 DEF ReleaseStep, TypeOK, Progress, Index
    <2> i + 1 <= last + 1 /\ i + 1 >= first /\ i' = i + 1
      BY <1>3 DEF ReleaseStep, TypeOK, Progress, Index
    <2> alloc' = old.alloc \ (first .. ((i + 1) - 1))
      BY <1>3 DEF ReleaseStep, Progress
    <2> QED
      BY <1>3 DEF ReleaseStep, Progress, loopVars
  <1>4. CASE LoopReturn
    BY <1>4 DEF LoopReturn, Progress
  <1>5. ASSUME NEW T \in SUBSET Index, CallAllocate(T)
        PROVE  Progress'
    BY <1>5 DEF CallAllocate, Progress, Current, CountExact
  <1>6. CASE Evaluate \/ NextCandidate \/ CheckCandidate
    BY <1>6 DEF Evaluate, NextCandidate, CheckCandidate, Fail, Progress
  <1>7. CASE Return
    BY <1>7 DEF Return, Progress
  <1>8. CASE UNCHANGED vars
    BY <1>8 DEF vars, Progress
  <1> QED
    BY <1>1, <1>2, <1>3, <1>4, <1>5, <1>6, <1>7, <1>8 DEF Next, Step

\* Occupy and Release return with exactly the blocks of the CIDR added or
\* removed, and the counter moved by the number of blocks that changed.
THEOREM LoopsCorrect == Spec => []LoopsMeetClosedForm
<1>1. Init => Progress /\ LoopsMeetClosedForm
  BY FS_EmptySet DEF Init, Progress, LoopsMeetClosedForm, Current
<1>2. TypeOK /\ Frame /\ CountExact /\ Progress /\ LoopsMeetClosedForm /\ [Next]_vars
        => LoopsMeetClosedForm'
  <2> SUFFICES ASSUME TypeOK, Frame, CountExact, Progress, LoopsMeetClosedForm, [Next]_vars
               PROVE  LoopsMeetClosedForm'
    OBVIOUS
  <2>1. CASE LoopReturn
    <3> DEFINE B == first .. last
    <3>1. first .. (i - 1) = B
      BY <2>1 DEF LoopReturn, Progress, TypeOK, Index
    <3>2. /\ IsFiniteSet(old.alloc) /\ Cardinality(old.alloc) \in Nat
          /\ IsFiniteSet(B) /\ Cardinality(B) \in Nat
      <4>1. first \in Int /\ last \in Int /\ old.alloc \in SUBSET (0 .. Max - 1) /\ Max \in Nat
        BY MaxNat DEF TypeOK, Index
      <4> QED
        BY <4>1, IndexFinite, FS_Interval, FS_CardinalityType
    <3>3. CASE pc = "occupy"
      <4>1. alloc = old.alloc \cup B /\ old.alloc \cup B = old.alloc \cup (B \ old.alloc)
        BY <3>1, <3>3 DEF Progress
      <4>2. IsFiniteSet(B \ old.alloc) /\ Cardinality(B \ old.alloc) \in Nat
        BY <3>2, FS_Difference, FS_CardinalityType
      <4>3. old.alloc \cap (B \ old.alloc) = {}
        OBVIOUS
      <4>4. Cardinality(alloc) = Cardinality(old.alloc) + Cardinality(B \ old.alloc)
        <5>1. Cardinality(old.alloc \cup (B \ old.alloc)) =
                Cardinality(old.alloc) + Cardinality(B \ old.alloc)
                  - Cardinality(old.alloc \cap (B \ old.alloc))
          BY <3>2, <4>2, FS_Union
        <5>2. Cardinality(old.alloc \cap (B \ old.alloc)) = 0
          BY <4>3, FS_EmptySet
        <5>3. Cardinality(alloc) = Cardinality(old.alloc \cup (B \ old.alloc))
          BY <4>1
        <5> QED
          BY <3>2, <4>2, <5>1, <5>2, <5>3
      <4> QED
        <5>1. Current = OccupyIndices(old, B)
          BY <3>2, <3>3, <4>1, <4>4 DEF Progress, CountExact, Current, OccupyIndices, TypeOK
        <5>2. Current' = Current /\ OccupyIndices(old, B)' = OccupyIndices(old, B)
          BY <2>1 DEF LoopReturn, Current, OccupyIndices
        <5> QED
          BY <2>1, <3>3, <5>1, <5>2 DEF LoopReturn, Progress, LoopsMeetClosedForm
    <3>4. CASE pc = "release"
      <4>1. alloc = old.alloc \ B /\ old.alloc \cap B = B \cap old.alloc
        BY <3>1, <3>4 DEF Progress
      <4>2. Cardinality(alloc) = Cardinality(old.alloc) - Cardinality(B \cap old.alloc)
        BY <3>2, <4>1, FS_Difference
      <4> QED
        <5>1. Current = ReleaseIndices(old, B)
          BY <3>2, <3>4, <4>1, <4>2 DEF Progress, CountExact, Current, ReleaseIndices, TypeOK
        <5>2. Current' = Current /\ ReleaseIndices(old, B)' = ReleaseIndices(old, B)
          BY <2>1 DEF LoopReturn, Current, ReleaseIndices
        <5> QED
          BY <2>1, <3>4, <5>1, <5>2 DEF LoopReturn, Progress, LoopsMeetClosedForm
    <3> QED
      BY <2>1, <3>3, <3>4 DEF LoopReturn
  <2>2. CASE UNCHANGED vars
    BY <2>2 DEF vars, LoopsMeetClosedForm, Current
  <2> QED
    BY <2>1, <2>2
    DEF Next, Step, LoopsMeetClosedForm, Progress, CallWithCIDR, OccupyStep, ReleaseStep,
        CallAllocate, Evaluate, NextCandidate, CheckCandidate, Fail, Return, loopVars
<1> QED
  BY <1>1, <1>2, TypeCorrect, CountIsExact, ProgressInductive, PTL DEF Spec

-----------------------------------------------------------------------------
(* allocateCIDR, with the NextCandidate scan inside it.                    *)

\* The index k places after the nextCandidate the call began with.
At(k) == (old.next + k) % Max

\* How far allocateCIDR has come: evaluated counts the places passed over or
\* rejected since the call began, across the NextCandidate calls it makes, and
\* the last one may run past the place where the call began.
Scanned ==
    /\ alloc = old.alloc /\ count = old.count
    /\ \A k \in Index : k < evaluated => At(k) \in alloc \cup taken
    /\ pc = "evaluate" =>
          /\ evaluated <= 2 * Max
          /\ evaluated = 0 => next = old.next
          /\ evaluated > 0 => /\ count # Max
                              /\ next = At(evaluated)
                              /\ At(evaluated - 1) \notin alloc
          /\ \A k \in (Max - 1) .. (evaluated - 2) : At(k) \in alloc
    /\ pc = "scan" =>
          /\ evaluated < Max /\ i <= Max /\ count # Max
          /\ cand = At(evaluated + i)
          /\ evaluated = 0 => next = old.next
          /\ evaluated > 0 => At(evaluated - 1) \notin alloc
          /\ \A k \in evaluated .. (evaluated + i - 1) : At(k) \in alloc
    /\ pc = "offered" =>
          /\ evaluated < 2 * Max /\ count # Max
          /\ cand = At(evaluated) /\ next = At(evaluated + 1)
          /\ \A k \in (Max - 1) .. (evaluated - 1) : At(k) \in alloc

ScanInv == pc \in {"evaluate", "scan", "offered"} => Scanned

-----------------------------------------------------------------------------
\* A number is its quotient times the divisor and its remainder.
LEMMA Division ==
    ASSUME NEW m \in Nat, m > 0, NEW x \in Nat
    PROVE  /\ x \div m \in Int
           /\ x % m \in 0 .. m - 1
           /\ x = m * (x \div m) + (x % m)
  OBVIOUS

\* A positive multiple of m is at least m.
LEMMA Multiple ==
    ASSUME NEW m \in Nat, m > 0, NEW q \in Int, q > 0
    PROVE  m * q >= m
  OBVIOUS

\* The remainder is the only number below the divisor that a multiple of the
\* divisor completes.
LEMMA Remainder ==
    ASSUME NEW m \in Nat, m > 0, NEW x \in Nat,
           NEW q \in Int, NEW r \in 0 .. m - 1, x = m * q + r
    PROVE  x % m = r
<1> DEFINE p == x \div m
           s == x % m
<1>1. p \in Int /\ s \in 0 .. m - 1 /\ x = m * p + s
  BY Division
<1> HIDE DEF p, s
<1>2. m * (p - q) = r - s /\ m * (q - p) = s - r
  BY <1>1
<1>3. ~(p - q > 0)
  <2> SUFFICES ASSUME p - q > 0 PROVE FALSE
    OBVIOUS
  <2>1. m * (p - q) >= m
    BY <1>1, Multiple
  <2> QED
    BY <1>1, <1>2, <2>1
<1>4. ~(q - p > 0)
  <2> SUFFICES ASSUME q - p > 0 PROVE FALSE
    OBVIOUS
  <2>1. m * (q - p) >= m
    BY <1>1, Multiple
  <2> QED
    BY <1>1, <1>2, <2>1
<1>5. s = r
  BY <1>1, <1>2, <1>3, <1>4
<1> QED
  BY <1>5 DEF s

\* Max places further on the scan is where it was.
LEMMA WrapAround ==
    ASSUME NEW m \in Nat, m > 0, NEW x \in Nat
    PROVE  (x + m) % m = x % m
<1> DEFINE q == x \div m
           r == x % m
<1>1. q \in Int /\ r \in 0 .. m - 1 /\ x = m * q + r
  BY Division
<1> HIDE DEF q, r
<1>2. x + m = m * (q + 1) + r /\ q + 1 \in Int /\ x + m \in Nat
  BY <1>1
<1>3. (x + m) % m = r
  BY <1>1, <1>2, Remainder
<1> QED
  BY <1>3 DEF r

\* One place further on is the next index, or 0 after the last one.
LEMMA OneFurther ==
    ASSUME NEW m \in Nat, m > 0, NEW x \in Nat
    PROVE  ((x % m) + 1) % m = (x + 1) % m
<1> DEFINE q == x \div m
           r == x % m
<1>1. q \in Int /\ r \in 0 .. m - 1 /\ x = m * q + r
  BY Division
<1> HIDE DEF q, r
<1>2. CASE r + 1 < m
  <2>1. x + 1 = m * q + (r + 1) /\ r + 1 = m * 0 + (r + 1) /\ r + 1 \in 0 .. m - 1
    BY <1>1, <1>2
  <2>2. (x + 1) % m = r + 1
    BY <1>1, <2>1, Remainder
  <2>3. (r + 1) % m = r + 1
    BY <1>1, <2>1, Remainder
  <2> QED
    BY <2>2, <2>3 DEF r
<1>3. CASE r + 1 = m
  <2>1. x + 1 = m * (q + 1) + 0 /\ r + 1 = m * 1 + 0 /\ 0 \in 0 .. m - 1 /\ q + 1 \in Int
    BY <1>1, <1>3
  <2>2. (x + 1) % m = 0
    BY <2>1, Remainder
  <2>3. (r + 1) % m = 0
    BY <1>1, <2>1, Remainder
  <2> QED
    BY <2>2, <2>3 DEF r
<1> QED
  BY <1>1, <1>2, <1>3

\* Least is the least element.
LEMMA LeastIs ==
    ASSUME NEW S \in SUBSET Int, NEW x \in S, \A y \in S : x <= y
    PROVE  Least(S) = x
<1>1. \A z \in S : (\A y \in S : z <= y) => z = x
  OBVIOUS
<1> QED
  BY <1>1 DEF Least

\* The same facts about the places of a call in progress.
LEMMA Places ==
    ASSUME TypeOK, Max > 0
    PROVE  /\ Max \in Nat /\ old.next \in Index
           /\ At(0) = old.next
           /\ \A k \in Nat : /\ At(k) \in Index
                             /\ At(k + Max) = At(k)
                             /\ (At(k) + 1) % Max = At(k + 1)
<1>1. Max \in Nat /\ old.next \in 0 .. Max - 1
  BY MaxNat DEF TypeOK, Index
<1>2. old.next % Max = old.next
  <2>1. old.next = Max * 0 + old.next
    BY <1>1
  <2> QED
    BY <1>1, <2>1, Remainder
<1>3. ASSUME NEW k \in Nat
      PROVE  /\ At(k) \in Index
             /\ At(k + Max) = At(k)
             /\ (At(k) + 1) % Max = At(k + 1)
  <2> DEFINE x == old.next + k
  <2>1. x \in Nat /\ old.next + (k + Max) = x + Max /\ old.next + (k + 1) = x + 1
    BY <1>1
  <2> HIDE DEF x
  <2>2. x % Max \in 0 .. Max - 1 /\ (x + Max) % Max = x % Max
          /\ ((x % Max) + 1) % Max = (x + 1) % Max
    BY <1>1, <2>1, ModIndex, WrapAround, OneFurther
  <2> QED
    BY <2>1, <2>2 DEF x, At, Index
<1> QED
  BY <1>1, <1>2, <1>3 DEF At, Index

-----------------------------------------------------------------------------
\* A call that finds a block finds the first acceptable one.
LEMMA FoundIsFirst ==
    ASSUME TypeOK, Frame, Scanned, pc = "offered", cand \notin taken
    PROVE  /\ CanAllocate(Max, old, taken)
           /\ cand = AllocatedIndex(Max, old, taken)
<1>1. Max > 0 /\ cand \notin alloc
  BY DEF Frame
<1>2. Max \in Nat /\ evaluated \in Nat /\ evaluated < 2 * Max
  BY MaxNat DEF TypeOK, Scanned
<1>3. evaluated < Max
  <2> SUFFICES ASSUME evaluated >= Max PROVE FALSE
    BY <1>2
  <2> DEFINE k == evaluated - Max
  <2>1. k \in Nat /\ k \in Index /\ k < evaluated /\ k + Max = evaluated
    BY <1>1, <1>2 DEF Index
  <2> HIDE DEF k
  <2>2. At(k) = cand
    BY <1>1, <2>1, Places DEF Scanned
  <2> QED
    BY <1>1, <2>1, <2>2 DEF Scanned
<1> DEFINE G == GoodOffsets(Max, old, taken)
<1>4. evaluated \in G /\ G \in SUBSET Int
  BY <1>1, <1>2, <1>3 DEF GoodOffsets, FreeOffsets, At, Scanned
<1>5. \A y \in G : evaluated <= y
  <2> SUFFICES ASSUME NEW y \in G, y < evaluated PROVE FALSE
    BY <1>2, <1>4
  <2> QED
    BY DEF GoodOffsets, FreeOffsets, At, Scanned, Index
<1>6. Least(G) = evaluated
  BY <1>4, <1>5, LeastIs
<1> QED
  BY <1>4, <1>6 DEF CanAllocate, AllocatedIndex, Scanned, At

\* A call that has evaluated Max places has rejected every block, and has left
\* nextCandidate where the closed form says.
LEMMA AllEvaluated ==
    ASSUME TypeOK, Scanned, pc = "evaluate", evaluated >= Max \/ count = Max
    PROVE  /\ ~CanAllocate(Max, old, taken)
           /\ next = AllocateFailed(Max, old).next
<1>1. Max \in Nat /\ evaluated \in Nat /\ evaluated <= 2 * Max
  BY MaxNat DEF TypeOK, Scanned
<1> DEFINE F == FreeOffsets(Max, old)
<1>2. CASE count = Max
  <2>1. evaluated = 0 /\ next = old.next
    BY <1>1, <1>2 DEF Scanned
  <2> QED
    BY <1>2, <2>1 DEF CanAllocate, AllocateFailed, Scanned, TypeOK
<1>3. CASE Max = 0
  <2>1. F = {} /\ GoodOffsets(Max, old, taken) = {}
    BY <1>3 DEF FreeOffsets, GoodOffsets
  <2>2. next = old.next
    BY <1>1, <1>3 DEF Scanned
  <2> QED
    BY <2>1, <2>2 DEF CanAllocate, AllocateFailed, TypeOK
<1>4. CASE Max > 0 /\ count # Max
  <2>1. evaluated >= Max /\ evaluated > 0
    BY <1>1, <1>4
  <2>2. GoodOffsets(Max, old, taken) = {}
    BY <1>1, <2>1 DEF GoodOffsets, FreeOffsets, At, Scanned, Index
  <2>3. CASE evaluated = Max
    <3>1. Max - 1 \in F
      BY <1>1, <1>4, <2>3 DEF FreeOffsets, At, Scanned
    <3>2. next = old.next
      <4>1. At(0 + Max) = old.next
        BY <1>4, Places
      <4> QED
        BY <1>1, <2>1, <2>3, <4>1 DEF Scanned
    <3> QED
      BY <2>2, <3>1, <3>2 DEF CanAllocate, AllocateFailed, TypeOK
  <2>4. CASE evaluated > Max
    <3> DEFINE f == evaluated - 1 - Max
    <3>1. /\ f \in Nat /\ f \in Index /\ f + Max = evaluated - 1
          /\ (f + 1) + Max = evaluated /\ f + 1 \in Nat
      BY <1>1, <2>4 DEF Index
    <3> HIDE DEF f
    <3>2. At(f) \notin alloc /\ next = At(f + 1)
      BY <1>4, <2>1, <3>1, Places DEF Scanned
    <3>3. Max - 1 \notin F
      BY <1>1, <2>4 DEF FreeOffsets, At, Scanned
    <3>4. f \in F /\ F \in SUBSET Int
      BY <1>1, <3>1, <3>2 DEF FreeOffsets, At, Scanned, Index
    <3>5. \A y \in F : f <= y
      <4> SUFFICES ASSUME NEW y \in F, y < f PROVE FALSE
        BY <3>1, <3>4
      <4>1. y \in Nat /\ y + Max \in (Max - 1) .. (evaluated - 2) /\ At(y) \notin alloc
        BY <1>1, <3>1 DEF FreeOffsets, At, Scanned
      <4>2. At(y + Max) = At(y)
        BY <1>4, <4>1, Places
      <4> QED
        BY <4>1, <4>2 DEF Scanned
    <3>6. Least(F) = f
      BY <3>4, <3>5, LeastIs
    <3>7. next = (old.next + Least(F) + 1) % Max
      BY <1>1, <3>1, <3>2, <3>6 DEF At, TypeOK, Index
    <3> QED
      BY <1>4, <2>2, <3>3, <3>4, <3>7 DEF CanAllocate, AllocateFailed, Scanned, TypeOK
  <2> QED
    BY <1>1, <2>1, <2>3, <2>4
<1> QED
  BY <1>1, <1>2, <1>3, <1>4

\* NextCandidate comes back to where it began only when every block is in use.
LEMMA AllScanned ==
    ASSUME TypeOK, Frame, Scanned, pc = "scan", i >= Max
    PROVE  /\ FreeOffsets(Max, old) = {}
           /\ GoodOffsets(Max, old, taken) = {}
           /\ next = old.next
<1>1. Max \in Nat /\ Max > 0 /\ evaluated \in Nat /\ evaluated < Max /\ i = Max
  BY MaxNat DEF TypeOK, Frame, Scanned
<1>2. evaluated = 0
  <2> SUFFICES ASSUME evaluated > 0 PROVE FALSE
    BY <1>1
  <2> DEFINE k == evaluated - 1
  <2>1. k \in Nat /\ k + Max \in evaluated .. (evaluated + i - 1)
    BY <1>1
  <2>2. At(k + Max) = At(k)
    BY <1>1, <2>1, Places
  <2> QED
    BY <2>1, <2>2 DEF Scanned
<1> QED
  BY <1>1, <1>2 DEF FreeOffsets, GoodOffsets, At, Scanned

-----------------------------------------------------------------------------
\* Every iteration of allocateCIDR and of NextCandidate keeps count of exactly
\* the places it has dealt with.
LEMMA ScanInductive ==
    TypeOK /\ Frame /\ ScanInv /\ [Next]_vars => ScanInv'
<1> SUFFICES ASSUME TypeOK, Frame, ScanInv, [Next]_vars
             PROVE  ScanInv'
  OBVIOUS
<1>1. Max \in Nat /\ evaluated \in Nat /\ i \in Nat
  BY MaxNat DEF TypeOK
<1>2. ASSUME UNCHANGED <<range, old>>
      PROVE  Max' = Max /\ Index' = Index /\ \A k : At(k)' = At(k)
  BY <1>2 DEF Max, Index, At
<1>3. ASSUME NEW T \in SUBSET Index, CallAllocate(T)
      PROVE  ScanInv'
  <2>1. Max' = Max
    BY <1>3 DEF CallAllocate, Max
  <2>2. (Max - 1) .. (0 - 2) = {}
    BY <1>1
  <2>3. pc' = "evaluate" /\ evaluated' = 0 /\ alloc' = alloc /\ count' = count /\ next' = next
          /\ old' = Current
    BY <1>3 DEF CallAllocate
  <2>4. \A k \in Index' : ~(k < 0)
    BY <1>1, <2>1 DEF Index
  <2> QED
    BY <1>1, <2>1, <2>2, <2>3, <2>4 DEF ScanInv, Scanned, Current
<1>4. CASE Evaluate
  <2>1. CASE pc' = "done"
    BY <2>1 DEF ScanInv
  <2>2. CASE pc' # "done"
    <3>1. Scanned /\ Max > 0 /\ evaluated < Max /\ count # Max
      BY <1>1, <1>4, <2>2 DEF Evaluate, Fail, ScanInv
    <3>2. /\ pc = "evaluate" /\ pc' = "scan" /\ cand' = next /\ i' = 0
          /\ UNCHANGED <<range, alloc, count, next, old, evaluated, taken>>
      BY <1>4, <2>2 DEF Evaluate, Fail
    <3>3. next = At(evaluated) /\ evaluated + 0 = evaluated
      BY <1>1, <3>1, <3>2, Places DEF Scanned
    <3>4. evaluated .. (evaluated + 0 - 1) = {}
      BY <1>1
    <3> QED
      BY <1>1, <1>2, <3>1, <3>2, <3>3, <3>4 DEF ScanInv, Scanned
  <2> QED
    BY <2>1, <2>2
<1>5. CASE NextCandidate
  <2>1. CASE pc' = "done"
    BY <2>1 DEF ScanInv
  <2>2. CASE pc' = "scan"
    <3>1. /\ pc = "scan" /\ i < Max /\ cand \in alloc
          /\ cand' = (cand + 1) % Max /\ i' = i + 1
          /\ UNCHANGED <<range, alloc, count, next, old, evaluated, taken>>
      BY <1>5, <2>2 DEF NextCandidate, Fail
    <3>2. Scanned /\ Max > 0
      BY <3>1 DEF ScanInv, Frame
    <3>3. cand' = At(evaluated + (i + 1))
      <4>1. evaluated + i \in Nat /\ evaluated + (i + 1) = (evaluated + i) + 1
        BY <1>1
      <4> QED
        BY <3>1, <3>2, <4>1, Places DEF Scanned
    <3>4. \A k \in evaluated .. (evaluated + (i + 1) - 1) : At(k) \in alloc
      <4> SUFFICES ASSUME NEW k \in evaluated .. (evaluated + (i + 1) - 1)
                   PROVE  At(k) \in alloc
        OBVIOUS
      <4>1. k \in evaluated .. (evaluated + i - 1) \/ k = evaluated + i
        BY <1>1
      <4> QED
        BY <3>1, <3>2, <4>1 DEF Scanned
    <3> QED
      BY <1>1, <1>2, <2>2, <3>1, <3>2, <3>3, <3>4, SMTT(30) DEF ScanInv, Scanned
  <2>3. CASE pc' = "offered"
    <3>1. /\ pc = "scan" /\ i < Max /\ cand \notin alloc
          /\ next' = (cand + 1) % Max /\ evaluated' = evaluated + i
          /\ UNCHANGED <<range, alloc, count, old, cand, taken>>
      BY <1>5, <2>3 DEF NextCandidate, Fail
    <3>2. Scanned /\ Max > 0
      BY <3>1 DEF ScanInv, Frame
    <3> DEFINE e == evaluated + i
    <3>3. e \in Nat /\ e < 2 * Max
      BY <1>1, <3>1, <3>2 DEF Scanned
    <3>4. cand = At(e) /\ next' = At(e + 1)
      BY <3>1, <3>2, <3>3, Places DEF Scanned
    <3>5. \A k \in Int : evaluated <= k /\ k < e => At(k) \in alloc
      BY <1>1, <3>1, <3>2 DEF Scanned
    <3>6. \A k \in (Max - 1) .. (e - 1) : At(k) \in alloc
      BY <1>1, <3>1, <3>2, <3>3, <3>5 DEF Scanned
    <3>7. \A k \in Index : k < e => At(k) \in alloc \cup taken
      BY <1>1, <3>1, <3>2, <3>5 DEF Scanned, Index
    <3> HIDE DEF e
    <3>8. evaluated' = e
      BY <3>1 DEF e
    <3> QED
      BY <1>2, <2>3, <3>1, <3>2, <3>3, <3>4, <3>6, <3>7, <3>8 DEF ScanInv, Scanned
  <2> QED
    BY <1>5, <2>1, <2>2, <2>3 DEF NextCandidate, Fail
<1>6. CASE CheckCandidate
  <2>1. CASE pc' = "done"
    BY <2>1 DEF ScanInv
  <2>2. CASE pc' # "done"
    <3>1. /\ pc = "offered" /\ cand \in taken
          /\ pc' = "evaluate" /\ evaluated' = evaluated + 1
          /\ UNCHANGED <<range, alloc, count, next, old, cand, taken>>
      BY <1>6, <2>2 DEF CheckCandidate
    <3>2. Scanned /\ Max > 0 /\ cand \notin alloc
      BY <3>1 DEF ScanInv, Frame
    <3> DEFINE e == evaluated + 1
    <3>3. e \in Nat /\ e > 0 /\ e <= 2 * Max /\ e - 1 = evaluated /\ e - 2 = evaluated - 1
      BY <1>1, <3>1, <3>2 DEF Scanned
    <3>4. next' = At(e) /\ At(e - 1) \notin alloc
      BY <3>1, <3>2, <3>3 DEF Scanned
    <3>5. \A k \in (Max - 1) .. (e - 2) : At(k) \in alloc
      BY <3>1, <3>2, <3>3 DEF Scanned
    <3>6. \A k \in Index : k < e => At(k) \in alloc \cup taken
      <4> SUFFICES ASSUME NEW k \in Index, k < e PROVE At(k) \in alloc \cup taken
        OBVIOUS
      <4>1. k < evaluated \/ k = evaluated
        BY <1>1 DEF Index
      <4> QED
        BY <3>1, <3>2, <4>1 DEF Scanned
    <3> HIDE DEF e
    <3>7. evaluated' = e
      BY <3>1 DEF e
    <3> QED
      BY <1>2, <3>1, <3>2, <3>3, <3>4, <3>5, <3>6, <3>7, SMTT(30) DEF ScanInv, Scanned
  <2> QED
    BY <2>1, <2>2
<1>7. CASE UNCHANGED vars
  BY <1>2, <1>7 DEF vars, ScanInv, Scanned
<1>8. CASE pc' \in {"idle", "occupy", "release", "done"}
  BY <1>8 DEF ScanInv
<1> QED
  BY <1>3, <1>4, <1>5, <1>6, <1>7, <1>8
  DEF Next, Step, CallWithCIDR, OccupyStep, ReleaseStep, LoopReturn, Return

\* allocateCIDR returns the first acceptable block at or after nextCandidate,
\* marked and counted once, and fails only when there is none: its loop counts
\* places over several NextCandidate calls without skipping or repeating one
\* that matters, whatever blocks are in use and whatever the others rule out.
THEOREM AllocateCorrect == Spec => []AllocateMeetsClosedForm
<1>1. Init => Progress /\ ScanInv /\ AllocateMeetsClosedForm
  BY DEF Init, Progress, ScanInv, AllocateMeetsClosedForm
<1>2. TypeOK /\ Frame /\ Progress /\ ScanInv /\ AllocateMeetsClosedForm /\ [Next]_vars
        => AllocateMeetsClosedForm'
  <2> SUFFICES ASSUME TypeOK, Frame, Progress, ScanInv, AllocateMeetsClosedForm, [Next]_vars,
                      pc' = "done", op' = "allocate"
               PROVE  /\ (err = "nil" <=> CanAllocate(Max, old, taken))'
                      /\ (err = "nil" => cand = AllocatedIndex(Max, old, taken))'
                      /\ (Current = IF err = "nil" THEN Allocate(Max, old, taken)
                                                   ELSE AllocateFailed(Max, old))'
    BY DEF AllocateMeetsClosedForm
  <2>1. ASSUME UNCHANGED <<range, old, taken>>
        PROVE  /\ Max' = Max
               /\ CanAllocate(Max, old, taken)' = CanAllocate(Max, old, taken)
               /\ AllocatedIndex(Max, old, taken)' = AllocatedIndex(Max, old, taken)
               /\ Allocate(Max, old, taken)' = Allocate(Max, old, taken)
               /\ AllocateFailed(Max, old)' = AllocateFailed(Max, old)
    BY <2>1 DEF Max, CanAllocate, AllocatedIndex, Allocate, AllocateFailed, GoodOffsets,
                FreeOffsets
  <2>2. ASSUME Fail, Scanned, ~CanAllocate(Max, old, taken),
               next = AllocateFailed(Max, old).next
        PROVE  AllocateMeetsClosedForm'
    <3>1. Current = AllocateFailed(Max, old)
      BY <2>2 DEF Scanned, Current, AllocateFailed, TypeOK
    <3>2. Current' = Current /\ err' = "exhausted"
      BY <2>2 DEF Fail, Current
    <3> QED
      BY <2>1, <2>2, <3>1, <3>2 DEF Fail, AllocateMeetsClosedForm
  <2>3. CASE Evaluate
    <3>1. /\ pc = "evaluate" /\ Fail /\ Scanned
          /\ evaluated >= Max \/ count = Max
      BY <2>3 DEF Evaluate, ScanInv
    <3> QED
      BY <2>2, <3>1, AllEvaluated DEF AllocateMeetsClosedForm
  <2>4. CASE NextCandidate
    <3>1. pc = "scan" /\ Fail /\ Scanned /\ i >= Max
      BY <2>4 DEF NextCandidate, ScanInv
    <3>2. ~CanAllocate(Max, old, taken) /\ next = AllocateFailed(Max, old).next
      BY <3>1, AllScanned DEF CanAllocate, AllocateFailed, TypeOK
    <3> QED
      BY <2>2, <3>1, <3>2 DEF AllocateMeetsClosedForm
  <2>5. CASE CheckCandidate
    <3>1. /\ pc = "offered" /\ cand \notin taken /\ Scanned
          /\ alloc' = alloc \cup {cand} /\ count' = count + 1 /\ err' = "nil"
          /\ UNCHANGED <<range, next, old, cand, taken>>
      BY <2>5 DEF CheckCandidate, ScanInv
    <3>2. CanAllocate(Max, old, taken) /\ cand = AllocatedIndex(Max, old, taken)
      BY <3>1, FoundIsFirst
    <3>3. next = (cand + 1) % Max
      <4>1. Max > 0 /\ evaluated \in Nat
        BY <3>1 DEF Frame, TypeOK
      <4> QED
        BY <3>1, <4>1, Places DEF Scanned
    <3>4. Current' = Allocate(Max, old, taken)
      BY <3>1, <3>2, <3>3 DEF Current, Allocate, Scanned, Frame
    <3> QED
      BY <2>1, <3>1, <3>2, <3>4
  <2>6. CASE UNCHANGED vars
    BY <2>6 DEF vars, AllocateMeetsClosedForm, Current, Max, CanAllocate, AllocatedIndex,
                Allocate, AllocateFailed, GoodOffsets, FreeOffsets
  <2>7. CASE LoopReturn
    BY <2>7 DEF LoopReturn, Progress
  <2> QED
    BY <2>3, <2>4, <2>5, <2>6, <2>7
    DEF Next, Step, CallWithCIDR, OccupyStep, ReleaseStep, CallAllocate, Return
<1> QED
  BY <1>1, <1>2, TypeCorrect, CountIsExact, ProgressInductive, ScanInductive, PTL DEF Spec

-----------------------------------------------------------------------------
(***************************************************************************)
(* What a set is made from: specs that pass the validation.                *)
(***************************************************************************)
\* A family whose configuration passes gets at least one block, and the last block ends
\* where the family's CIDR ends.
LEMMA ConfigUsable ==
    ASSUME NEW spec, IsSpec(spec), NEW fam \in Specified(spec), ValidateCIDRConfig(spec, fam)
    PROVE  LET r == RangeFor(spec, fam) IN
           /\ MaxCIDRs(r) > 0
           /\ LastIP(Block(r, MaxCIDRs(r) - 1)) = LastIP(Field(spec, fam))
<1> DEFINE cidr == Field(spec, fam)
           bits == AddrBits[fam]
           mask == bits - spec.hostBits
           r == RangeFor(spec, fam)
           blocks == 2 ^ (mask - cidr.len)
           size == 2 ^ spec.hostBits
<1>1. fam \in Families /\ IsText(cidr) /\ cidr # Unset
  BY DEF Specified, IsSpec, Field
<1>2. IsCIDR(cidr) /\ cidr.fam = fam
  BY <1>1 DEF IsText, ValidateCIDRConfig, Parses
<1>3. bits \in Nat /\ cidr.ip \in Nat /\ cidr.len \in Nat /\ cidr.len <= bits
  BY <1>1, <1>2, AddrBitsAssumption DEF IsCIDR
<1>4. spec.hostBits \in Nat /\ spec.hostBits <= bits - cidr.len
  <2>1. spec.hostBits \in Int
    BY DEF IsSpec
  <2>2. spec.hostBits >= MinPerNodeHostBits /\ spec.hostBits <= bits - cidr.len
    BY DEF ValidateCIDRConfig
  <2> HIDE DEF bits, cidr
  <2> QED
    BY <1>3, <2>1, <2>2, MinAssumption
<1>5. mask - cidr.len \in 0 .. bits /\ spec.hostBits \in 0 .. bits
      /\ (mask - cidr.len) + spec.hostBits = bits - cidr.len
  BY <1>3, <1>4
<1>6. blocks \in Nat \ {0} /\ size \in Nat \ {0} /\ 2 ^ (bits - cidr.len) = blocks * size
  <2>1. \A m, n \in 0 .. bits : /\ 2 ^ m \in Nat \ {0}
                                /\ m + n <= bits => 2 ^ (m + n) = 2 ^ m * 2 ^ n
    BY <1>1, PowersAssumption
  <2>2. bits - cidr.len <= bits
    BY <1>3
  <2> HIDE DEF mask, bits, cidr
  <2> QED
    BY <1>5, <2>1, <2>2
<1>7. r = [cidr |-> cidr, mask |-> mask] /\ mask >= cidr.len /\ bits - mask = spec.hostBits
  <2>1. r = [cidr |-> cidr, mask |-> mask]
    BY <1>2 DEF RangeFor, NewRange
  <2>2. mask >= cidr.len /\ bits - mask = spec.hostBits
    <3> HIDE DEF bits, cidr
    <3> QED
      BY <1>3, <1>4
  <2> QED
    BY <2>1, <2>2, Zenon
<1>8. MaxCIDRs(r) = blocks /\ Span(fam, mask) = size
  BY <1>7 DEF MaxCIDRs, Span
<1>9. Block(r, blocks - 1) = [fam |-> fam, ip |-> cidr.ip + (blocks - 1) * size, len |-> mask]
  <2> HIDE DEF blocks, size, mask, cidr, r
  <2> QED
    BY <1>2, <1>7, <1>8 DEF Block
<1>10. /\ LastIP(Block(r, blocks - 1)) = cidr.ip + (blocks - 1) * size + size - 1
       /\ LastIP(cidr) = cidr.ip + blocks * size - 1
  <2>1. Span(fam, cidr.len) = blocks * size
    BY <1>6 DEF Span
  <2> HIDE DEF blocks, size, mask, cidr, r
  <2> QED
    BY <1>2, <1>8, <1>9, <2>1 DEF LastIP
<1>11. (blocks - 1) * size + size = blocks * size
  <2> HIDE DEF blocks, size
  <2> QED
    BY <1>6
<1>12. LastIP(Block(r, blocks - 1)) = LastIP(cidr)
  <2> DEFINE before == (blocks - 1) * size
             whole == blocks * size
  <2> HIDE DEF blocks, size, cidr, r
  <2>1. before \in Int /\ whole \in Int /\ before + size = whole
    BY <1>6, <1>11
  <2>2. LastIP(Block(r, blocks - 1)) = cidr.ip + before + size - 1 /\ LastIP(cidr) = cidr.ip + whole - 1
    BY <1>10
  <2> HIDE DEF before, whole
  <2> QED
    BY <1>3, <1>6, <2>1, <2>2
<1> QED
  BY <1>6, <1>8, <1>12

\* labels.NewRequirement accepts a requirement of a selector that passes exactly if its
\* values are label values and Gt and Lt have a number.
LEMMA RequirementConverts ==
    ASSUME NEW terms, ValidateNodeSelector(terms), NEW req \in Requirements(terms)
    PROVE  NewRequirement(req) <=> /\ Elements(req.values) \subseteq LabelValues
                                   /\ req.operator \in {"Gt", "Lt"} => req.values = <<"number">>
<1>1. PICK term \in Elements(terms) : req \in term.matchExpressions \cup term.matchFields
  BY DEF Requirements
<1>2. ValidateNodeSelectorRequirement(req) \/ ValidateNodeFieldSelectorRequirement(req)
  BY <1>1 DEF ValidateNodeSelector
<1>3. ASSUME NewRequirement(req), req.operator \in {"Gt", "Lt"} PROVE req.values = <<"number">>
  BY <1>3 DEF NewRequirement
<1>4. CASE ValidateNodeSelectorRequirement(req)
  BY <1>3, <1>4, Zenon DEF NewRequirement, ValidateNodeSelectorRequirement
<1>5. CASE ValidateNodeFieldSelectorRequirement(req)
  <2>1. req.operator \in {"In", "NotIn"} /\ Len(req.values) > 0 /\ req.key # "noLabelName"
    BY <1>5 DEF ValidateNodeFieldSelectorRequirement
  <2> QED
    BY <1>3, <2>1, Zenon DEF NewRequirement
<1> QED
  BY <1>2, <1>4, <1>5

\* For every address width and every limit, a spec that ValidateClusterCIDRSpec passes is
\* admitted by the API and mapped by createClusterCIDR, or refused by NewMultiCIDRSet as
\* too big, and its blocks fill its range.
THEOREM SpecsAreUsable ==
    ASSUME \A spec \in Given("spec") : IsSpec(spec)
    PROVE  ValidSpecsUsable
<1> SUFFICES ASSUME NEW spec, IsSpec(spec), ValidateClusterCIDRSpec(spec)
             PROVE  /\ Admitted(spec)
                    /\ Mappable(spec) \/ TooBig(spec)
                    /\ \A fam \in Specified(spec) :
                         LET r == RangeFor(spec, fam) IN
                         /\ MaxCIDRs(r) > 0
                         /\ LastIP(Block(r, MaxCIDRs(r) - 1)) = LastIP(Field(spec, fam))
  BY DEF ValidSpecsUsable
<1>1. Specified(spec) # {} /\ \A fam \in Specified(spec) : ValidateCIDRConfig(spec, fam)
  BY DEF ValidateClusterCIDRSpec
<1>2. Admitted(spec)
  BY <1>1 DEF Admitted, ValidateCIDRConfig
<1>3. HasKey(spec)
  BY RequirementConverts DEF HasKey, ValidateClusterCIDRSpec, IsSpec, Convertible
<1>4. Mappable(spec) \/ TooBig(spec)
  BY <1>1, <1>2, <1>3 DEF Mappable, Admitted
<1> QED
  BY <1>1, <1>2, <1>4, ConfigUsable

\* Of the selectors that ValidateNodeSelector passes, with any number of terms,
\* requirements and values, nodeSelectorAsSelector converts exactly those whose values
\* are label values, and numbers for Gt and Lt.
THEOREM SelectorsConvert == ValidSelectorsConvert
  BY RequirementConverts DEF ValidSelectorsConvert, Convertible

\* The last of the flags of a set is one of them.
LEMMA LastIsOne ==
    ASSUME NEW flags, IsFlags(flags), NEW S \in SUBSET DOMAIN flags, S # {}
    PROVE  \E k \in S : LastOf(flags, S) = flags[k]
<1> DEFINE latest == CHOOSE k \in S : \A j \in S : j <= k
<1>1. S \subseteq {1, 2}
  BY DEF IsFlags
<1>2. \E k \in S : \A j \in S : j <= k
  <2>1. CASE 2 \in S
    BY <1>1, <2>1
  <2>2. CASE 2 \notin S
    BY <1>1, <2>2
  <2> QED
    BY <2>1, <2>2
<1>3. latest \in S
  BY <1>2
<1> QED
  BY <1>3, Zenon DEF LastOf

\* createDefaultClusterCIDR finds one perNodeHostBits that fits the flags of both
\* families, for every address width, prefix and mask that leaves enough host bits.
THEOREM DefaultsAreValid ==
    ASSUME \A flags \in Given("flags") : IsFlags(flags)
    PROVE  DefaultIsValid
<1> SUFFICES ASSUME NEW flags, IsFlags(flags) PROVE ValidateClusterCIDRSpec(DefaultSpecOf(flags))
  BY DEF DefaultIsValid
<1> DEFINE spec == DefaultSpecOf(flags)
           bits == DefaultHostBits(flags)
           given == {fam \in Families : FlagsOf(flags, fam) # {}}
           flag(fam) == LastOf(flags, FlagsOf(flags, fam))
<1>1. ASSUME NEW k \in DOMAIN flags
      PROVE  /\ IsCIDR(flags[k].cidr) /\ flags[k].cidr.fam \in Families
             /\ HostBits(flags[k]) \in Nat /\ HostBits(flags[k]) >= MinPerNodeHostBits
             /\ HostBits(flags[k]) <= AddrBits[flags[k].cidr.fam] - flags[k].cidr.len
  <2>1. IsFlag(flags[k])
    BY DEF IsFlags
  <2>2. /\ IsCIDR(flags[k].cidr) /\ flags[k].cidr.fam \in Families
        /\ flags[k].cidr.len \in Nat /\ AddrBits[flags[k].cidr.fam] \in Nat
    BY <2>1, AddrBitsAssumption DEF IsFlag, IsCIDR
  <2> QED
    BY <2>1, <2>2, MinAssumption, SMTT(30) DEF IsFlag, HostBits
<1>2. ASSUME NEW fam \in given
      PROVE  /\ IsCIDR(flag(fam).cidr) /\ flag(fam).cidr.fam = fam
             /\ FlagBits(flags, fam) \in Nat /\ FlagBits(flags, fam) >= MinPerNodeHostBits
             /\ FlagBits(flags, fam) <= AddrBits[fam] - flag(fam).cidr.len
  <2>1. PICK k \in FlagsOf(flags, fam) : flag(fam) = flags[k]
    BY LastIsOne DEF FlagsOf
  <2>2. k \in DOMAIN flags /\ flags[k].cidr.fam = fam /\ FlagBits(flags, fam) = HostBits(flags[k])
    BY <2>1 DEF FlagsOf, FlagBits
  <2> QED
    BY <1>1, <2>1, <2>2
<1>3. ASSUME NEW fam \in Families, fam \notin given PROVE FlagBits(flags, fam) = -1
  BY <1>3 DEF FlagBits
<1>4. bits \in Nat /\ bits >= MinPerNodeHostBits /\ \A fam \in given : bits <= FlagBits(flags, fam)
  <2>1. CASE Len(flags) = 2
    <3> DEFINE v4Bits == FlagBits(flags, "v4")
               v6Bits == FlagBits(flags, "v6")
    <3>1. bits = IF v4Bits >= MinPerNodeHostBits /\ v4Bits <= v6Bits THEN v4Bits
                 ELSE IF v6Bits >= MinPerNodeHostBits /\ v6Bits <= AddrBits.v4 THEN v6Bits
                 ELSE MinPerNodeHostBits
      BY <2>1 DEF DefaultHostBits
    <3>2. ASSUME NEW fam \in Families
          PROVE  \/ FlagBits(flags, fam) = -1
                 \/ (FlagBits(flags, fam) \in Nat /\ FlagBits(flags, fam) >= MinPerNodeHostBits)
      <4>1. CASE fam \in given
        BY <1>2, <4>1
      <4>2. CASE fam \notin given
        BY <1>3, <4>2
      <4> QED
        BY <4>1, <4>2
    <3>3. \A fam \in given : FlagBits(flags, fam) \in Nat /\ (fam = "v4" \/ fam = "v6")
      <4>1. given \subseteq Families
        OBVIOUS
      <4> HIDE DEF given
      <4> QED
        BY <1>2, <4>1 DEF Families
    <3> HIDE DEF v4Bits, v6Bits, bits, given
    <3>4. bits \in Nat /\ bits >= MinPerNodeHostBits /\ (v4Bits # -1 => bits <= v4Bits)
          /\ (v6Bits # -1 => bits <= v6Bits)
      <4>1. /\ v4Bits = -1 \/ (v4Bits \in Nat /\ v4Bits >= MinPerNodeHostBits)
            /\ v6Bits = -1 \/ (v6Bits \in Nat /\ v6Bits >= MinPerNodeHostBits)
        BY <3>2 DEF v4Bits, v6Bits, Families
      <4> QED
        BY <3>1, <4>1, MinAssumption
    <3>5. ASSUME NEW fam \in given PROVE bits <= FlagBits(flags, fam)
      <4>1. CASE fam = "v4"
        BY <3>3, <3>4, <4>1 DEF v4Bits
      <4>2. CASE fam = "v6"
        BY <3>3, <3>4, <4>2 DEF v6Bits
      <4> QED
        BY <3>3, <4>1, <4>2
    <3> QED
      BY <3>4, <3>5
  <2>2. CASE Len(flags) # 2
    <3> DEFINE more == {k \in DOMAIN flags : HostBits(flags[k]) > MinPerNodeHostBits}
    <3>1. bits = IF more = {} THEN MinPerNodeHostBits ELSE HostBits(LastOf(flags, more))
      BY <2>2 DEF DefaultHostBits
    <3>2. DOMAIN flags = {1}
      BY <2>2 DEF IsFlags
    <3>3. bits = HostBits(flags[1])
      <4>1. CASE more = {}
        BY <1>1, <3>1, <3>2, <4>1, MinAssumption
      <4>2. CASE more # {}
        <5>1. PICK k \in more : LastOf(flags, more) = flags[k]
          BY <4>2, LastIsOne
        <5> QED
          BY <3>1, <3>2, <4>2, <5>1
      <4> QED
        BY <4>1, <4>2
    <3>4. ASSUME NEW fam \in given PROVE FlagBits(flags, fam) = HostBits(flags[1])
      <4>1. PICK k \in FlagsOf(flags, fam) : flag(fam) = flags[k]
        BY LastIsOne DEF FlagsOf
      <4> QED
        BY <3>2, <4>1 DEF FlagsOf, FlagBits
    <3> QED
      BY <1>1, <3>2, <3>3, <3>4
  <2> QED
    BY <2>1, <2>2
<1>5. Specified(spec) = given /\ \A fam \in given : Field(spec, fam) = flag(fam).cidr
  <2>1. \A fam \in given : flag(fam).cidr # Unset
    <3>1. Unset.fam \notin Families
      BY DEF Unset, Families
    <3> HIDE DEF flag
    <3> QED
      BY <1>2, <3>1, Zenon
  <2>2. \A fam \in Families : Field(spec, fam) = DefaultCIDR(flags, fam)
    BY DEF Field, DefaultSpecOf, Families
  <2>3. \A fam \in Families : Field(spec, fam) = IF fam \in given THEN flag(fam).cidr ELSE Unset
    BY <2>2 DEF DefaultCIDR
  <2> HIDE DEF spec, flag
  <2> QED
    BY <2>1, <2>3 DEF Specified
<1>6. spec.hostBits = bits /\ spec.selectors = {}
  BY DEF DefaultSpecOf
<1>7. ASSUME NEW fam \in given PROVE ValidateCIDRConfig(spec, fam)
  <2>1. flag(fam).cidr # Garbage /\ flag(fam).cidr.fam = fam
    <3>1. Garbage.fam \notin Families
      BY DEF Garbage, Families
    <3> HIDE DEF flag
    <3> QED
      BY <1>2, <3>1, Zenon
  <2>2. bits <= AddrBits[fam] - flag(fam).cidr.len
    <3>1. AddrBits[fam] \in Nat /\ flag(fam).cidr.len \in Nat
      BY <1>2, AddrBitsAssumption DEF IsCIDR
    <3> HIDE DEF bits, flag, given
    <3> QED
      BY <1>2, <1>4, <3>1
  <2> HIDE DEF spec, bits, flag
  <2> QED
    BY <1>4, <1>5, <1>6, <2>1, <2>2 DEF ValidateCIDRConfig, Parses
<1>8. given # {}
  <2>1. 1 \in DOMAIN flags
    BY DEF IsFlags
  <2>2. flags[1].cidr.fam \in Families /\ 1 \in FlagsOf(flags, flags[1].cidr.fam)
    BY <1>1, <2>1 DEF FlagsOf
  <2> QED
    BY <2>2
<1> HIDE DEF spec, given
<1>9. ValidateClusterCIDRSpec(spec)
  BY <1>5, <1>6, <1>7, <1>8 DEF ValidateClusterCIDRSpec
<1> QED
  BY <1>9 DEF spec

=============================================================================
