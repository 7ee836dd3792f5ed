------------------------ MODULE LeaderElectionProofs ------------------------
(***************************************************************************)
(* For any number of processes, nodes, blocks and attempts, whichever      *)
(* processes are paused and whichever patches stray: when nodes share a    *)
(* block, one of them was patched late or released in doubt.  HandoverInv  *)
(* is inductive, and with it OverlapExplained; each group of actions has a *)
(* lemma that it preserves them.                                           *)
(***************************************************************************)
EXTENDS LeaderElection, TLAPS

\* A process that leads and is never paused has the lease, and was the last to
\* acquire it.
Leads(p) == role[p] = "leading" /\ p \notin Paused => lease = p /\ leader = p

\* HandoverInv for one process.
Sound(p) ==
    /\ Leads(p) /\ LeaderHolds(p)
    /\ running[p] => Working(p)
    /\ request[p] # NoRequest => running[p]

\* A request names a node and a block, and counts attempts.
LEMMA RequestNames ==
    ASSUME NEW r \in Requests
    PROVE  /\ r.node \in Nodes /\ r.block \in Blocks /\ r # NoRequest
           /\ [node |-> r.node, block |-> r.block] \in Patches
           /\ r.tries \in Nat /\ r.tries < Retries
<1>1. r.node \in Nodes /\ r.block \in Blocks /\ r.tries \in 0 .. Retries - 1
  BY DEF Requests
<1> QED
  BY <1>1, NoneAssumption, RetriesAssumption DEF NoRequest, Patches

\* No process leads at first, and no node has a block.
LEMMA InitHandover == Init => HandoverInv /\ OverlapExplained
<1> SUFFICES ASSUME Init PROVE HandoverInv /\ OverlapExplained
  OBVIOUS
<1>1. TypeOK
  BY DEF Init, TypeOK
<1>2. Assigned = {}
  BY DEF Init, Assigned
<1>3. OverlapExplained
  BY <1>2 DEF OverlapExplained
<1>4. ASSUME NEW p \in Processes
      PROVE  Sound(p)
  BY NoneAssumption DEF Init, Sound, Leads, LeaderHolds, Working
<1> QED
  BY <1>1, <1>3, <1>4 DEF HandoverInv, Sound, Leads

\* The steps of the election and of main leave the nodes alone; a process that takes
\* the lease starts with an allocator that is not running, and takes it from nobody
\* who leads but a process that was paused.
LEMMA ElectionStep ==
    ASSUME HandoverInv, OverlapExplained, NEW p \in Processes,
           \/ Acquire(p) \/ Seize(p) \/ Renew(p)
           \/ GiveUp(p) \/ Exit(p) \/ Crash(p)
    PROVE  HandoverInv' /\ OverlapExplained'
<1>1. UNCHANGED <<podCIDR, loose>>
  BY DEF Acquire, Seize, Take, Renew, GiveUp, Exit, Crash, Gone, allocatorVars
<1>2. OverlapExplained' /\ Assigned' = Assigned /\ Known' = Known
  BY <1>1 DEF OverlapExplained, Assigned, Known
<1>3. TypeOK
  BY DEF HandoverInv
<1>4. \A q \in Processes : Sound(q)
  BY DEF HandoverInv, Sound, Leads
<1>5. TypeOK'
  <2>1. CASE Take(p)
    BY <2>1, <1>3 DEF Take, allocatorVars, TypeOK
  <2>2. CASE Renew(p)
    BY <2>2, <1>3 DEF Renew, allocatorVars, TypeOK
  <2>3. CASE GiveUp(p)
    BY <2>3, <1>3 DEF GiveUp, Leave, allocatorVars, TypeOK
  <2>4. CASE Gone(p)
    <3>1. orphans' \in SUBSET Patches
      BY <2>4, <1>3, RequestNames DEF Gone, Abandon, TypeOK
    <3> QED
      BY <2>4, <3>1, <1>3 DEF Gone, Leave, TypeOK
  <2> QED
    BY <2>1, <2>2, <2>3, <2>4 DEF Acquire, Seize, Exit, Crash
<1>6. ASSUME NEW q \in Processes
      PROVE  Sound(q)'
  <2> USE <1>3, <1>4
  <2>1. CASE Take(p) /\ (lease = None \/ lease \in Paused)
    <3>1. ~running[p] /\ request[p] = NoRequest
      BY <2>1 DEF Take, Sound, Working
    <3>2. q # p => ~(role[q] = "leading" /\ q \notin Paused)
      BY <2>1, NoneAssumption DEF Sound, Leads
    <3>3. role'[q] = "leading" /\ q \notin Paused => q = p
      BY <2>1, <3>2 DEF Take, TypeOK
    <3> QED
      BY <2>1, <3>1, <3>3, <1>2 DEF Take, allocatorVars, TypeOK, Sound, Leads, LeaderHolds, Working
  <2>2. CASE Renew(p)
    BY <2>2, <1>2, NoneAssumption DEF Renew, allocatorVars, TypeOK, Sound, Leads, LeaderHolds, Working
  <2>3. CASE GiveUp(p)
    BY <2>3, <1>2 DEF GiveUp, Leave, allocatorVars, TypeOK, Sound, Leads, LeaderHolds, Working
  <2>4. CASE Gone(p)
    <3>1. CASE q = p
      BY <2>4, <3>1 DEF Gone, TypeOK, Sound, Leads, LeaderHolds
    <3>2. CASE q # p
      BY <2>4, <3>2, <1>2 DEF Gone, Leave, TypeOK, Sound, Leads, LeaderHolds, Working
    <3> QED
      BY <3>1, <3>2
  <2> QED
    BY <2>1, <2>2, <2>3, <2>4 DEF Acquire, Seize, Exit, Crash
<1> QED
  BY <1>2, <1>5, <1>6 DEF HandoverInv, Sound, Leads

\* The steps that mark blocks, and change no node.
LEMMA AllocatorStep ==
    ASSUME HandoverInv, OverlapExplained, NEW p \in Processes,
           \/ ListNodes(p)
           \/ \E n \in Nodes : Occupy(p, n) \/ \E b \in Blocks : Reserve(p, n, b)
    PROVE  HandoverInv' /\ OverlapExplained'
<1>1. UNCHANGED <<podCIDR, loose, role, lease, leader, orphans>>
  BY DEF ListNodes, Reserve, Occupy
<1>2. OverlapExplained' /\ Assigned' = Assigned /\ Known' = Known /\ Known \subseteq Assigned
  BY <1>1 DEF OverlapExplained, Assigned, Known
<1>3. TypeOK
  BY DEF HandoverInv
<1>4. \A q \in Processes : Sound(q)
  BY DEF HandoverInv, Sound, Leads
<1>5. Assigned \subseteq Nodes /\ \A m \in Assigned : podCIDR[m] \in Blocks
  BY <1>3 DEF Assigned, TypeOK
<1>6. TypeOK'
  <2>1. CASE ListNodes(p)
    <3>1. {podCIDR[m] : m \in Assigned} \in SUBSET Blocks /\ Assigned \in SUBSET Nodes
      BY <1>5
    <3> QED
      BY <2>1, <3>1, <1>3 DEF ListNodes, TypeOK
  <2>2. ASSUME NEW n \in Nodes, NEW b \in Blocks, Reserve(p, n, b)
        PROVE  TypeOK'
    <3>1. [node |-> n, block |-> b, tries |-> 0] \in Requests
      BY RetriesAssumption DEF Requests
    <3> QED
      BY <2>2, <3>1, <1>3 DEF Reserve, TypeOK
  <2>3. ASSUME NEW n \in Nodes, Occupy(p, n)
        PROVE  TypeOK'
    BY <2>3, <1>3, <1>5 DEF Occupy, TypeOK
  <2> QED
    BY <2>1, <2>2, <2>3
<1>7. ASSUME NEW q \in Processes
      PROVE  Sound(q)'
  <2> USE <1>1, <1>2, <1>3, <1>4
  <2>1. CASE ListNodes(p)
    BY <2>1 DEF ListNodes, TypeOK, Sound, Leads, LeaderHolds, Working
  <2>2. ASSUME NEW n \in Nodes, NEW b \in Blocks, Reserve(p, n, b)
        PROVE  Sound(q)'
    BY <2>2 DEF Reserve, TypeOK, Sound, Leads, LeaderHolds, Working
  <2>3. ASSUME NEW n \in Nodes, Occupy(p, n)
        PROVE  Sound(q)'
    BY <2>3 DEF Occupy, TypeOK, Sound, Leads, LeaderHolds, Working
  <2> QED
    BY <2>1, <2>2, <2>3
<1> QED
  BY <1>2, <1>6, <1>7 DEF HandoverInv, Sound, Leads

\* What an attempt may do, whether it fails or not: the node is patched or not, and
\* it is a late one when another process was the last to acquire the lease.
Attempted(p) ==
    /\ request[p] # NoRequest
    /\ podCIDR' = podCIDR \/ Apply(request[p])
    /\ loose \cup Late(p, request[p].node) \subseteq loose'
    /\ UNCHANGED <<lease, role, running, leader>>

\* After an attempt, a node that has to be known was known with this block before, or
\* the last to acquire the lease gave it the block that it had reserved.
LEMMA Placed ==
    ASSUME TypeOK, NEW p \in Processes, Attempted(p), NEW m \in Known'
    PROVE  \/ m \in Known /\ podCIDR'[m] = podCIDR[m]
           \/ m = request[p].node /\ podCIDR'[m] = request[p].block /\ p = leader
<1> DEFINE r == request[p]
<1>1. r \in Requests
  BY DEF TypeOK, Attempted
<1>2. r.node \in Nodes
  BY <1>1, RequestNames
<1>3. m \in Nodes /\ podCIDR'[m] # None /\ m \notin loose' /\ m \notin loose
  BY DEF Known, Assigned, Attempted
<1>4. CASE podCIDR'[m] = podCIDR[m]
  BY <1>3, <1>4 DEF Known, Assigned
<1>5. CASE podCIDR'[m] # podCIDR[m]
  <2>1. Apply(r)
    BY <1>5 DEF Attempted
  <2>2. m = r.node /\ podCIDR'[m] = r.block
    BY <2>1, <1>2, <1>3, <1>5 DEF Apply, TypeOK
  <2>3. p = leader
    BY <2>2, <1>3, <1>5 DEF Attempted, Late
  <2> QED
    BY <2>2, <2>3
<1> QED
  BY <1>4, <1>5

\* So nodes that have to be known do not share blocks.
LEMMA AttemptOverlap ==
    ASSUME HandoverInv, OverlapExplained, NEW p \in Processes, Attempted(p)
    PROVE  OverlapExplained'
<1>1. TypeOK /\ LeaderHolds(p)
  BY DEF HandoverInv
<1>2. SUFFICES ASSUME NEW m \in Known', NEW n \in Known', m # n, podCIDR'[m] = podCIDR'[n]
               PROVE  FALSE
  <2>1. \A m, n \in Assigned' : m \notin loose' /\ n \notin loose' => m \in Known' /\ n \in Known'
    BY DEF Known
  <2> QED
    BY <2>1, <1>2 DEF OverlapExplained
<1> DEFINE Old(k) == k \in Known /\ podCIDR'[k] = podCIDR[k]
           New(k) == k = request[p].node /\ podCIDR'[k] = request[p].block /\ p = leader
<1>3. Old(m) \/ New(m)
  BY <1>1, Placed
<1>4. Old(n) \/ New(n)
  BY <1>1, Placed
<1>5. ASSUME Old(m), Old(n)
      PROVE  FALSE
  BY <1>2, <1>5 DEF OverlapExplained, Known
<1>6. ASSUME NEW k, NEW l, Old(k), New(l), k # l, podCIDR'[k] = podCIDR'[l]
      PROVE  FALSE
  BY <1>1, <1>6 DEF LeaderHolds, Attempted
<1> QED
  BY <1>2, <1>3, <1>4, <1>5, <1>6

\* The parts that do not depend on what the allocator has marked.
LEMMA AttemptOthers ==
    ASSUME HandoverInv, NEW p \in Processes, Attempted(p),
           NEW q \in Processes \ {p}, taken'[q] = taken[q], request'[q] = request[q]
    PROVE  Sound(q)'
<1>1. TypeOK /\ Sound(q)
  BY DEF HandoverInv, Sound, Leads
<1>2. ASSUME q = leader
      PROVE  \A m \in Known' : m \in Known /\ podCIDR'[m] = podCIDR[m]
  BY <1>1, <1>2, Placed
<1> QED
  BY <1>1, <1>2 DEF Attempted, Sound, Leads, LeaderHolds, Working

\* An attempt after which the block stays marked: it was acknowledged, or is tried
\* again, or the server timed out.
LEMMA AttemptKeeps ==
    ASSUME HandoverInv, NEW p \in Processes, Attempted(p), taken'[p] = taken[p],
           \/ request'[p] = NoRequest
           \/ /\ request'[p].node = request[p].node
              /\ request'[p].block = request[p].block
    PROVE  Sound(p)'
<1>1. TypeOK /\ Sound(p)
  BY DEF HandoverInv, Sound, Leads
<1>2. running[p]
  BY <1>1 DEF Sound, Attempted
<1>3. ASSUME p = leader, NEW m \in Known'
      PROVE  /\ podCIDR'[m] \in taken[p]
             /\ podCIDR'[m] = request[p].block => m = request[p].node
  <2>1. \/ m \in Known /\ podCIDR'[m] = podCIDR[m]
        \/ m = request[p].node /\ podCIDR'[m] = request[p].block
    BY <1>1, <1>3, Placed
  <2> QED
    BY <1>1, <1>2, <1>3, <2>1 DEF Attempted, Sound, LeaderHolds
<1> QED
  BY <1>1, <1>2, <1>3 DEF Attempted, Sound, Leads, LeaderHolds, Working

\* An attempt after which the block is released: if the node has it, the node is in
\* doubt from then on.
LEMMA AttemptReleases ==
    ASSUME HandoverInv, NEW p \in Processes, Attempted(p), request'[p] = NoRequest,
           taken'[p] = taken[p] \ {request[p].block},
           podCIDR'[request[p].node] = request[p].block => request[p].node \in loose'
    PROVE  Sound(p)'
<1>1. TypeOK /\ Sound(p)
  BY DEF HandoverInv, Sound, Leads
<1>2. running[p]
  BY <1>1 DEF Sound, Attempted
<1>3. ASSUME p = leader, NEW m \in Known'
      PROVE  podCIDR'[m] \in taken'[p]
  <2>1. \/ m \in Known /\ podCIDR'[m] = podCIDR[m]
        \/ m = request[p].node /\ podCIDR'[m] = request[p].block
    BY <1>1, <1>3, Placed
  <2>2. m \notin loose'
    BY DEF Known
  <2>3. podCIDR'[m] # request[p].block
    BY <1>1, <1>2, <1>3, <2>1, <2>2 DEF Attempted, Sound, LeaderHolds
  <2>4. podCIDR'[m] \in taken[p]
    BY <1>1, <1>2, <1>3, <2>1, <2>3 DEF Sound, LeaderHolds
  <2> QED
    BY <2>3, <2>4
<1> QED
  BY <1>1, <1>3 DEF Attempted, Sound, Leads, LeaderHolds, Working

\* An acknowledged patch.
LEMMA PatchStep ==
    ASSUME HandoverInv, OverlapExplained, NEW p \in Processes, Patch(p)
    PROVE  HandoverInv' /\ OverlapExplained'
<1>1. TypeOK
  BY DEF HandoverInv
<1>2. request[p] \in Requests
  BY <1>1 DEF Patch, TypeOK
<1>3. request[p].node \in Nodes /\ request[p].block \in Blocks
  BY <1>2, RequestNames
<1>4. Attempted(p)
  BY DEF Patch, Attempted
<1>5. TypeOK'
  BY <1>1, <1>3 DEF Patch, Apply, Late, TypeOK
<1>6. request'[p] = NoRequest /\ \A q \in Processes \ {p} : request'[q] = request[q]
  BY <1>1 DEF Patch, TypeOK
<1>7. \A q \in Processes : taken'[q] = taken[q]
  BY DEF Patch
<1>8. ASSUME NEW q \in Processes
      PROVE  Sound(q)'
  <2>1. CASE q = p
    BY <2>1, <1>4, <1>6, <1>7, AttemptKeeps
  <2>2. CASE q # p
    BY <2>2, <1>4, <1>6, <1>7, AttemptOthers
  <2> QED
    BY <2>1, <2>2
<1> QED
  BY <1>4, <1>5, <1>8, AttemptOverlap DEF HandoverInv, Sound, Leads

\* A patch that fails, for the first or for the last time.
LEMMA PatchFailsStep ==
    ASSUME HandoverInv, OverlapExplained, NEW p \in Processes, NEW serverTimeout \in BOOLEAN,
           PatchFails(p, serverTimeout)
    PROVE  HandoverInv' /\ OverlapExplained'
<1> DEFINE r == request[p]
<1>1. TypeOK
  BY DEF HandoverInv
<1>2. r \in Requests
  BY <1>1 DEF PatchFails, TypeOK
<1>3. /\ r.node \in Nodes /\ r.block \in Blocks
      /\ [node |-> r.node, block |-> r.block] \in Patches
      /\ r.tries \in Nat /\ r.tries < Retries
  BY <1>2, RequestNames
<1>4. Attempted(p)
  BY DEF PatchFails, Attempt, Attempted
<1>5. /\ podCIDR' \in [Nodes -> Blocks \cup {None}]
      /\ orphans' \in SUBSET Patches
  BY <1>1, <1>3 DEF PatchFails, Attempt, Apply, Abandon, TypeOK
<1>6. loose' \in SUBSET Nodes
  BY <1>1, <1>3 DEF PatchFails, Late, TypeOK
<1>7. \/ /\ r.tries + 1 < Retries
         /\ request' = [request EXCEPT ![p].tries = @ + 1]
         /\ taken' = taken
      \/ /\ request' = [request EXCEPT ![p] = NoRequest]
         /\ taken' = taken
      \/ /\ request' = [request EXCEPT ![p] = NoRequest]
         /\ taken' = [taken EXCEPT ![p] = @ \ {r.block}]
         /\ podCIDR'[r.node] = r.block => r.node \in loose'
  BY DEF PatchFails
<1>8. request' \in [Processes -> Requests \cup {NoRequest}] /\ taken' \in [Processes -> SUBSET Blocks]
  <2>1. CASE r.tries + 1 < Retries /\ request' = [request EXCEPT ![p].tries = @ + 1] /\ taken' = taken
    <3>1. [r EXCEPT !.tries = r.tries + 1] \in Requests
      BY <2>1, <1>2, <1>3, RetriesAssumption DEF Requests
    <3>2. request' = [request EXCEPT ![p] = [r EXCEPT !.tries = r.tries + 1]]
      BY <2>1
    <3> QED
      BY <2>1, <3>1, <3>2, <1>1 DEF TypeOK
  <2>2. CASE request' = [request EXCEPT ![p] = NoRequest] /\ taken' = taken
    BY <2>2, <1>1 DEF TypeOK
  <2>3. CASE request' = [request EXCEPT ![p] = NoRequest] /\ taken' = [taken EXCEPT ![p] = @ \ {r.block}]
    BY <2>3, <1>1 DEF TypeOK
  <2> QED
    BY <1>7, <2>1, <2>2, <2>3
<1>9. TypeOK'
  <2>1. UNCHANGED <<lease, role, running, seen, leader>>
    BY DEF PatchFails
  <2> QED
    BY <1>1, <1>5, <1>6, <1>8, <2>1 DEF TypeOK
<1>10. \A q \in Processes \ {p} : request'[q] = request[q] /\ taken'[q] = taken[q]
  BY <1>1, <1>7 DEF TypeOK
<1>11. Sound(p)'
  <2>1. CASE request' = [request EXCEPT ![p].tries = @ + 1] /\ taken' = taken
    <3>1. request'[p].node = r.node /\ request'[p].block = r.block
      BY <2>1, <1>1, <1>2 DEF TypeOK, Requests
    <3> QED
      BY <2>1, <3>1, <1>4, AttemptKeeps
  <2>2. CASE request' = [request EXCEPT ![p] = NoRequest] /\ taken' = taken
    <3>1. request'[p] = NoRequest
      BY <2>2, <1>1 DEF TypeOK
    <3> QED
      BY <2>2, <3>1, <1>4, AttemptKeeps
  <2>3. CASE /\ request' = [request EXCEPT ![p] = NoRequest]
             /\ taken' = [taken EXCEPT ![p] = @ \ {r.block}]
             /\ podCIDR'[r.node] = r.block => r.node \in loose'
    <3>1. request'[p] = NoRequest /\ taken'[p] = taken[p] \ {r.block}
      BY <2>3, <1>1 DEF TypeOK
    <3> QED
      BY <2>3, <3>1, <1>4, AttemptReleases
  <2> QED
    BY <1>7, <2>1, <2>2, <2>3
<1>12. ASSUME NEW q \in Processes
       PROVE  Sound(q)'
  BY <1>4, <1>10, <1>11, AttemptOthers
<1> QED
  BY <1>4, <1>9, <1>12, AttemptOverlap DEF HandoverInv, Sound, Leads

\* A patch that nobody waits for makes its node a late one.
LEMMA ArriveStep ==
    ASSUME HandoverInv, OverlapExplained, NEW r \in orphans, Arrive(r)
    PROVE  HandoverInv' /\ OverlapExplained'
<1>1. TypeOK /\ \A q \in Processes : Sound(q)
  BY DEF HandoverInv, Sound, Leads
<1>2. r.node \in Nodes /\ r.block \in Blocks
  BY <1>1 DEF TypeOK, Patches
<1>3. TypeOK'
  BY <1>1, <1>2 DEF Arrive, TypeOK
<1>4. loose \subseteq loose'
      /\ \A m \in Assigned' : m \in loose' \/ (m \in Assigned /\ podCIDR'[m] = podCIDR[m])
  BY <1>1, <1>2 DEF Arrive, Assigned, TypeOK
<1>5. \A m \in Known' : m \in Known /\ podCIDR'[m] = podCIDR[m]
  BY <1>4 DEF Known
<1>6. OverlapExplained'
  BY <1>4 DEF OverlapExplained
<1>7. ASSUME NEW q \in Processes
      PROVE  Sound(q)'
  BY <1>1, <1>5 DEF Arrive, Sound, Leads, LeaderHolds, Working
<1> QED
  BY <1>3, <1>6, <1>7 DEF HandoverInv, Sound, Leads

\* Nothing changes.
LEMMA Stuttering ==
    ASSUME HandoverInv, OverlapExplained, UNCHANGED vars
    PROVE  HandoverInv' /\ OverlapExplained'
BY DEF HandoverInv, vars, TypeOK, OverlapExplained, Assigned, Known, LeaderHolds, Working

\* Both invariants together are inductive.
LEMMA HandoverNext == HandoverInv /\ OverlapExplained /\ [Next]_vars => (HandoverInv /\ OverlapExplained)'
<1> SUFFICES ASSUME HandoverInv, OverlapExplained, [Next]_vars
             PROVE  HandoverInv' /\ OverlapExplained'
  OBVIOUS
<1>1. CASE UNCHANGED vars
  BY <1>1, Stuttering
<1>2. ASSUME NEW p \in Processes,
             \/ Acquire(p) \/ Seize(p) \/ Renew(p)
             \/ GiveUp(p) \/ Exit(p) \/ Crash(p)
      PROVE  HandoverInv' /\ OverlapExplained'
  BY <1>2, ElectionStep
<1>3. ASSUME NEW p \in Processes,
             \/ ListNodes(p)
             \/ \E n \in Nodes : Occupy(p, n) \/ \E b \in Blocks : Reserve(p, n, b)
      PROVE  HandoverInv' /\ OverlapExplained'
  BY <1>3, AllocatorStep
<1>4. ASSUME NEW p \in Processes, Patch(p)
      PROVE  HandoverInv' /\ OverlapExplained'
  BY <1>4, PatchStep
<1>5. ASSUME NEW p \in Processes, Fails(p)
      PROVE  HandoverInv' /\ OverlapExplained'
  BY <1>5, PatchFailsStep DEF Fails
<1>6. ASSUME NEW r \in orphans, Arrive(r)
      PROVE  HandoverInv' /\ OverlapExplained'
  BY <1>6, ArriveStep
<1> QED
  BY <1>1, <1>2, <1>3, <1>4, <1>5, <1>6 DEF Next

\* The invariant of the handover holds for all processes, nodes, blocks and attempts:
\* a process leads without being the last to acquire the lease only if it was
\* paused, and the last to acquire it has marked all blocks but the late ones and
\* those that updateCIDRsAllocation released in doubt.
THEOREM HandoverInvariant == Spec => []HandoverInv
BY InitHandover, HandoverNext, PTL DEF Spec

\* Nodes share a block only after a patch of a process that was not the last to
\* acquire the lease, or of one that did not wait for it, or after
\* updateCIDRsAllocation released a block whose patch had been applied.
THEOREM OverlapsExplained == Spec => []OverlapExplained
BY InitHandover, HandoverNext, PTL DEF Spec
=============================================================================
