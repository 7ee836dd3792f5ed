--------------------------- MODULE RangeAllocator ---------------------------
(***************************************************************************)
(* multiCIDRRangeAllocator: its state and its handlers, acting on the      *)
(* listers, queues and API server of KubeAPI.                              *)
(*                                                                         *)
(* The 30 + 30 workers never process one key twice at a time (the queue    *)
(* sees to it), so a worker is known by its key: nodeSnap[n] and ccSnap[c] *)
(* hold the object it read from the lister before it waits for r.lock.     *)
(* lock is the frame of the handler that holds r.lock: loops over          *)
(* ClusterCIDRs and over patch attempts advance one iteration per step.    *)
(***************************************************************************)
EXTENDS ClusterCIDRs, KubeAPI

CONSTANTS
    CidrUpdateRetries,  \* cidrUpdateRetries, 3 in the program
    ServiceCIDRs,       \* ServiceCIDR and SecondaryServiceCIDR
    DefaultCC           \* defaultClusterCIDRName

ASSUME RetriesAssumption == CidrUpdateRetries \in Nat \ {0}

\* The parsed specs: an IPv4 range is a net.IPNet with an IPv4 address, and
\* perNodeHostBits is at least 4 (types.go) and never negative.
ASSUME CCSpecAssumption ==
    \A c \in CCNames :
        /\ CCSpec[c].hostBits \in Nat
        /\ \A f \in FamiliesOf(c) :
             f \in Families /\ CCSpec[c].cidrs[f] \in [fam : {f}, ip : Nat, len : 0 .. AddrBits[f]]

\* Other controllers' podCIDRs are lists of CIDRs as well, and these and the
\* service ranges are what ParseCIDR returns.
ASSUME ForeignAssumption ==
    \A s \in ForeignCIDRs : /\ s \in Seq([fam : Families, ip : Nat, len : Nat])
                            /\ \A k \in DOMAIN s : IsCIDR(s[k])

ASSUME ServiceAssumption == \A v \in ServiceCIDRs : IsCIDR(v)

VARIABLES
    cidrMap,    \* the ClusterCIDRs mapped, in the order they were added
    ccs,        \* the internal ClusterCIDR of each mapped name
    nodeSnap,   \* the Node each node worker (or the bootstrap) works on
    ccSnap,     \* the ClusterCIDR each cidr worker (or the bootstrap) works on
    lock        \* the handler that holds r.lock

allocVars == <<cidrMap, ccs, nodeSnap, ccSnap, lock>>

vars == <<kubeVars, allocVars>>

Free == [op |-> "free", node |-> None, todo |-> <<>>, cc |-> None,
         cidrs |-> <<>>, tries |-> 0]

Unlocked == lock = Free

Outcomes == {"done", "error", "panic"}

Mapped == Elements(cidrMap)

Terminating == {c \in Mapped : ccs[c].terminating}

-----------------------------------------------------------------------------
(***************************************************************************)
(* Occupying and releasing a list of CIDRs in one ClusterCIDR.             *)
(***************************************************************************)
Accepts(c, cidr) == cidr.fam \in FamiliesOf(c) /\ InRange(RangeOf(c, cidr.fam), cidr)

\* How many CIDRs the loop over the list gets through before Occupy or
\* Release fails.
Accepted(c, cidrs) ==
    LET refused == {k \in DOMAIN cidrs : ~Accepts(c, cidrs[k])} IN
    IF refused = {} THEN Len(cidrs) ELSE Least(refused) - 1

AcceptsAll(c, cidrs) == Accepted(c, cidrs) = Len(cidrs)

\* associatedCIDRSet returned a nil *MultiCIDRSet, and a method is called on
\* it: getBeginningAndEndIndices dereferences the nil receiver.
NilSet(c, cidrs) ==
    ~AcceptsAll(c, cidrs) /\ cidrs[Accepted(c, cidrs) + 1].fam \notin FamiliesOf(c)

IndicesOf(c, f, cidrs, k) ==
    UNION {Indices(RangeOf(c, f), cidrs[j]) : j \in {j \in 1 .. k : cidrs[j].fam = f}}

OccupyFirst(c, cidrs, k) ==
    [f \in FamiliesOf(c) |-> OccupyIndices(ccs[c].sets[f], IndicesOf(c, f, cidrs, k))]

ReleaseFirst(c, cidrs, k) ==
    [f \in FamiliesOf(c) |-> ReleaseIndices(ccs[c].sets[f], IndicesOf(c, f, cidrs, k))]

-----------------------------------------------------------------------------
(***************************************************************************)
(* Node workers.                                                           *)
(***************************************************************************)
\* processNextNodeWorkItem takes a key, and syncNode reads the lister.
SyncNode(n) ==
    /\ Watching
    /\ n \in nodeQueue /\ nodeSnap[n] = None
    /\ nodeQueue' = nodeQueue \ {n}
    /\ nodeSnap' = [nodeSnap EXCEPT ![n] = nodeCache[n]]
    /\ UNCHANGED <<apiNode, apiCC, nodeCache, ccCache, tomb, cidrQueue, phase, scene,
                   cidrMap, ccs, ccSnap, lock>>

\* Mutant of FinishNode: a key that failed is not put back.
FinishNodeForgets(n, failed) ==
    /\ lock' = Free
    /\ nodeSnap' = [nodeSnap EXCEPT ![n] = None]
    /\ UNCHANGED nodeQueue

\* The handler returns and releases r.lock.  An error puts the key back; the
\* constructor only logs it.
FinishNode(n, failed) ==
    /\ lock' = Free
    /\ nodeSnap' = [nodeSnap EXCEPT ![n] = None]
    /\ nodeQueue' = IF failed /\ Watching THEN nodeQueue \cup {n} ELSE nodeQueue

\* allocatedClusterCIDR: the first matching ClusterCIDR the node is in.
AllocatedClusterCIDR(n, list) ==
    LET hits == {k \in DOMAIN list : n \in ccs[list[k]].assoc} IN
    IF hits = {} THEN None ELSE list[Least(hits)]

\* ReleaseCIDR: its effect on the ClusterCIDRs, and its outcome.
ReleaseCIDR(n, node, outcome) ==
    \/ /\ node.cidrs = <<>>
       /\ outcome = "done"
       /\ UNCHANGED ccs
    \/ /\ node.cidrs # <<>>
       /\ \E list \in OrderedMatching(cidrMap, node.labels, FALSE, Terminating) :
            LET c == AllocatedClusterCIDR(n, list) IN
            \/ /\ c = None
               /\ outcome = "error"
               /\ UNCHANGED ccs
            \/ /\ c # None
               /\ outcome = IF AcceptsAll(c, node.cidrs) THEN "done"
                            ELSE IF NilSet(c, node.cidrs) THEN "panic" ELSE "error"
               /\ ccs' = [ccs EXCEPT
                    ![c].sets = ReleaseFirst(c, node.cidrs, Accepted(c, node.cidrs)),
                    ![c].assoc = IF outcome = "done" THEN @ \ {n} ELSE @]

\* A nil dereference ends the process.
PhaseAfter(outcome) == IF outcome = "panic" THEN "panicked" ELSE phase

\* syncNode on a node with a deletion timestamp.
ReleaseDeletingNode(n) ==
    /\ Watching /\ Unlocked
    /\ nodeSnap[n] # None
    /\ nodeSnap[n].deleting
    /\ \E outcome \in Outcomes :
         /\ ReleaseCIDR(n, nodeSnap[n], outcome)
         /\ FinishNode(n, outcome = "error")
         /\ phase' = PhaseAfter(outcome)
    /\ UNCHANGED <<apiNode, apiCC, nodeCache, ccCache, tomb, cidrQueue, scene, cidrMap, ccSnap>>

\* handleNodeDelete, called by the informer with the last state of the node,
\* and the add handler of a node that is there again.
HandleNodeDelete(n) ==
    /\ Watching /\ Unlocked
    /\ tomb[n] # None
    /\ tomb[n].stage = "handler"
    /\ \E outcome \in Outcomes :
         /\ ReleaseCIDR(n, tomb[n].node, outcome)
         /\ phase' = PhaseAfter(outcome)
    /\ tomb' = [tomb EXCEPT ![n] = None]
    /\ nodeQueue' = IF nodeCache[n] # None THEN nodeQueue \cup {n} ELSE nodeQueue
    /\ UNCHANGED <<apiNode, apiCC, nodeCache, ccCache, cidrQueue, scene,
                   cidrMap, nodeSnap, ccSnap, lock>>

\* AllocateOrOccupyCIDR, and the constructor's loop over the listed nodes, up
\* to the loop over the matching ClusterCIDRs.
AllocateOrOccupyCIDR(n) ==
    /\ Unlocked
    /\ nodeSnap[n] # None
    /\ \/ Watching /\ ~nodeSnap[n].deleting
       \/ phase = "occupying" /\ nodeSnap[n].cidrs # <<>>
    /\ \E list \in OrderedMatching(cidrMap, nodeSnap[n].labels, TRUE, Terminating) :
         \/ /\ list = <<>>
            /\ FinishNode(n, TRUE)
         \/ /\ list # <<>>
            /\ lock' = [Free EXCEPT !.op = IF nodeSnap[n].cidrs # <<>> THEN "occupy"
                                                                       ELSE "allocate",
                                    !.node = n, !.todo = list]
            /\ UNCHANGED <<nodeSnap, nodeQueue>>
    /\ UNCHANGED <<apiNode, apiCC, nodeCache, ccCache, tomb, cidrQueue, phase, scene,
                   cidrMap, ccs, ccSnap>>

\* The loop over ClusterCIDRs goes on, or ends with an error.
NextClusterCIDR ==
    \/ /\ Len(lock.todo) > 1
       /\ lock' = [lock EXCEPT !.todo = Tail(@)]
       /\ UNCHANGED <<nodeSnap, nodeQueue>>
    \/ /\ Len(lock.todo) = 1
       /\ FinishNode(lock.node, TRUE)

\* Mutant of OccupyCIDRs: the node is not added to AssociatedNodes.
OccupyCIDRsUnassociated ==
    /\ lock.op = "occupy"
    /\ LET n == lock.node
           c == Head(lock.todo)
           cidrs == nodeSnap[n].cidrs
       IN  /\ ccs' = [ccs EXCEPT ![c].sets = OccupyFirst(c, cidrs, Accepted(c, cidrs))]
           /\ IF AcceptsAll(c, cidrs) THEN FinishNode(n, FALSE) ELSE NextClusterCIDR
    /\ UNCHANGED <<apiNode, apiCC, nodeCache, ccCache, tomb, cidrQueue, phase, scene, cidrMap, ccSnap>>

\* occupyCIDRs on one ClusterCIDR.  What was occupied before a refusal stays.
OccupyCIDRs ==
    /\ lock.op = "occupy"
    /\ LET n == lock.node
           c == Head(lock.todo)
           cidrs == nodeSnap[n].cidrs
       IN  /\ ccs' = [ccs EXCEPT
                ![c].sets = OccupyFirst(c, cidrs, Accepted(c, cidrs)),
                ![c].assoc = IF AcceptsAll(c, cidrs) THEN @ \cup {n} ELSE @]
           /\ phase' = IF NilSet(c, cidrs) THEN "panicked" ELSE phase
           /\ IF AcceptsAll(c, cidrs) THEN FinishNode(n, FALSE) ELSE NextClusterCIDR
    /\ UNCHANGED <<apiNode, apiCC, nodeCache, ccCache, tomb, cidrQueue, scene, cidrMap, ccSnap>>

-----------------------------------------------------------------------------
(***************************************************************************)
(* Allocation.                                                             *)
(***************************************************************************)
\* Mutant of TakenIndices: the other ClusterCIDRs are not looked at.
TakenIndicesOwn(c, f) == ccs[c].sets[f].alloc

\* cidrInAllocatedList and cidrOverlapWithAllocatedList, over all mapped
\* ClusterCIDRs, the terminating ones and c itself included.
TakenIndices(c, f) ==
    {k \in 0 .. MaxCIDRs(RangeOf(c, f)) - 1 :
        \E d \in Mapped :
            /\ f \in FamiliesOf(d)
            /\ LET r == RangeOf(d, f)
                   s == ccs[d].sets[f]
                   block == Block(RangeOf(c, f), k)
               IN  CIDRAllocated(r, s, block) \/ CIDROverlaps(r, s, block)}

CanAllocateCIDR(c, f) ==
    CanAllocate(MaxCIDRs(RangeOf(c, f)), ccs[c].sets[f], TakenIndices(c, f))

\* allocateCIDR on one family of c.
AllocateCIDR(c, f) ==
    LET max == MaxCIDRs(RangeOf(c, f)) IN
    IF CanAllocateCIDR(c, f) THEN Allocate(max, ccs[c].sets[f], TakenIndices(c, f))
                             ELSE AllocateFailed(max, ccs[c].sets[f])

Candidate(c, f) ==
    Block(RangeOf(c, f),
          AllocatedIndex(MaxCIDRs(RangeOf(c, f)), ccs[c].sets[f], TakenIndices(c, f)))

InFamilyOrder(F) ==
    CHOOSE s \in {<<>>, <<"v4">>, <<"v6">>, <<"v4", "v6">>} : Elements(s) = F

\* Mutant of PrioritizedCIDRs: without an IPv6 block the IPv4 block will do.
PrioritizedCIDRsPartial ==
    /\ lock.op = "allocate"
    /\ LET c == Head(lock.todo)
           got == {f \in FamiliesOf(c) : CanAllocateCIDR(c, f)}
           order == InFamilyOrder(got)
       IN  /\ ccs' = [ccs EXCEPT ![c].sets = [f \in FamiliesOf(c) |-> AllocateCIDR(c, f)]]
           /\ IF got # {}
                THEN /\ lock' = [lock EXCEPT !.op = "update", !.cc = c, !.todo = <<>>,
                                   !.cidrs = [k \in DOMAIN order |-> Candidate(c, order[k])]]
                     /\ UNCHANGED <<nodeSnap, nodeQueue>>
                ELSE NextClusterCIDR
    /\ UNCHANGED <<apiNode, apiCC, nodeCache, ccCache, tomb, cidrQueue, phase, scene,
                   cidrMap, ccSnap>>

\* prioritizedCIDRs on one ClusterCIDR: IPv4, then IPv6.  An IPv4 block stays
\* marked when there is no IPv6 block to go with it.
PrioritizedCIDRs ==
    /\ lock.op = "allocate"
    /\ LET c == Head(lock.todo)
           tried == IF "v4" \in FamiliesOf(c) /\ ~CanAllocateCIDR(c, "v4")
                      THEN {"v4"} ELSE FamiliesOf(c)
           order == InFamilyOrder(FamiliesOf(c))
       IN  /\ ccs' = [ccs EXCEPT ![c].sets =
                        [f \in FamiliesOf(c) |-> IF f \in tried THEN AllocateCIDR(c, f)
                                                                ELSE @[f]]]
           /\ IF \A f \in FamiliesOf(c) : CanAllocateCIDR(c, f)
                THEN /\ lock' = [lock EXCEPT !.op = "update", !.cc = c, !.todo = <<>>,
                                   !.cidrs = [k \in DOMAIN order |-> Candidate(c, order[k])]]
                     /\ UNCHANGED <<nodeSnap, nodeQueue>>
                ELSE NextClusterCIDR
    /\ UNCHANGED <<apiNode, apiCC, nodeCache, ccCache, tomb, cidrQueue, phase, scene,
                   cidrMap, ccSnap>>

ReleaseReserved ==
    ccs' = [ccs EXCEPT ![lock.cc].sets =
                ReleaseFirst(lock.cc, lock.cidrs, Len(lock.cidrs))]

\* updateCIDRsAllocation up to the patch: what the lister says of the node now.
UpdateCIDRsAllocation ==
    /\ lock.op = "update"
    /\ LET n == lock.node IN
       \/ /\ nodeCache[n] = None        \* NotFound: returned as an error
          /\ FinishNode(n, TRUE)
          /\ UNCHANGED ccs
       \/ /\ nodeCache[n] # None
          /\ nodeCache[n].cidrs = lock.cidrs
          /\ FinishNode(n, FALSE)
          /\ UNCHANGED ccs
       \/ /\ nodeCache[n] # None
          /\ nodeCache[n].cidrs \notin {<<>>, lock.cidrs}
          /\ ReleaseReserved
          /\ FinishNode(n, FALSE)
       \/ /\ nodeCache[n] # None
          /\ nodeCache[n].cidrs = <<>>
          /\ lock' = [lock EXCEPT !.op = "patch"]
          /\ UNCHANGED <<ccs, nodeSnap, nodeQueue>>
    /\ UNCHANGED <<apiNode, apiCC, nodeCache, ccCache, tomb, cidrQueue, phase, scene,
                   cidrMap, ccSnap>>

\* The API server accepts podCIDRs for a node that has none.
Patchable(n, cidrs) == apiNode[n] # None /\ apiNode[n].cidrs \in {<<>>, cidrs}

PatchNode == apiNode' = [apiNode EXCEPT ![lock.node].cidrs = lock.cidrs]

\* One PatchNodeCIDRs call that returns no error.
PatchNodeCIDRs ==
    /\ lock.op = "patch"
    /\ Patchable(lock.node, lock.cidrs)
    /\ PatchNode
    /\ ccs' = [ccs EXCEPT ![lock.cc].assoc = @ \cup {lock.node}]
    /\ FinishNode(lock.node, FALSE)
    /\ UNCHANGED <<apiCC, nodeCache, ccCache, tomb, cidrQueue, phase, scene, cidrMap, ccSnap>>

\* One that returns an error, whatever became of the request.
PatchError(err) ==
    \/ /\ err = "refused"
       /\ ~Patchable(lock.node, lock.cidrs) \/ "apiError" \in Env
       /\ UNCHANGED apiNode
    \/ /\ err \in {"serverTimeout", "connectionLost"} \cap Env
       /\ \/ UNCHANGED apiNode
          \/ Patchable(lock.node, lock.cidrs) /\ PatchNode

\* Mutants of PatchNodeCIDRsFails: the last error decides nothing, and the
\* reserved CIDRs are always or never released.
GiveUp(err, release) ==
    /\ lock.op = "patch"
    /\ PatchError(err)
    /\ IF release THEN ReleaseReserved ELSE UNCHANGED ccs
    /\ FinishNode(lock.node, TRUE)
    /\ UNCHANGED <<apiCC, nodeCache, ccCache, tomb, cidrQueue, phase, scene, cidrMap, ccSnap>>

PatchNodeCIDRsFailsReleasing(err) == GiveUp(err, TRUE)

PatchNodeCIDRsFailsKeeping(err) == GiveUp(err, FALSE)

\* After the last attempt the reserved CIDRs are released, unless the last
\* error was a server timeout.
PatchNodeCIDRsFails(err) ==
    /\ lock.op = "patch"
    /\ PatchError(err)
    /\ \/ /\ lock.tries + 1 < CidrUpdateRetries
          /\ lock' = [lock EXCEPT !.tries = @ + 1]
          /\ UNCHANGED <<ccs, nodeSnap, nodeQueue>>
       \/ /\ lock.tries + 1 >= CidrUpdateRetries
          /\ IF err = "serverTimeout" THEN UNCHANGED ccs ELSE ReleaseReserved
          /\ FinishNode(lock.node, TRUE)
    /\ UNCHANGED <<apiCC, nodeCache, ccCache, tomb, cidrQueue, phase, scene, cidrMap, ccSnap>>

-----------------------------------------------------------------------------
(***************************************************************************)
(* ClusterCIDR workers.                                                    *)
(***************************************************************************)
\* processNextCIDRWorkItem takes a key, and syncClusterCIDR reads the lister.
SyncClusterCIDR(c) ==
    /\ Watching
    /\ c \in cidrQueue /\ ccSnap[c] = None
    /\ cidrQueue' = cidrQueue \ {c}
    /\ ccSnap' = [ccSnap EXCEPT ![c] = ccCache[c]]
    /\ UNCHANGED <<apiNode, apiCC, nodeCache, ccCache, tomb, nodeQueue, phase, scene,
                   cidrMap, ccs, nodeSnap, lock>>

FinishCC(c, failed) ==
    /\ ccSnap' = [ccSnap EXCEPT ![c] = None]
    /\ cidrQueue' = IF failed /\ Watching THEN cidrQueue \cup {c} ELSE cidrQueue

\* The default ClusterCIDR as createDefaultClusterCIDR writes it: an object
\* without a resource version.
Draft == [fin |-> FALSE, deleting |-> FALSE, unsaved |-> TRUE]

\* What the API server must have to accept a write: no object for the Create of
\* a draft, the object with the snapshot's resource version for an Update.
Expected(c) == IF ccSnap[c] = Draft THEN None ELSE ccSnap[c]

\* networkClient.Create or Update: object is what the server stores if it
\* accepts, failed whether the call returns an error.
WriteCC(c, object, failed) ==
    \/ /\ ~failed
       /\ apiCC[c] = Expected(c)
       /\ apiCC' = [apiCC EXCEPT ![c] = object]
    \/ /\ failed
       /\ apiCC[c] # Expected(c) \/ "apiError" \in Env
       /\ UNCHANGED apiCC
    \/ /\ failed
       /\ "connectionLost" \in Env /\ apiCC[c] = Expected(c)
       /\ apiCC' = [apiCC EXCEPT ![c] = object]

\* needToAddFinalizer: not on an object that is being deleted.
WithFinalizer(cc) == [fin |-> cc.fin \/ ~cc.deleting, deleting |-> cc.deleting]

\* createClusterCIDRSet.
NewClusterCIDR(c, terminating) ==
    [assoc |-> {}, terminating |-> terminating,
     sets |-> [f \in FamiliesOf(c) |-> NewSet]]

\* Mutant of MapClusterCIDRSet: a second entry under the same name.
MapClusterCIDRSetAppends(c, terminating) ==
    /\ Len(cidrMap) < 4
    /\ cidrMap' = Append(cidrMap, c)
    /\ ccs' = [ccs EXCEPT ![c] = NewClusterCIDR(c, terminating)]

\* mapClusterCIDRSet: a name that is mapped keeps the ClusterCIDR it has.
MapClusterCIDRSet(c, terminating) ==
    IF c \in Mapped
      THEN UNCHANGED <<cidrMap, ccs>>
      ELSE /\ cidrMap' = Append(cidrMap, c)
           /\ ccs' = [ccs EXCEPT ![c] = NewClusterCIDR(c, terminating)]

\* createClusterCIDR: map it, then write the object with the finalizer.
CreateClusterCIDR(c, terminating, failed) ==
    \/ /\ ~ValidSpec(c)
       /\ failed
       /\ UNCHANGED <<cidrMap, ccs, apiCC>>
    \/ /\ ValidSpec(c)
       /\ MapClusterCIDRSet(c, terminating)
       /\ WriteCC(c, WithFinalizer(ccSnap[c]), failed)

ReconcileCreate(c) ==
    /\ Watching /\ Unlocked
    /\ ccSnap[c] # None
    /\ ~ccSnap[c].deleting
    /\ \E failed \in BOOLEAN : CreateClusterCIDR(c, FALSE, failed) /\ FinishCC(c, failed)
    /\ UNCHANGED <<apiNode, nodeCache, ccCache, tomb, nodeQueue, phase, scene, nodeSnap, lock>>

\* The list of ClusterCIDRs without the one named c.
Unmap(c) ==
    \E p \in DOMAIN cidrMap :
        /\ cidrMap[p] = c
        /\ cidrMap' = SubSeq(cidrMap, 1, p - 1) \o SubSeq(cidrMap, p + 1, Len(cidrMap))

\* Mutant of DeleteClusterCIDR: AssociatedNodes is not looked at.
DeleteClusterCIDRInUse(c, refused) ==
    /\ ~refused
    /\ IF c \in Mapped THEN Unmap(c) ELSE UNCHANGED cidrMap
    /\ ccs' = [ccs EXCEPT ![c] = None]

\* deleteClusterCIDR: refused while nodes are associated, after marking the
\* ClusterCIDR as terminating.
DeleteClusterCIDR(c, refused) ==
    \/ /\ c \notin Mapped
       /\ ~refused
       /\ UNCHANGED <<cidrMap, ccs>>
    \/ /\ c \in Mapped
       /\ ccs[c].assoc # {}
       /\ refused
       /\ ccs' = [ccs EXCEPT ![c].terminating = TRUE]
       /\ UNCHANGED cidrMap
    \/ /\ c \in Mapped
       /\ ccs[c].assoc = {}
       /\ ~refused
       /\ Unmap(c)
       /\ ccs' = [ccs EXCEPT ![c] = None]

\* reconcileDelete: unmap it, then take the finalizer off, which lets the API
\* server remove the object.
ReconcileDelete(c) ==
    /\ Watching /\ Unlocked
    /\ ccSnap[c] # None
    /\ ccSnap[c].deleting
    /\ \/ /\ ~ccSnap[c].fin
          /\ FinishCC(c, FALSE)
          /\ UNCHANGED <<cidrMap, ccs, apiCC>>
       \/ /\ ccSnap[c].fin
          /\ DeleteClusterCIDR(c, TRUE)
          /\ FinishCC(c, TRUE)
          /\ UNCHANGED apiCC
       \/ /\ ccSnap[c].fin
          /\ DeleteClusterCIDR(c, FALSE)
          /\ \E failed \in BOOLEAN : WriteCC(c, None, failed) /\ FinishCC(c, failed)
    /\ UNCHANGED <<apiNode, nodeCache, ccCache, tomb, nodeQueue, phase, scene, nodeSnap, lock>>

-----------------------------------------------------------------------------
(***************************************************************************)
(* Start of the process: runControllers lists the nodes, then              *)
(* NewMultiCIDRRangeAllocator lists and maps the ClusterCIDRs and occupies *)
(* the listed nodes' CIDRs; the informers start last.                      *)
(***************************************************************************)
ListNodes ==
    /\ phase = "down"
    /\ phase' = "listed"
    /\ nodeSnap' = apiNode
    /\ UNCHANGED <<apiNode, apiCC, nodeCache, ccCache, tomb, nodeQueue, cidrQueue, scene,
                   cidrMap, ccs, ccSnap, lock>>

\* listClusterCIDRs, and createDefaultClusterCIDR, which adds the default
\* ClusterCIDR to the list when the process has a cluster CIDR of its own.
ListClusterCIDRs ==
    /\ phase = "listed"
    /\ phase' = "mapping"
    /\ ccSnap' = IF "defaultCC" \in Env /\ apiCC[DefaultCC] = None
                   THEN [apiCC EXCEPT ![DefaultCC] = Draft] ELSE apiCC
    /\ UNCHANGED <<apiNode, apiCC, nodeCache, ccCache, tomb, nodeQueue, cidrQueue, scene,
                   cidrMap, ccs, nodeSnap, lock>>

\* An object whose generation is not 1 is mapped as terminating.
ReconcileBootstrap(c) ==
    /\ phase = "mapping"
    /\ ccSnap[c] # None
    /\ \E failed \in BOOLEAN :
         CreateClusterCIDR(c, Generation(ccSnap[c]) > 1, failed) /\ FinishCC(c, failed)
    /\ UNCHANGED <<apiNode, nodeCache, ccCache, tomb, nodeQueue, phase, scene, nodeSnap, lock>>

Services == IF "serviceRange" \in Env THEN ServiceCIDRs ELSE {}

\* Mutant of OccupyServiceCIDRs: only service ranges that contain the ClusterCIDR.
OccupyServiceCIDRsAround(c, f) ==
    OccupyIndices(ccs[c].sets[f],
        UNION {Indices(RangeOf(c, f), s) : s \in
            {s \in Services : s.fam = f /\ InRange(RangeOf(c, f), s)
                                /\ s.len <= RangeOf(c, f).cidr.len}})

\* occupyServiceCIDR for every service range: one that does not intersect with
\* the ClusterCIDR, or that Occupy refuses, changes nothing.
OccupyServiceCIDRs(c, f) ==
    OccupyIndices(ccs[c].sets[f],
        UNION {Indices(RangeOf(c, f), s) : s \in
            {s \in Services : s.fam = f /\ InRange(RangeOf(c, f), s)}})

\* filterOutServiceRange over all of cidrMap.  occupyServiceCIDR dereferences
\* the nil set of a ClusterCIDR without the service range's family.
FilterOutServiceRange ==
    /\ ccs' = [c \in CCNames |->
                 IF c \in Mapped
                   THEN [ccs[c] EXCEPT !.sets = [f \in FamiliesOf(c) |-> OccupyServiceCIDRs(c, f)]]
                   ELSE ccs[c]]
    /\ phase' = IF \E c \in Mapped, s \in Services : s.fam \notin FamiliesOf(c)
                   THEN "panicked" ELSE "occupying"

\* Mutant of OccupyListedNodes: the node list is not used.
OccupyListedNodesNot ==
    /\ phase = "mapping" /\ \A c \in CCNames : ccSnap[c] = None
    /\ FilterOutServiceRange
    /\ nodeSnap' = [n \in Nodes |-> None]
    /\ UNCHANGED <<apiNode, apiCC, nodeCache, ccCache, tomb, nodeQueue, cidrQueue, scene,
                   cidrMap, ccSnap, lock>>

\* The constructor marks the service ranges.  Its loop over the node list then
\* skips nodes without CIDRs and runs occupyCIDRs (above) for the others.
OccupyListedNodes ==
    /\ phase = "mapping" /\ \A c \in CCNames : ccSnap[c] = None
    /\ FilterOutServiceRange
    /\ nodeSnap' = [n \in Nodes |-> IF nodeSnap[n] # None /\ nodeSnap[n].cidrs = <<>>
                                      THEN None ELSE nodeSnap[n]]
    /\ UNCHANGED <<apiNode, apiCC, nodeCache, ccCache, tomb, nodeQueue, cidrQueue, scene,
                   cidrMap, ccSnap, lock>>

\* The informers list and fill their stores, and Run starts the workers: every
\* object is a new one to the handlers.
Run ==
    /\ phase = "occupying" /\ Unlocked /\ \A n \in Nodes : nodeSnap[n] = None
    /\ phase' = "running"
    /\ nodeCache' = apiNode /\ ccCache' = apiCC
    /\ nodeQueue' = {n \in Nodes : apiNode[n] # None}
    /\ cidrQueue' = {c \in CCNames : apiCC[c] # None}
    /\ UNCHANGED <<apiNode, apiCC, tomb, scene, cidrMap, ccs, nodeSnap, ccSnap, lock>>

\* The process is gone, and with it everything it kept.
Stop ==
    /\ phase' = "down"
    /\ nodeCache' = [n \in Nodes |-> None] /\ ccCache' = [c \in CCNames |-> None]
    /\ tomb' = [n \in Nodes |-> None]
    /\ nodeQueue' = {} /\ cidrQueue' = {}
    /\ cidrMap' = <<>> /\ ccs' = [c \in CCNames |-> None]
    /\ nodeSnap' = [n \in Nodes |-> None] /\ ccSnap' = [c \in CCNames |-> None]
    /\ lock' = Free
    /\ UNCHANGED <<apiNode, apiCC>>

Crash == phase \notin {"down", "panicked"} /\ Event("crash") /\ Stop

Restart == phase = "panicked" /\ Stop /\ UNCHANGED scene
=============================================================================
