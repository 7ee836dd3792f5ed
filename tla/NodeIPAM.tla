------------------------------ MODULE NodeIPAM ------------------------------
(***************************************************************************)
(* The node IPAM controller in its surroundings: users and kubelets change *)
(* Nodes and ClusterCIDRs, informers report it late, workers reconcile it, *)
(* patches may fail in doubt, and the process may stop and start again.    *)
(***************************************************************************)
EXTENDS RangeAllocator

Init ==
    /\ KubeInit
    /\ cidrMap = <<>> /\ ccs = [c \in CCNames |-> None]
    /\ nodeSnap = [n \in Nodes |-> None] /\ ccSnap = [c \in CCNames |-> None]
    /\ lock = Free

\* r.lock is held and the handler is between two steps that touch only its own
\* state.  Nothing outside can tell these moments apart, so the others wait.
Computing == lock.op \in {"occupy", "allocate", "update"} /\ phase # "panicked"

Compute == OccupyCIDRs \/ PrioritizedCIDRs \/ UpdateCIDRsAllocation

NodeWorker(n) == SyncNode(n) \/ ReleaseDeletingNode(n) \/ AllocateOrOccupyCIDR(n)

CIDRWorker(c) == SyncClusterCIDR(c) \/ ReconcileCreate(c) \/ ReconcileDelete(c)

Patch == 
    \/ PatchNodeCIDRs
    \/ \E err \in {"refused", "serverTimeout", "connectionLost"} : PatchNodeCIDRsFails(err)

Start ==
    \/ ListNodes \/ ListClusterCIDRs \/ OccupyListedNodes \/ Run \/ Restart
    \/ \E c \in CCNames : ReconcileBootstrap(c)

Next ==
    \/ Computing /\ Compute
    \/ /\ ~Computing
       /\ \/ \E n \in Nodes : NodeWorker(n) \/ HandleNodeDelete(n)
          \/ \E c \in CCNames : CIDRWorker(c)
          \/ Patch
          \/ Start
          \/ Crash
          \/ (User \/ Informer) /\ UNCHANGED allocVars

Spec == Init /\ [][Next]_vars

(***************************************************************************)
(* Fairness.  Every goroutine is scheduled, and a queue hands out every    *)
(* key.  Handlers wait for r.lock, which others take and release again and *)
(* again; sync.Mutex hands itself to a goroutine that has waited for long  *)
(* (its starvation mode), hence the strong fairness.  The others need no   *)
(* lock, but Computing holds them up here.  The API server does not refuse *)
(* every patch.                                                            *)
(***************************************************************************)
Fairness ==
    /\ WF_vars(Start /\ ~Computing)
    /\ WF_vars(Computing /\ Compute)
    /\ WF_vars(Patch) /\ SF_vars(PatchNodeCIDRs)
    /\ \A n \in Nodes :
         /\ SF_vars((NodeEvent(n) \/ NodeDeleteEvent(n)) /\ UNCHANGED allocVars /\ ~Computing)
         /\ SF_vars(SyncNode(n) /\ ~Computing)
         /\ SF_vars((ReleaseDeletingNode(n) \/ AllocateOrOccupyCIDR(n)) /\ ~Computing)
         /\ SF_vars(HandleNodeDelete(n) /\ ~Computing)
    /\ \A c \in CCNames :
         /\ SF_vars(CCEvent(c) /\ UNCHANGED allocVars /\ ~Computing)
         /\ SF_vars(SyncClusterCIDR(c) /\ ~Computing)
         /\ SF_vars((ReconcileCreate(c) \/ ReconcileDelete(c)) /\ ~Computing)

FairSpec == Spec /\ Fairness

-----------------------------------------------------------------------------
SetStates(c, f) ==
    LET max == MaxCIDRs(RangeOf(c, f)) IN
    [alloc : SUBSET (0 .. max - 1), count : 0 .. max, next : 0 .. max]

\* A ClusterCIDR is in cidrMap once, exactly while the allocator has an object
\* for it, and a worker's frame names objects that exist.
TypeOK ==
    /\ \A n \in Nodes : /\ apiNode[n] # None => apiNode[n].labels \in LabelSets
                        /\ nodeSnap[n] # None => nodeSnap[n].labels \in LabelSets
    /\ nodeQueue \subseteq Nodes /\ cidrQueue \subseteq CCNames
    /\ phase \in {"down", "listed", "mapping", "occupying", "running", "panicked"}
    /\ \A c \in CCNames \ Mapped : ccs[c] = None
    /\ Len(cidrMap) = Cardinality(Mapped)
    /\ \A c \in Mapped : /\ ccs[c].assoc \subseteq Nodes
                         /\ \A f \in FamiliesOf(c) : ccs[c].sets[f] \in SetStates(c, f)
    /\ lock # Free => nodeSnap[lock.node] # None
    /\ lock.op \in {"update", "patch"} => lock.cc \in Mapped

\* The nodes that are not being deleted, and the podCIDRs of a node, which are its
\* own until then.
Live == {n \in Nodes : apiNode[n] # None /\ ~apiNode[n].deleting}

PodCIDRsOf(n) ==
    IF apiNode[n] = None \/ apiNode[n].deleting THEN <<>> ELSE apiNode[n].cidrs

Held(n) == Elements(PodCIDRsOf(n))

Holding == {n \in Nodes : Held(n) # {}}

\* No two nodes have overlapping podCIDRs: the promise the whole controller
\* exists for, whatever the order of events, cache reads, patches and restarts.
NoOverlap ==
    \A m, n \in Nodes : m # n =>
        \A a \in Held(m), b \in Held(n) : ~Overlaps(a, b)

\* ClusterCIDR c has n among its AssociatedNodes and n's CIDRs are marked in it.
AccountsFor(c, n) ==
    /\ n \in ccs[c].assoc
    /\ AcceptsAll(c, apiNode[n].cidrs)
    /\ \A f \in FamiliesOf(c) :
         IndicesOf(c, f, apiNode[n].cidrs, Len(apiNode[n].cidrs)) \subseteq ccs[c].sets[f].alloc

\* While the controller runs, every node's CIDRs are marked as allocated in a
\* mapped ClusterCIDR that counts the node among its own: neither an allocation
\* nor the deletion of a ClusterCIDR can overlook a node.
Accounted ==
    Watching => \A n \in Holding : \E c \in Mapped : AccountsFor(c, n)

\* The finalizer is taken off a ClusterCIDR, and the object goes away, only
\* when no node holds CIDRs that this ClusterCIDR alone accounts for.
Removed(c) == apiCC[c] # None /\ apiCC[c].fin /\ apiCC'[c] = None

DeletedOnlyUnused ==
    [][\A c \in CCNames : Removed(c) =>
         \A n \in Holding : AcceptsAll(c, apiNode[n].cidrs) =>
             \E d \in Mapped \ {c} : AccountsFor(d, n)]_vars

\* No CIDR is reserved for a node in a ClusterCIDR that is terminating.
NotFromTerminating ==
    [][lock.op = "allocate" /\ lock'.op = "update" => ~ccs[lock'.cc].terminating]_vars

\* When the delete handler has dealt with a node that had CIDRs, no ClusterCIDR
\* counts it any more: allocatedClusterCIDR finds the ClusterCIDR the node's CIDRs are from.
ReleasedOnDelete ==
    [][\A n \in Nodes :
         /\ tomb[n] # None /\ tomb'[n] = None /\ Watching'
         /\ tomb[n].node.cidrs # <<>>
         => \A c \in Mapped' : n \notin ccs'[c].assoc]_vars

\* Every CIDR of every node is marked as allocated in some mapped ClusterCIDR,
\* also while the controller does not know the outcome of a patch.
Marked(cidr) ==
    \E c \in Mapped : Accepts(c, cidr) /\ Indices(RangeOf(c, cidr.fam), cidr)
                                            \subseteq ccs[c].sets[cidr.fam].alloc

HeldMarked == Watching => \A n \in Nodes : \A cidr \in Held(n) : Marked(cidr)

\* Between two handlers, every allocated block belongs to a node, as long as nodes
\* stay and no patch ends in a server timeout: patches that are refused, retries,
\* conflicts and restarts lose no blocks.
InUse(block) == \E n \in Nodes : \E cidr \in Held(n) : Overlaps(cidr, block)

NoLeak ==
    Watching /\ Unlocked =>
        \A c \in Mapped : \A f \in FamiliesOf(c) :
            \A k \in ccs[c].sets[f].alloc : InUse(Block(RangeOf(c, f), k))

\* What a handler has reserved when it returns is the node's or free again, through
\* retries, conflicts, refused patches and deletions of the node meanwhile.  A block is
\* kept for no one in two cases only: updateCIDRsAllocation does not find the node in the
\* lister, or its last patch is answered by a server timeout.
Reserves(frame) == frame.op \in {"update", "patch"}

ReservationsSettled ==
    [][Reserves(lock) /\ ~Reserves(lock') /\ Watching' =>
         \/ apiNode'[lock.node] # None /\ apiNode'[lock.node].cidrs = lock.cidrs
         \/ \A f \in FamiliesOf(lock.cc) :
              IndicesOf(lock.cc, f, lock.cidrs, Len(lock.cidrs)) \cap ccs'[lock.cc].sets[f].alloc = {}
         \/ lock.op = "update" /\ nodeCache[lock.node] = None
         \/ PatchNodeCIDRsFails("serverTimeout")]_vars

\* No node has service addresses among its pods': filterOutServiceRange marks
\* them in every ClusterCIDR before the first node is looked at, and no release
\* of a node's CIDRs, no failed patch and no restart makes them available.
ServiceRangeKept ==
    \A n \in Nodes : \A cidr \in Held(n), s \in Services : ~Overlaps(cidr, s)

\* Among ClusterCIDRs with equally many matching labels and equally many
\* blocks, the one whose blocks have fewer addresses is tried first (P2 of
\* orderedMatchingClusterCIDRs).
FewerIPsFirst ==
    [][LET list == lock'.todo IN
       Unlocked /\ lock'.op = "allocate" =>
         \A j, k \in DOMAIN list :
            /\ j < k /\ ~CCSpec[list[j]].default /\ ~CCSpec[list[k]].default
            /\ Cardinality(CCSpec[list[j]].reqs) = Cardinality(CCSpec[list[k]].reqs)
            /\ MaxAllocatable(list[j]) = MaxAllocatable(list[k])
            => CCSpec[list[j]].hostBits <= CCSpec[list[k]].hostBits]_vars

-----------------------------------------------------------------------------
(***************************************************************************)
(* What the allocator does, seen from the nodes' podCIDRs alone.           *)
(***************************************************************************)
\* One block of each family of one ClusterCIDR, IPv4 first.
Offers(c) ==
    LET order == InFamilyOrder(FamiliesOf(c))
        blocks == UNION {{Block(RangeOf(c, f), k) : k \in 0 .. MaxCIDRs(RangeOf(c, f)) - 1} :
                             f \in FamiliesOf(c)}
    IN  {s \in [DOMAIN order -> blocks] : \A k \in DOMAIN order : s[k].fam = order[k]}

AllOffers == UNION {Offers(c) : c \in CCNames}

Promise ==
    INSTANCE PodCIDRs WITH
        live <- Live,
        podCIDRs <- [n \in Nodes |-> PodCIDRsOf(n)],
        Choices <- AllOffers

\* Whatever fails or stops, a node gets a whole offer or nothing: never one
\* family of a dual-stack ClusterCIDR, or blocks of two ClusterCIDRs.
WholeOffers ==
    \A n \in Nodes : apiNode[n] # None =>
        apiNode[n].cidrs \in {<<>>} \cup ForeignCIDRs \cup AllOffers

\* Every step of the controller and its surroundings is a step of PodCIDRs: an
\* assignment of whole blocks of one ClusterCIDR, apart from all others, to a
\* node that has none, or the beginning or the end of a node.  So patches, retries,
\* conflicts and restarts never change what a node has.
KeepsPromise == Promise!Spec

-----------------------------------------------------------------------------
\* A node without CIDRs, while a ClusterCIDR for it has a free block of each
\* of its families.
FreeBlock(c, f) ==
    \E k \in 0 .. MaxCIDRs(RangeOf(c, f)) - 1 : ~InUse(Block(RangeOf(c, f), k))

Wants(n) ==
    /\ apiNode[n] # None /\ Held(n) = {}
    /\ ~apiNode[n].deleting
    /\ \E c \in CCNames :
         /\ apiCC[c] # None
         /\ ~apiCC[c].deleting /\ ValidSpec(c)
         /\ CCSpec[c].default \/ MatchCIDRLabels(apiNode[n].labels, c)
         /\ \A f \in FamiliesOf(c) : FreeBlock(c, f)

\* Such a node gets its CIDRs, however often patches fail, conflicts send keys
\* back to the queue, or other nodes get there first, as long as there is room.
EventuallyAssigned == \A n \in Nodes : Wants(n) ~> ~Wants(n)

\* A ClusterCIDR that is being deleted goes away once there are no nodes.
DeletionCompletes ==
    \A c \in CCNames :
        (apiCC[c] # None /\ apiCC[c].deleting /\ \A n \in Nodes : apiNode[n] = None)
            ~> (apiCC[c] = None \/ \E n \in Nodes : apiNode[n] # None)
=============================================================================
