------------------------------ MODULE KubeAPI -------------------------------
(***************************************************************************)
(* The controller's surroundings: the API server's Node and ClusterCIDR    *)
(* objects, the users and kubelets that change them, and the informers     *)
(* that copy them, late, into the controller's caches and queues.  None of *)
(* this is the controller's own code; it is modelled from how that code    *)
(* uses it.                                                                *)
(***************************************************************************)
EXTENDS Integers, Sequences

CONSTANTS
    Nodes,          \* node names
    CCNames,        \* ClusterCIDR names
    None,           \* no object
    LabelSets,      \* the label sets a node may have
    ForeignCIDRs,   \* podCIDRs that an earlier controller may have assigned
    Scenarios       \* the surroundings a behaviour may have, see scene

EnvKinds ==
    {"createNode", "deleteNode", "gracefulDelete", "reuseName", "relabel",
     "foreignNode", "createCC", "deleteCC", "startupOps", "resync", "crash",
     "apiError", "serverTimeout", "connectionLost", "serviceRange", "defaultCC"}

ASSUME ScenariosAssumption ==
    Scenarios \subseteq [env : SUBSET EnvKinds, limited : SUBSET EnvKinds, left : Nat,
                         nodes : SUBSET Nodes, ccs : SUBSET CCNames]

VARIABLES
    apiNode,    \* the Node objects in the API server
    apiCC,      \* the ClusterCIDR objects
    nodeCache,  \* the node lister
    ccCache,    \* the ClusterCIDR lister
    tomb,       \* node deletions on their way to the controller
    nodeQueue,  \* keys waiting in nodeQueue (a work queue holds a key once)
    cidrQueue,  \* keys waiting in cidrQueue
    phase,      \* how far the controller process has come
    scene       \* env: what happens in this behaviour; limited: the kinds of
                \* events of which only as many as left are left; nodes and
                \* ccs: the names that are used

kubeVars == <<apiNode, apiCC, nodeCache, ccCache, tomb, nodeQueue, cidrQueue,
              phase, scene>>

NewNode(labels, cidrs) == [labels |-> labels, cidrs |-> cidrs, deleting |-> FALSE]

\* metadata.generation: 1 for a new object; the spec is immutable; setting the
\* deletion timestamp adds one.
Generation(cc) == IF cc.deleting THEN 2 ELSE 1

Watching == phase = "running"

Env == scene.env

\* An event of this kind happens.
Event(kind) ==
    /\ kind \in Env
    /\ IF kind \in scene.limited
         THEN scene.left > 0 /\ scene' = [scene EXCEPT !.left = @ - 1]
         ELSE UNCHANGED scene

\* Users act while the controller runs, and in some instances while it starts.
UserEvent(kind) == Event(kind) /\ (Watching \/ "startupOps" \in Env)

\* The nodes a controller may find: in a migration some have podCIDRs from the
\* controller that was there before, no two of them the same.
FoundNodes ==
    {NewNode(labels, cidrs) : labels \in LabelSets,
        cidrs \in {<<>>} \cup (IF "foreignNode" \in Env THEN ForeignCIDRs ELSE {})}

NewCC == [fin |-> FALSE, deleting |-> FALSE]

\* Any cluster the controller may be installed in.
KubeInit ==
    /\ scene \in Scenarios
    /\ apiNode \in [Nodes -> {None} \cup FoundNodes]
    /\ \A n \in Nodes \ scene.nodes : apiNode[n] = None
    /\ \A m, n \in Nodes : m # n /\ apiNode[m] # None /\ apiNode[n] # None =>
         apiNode[m].cidrs = <<>> \/ apiNode[m].cidrs # apiNode[n].cidrs
    /\ apiCC \in [CCNames -> {None, NewCC}]
    /\ \A c \in CCNames \ scene.ccs : apiCC[c] = None
    /\ nodeCache = [n \in Nodes |-> None] /\ ccCache = [c \in CCNames |-> None]
    /\ tomb = [n \in Nodes |-> None]
    /\ nodeQueue = {} /\ cidrQueue = {}
    /\ phase = "down"

-----------------------------------------------------------------------------
(***************************************************************************)
(* Nodes.                                                                  *)
(***************************************************************************)
CreateNode(n) ==
    /\ UserEvent("createNode")
    /\ n \in scene.nodes /\ apiNode[n] = None
    /\ tomb[n] = None \/ "reuseName" \in Env
    /\ \E labels \in LabelSets : apiNode' = [apiNode EXCEPT ![n] = NewNode(labels, <<>>)]
    /\ UNCHANGED <<apiCC, nodeCache, ccCache, tomb, nodeQueue, cidrQueue, phase>>

\* The object disappears; a watching controller will be told, with the last
\* state of the object.
RemoveNode(n) ==
    /\ UserEvent("deleteNode")
    /\ apiNode[n] # None /\ tomb[n] = None
    /\ apiNode' = [apiNode EXCEPT ![n] = None]
    /\ tomb' = [tomb EXCEPT ![n] = IF Watching
                                     THEN [stage |-> "watch", node |-> apiNode[n]]
                                     ELSE None]
    /\ UNCHANGED <<apiCC, nodeCache, ccCache, nodeQueue, cidrQueue, phase>>

\* A node with finalizers of its own first gets a deletion timestamp.
MarkNodeDeleting(n) ==
    /\ UserEvent("gracefulDelete")
    /\ apiNode[n] # None
    /\ ~apiNode[n].deleting
    /\ apiNode' = [apiNode EXCEPT ![n].deleting = TRUE]
    /\ UNCHANGED <<apiCC, nodeCache, ccCache, tomb, nodeQueue, cidrQueue, phase>>

RelabelNode(n) ==
    /\ UserEvent("relabel")
    /\ apiNode[n] # None
    /\ \E labels \in LabelSets \ {apiNode[n].labels} :
         apiNode' = [apiNode EXCEPT ![n].labels = labels]
    /\ UNCHANGED <<apiCC, nodeCache, ccCache, tomb, nodeQueue, cidrQueue, phase>>

-----------------------------------------------------------------------------
(***************************************************************************)
(* ClusterCIDRs.                                                           *)
(***************************************************************************)
CreateCC(c) ==
    /\ UserEvent("createCC")
    /\ c \in scene.ccs /\ apiCC[c] = None
    /\ apiCC' = [apiCC EXCEPT ![c] = NewCC]
    /\ UNCHANGED <<apiNode, nodeCache, ccCache, tomb, nodeQueue, cidrQueue, phase>>

\* kubectl delete: the object stays, with a deletion timestamp, while it has
\* the finalizer.
DeleteCC(c) ==
    /\ UserEvent("deleteCC")
    /\ apiCC[c] # None
    /\ ~apiCC[c].deleting
    /\ apiCC' = [apiCC EXCEPT ![c] = IF @.fin THEN [@ EXCEPT !.deleting = TRUE]
                                              ELSE None]
    /\ UNCHANGED <<apiNode, nodeCache, ccCache, tomb, nodeQueue, cidrQueue, phase>>

-----------------------------------------------------------------------------
(***************************************************************************)
(* Informers.  Each object's watch events arrive in order; a lister shows  *)
(* some earlier state of the object.                                       *)
(***************************************************************************)
\* The lister changes first, then the handler puts the key in the queue.  The
\* handlers of an object are called in order: those of a node that came back
\* under its name wait for the delete handler.
NodeEvent(n) ==
    /\ Watching
    /\ apiNode[n] # None /\ nodeCache[n] # apiNode[n]
    /\ tomb[n] # None => tomb[n].stage = "handler"
    /\ nodeCache' = [nodeCache EXCEPT ![n] = apiNode[n]]
    /\ nodeQueue' = IF tomb[n] = None THEN nodeQueue \cup {n} ELSE nodeQueue
    /\ UNCHANGED <<apiNode, apiCC, ccCache, tomb, cidrQueue, phase, scene>>

\* The deletion leaves the lister first; the handler is called later.
NodeDeleteEvent(n) ==
    /\ Watching
    /\ tomb[n] # None
    /\ tomb[n].stage = "watch"
    /\ nodeCache' = [nodeCache EXCEPT ![n] = None]
    /\ tomb' = [tomb EXCEPT ![n].stage = "handler"]
    /\ UNCHANGED <<apiNode, apiCC, ccCache, nodeQueue, cidrQueue, phase, scene>>

\* The periodic resync of the shared informer, or a status heartbeat: an
\* update that changes nothing the controller looks at.
Resync(n) ==
    /\ Watching /\ "resync" \in Env
    /\ nodeCache[n] # None /\ tomb[n] = None /\ n \notin nodeQueue
    /\ nodeQueue' = nodeQueue \cup {n}
    /\ UNCHANGED <<apiNode, apiCC, nodeCache, ccCache, tomb, cidrQueue, phase, scene>>

CCEvent(c) ==
    /\ Watching
    /\ ccCache[c] # apiCC[c]
    /\ ccCache' = [ccCache EXCEPT ![c] = apiCC[c]]
    /\ cidrQueue' = cidrQueue \cup {c}
    /\ UNCHANGED <<apiNode, apiCC, nodeCache, tomb, nodeQueue, phase, scene>>

User ==
    \/ \E n \in Nodes : CreateNode(n) \/ RemoveNode(n) \/ MarkNodeDeleting(n) \/ RelabelNode(n)
    \/ \E c \in CCNames : CreateCC(c) \/ DeleteCC(c)

Informer ==
    \/ \E n \in Nodes : NodeEvent(n) \/ NodeDeleteEvent(n) \/ Resync(n)
    \/ \E c \in CCNames : CCEvent(c)
=============================================================================
