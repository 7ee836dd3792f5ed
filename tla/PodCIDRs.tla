------------------------------ MODULE PodCIDRs ------------------------------
(***************************************************************************)
(* What the node IPAM controller promises, seen from the nodes and their   *)
(* Spec.PodCIDRs alone: a node that has none gets a whole list of blocks   *)
(* of one ClusterCIDR, disjoint from what every other node has, and keeps  *)
(* it unchanged until its deletion.                                        *)
(***************************************************************************)
EXTENDS CIDR, Sequences

CONSTANTS
    Nodes,      \* node names
    Choices     \* the lists of CIDRs the ClusterCIDRs can offer to a node

VARIABLES
    live,       \* the nodes that exist and are not being deleted
    podCIDRs    \* Spec.PodCIDRs of each node, empty when it is not live

vars == <<live, podCIDRs>>

Init ==
    /\ live \in SUBSET Nodes
    /\ podCIDRs = [n \in Nodes |-> <<>>]

\* No CIDR of one list overlaps a CIDR of the other.
Apart(s, t) == \A j \in DOMAIN s, k \in DOMAIN t : ~Overlaps(s[j], t[k])

Appear(n) ==
    /\ n \notin live
    /\ live' = live \cup {n}
    /\ UNCHANGED podCIDRs

Assign(n, cidrs) ==
    /\ n \in live /\ podCIDRs[n] = <<>>
    /\ podCIDRs' = [podCIDRs EXCEPT ![n] = cidrs]
    /\ \A m \in Nodes \ {n} : Apart(cidrs, podCIDRs[m]) /\ Apart(podCIDRs[m], cidrs)
    /\ UNCHANGED live

\* The only way to lose podCIDRs.
Disappear(n) ==
    /\ n \in live
    /\ live' = live \ {n}
    /\ podCIDRs' = [podCIDRs EXCEPT ![n] = <<>>]

Next == \E n \in Nodes : Appear(n) \/ Disappear(n) \/ \E cidrs \in Choices : Assign(n, cidrs)

Spec == Init /\ [][Next]_vars
=============================================================================
