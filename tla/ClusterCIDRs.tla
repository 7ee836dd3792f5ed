---------------------------- MODULE ClusterCIDRs ----------------------------
(***************************************************************************)
(* ClusterCIDR objects as the allocator reads them, and the order in which *)
(* it considers them for a node.                                           *)
(*                                                                         *)
(* CCSpec[c] is the (immutable) spec of the ClusterCIDR named c:           *)
(*    reqs     the requirements of its node selector                       *)
(*    default  it has no selector: it is mapped under the default selector *)
(*    selRank  the place of its selector string among all of them          *)
(*    cidrs    its range for each of its families                          *)
(*    label    the place of its range's string among all of them           *)
(*    hostBits perNodeHostBits                                             *)
(* A node's labels are the set of the requirements they satisfy.           *)
(***************************************************************************)
EXTENDS CIDRSet, Sequences

CONSTANT CCSpec

Elements(s) == {s[k] : k \in DOMAIN s}

FamiliesOf(c) == DOMAIN CCSpec[c].cidrs

RangeOf(c, f) == NewRange(CCSpec[c].cidrs[f], CCSpec[c].hostBits)

\* createClusterCIDRSet succeeds and gives at least one set.
ValidSpec(c) ==
    /\ FamiliesOf(c) # {}
    /\ \A f \in FamiliesOf(c) : ~SubNetTooBig(RangeOf(c, f))

-----------------------------------------------------------------------------
(***************************************************************************)
(* The priority queue (multi_cidr_priority_queue.go).                      *)
(***************************************************************************)
MaxAllocatable(c) ==
    CHOOSE m \in {MaxCIDRs(RangeOf(c, f)) : f \in FamiliesOf(c)} :
        \A f \in FamiliesOf(c) : m <= MaxCIDRs(RangeOf(c, f))

NodeMaskSize(c) ==
    RangeOf(c, IF "v4" \in FamiliesOf(c) THEN "v4" ELSE "v6").mask

\* What Less compares, most significant first.  Only selectors that match a
\* node are queued, so the match count is the number of requirements.
PriorityKey(c) ==
    <<-Cardinality(CCSpec[c].reqs), MaxAllocatable(c), -NodeMaskSize(c),
      CCSpec[c].selRank, CCSpec[c].label>>

Less(c, d) ==
    \E k \in 1 .. 5 : /\ PriorityKey(c)[k] < PriorityKey(d)[k]
                      /\ \A j \in 1 .. k - 1 : PriorityKey(c)[j] = PriorityKey(d)[j]

\* The lists of the elements of S, each once.
Arrangements(S) == {s \in [1 .. Cardinality(S) -> S] : Elements(s) = S}

\* The orders in which a heap may hand out the elements of S: ties are broken
\* by where the map iteration put them.
HeapOrders(S) ==
    {s \in Arrangements(S) : \A j, k \in DOMAIN s : j < k => ~Less(s[k], s[j])}

\* The elements of S in the order of map.
MapOrders(map, S) ==
    {s \in Arrangements(S) :
        \A j, k \in DOMAIN s : j < k =>
            \E p, q \in DOMAIN map : p < q /\ map[p] = s[j] /\ map[q] = s[k]}

-----------------------------------------------------------------------------
\* matchCIDRLabels.
MatchCIDRLabels(labels, c) == CCSpec[c].reqs \subseteq labels

CatchAlls(map) == {c \in Elements(map) : CCSpec[c].default}

\* Mutant of OrderedMatching: terminating ClusterCIDRs are not left out.
OrderedMatchingAll(map, labels, occupy, terminating) ==
    LET queued == {c \in Elements(map) : MatchCIDRLabels(labels, c)}
    IN  {s \o t : s \in HeapOrders(queued), t \in MapOrders(map, CatchAlls(map))}

\* Mutant of OrderedMatching: they are left out for a release as well.
OrderedMatchingLive(map, labels, occupy, terminating) ==
    LET queued == {c \in Elements(map) \ terminating : MatchCIDRLabels(labels, c)}
    IN  {s \o t : s \in HeapOrders(queued), t \in MapOrders(map, CatchAlls(map))}

\* orderedMatchingClusterCIDRs, for a map that lists the ClusterCIDRs in the
\* order they were added.  When occupy is set the terminating ones are left
\* out of the queue; the default ones are appended whatever their state.
OrderedMatching(map, labels, occupy, terminating) ==
    LET queued == {c \in Elements(map) : /\ MatchCIDRLabels(labels, c)
                                         /\ ~(occupy /\ c \in terminating)}
    IN  {s \o t : s \in HeapOrders(queued), t \in MapOrders(map, CatchAlls(map))}
=============================================================================
