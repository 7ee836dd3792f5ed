---------------------------- MODULE MCAlgorithms ----------------------------
(* Ranges of a four-bit IPv4 address space with four, two, one and no node   *)
(* blocks (the last one's node mask is shorter than its prefix); six-bit     *)
(* IPv6 addresses in halves of three bits, so that ranges and node masks lie *)
(* left of the middle, right of it, on it and across it.                     *)
EXTENDS MultiCIDRSet, CIDRArith, PriorityQueue, Validation

MCAddrBits == [v4 |-> 4, v6 |-> 6]

V4(ip, len) == [fam |-> "v4", ip |-> ip, len |-> len]

MCRanges == {NewRange(V4(8, 1), 1), NewRange(V4(4, 2), 1), NewRange(V4(8, 2), 0),
             NewRange(V4(0, 2), 2), NewRange(V4(8, 2), 3)}

V6(ip, len) == [fam |-> "v6", ip |-> ip, len |-> len]

QueueItem(reqs, rank, cidrs, label, hostBits) ==
    [reqs |-> reqs, default |-> FALSE, selRank |-> rank, cidrs |-> cidrs,
     label |-> label, hostBits |-> hostBits]

\* ClusterCIDRs that precede or follow c1 by one place of the priority each: c2 by
\* the labels, c3 by its blocks, c7 by its node mask (against its label), c4 by its
\* selector and c5 by its label; c6 equals it in all.
QueueSpecs ==
    LET wide == [v4 |-> V4(0, 2)] IN
    [c1 |-> QueueItem({"a"}, 1, wide, 1, 1),
     c2 |-> QueueItem({"a", "b"}, 3, wide, 1, 1),
     c3 |-> QueueItem({"a"}, 1, [v4 |-> V4(0, 2), v6 |-> V6(0, 5)], 1, 1),
     c4 |-> QueueItem({"c"}, 2, wide, 1, 1),
     c5 |-> QueueItem({"a"}, 1, [v4 |-> V4(4, 2)], 2, 1),
     c6 |-> QueueItem({"a"}, 1, wide, 1, 1),
     c7 |-> QueueItem({"a"}, 1, [v4 |-> V4(0, 1)], 0, 2)]

MCInputs == AllCIDRs("v4")

-----------------------------------------------------------------------------
(***************************************************************************)
(* What the pure functions are given.                                      *)
(***************************************************************************)
AllRanges ==
    UNION {{[cidr |-> c, mask |-> m] : m \in c.len .. AddrBits[c.fam]} :
             c \in AllCIDRs("v4") \cup AllCIDRs("v6")}

MaxQueued == 5      \* heaps of three levels

Queued == {S \in SUBSET DOMAIN CCSpec : Cardinality(S) <= MaxQueued}

Texts == {Unset, Garbage} \cup
         {[fam |-> fam, ip |-> 0, len |-> len] : fam \in Families, len \in 0 .. AddrBits.v4}

Specs == [ipv4 : Texts, ipv6 : Texts, hostBits : -1 .. AddrBits.v6 + 1, selectors : {{}}]

SelectorRequirements ==
    [key : {"a", "metadata.name", "noLabelName"},
     operator : {"In", "NotIn", "Exists", "DoesNotExist", "Gt", "Lt", "Unknown"},
     values : {<<>>, <<"word", "number">>, <<"Word", "text">>} \cup
              {<<value>> : value \in LabelValues \cup DNSSubdomains \cup {"text"}}]

Selectors ==
    {<<>>} \cup {<<[matchExpressions |-> E, matchFields |-> F]>> :
                   E \in {{}} \cup {{req} : req \in SelectorRequirements},
                   F \in {{}} \cup {{req} : req \in SelectorRequirements}}

Flags ==
    LET cidrs == {[fam |-> fam, ip |-> 0, len |-> len] : fam \in Families, len \in 0 .. AddrBits.v6}
        flag  == {x \in [cidr : {c \in cidrs : c.len <= AddrBits[c.fam]}, mask : 0 .. AddrBits.v6] :
                    IsFlag(x)}
    IN  [1 .. 1 -> flag] \cup [1 .. 2 -> flag]

\* These are inputs of the kind the theorems are about.
ASSUME InputsAssumption == (\A spec \in Specs : IsSpec(spec)) /\ (\A flags \in Flags : IsFlags(flags))

-----------------------------------------------------------------------------
(***************************************************************************)
(* The calls on a MultiCIDRSet; or, beside a set that is not in use, one   *)
(* input of a pure function at a time.                                     *)
(***************************************************************************)
NoInput == [none |-> TRUE]

Unused ==
    /\ pc = "idle" /\ Current = [alloc |-> {}, count |-> 0, next |-> 0]
    /\ range = CHOOSE r \in Ranges : TRUE

Give ==
    /\ input = NoInput /\ Unused
    /\ \/ input' \in [range : AllRanges]
       \/ input' \in [queued : Queued]
       \/ input' \in [spec : Specs]
       \/ input' \in [terms : Selectors]
       \/ input' \in [flags : Flags]
    /\ UNCHANGED vars

TakeAway == input # NoInput /\ input' = NoInput /\ UNCHANGED vars

Call == input = NoInput /\ Next /\ UNCHANGED input

AlgorithmsInit == Init /\ input = NoInput

AlgorithmsNext == Call \/ Give \/ TakeAway

AlgorithmsSpec == AlgorithmsInit /\ [][AlgorithmsNext]_<<vars, input>> /\ WF_vars(Step)

-----------------------------------------------------------------------------
AllIndices(r) == 0 .. MaxCIDRs(r) - 1

Share(a, b) == Addresses(a) \cap Addresses(b) # {}

\* The blocks of a range are the consecutive blocks of the node mask's size in
\* it, also where indexToCIDRBlock spreads the index over both halves of an IPv6
\* address: different indices never share an address.
BlocksExact ==
    \A r \in Given("range") : \A k \in AllIndices(r) : IndexToCIDRBlock(r, k) = Block(r, k)

\* Occupying or releasing the block of an index touches this index alone, and
\* a CIDR inside the range touches the indices of the blocks it shares
\* addresses with: getIndexForIP's exclusive or never mistakes an address for
\* another.
IndicesExact ==
    \A r \in Given("range") : \A cidr \in AllCIDRs(r.cidr.fam) :
        Overlaps(r.cidr, cidr) /\ cidr.len > r.cidr.len =>
            LET from == GetIndexForIP(r, Mask(cidr.fam, cidr.ip, r.mask))
                to   == GetIndexForIP(r, Mask(cidr.fam, EndAddress(cidr), r.mask))
            IN  /\ <<from, to>> = <<BeginIndex(r, cidr), EndIndex(r, cidr)>>
                /\ from .. to = {k \in AllIndices(r) : Share(IndexToCIDRBlock(r, k), cidr)}

\* The two-sided test on masked addresses (getBeginningAndEndIndices,
\* CIDROverlaps, occupyServiceCIDR) is true exactly of blocks that share an
\* address.
OverlapsExact ==
    \A r \in Given("range") : \A cidr \in AllCIDRs(r.cidr.fam) :
        Overlaps(r.cidr, cidr) <=> Share(r.cidr, cidr)

ArrivalOrders(S) == {s \in [1 .. Cardinality(S) -> S] : Elements(s) = S}

\* Whatever the order in which Go's map iteration meets the ClusterCIDRs,
\* orderedMatchingClusterCIDRs tries them from the highest priority to the
\* lowest; and between equals every order happens, so that nothing may rely on
\* one.
HeapSorts ==
    \A S \in Given("queued") :
        {PopAll(PushAll(<<>>, arrival)) : arrival \in ArrivalOrders(S)} = HeapOrders(S)
=============================================================================
