------------------------------- MODULE CIDRSet ------------------------------
(***************************************************************************)
(* The operations of multicidrset.MultiCIDRSet on one range, each as the   *)
(* function from the set's state to its next state that the method         *)
(* computes while it holds the set's mutex.                                *)
(*                                                                         *)
(* A range r is the immutable part of a MultiCIDRSet:                      *)
(*    [cidr |-> the cluster CIDR, mask |-> NodeMaskSize]                   *)
(* and its state s the mutable part:                                       *)
(*    [alloc |-> the allocated blocks, count |-> allocatedCIDRs,           *)
(*     next |-> nextCandidate].                                            *)
(* allocatedCIDRMap is keyed by the block's string; here it is the set of  *)
(* the blocks' indices (indexToCIDRBlock is one-to-one, see CIDRArith).    *)
(***************************************************************************)
EXTENDS CIDR, FiniteSets

CONSTANT ClusterSubnetMaxDiff   \* clusterSubnetMaxDiff, 16 in the program

\* What NewMultiCIDRSet builds from a cluster CIDR and perNodeHostBits, and
\* the IPv6 ranges it refuses (CIDRSetSubNetTooBigErr).
NewRange(cidr, hostBits) ==
    [cidr |-> cidr, mask |-> AddrBits[cidr.fam] - hostBits]

\* Nodes get blocks that are no larger than the range, which has no host bits.
WellFormed(r) ==
    /\ r = [cidr |-> r.cidr, mask |-> r.mask]
    /\ IsCIDR(r.cidr)
    /\ r.mask \in r.cidr.len .. AddrBits[r.cidr.fam]

SubNetTooBig(r) ==
    r.cidr.fam = "v6" /\ r.mask - r.cidr.len > ClusterSubnetMaxDiff

\* getMaxCIDRs: 1 << uint32(difference).  A negative difference converts to a
\* huge shift count, which leaves 0.
MaxCIDRs(r) == IF r.mask >= r.cidr.len THEN 2 ^ (r.mask - r.cidr.len) ELSE 0

NewSet == [alloc |-> {}, count |-> 0, next |-> 0]

\* indexToCIDRBlock.
Block(r, k) ==
    [fam |-> r.cidr.fam,
     ip  |-> r.cidr.ip + k * Span(r.cidr.fam, r.mask),
     len |-> r.mask]

\* getIndexForIP: the bits of the address between the cluster mask and the
\* node mask (the cluster address has none of them).
IndexForIP(r, ip) ==
    (ip \div Span(r.cidr.fam, r.mask)) - (r.cidr.ip \div Span(r.cidr.fam, r.mask))

BeginIndex(r, cidr) ==
    IF r.cidr.len < cidr.len
      THEN IndexForIP(r, Mask(cidr.fam, cidr.ip, r.mask))
      ELSE 0

EndIndex(r, cidr) ==
    IF r.cidr.len < cidr.len
      THEN IndexForIP(r, Mask(cidr.fam, LastIP(cidr), r.mask))
      ELSE MaxCIDRs(r) - 1

\* getBeginningAndEndIndices returns no error.
InRange(r, cidr) ==
    /\ Overlaps(r.cidr, cidr)
    /\ r.cidr.len < cidr.len => /\ BeginIndex(r, cidr) \in 0 .. MaxCIDRs(r) - 1
                                /\ EndIndex(r, cidr) \in 0 .. MaxCIDRs(r) - 1

\* The indices the loops of Occupy and Release run over.
Indices(r, cidr) == BeginIndex(r, cidr) .. EndIndex(r, cidr)

\* The loops of Occupy and Release over a set of indices: a block is counted
\* only when it changes.
OccupyIndices(s, B) ==
    [alloc |-> s.alloc \cup B,
     count |-> s.count + Cardinality(B \ s.alloc),
     next  |-> s.next]

ReleaseIndices(s, B) ==
    [alloc |-> s.alloc \ B,
     count |-> s.count - Cardinality(B \cap s.alloc),
     next  |-> s.next]

\* CIDRAllocated and CIDROverlaps, over the allocated blocks.
CIDRAllocated(r, s, cidr) == \E k \in s.alloc : Block(r, k) = cidr
CIDROverlaps(r, s, cidr) == \E k \in s.alloc : Overlaps(cidr, Block(r, k))

-----------------------------------------------------------------------------
(***************************************************************************)
(* allocateCIDR: ask NextCandidate for blocks until one is not taken by    *)
(* another range, or MaxCIDRs indices have been evaluated.  taken is the   *)
(* set of indices whose block some mapped ClusterCIDR has allocated or     *)
(* overlaps.  In closed form, with offsets counted from nextCandidate:     *)
(***************************************************************************)
Least(S) == CHOOSE x \in S : \A y \in S : x <= y

FreeOffsets(max, s) == {k \in 0 .. max - 1 : (s.next + k) % max \notin s.alloc}

GoodOffsets(max, s, taken) ==
    {k \in FreeOffsets(max, s) : (s.next + k) % max \notin taken}

CanAllocate(max, s, taken) ==
    s.count # max /\ GoodOffsets(max, s, taken) # {}

\* On success: the index of the block that is occupied and returned.
AllocatedIndex(max, s, taken) ==
    (s.next + Least(GoodOffsets(max, s, taken))) % max

Allocate(max, s, taken) ==
    LET i == AllocatedIndex(max, s, taken) IN
    [alloc |-> s.alloc \cup {i},
     count |-> IF i \in s.alloc THEN s.count ELSE s.count + 1,
     next  |-> (i + 1) % max]

\* On failure nextCandidate may still have moved: every free index was
\* offered and rejected, and unless the last one evaluated was the one before
\* nextCandidate, the first free one was offered a second time.
AllocateFailed(max, s) ==
    [s EXCEPT !.next =
        IF s.count = max \/ FreeOffsets(max, s) = {} \/ max - 1 \in FreeOffsets(max, s)
          THEN @
          ELSE (@ + Least(FreeOffsets(max, s)) + 1) % max]

\* A MultiCIDRSet of range r: only its own blocks are marked, and each of them
\* is counted once.
IsSet(r, s) ==
    /\ s = [alloc |-> s.alloc, count |-> s.count, next |-> s.next]
    /\ s.alloc \subseteq 0 .. MaxCIDRs(r) - 1
    /\ s.count = Cardinality(s.alloc)
    /\ s.next \in 0 .. MaxCIDRs(r)
=============================================================================
