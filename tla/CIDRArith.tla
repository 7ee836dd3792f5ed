----------------------------- MODULE CIDRArith ------------------------------
(***************************************************************************)
(* The bit arithmetic of MultiCIDRSet, on machine words: IPv4 addresses in *)
(* one word, IPv6 addresses in two halves.  Modules CIDR and CIDRSet use   *)
(* sums and remainders instead; module MCAlgorithms compares the two on    *)
(* every range of a small address space.                                   *)
(***************************************************************************)
EXTENDS CIDRSet, Bitwise

ASSUME HalvesAssumption == AddrBits.v6 % 2 = 0

HalfV6NBits == AddrBits.v6 \div 2

\* x << s in a word of w bits.
ShiftLeft(w, x, s) == (x * 2 ^ s) % 2 ^ w

\* 64 - bits.LeadingZeros64(x).
BitLength(x) == CHOOSE b \in 0 .. AddrBits.v6 : x < 2 ^ b /\ (b = 0 \/ x >= 2 ^ (b - 1))

\* Mutant of IPv6Halves: an index never reaches the left half.
IPv6HalvesApart(r, index) ==
    LET left  == r.cidr.ip \div 2 ^ HalfV6NBits
        right == r.cidr.ip % 2 ^ HalfV6NBits
    IN  IF r.mask <= HalfV6NBits
          THEN <<left | ShiftLeft(HalfV6NBits, index, HalfV6NBits - r.mask), right>>
          ELSE <<left, right | ShiftLeft(HalfV6NBits, index, AddrBits.v6 - r.mask)>>

\* indexToCIDRBlock: the left and the right half of the block's address.
IPv6Halves(r, index) ==
    LET left  == r.cidr.ip \div 2 ^ HalfV6NBits
        right == r.cidr.ip % 2 ^ HalfV6NBits
        btl   == r.mask - HalfV6NBits
        crosses == r.cidr.len < HalfV6NBits /\ BitLength(index) > btl
    IN  IF r.mask <= HalfV6NBits
          THEN <<left | ShiftLeft(HalfV6NBits, index, HalfV6NBits - r.mask), right>>
          ELSE <<IF crosses THEN left | shiftR(index, btl) ELSE left,
                 right | ShiftLeft(HalfV6NBits, index, AddrBits.v6 - r.mask)>>

IndexToCIDRBlock(r, index) ==
    LET fam == r.cidr.fam
        halves == IPv6Halves(r, index)
        ip == IF fam = "v4"
                THEN r.cidr.ip | ShiftLeft(AddrBits.v4, index, AddrBits.v4 - r.mask)
                ELSE halves[1] * 2 ^ HalfV6NBits + halves[2]
    IN  [fam |-> fam, ip |-> ip, len |-> r.mask]

\* getIndexForIP before its range check.
GetIndexForIP(r, ip) == shiftR(r.cidr.ip ^^ ip, AddrBits[r.cidr.fam] - r.mask)

\* Mutant of EndAddress: one address too far.
EndAddressPast(cidr) == cidr.ip + Span(cidr.fam, cidr.len)

\* The end address in getBeginningAndEndIndices: IP | ^Mask.
EndAddress(cidr) == cidr.ip | (Span(cidr.fam, cidr.len) - 1)
=============================================================================
