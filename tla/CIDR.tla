-------------------------------- MODULE CIDR --------------------------------
(***************************************************************************)
(* CIDR blocks as the allocator uses them (net.IPNet): a family, the first *)
(* address and the prefix length.  An address is a number below            *)
(* 2^AddrBits[family]; AddrBits is [v4 |-> 32, v6 |-> 128] in the program. *)
(***************************************************************************)
EXTENDS Integers

CONSTANT AddrBits   \* address width of each family

Families == {"v4", "v6"}

ASSUME AddrBitsAssumption == AddrBits \in [Families -> Nat]

\* Shifts compose.  (Arithmetic, and not a restriction: it is here for the
\* proofs, whose provers know no law of exponentiation.)
ASSUME PowersAssumption ==
    \A f \in Families : \A m, n \in 0 .. AddrBits[f] :
        /\ 2 ^ m \in Nat \ {0}
        /\ m + n <= AddrBits[f] => 2 ^ (m + n) = 2 ^ m * 2 ^ n

\* Number of addresses under a prefix of the given length.
Span(fam, len) == 2 ^ (AddrBits[fam] - len)

\* IP.Mask(CIDRMask(len)).
Mask(fam, ip, len) == ip - (ip % Span(fam, len))

\* (*IPNet).Contains.
Contains(cidr, ip) == Mask(cidr.fam, ip, cidr.len) = cidr.ip

\* Mutant of Overlaps: only one of the two directions.
OverlapsOneSided(a, b) == a.fam = b.fam /\ Contains(a, Mask(b.fam, b.ip, a.len))

\* The two-sided test written out in getBeginningAndEndIndices, CIDROverlaps
\* and occupyServiceCIDR: each block's address, cut to the other's mask.
Overlaps(a, b) ==
    /\ a.fam = b.fam
    /\ \/ Contains(a, Mask(b.fam, b.ip, a.len))
       \/ Contains(b, Mask(a.fam, a.ip, b.len))

\* The last address of a block (address OR inverted mask).
LastIP(cidr) == cidr.ip + Span(cidr.fam, cidr.len) - 1

\* The addresses a block stands for.
Addresses(cidr) == cidr.ip .. LastIP(cidr)

\* What ParseCIDR returns: the address has no host bits.
IsCIDR(cidr) ==
    /\ cidr \in [fam : Families, ip : Nat, len : Nat]
    /\ cidr.len <= AddrBits[cidr.fam]
    /\ cidr.ip % Span(cidr.fam, cidr.len) = 0

\* Every such block of a family.
AllCIDRs(fam) ==
    UNION {{[fam |-> fam, ip |-> k * Span(fam, len), len |-> len] :
                k \in 0 .. 2 ^ len - 1} : len \in 0 .. AddrBits[fam]}
=============================================================================
