----------------------------- MODULE CIDRProofs -----------------------------
(***************************************************************************)
(* Addresses, blocks and CIDR sets: the exactness of the overlap test and  *)
(* of the block indices, and what the operations of a MultiCIDRSet keep.   *)
(* Nothing here depends on the state of the controller.                    *)
(***************************************************************************)
EXTENDS ClusterCIDRs, FiniteSetTheorems, TLAPS

\* Least is the least element.
LEMMA LeastIs ==
    ASSUME NEW S \in SUBSET Int, NEW x \in S, \A y \in S : x <= y
    PROVE  Least(S) = x
<1>1. \A z \in S : (\A y \in S : z <= y) => z = x
  OBVIOUS
<1> QED
  BY <1>1 DEF Least

\* Every non-empty set of natural numbers has a least element.
LEMMA LeastExists ==
    ASSUME NEW S \in SUBSET Nat, S # {}
    PROVE  Least(S) \in S /\ \A y \in S : Least(S) <= y
<1> DEFINE R == StrictSubsetOrdering(Nat)
           T == {0 .. x : x \in S}
<1>1. IsWellFoundedOn(R, FiniteSubsetsOf(Nat))
  BY FS_StrictSubsetOrderingWellFounded
<1>2. T \subseteq FiniteSubsetsOf(Nat) /\ T # {}
  <2>1. ASSUME NEW x \in S PROVE IsFiniteSet(0 .. x) /\ 0 .. x \subseteq Nat
    BY FS_Interval
  <2> QED
    BY <2>1 DEF FiniteSubsetsOf
<1>3. PICK t \in T : \A u \in T : <<u, t>> \notin R
  <2> HIDE DEF R, T
  <2> QED
    BY <1>1, <1>2, WFMin
<1>4. PICK x \in S : t = 0 .. x
  OBVIOUS
<1>5. ASSUME NEW y \in S PROVE x <= y
  <2> SUFFICES ASSUME y < x PROVE FALSE
    OBVIOUS
  <2>1. 0 .. y \in T /\ 0 .. y \subseteq 0 .. x /\ 0 .. y # 0 .. x
    <3>1. x \in 0 .. x /\ x \notin 0 .. y
      OBVIOUS
    <3> QED
      BY <3>1
  <2>2. <<0 .. y, 0 .. x>> \in R
    BY <2>1, <1>2, <1>4 DEF StrictSubsetOrdering, FiniteSubsetsOf
  <2> QED
    BY <2>1, <2>2, <1>3, <1>4
<1> QED
  BY <1>5, LeastIs

\* A number is its quotient times the divisor and its remainder.
LEMMA Division ==
    ASSUME NEW m \in Nat, m > 0, NEW x \in Nat
    PROVE  /\ x \div m \in Int
           /\ x % m \in 0 .. m - 1
           /\ x = m * (x \div m) + (x % m)
  OBVIOUS

\* A positive multiple of m is at least m.
LEMMA Multiple ==
    ASSUME NEW m \in Nat, m > 0, NEW q \in Int, q > 0
    PROVE  m * q >= m
  OBVIOUS

\* The remainder is the only number below the divisor that a multiple of the
\* divisor completes, and the quotient goes with it.
LEMMA QuotientRemainder ==
    ASSUME NEW m \in Nat, m > 0, NEW x \in Nat,
           NEW q \in Int, NEW r \in 0 .. m - 1, x = m * q + r
    PROVE  x % m = r /\ x \div m = q
<1> DEFINE p == x \div m
           s == x % m
<1>1. p \in Int /\ s \in 0 .. m - 1 /\ x = m * p + s
  BY Division
<1> HIDE DEF p, s
<1>2. m * (p - q) = r - s /\ m * (q - p) = s - r
  BY <1>1
<1>3. ~(p - q > 0)
  <2> SUFFICES ASSUME p - q > 0 PROVE FALSE
    OBVIOUS
  <2>1. m * (p - q) >= m
    BY <1>1, Multiple
  <2> QED
    BY <1>1, <1>2, <2>1
<1>4. ~(q - p > 0)
  <2> SUFFICES ASSUME q - p > 0 PROVE FALSE
    OBVIOUS
  <2>1. m * (q - p) >= m
    BY <1>1, Multiple
  <2> QED
    BY <1>1, <1>2, <2>1
<1>5. s = r /\ p = q
  BY <1>1, <1>2, <1>3, <1>4
<1> QED
  BY <1>5 DEF s, p

\* Products keep the order of a factor.
LEMMA TimesMonotonic ==
    ASSUME NEW a \in Nat, NEW b \in Nat, NEW m \in Nat, a <= b
    PROVE  a * m <= b * m
  OBVIOUS

-----------------------------------------------------------------------------
(***************************************************************************)
(* The arithmetic of ranges and blocks.                                    *)
(***************************************************************************)
\* A range has as many blocks as fit into it.
LEMMA Spans ==
    ASSUME NEW r, WellFormed(r)
    PROVE  /\ Span(r.cidr.fam, r.cidr.len) \in Nat \ {0}
           /\ Span(r.cidr.fam, r.mask) \in Nat \ {0}
           /\ MaxCIDRs(r) \in Nat \ {0}
           /\ Span(r.cidr.fam, r.cidr.len) = MaxCIDRs(r) * Span(r.cidr.fam, r.mask)
<1> DEFINE A == AddrBits[r.cidr.fam]
           m == r.mask - r.cidr.len
           n == A - r.mask
<1>1. r.cidr.fam \in Families /\ r.cidr.len \in Nat /\ r.mask \in r.cidr.len .. A
  BY DEF WellFormed, IsCIDR
<1>2. A \in Nat
  BY <1>1, AddrBitsAssumption
<1>3. m \in 0 .. A /\ n \in 0 .. A /\ m + n \in 0 .. A /\ m + n = A - r.cidr.len
  BY <1>1, <1>2
<1>4. /\ 2 ^ m \in Nat \ {0} /\ 2 ^ n \in Nat \ {0} /\ 2 ^ (m + n) \in Nat \ {0}
      /\ 2 ^ (m + n) = 2 ^ m * 2 ^ n
  BY <1>1, <1>3, PowersAssumption
<1>5. MaxCIDRs(r) = 2 ^ m /\ Span(r.cidr.fam, r.mask) = 2 ^ n
  BY <1>1, <1>2 DEF MaxCIDRs, Span
<1>6. Span(r.cidr.fam, r.cidr.len) = 2 ^ (m + n)
  BY <1>3 DEF Span
<1> QED
  BY <1>4, <1>5, <1>6

\* The index of a range's first block among all blocks of that size.
Base(r) == r.cidr.ip \div Span(r.cidr.fam, r.mask)

\* The base of a range counts the blocks before it.
LEMMA BaseOf ==
    ASSUME NEW r, WellFormed(r)
    PROVE  Base(r) \in Nat /\ r.cidr.ip = Span(r.cidr.fam, r.mask) * Base(r)
<1> DEFINE S == Span(r.cidr.fam, r.mask)
           W == Span(r.cidr.fam, r.cidr.len)
           M == MaxCIDRs(r)
           i == r.cidr.ip
           q == i \div W
<1>1. S \in Nat \ {0} /\ W \in Nat \ {0} /\ M \in Nat \ {0} /\ W = M * S
  BY Spans
<1>2. i \in Nat /\ i % W = 0
  BY DEF WellFormed, IsCIDR
<1> HIDE DEF S, W, M, i
<1>3. q \in Int /\ i = W * q
  BY <1>1, <1>2, Division
<1>4. q \in Nat
  <2> SUFFICES ASSUME -q > 0 PROVE FALSE
    BY <1>3
  <2>1. W * (-q) >= W
    BY <1>1, <1>3, Multiple
  <2> QED
    BY <2>1, <1>1, <1>2, <1>3
<1> HIDE DEF q
<1>5. M * q \in Nat
  BY <1>1, <1>4
<1>6. i = S * (M * q) + 0
  BY <1>1, <1>2, <1>3, <1>4
<1>7. i \div S = M * q
  BY <1>1, <1>2, <1>5, <1>6, QuotientRemainder
<1>8. i = S * (M * q)
  BY <1>1, <1>5, <1>6
<1>9. Base(r) = M * q
  BY <1>7 DEF S, Base, i
<1> QED
  BY <1>5, <1>8, <1>9 DEF S, i

\* A number is not above a quotient if its multiple is not above the dividend.
LEMMA Floor ==
    ASSUME NEW m \in Nat, m > 0, NEW x \in Nat, NEW j \in Int
    PROVE  j <= x \div m <=> m * j <= x
<1> DEFINE q == x \div m
           s == x % m
<1>1. q \in Int /\ s \in 0 .. m - 1 /\ x = m * q + s
  BY Division
<1> HIDE DEF q, s
<1>2. CASE j <= q
  <2>1. m * (q - j) >= 0
    BY <1>1, <1>2
  <2> QED
    BY <1>1, <1>2, <2>1 DEF q
<1>3. CASE j - q > 0
  <2>1. m * (j - q) >= m
    BY <1>1, <1>3, Multiple
  <2> QED
    BY <1>1, <1>3, <2>1 DEF q
<1> QED
  BY <1>1, <1>2, <1>3 DEF q

\* A number of the q-th block of m numbers is between two multiples of m if the whole
\* block is.
LEMMA Aligned ==
    ASSUME NEW m \in Nat, m > 0, NEW u \in Int, NEW w \in Int, NEW q \in Int, NEW y \in Nat,
           m * u <= y, y < m * w, m * q <= y, y < m * q + m
    PROVE  m * u <= m * q /\ m * q + m <= m * w
<1>1. u <= y \div m /\ q <= y \div m /\ ~(w <= y \div m)
  BY Floor
<1>2. ~(q + 1 <= y \div m)
  <2>1. m * (q + 1) = m * q + m
    OBVIOUS
  <2> QED
    BY <2>1, Floor
<1>3. y \div m = q
  BY <1>1, <1>2
<1>4. m * (q - u) >= 0 /\ m * (w - q - 1) >= 0
  BY <1>1, <1>3
<1> QED
  BY <1>4

\* The larger of two spans is a multiple of the smaller.
LEMMA NestedSpans ==
    ASSUME NEW f \in Families, NEW l \in Nat, NEW h \in Nat, l <= h, h <= AddrBits[f]
    PROVE  /\ Span(f, l) \in Nat \ {0} /\ Span(f, h) \in Nat \ {0}
           /\ \E t \in Nat \ {0} : Span(f, l) = Span(f, h) * t
<1> DEFINE m == h - l
           n == AddrBits[f] - h
<1>1. AddrBits[f] \in Nat
  BY AddrBitsAssumption
<1>2. m \in 0 .. AddrBits[f] /\ n \in 0 .. AddrBits[f] /\ m + n = AddrBits[f] - l /\ m + n <= AddrBits[f]
  BY <1>1
<1>3. 2 ^ m \in Nat \ {0} /\ 2 ^ n \in Nat \ {0} /\ 2 ^ (m + n) = 2 ^ m * 2 ^ n
  BY <1>2, PowersAssumption
<1>4. Span(f, h) = 2 ^ n /\ Span(f, l) = 2 ^ (m + n)
  BY <1>2 DEF Span
<1>5. 2 ^ (m + n) = 2 ^ n * 2 ^ m /\ 2 ^ (m + n) \in Nat \ {0}
  <2> DEFINE x == 2 ^ m
             y == 2 ^ n
  <2>1. x \in Nat \ {0} /\ y \in Nat \ {0} /\ 2 ^ (m + n) = x * y
    BY <1>3
  <2> HIDE DEF x, y
  <2>2. x * y = y * x /\ x * y \in Nat \ {0}
    BY <2>1
  <2> QED
    BY <2>1, <2>2 DEF x, y
<1> QED
  BY <1>3, <1>4, <1>5

\* The addresses of a CIDR are a whole block of its span.
LEMMA CIDRIs ==
    ASSUME NEW a, IsCIDR(a)
    PROVE  /\ a.fam \in Families /\ a.ip \in Nat /\ a.len \in 0 .. AddrBits[a.fam]
           /\ Span(a.fam, a.len) \in Nat \ {0}
           /\ Addresses(a) = a.ip .. a.ip + Span(a.fam, a.len) - 1
           /\ \E q \in Int : a.ip = Span(a.fam, a.len) * q
<1>1. /\ a.fam \in Families /\ a.ip \in Nat /\ a.len \in Nat /\ a.len <= AddrBits[a.fam]
      /\ AddrBits[a.fam] \in Nat /\ a.ip % Span(a.fam, a.len) = 0
  BY AddrBitsAssumption DEF IsCIDR
<1>2. Span(a.fam, a.len) \in Nat \ {0}
  BY <1>1, NestedSpans
<1>3. Addresses(a) = a.ip .. a.ip + Span(a.fam, a.len) - 1
  BY DEF Addresses, LastIP
<1>4. \E q \in Int : a.ip = Span(a.fam, a.len) * q
  <2> DEFINE S == Span(a.fam, a.len)
             i == a.ip
  <2>1. S \in Nat /\ S > 0 /\ i \in Nat /\ i % S = 0
    BY <1>1, <1>2
  <2> HIDE DEF S, i
  <2>2. i \div S \in Int /\ i = S * (i \div S)
    BY <2>1, Division
  <2> QED
    BY <2>2 DEF S, i
<1> QED
  BY <1>1, <1>2, <1>3, <1>4

\* The first address of a CIDR is its own.
LEMMA FirstAddress ==
    ASSUME NEW a, IsCIDR(a)
    PROVE  a.ip \in Addresses(a)
<1>1. a.ip \in Nat /\ Span(a.fam, a.len) \in Nat \ {0} /\ Addresses(a) = a.ip .. a.ip + Span(a.fam, a.len) - 1
  BY CIDRIs
<1> QED
  BY <1>1

\* Two CIDRs that share an address: the longer prefix is inside the shorter.
LEMMA CIDRsNest ==
    ASSUME NEW a, NEW b, IsCIDR(a), IsCIDR(b), a.fam = b.fam, a.len <= b.len,
           NEW y \in Addresses(a) \cap Addresses(b)
    PROVE  Addresses(b) \subseteq Addresses(a) /\ Overlaps(a, b)
<1> DEFINE S == Span(a.fam, a.len)
           T == Span(b.fam, b.len)
<1>1. /\ S \in Nat \ {0} /\ T \in Nat \ {0} /\ a.ip \in Nat /\ b.ip \in Nat
      /\ Addresses(a) = a.ip .. a.ip + S - 1 /\ Addresses(b) = b.ip .. b.ip + T - 1
  BY CIDRIs
<1>2. PICK p \in Int, q \in Int : a.ip = S * p /\ b.ip = T * q
  BY CIDRIs
<1>3. PICK t \in Nat \ {0} : S = T * t
  <2>1. a.fam \in Families /\ a.len \in Nat /\ b.len \in Nat /\ b.len <= AddrBits[a.fam]
    BY DEF IsCIDR
  <2> QED
    BY <2>1, NestedSpans
<1>4. Mask(b.fam, b.ip, a.len) = b.ip - (b.ip % S) /\ \A z : Contains(a, z) <=> z - (z % S) = a.ip
  BY DEF Mask, Contains
<1> HIDE DEF S, T
<1>5. y \in Nat /\ a.ip <= y /\ y < a.ip + S /\ b.ip <= y /\ y < b.ip + T
  BY <1>1
<1>6. a.ip = T * (t * p) /\ a.ip + S = T * (t * p + t) /\ t * p \in Int /\ t * p + t \in Int
  BY <1>1, <1>2, <1>3
<1>7. a.ip <= b.ip /\ b.ip + T <= a.ip + S
  <2> DEFINE u == t * p
             w == t * p + t
  <2>1. u \in Int /\ w \in Int /\ a.ip = T * u /\ a.ip + S = T * w
    BY <1>6
  <2> HIDE DEF u, w
  <2>2. T * u <= y /\ y < T * w /\ T * q <= y /\ y < T * q + T
    BY <1>2, <1>5, <2>1
  <2>3. T * u <= T * q /\ T * q + T <= T * w
    BY <1>1, <1>2, <1>5, <2>1, <2>2, Aligned
  <2> QED
    BY <1>2, <2>1, <2>3
<1>8. Addresses(b) \subseteq Addresses(a)
  BY <1>1, <1>7
<1>9. b.ip % S = b.ip - a.ip /\ a.ip % S = 0
  <2>1. b.ip = S * p + (b.ip - a.ip) /\ b.ip - a.ip \in 0 .. S - 1 /\ a.ip = S * p + 0 /\ 0 \in 0 .. S - 1
    BY <1>1, <1>2, <1>7
  <2> DEFINE u == a.ip
             w == b.ip
  <2>2. u \in Nat /\ w \in Nat /\ w - u \in 0 .. S - 1 /\ 0 \in 0 .. S - 1
        /\ w = S * p + (w - u) /\ u = S * p + 0 /\ S \in Nat /\ S > 0
    BY <1>1, <2>1
  <2> HIDE DEF u, w
  <2>3. w % S = w - u /\ u % S = 0
    BY <2>2, QuotientRemainder
  <2> QED
    BY <2>3 DEF u, w
<1>10. Contains(a, Mask(b.fam, b.ip, a.len))
  <2>1. b.ip - (b.ip - a.ip) = a.ip /\ a.ip - 0 = a.ip
    BY <1>1
  <2> QED
    BY <1>4, <1>9, <2>1
<1> QED
  BY <1>8, <1>10 DEF Overlaps

\* An address that two cuts to the same mask take to y is under that mask at y.
LEMMA MaskedTwice ==
    ASSUME NEW x \in Nat, NEW y \in Nat, NEW s \in Nat, s > 0,
           (x - (x % s)) - ((x - (x % s)) % s) = y
    PROVE  x \in y .. y + s - 1
<1> DEFINE p == x \div s
           o == x % s
           z == x - o
<1>1. p \in Int /\ o \in 0 .. s - 1 /\ x = s * p + o
  BY Division
<1>2. z - (z % s) = y
  OBVIOUS
<1> HIDE DEF p, o
<1>3. z = s * p + 0 /\ z \in Int /\ 0 \in 0 .. s - 1
  BY <1>1
<1>4. z \in Nat
  <2> SUFFICES ASSUME -p > 0 PROVE FALSE
    <3>1. p >= 0 => s * p >= 0
      BY <1>1
    <3> QED
      BY <3>1, <1>1, <1>3
  <2>1. s * (-p) >= s
    BY <1>1, Multiple
  <2> QED
    BY <2>1, <1>1
<1> HIDE DEF z
<1>5. z % s = 0
  <2>1. \A q \in Int, r \in 0 .. s - 1 : z = s * q + r => z % s = r
    BY <1>4, QuotientRemainder, Zenon
  <2> QED
    BY <1>1, <1>3, <2>1, Zenon
<1> QED
  BY <1>1, <1>2, <1>4, <1>5 DEF z

\* Two blocks that overlap by the code's test share an address.
LEMMA OverlapMeets ==
    ASSUME NEW a, NEW b, a.fam \in Families, b.fam \in Families,
           a.ip \in Nat, b.ip \in Nat,
           Span(a.fam, a.len) \in Nat \ {0}, Span(b.fam, b.len) \in Nat \ {0},
           Overlaps(a, b)
    PROVE  Addresses(a) \cap Addresses(b) # {}
<1> DEFINE S == Span(a.fam, a.len)
           T == Span(b.fam, b.len)
<1>0. /\ a.fam = b.fam
      /\ S \in Nat /\ S > 0 /\ T \in Nat /\ T > 0 /\ a.ip \in Nat /\ b.ip \in Nat
  BY DEF Overlaps
<1>1. Addresses(a) = a.ip .. a.ip + S - 1 /\ Addresses(b) = b.ip .. b.ip + T - 1
  BY DEF Addresses, LastIP
<1>3. CASE Contains(a, Mask(b.fam, b.ip, a.len))
  <2>1. (b.ip - (b.ip % S)) - ((b.ip - (b.ip % S)) % S) = a.ip
    BY <1>0, <1>3 DEF Contains, Mask
  <2>2. b.ip \in a.ip .. a.ip + S - 1
    <3> HIDE DEF S
    <3> QED BY <1>0, <2>1, MaskedTwice
  <2>3. b.ip \in Addresses(a) /\ b.ip \in Addresses(b)
    <3> HIDE DEF S, T
    <3> QED BY <1>0, <1>1, <2>2
  <2> QED
    BY <2>3
<1>4. CASE Contains(b, Mask(a.fam, a.ip, b.len))
  <2>1. (a.ip - (a.ip % T)) - ((a.ip - (a.ip % T)) % T) = b.ip
    BY <1>0, <1>4 DEF Contains, Mask
  <2>2. a.ip \in b.ip .. b.ip + T - 1
    <3> HIDE DEF T
    <3> QED BY <1>0, <2>1, MaskedTwice
  <2>3. a.ip \in Addresses(a) /\ a.ip \in Addresses(b)
    <3> HIDE DEF S, T
    <3> QED BY <1>0, <1>1, <2>2
  <2> QED
    BY <2>3
<1> QED
  BY <1>3, <1>4 DEF Overlaps

\* The code's overlap test is symmetric.
LEMMA OverlapsSymmetric == \A a, b : Overlaps(a, b) <=> Overlaps(b, a)
  BY Zenon DEF Overlaps

\* The addresses of a block are addresses of its range.
LEMMA BlockInside ==
    ASSUME NEW r, WellFormed(r), NEW k \in 0 .. MaxCIDRs(r) - 1
    PROVE  /\ Block(r, k) = [fam |-> r.cidr.fam, ip |-> Block(r, k).ip, len |-> r.mask]
           /\ Block(r, k).ip \in Nat
           /\ Block(r, k).ip = Span(r.cidr.fam, r.mask) * (Base(r) + k)
           /\ Addresses(Block(r, k)) \subseteq Addresses(r.cidr)
<1> DEFINE S == Span(r.cidr.fam, r.mask)
           W == Span(r.cidr.fam, r.cidr.len)
           M == MaxCIDRs(r)
           B == Block(r, k)
           i == r.cidr.ip
<1>1. S \in Nat \ {0} /\ W \in Nat \ {0} /\ M \in Nat \ {0} /\ W = M * S
  BY Spans
<1>2. i \in Nat /\ Base(r) \in Nat /\ i = S * Base(r) /\ k \in 0 .. M - 1
  BY BaseOf DEF WellFormed, IsCIDR
<1>3. B = [fam |-> r.cidr.fam, ip |-> i + k * S, len |-> r.mask]
  BY DEF Block
<1>4. Addresses(B) = (i + k * S) .. (i + k * S) + S - 1 /\ Addresses(r.cidr) = i .. i + W - 1
  BY <1>3 DEF Addresses, LastIP
<1>5. B.fam = r.cidr.fam /\ B.ip = i + k * S /\ B.len = r.mask
  BY <1>3
<1> HIDE DEF S, W, M, B, i
<1>6. (k + 1) * S <= M * S /\ k \in Nat
  BY <1>1, <1>2, TimesMonotonic
<1>7. k * S \in Nat /\ k * S + S <= W
  BY <1>1, <1>2, <1>6
<1>8. Addresses(B) \subseteq Addresses(r.cidr)
  <2> DEFINE j == k * S
  <2>1. Addresses(B) = i + j .. (i + j) + S - 1 /\ j \in Nat /\ j + S <= W
    BY <1>4, <1>7
  <2>2. S \in Nat /\ W \in Nat /\ i \in Nat
    BY <1>1, <1>2
  <2> HIDE DEF j
  <2> QED
    BY <1>4, <2>1, <2>2
<1>9. i + k * S = S * (Base(r) + k) /\ i + k * S \in Nat
  BY <1>1, <1>2, <1>7
<1> QED
  BY <1>3, <1>5, <1>8, <1>9 DEF B, S

\* The two-sided test on masked addresses, of getBeginningAndEndIndices, CIDROverlaps and
\* occupyServiceCIDR, is true exactly of CIDRs that share an address.
THEOREM OverlapTestExact ==
    ASSUME NEW a, NEW b, IsCIDR(a), IsCIDR(b)
    PROVE  Overlaps(a, b) <=> a.fam = b.fam /\ Addresses(a) \cap Addresses(b) # {}
<1>1. ASSUME Overlaps(a, b) PROVE a.fam = b.fam /\ Addresses(a) \cap Addresses(b) # {}
  BY <1>1, CIDRIs, OverlapMeets DEF Overlaps
<1>2. ASSUME a.fam = b.fam, NEW y \in Addresses(a) \cap Addresses(b) PROVE Overlaps(a, b)
  <2>1. a.len <= b.len \/ b.len <= a.len
    BY CIDRIs, AddrBitsAssumption
  <2>2. CASE a.len <= b.len
    BY <1>2, <2>2, CIDRsNest
  <2>3. CASE b.len <= a.len
    <3>1. y \in Addresses(b) \cap Addresses(a)
      OBVIOUS
    <3> QED
      BY <1>2, <2>3, <3>1, CIDRsNest, OverlapsSymmetric
  <2> QED
    BY <2>1, <2>2, <2>3
<1> QED
  BY <1>1, <1>2

\* A block of a range is a CIDR.
LEMMA BlockIsCIDR ==
    ASSUME NEW r, WellFormed(r), NEW k \in 0 .. MaxCIDRs(r) - 1
    PROVE  IsCIDR(Block(r, k)) /\ Block(r, k).fam = r.cidr.fam /\ Block(r, k).len = r.mask
<1> DEFINE B == Block(r, k)
           S == Span(r.cidr.fam, r.mask)
<1>1. /\ B = [fam |-> r.cidr.fam, ip |-> B.ip, len |-> r.mask] /\ B.ip \in Nat
      /\ B.ip = S * (Base(r) + k)
  BY BlockInside
<1>2. S \in Nat /\ S > 0 /\ Base(r) + k \in Int
  BY Spans, BaseOf
<1>3. r.cidr.fam \in Families /\ r.mask \in Nat /\ r.mask <= AddrBits[r.cidr.fam]
  BY AddrBitsAssumption DEF WellFormed, IsCIDR
<1> HIDE DEF B, S
<1>4. B.fam = r.cidr.fam /\ B.len = r.mask
  BY <1>1
<1>5. B.ip % S = 0
  <2>1. B.ip = S * (Base(r) + k) + 0 /\ 0 \in 0 .. S - 1
    BY <1>1, <1>2
  <2> QED
    BY <1>1, <1>2, <2>1, QuotientRemainder
<1>6. B \in [fam : Families, ip : Nat, len : Nat]
  BY <1>1, <1>3
<1> QED
  BY <1>3, <1>4, <1>5, <1>6 DEF IsCIDR, B, S

\* Cutting an address to the node mask does not change its index.
LEMMA IndexOf ==
    ASSUME NEW r, WellFormed(r), NEW x \in Nat, NEW f, f = r.cidr.fam
    PROVE  IndexForIP(r, Mask(f, x, r.mask)) = (x \div Span(f, r.mask)) - Base(r)
<1> DEFINE S == Span(r.cidr.fam, r.mask)
           z == x - (x % S)
<1>1. S \in Nat /\ S > 0
  BY Spans
<1>2. Mask(f, x, r.mask) = z /\ IndexForIP(r, z) = (z \div S) - Base(r)
  BY DEF Mask, IndexForIP, Base
<1> HIDE DEF S
<1>3. x \div S \in Int /\ x % S \in 0 .. S - 1 /\ x = S * (x \div S) + (x % S)
  BY <1>1, Division
<1>4. z = S * (x \div S) + 0 /\ 0 \in 0 .. S - 1
  BY <1>1, <1>3
<1>5. z \in Nat
  <2>1. 0 <= x \div S
    BY <1>1, Floor
  <2> QED
    BY <1>1, <1>3, <1>4, <2>1
<1>6. z \div S = x \div S
  <2> HIDE DEF z
  <2> QED
    BY <1>1, <1>3, <1>4, <1>5, QuotientRemainder
<1> QED
  BY <1>2, <1>6 DEF S

\* Occupy and Release run over exactly the blocks of a range that overlap the CIDR they
\* are given, and accept every CIDR that overlaps one.
THEOREM IndicesAreExact ==
    ASSUME NEW r, WellFormed(r), NEW v, IsCIDR(v), NEW k \in 0 .. MaxCIDRs(r) - 1
    PROVE  Overlaps(Block(r, k), v) <=> InRange(r, v) /\ k \in Indices(r, v)
<1> DEFINE f == r.cidr.fam
           S == Span(f, r.mask)
           W == Span(f, r.cidr.len)
           M == MaxCIDRs(r)
           B == Block(r, k)
           b == Base(r) + k
           Meets(x, y) == Addresses(x) \cap Addresses(y) # {}
<1>1. IsCIDR(r.cidr) /\ IsCIDR(B) /\ B.fam = f /\ B.len = r.mask
  BY BlockIsCIDR DEF WellFormed
<1>2. Addresses(B) \subseteq Addresses(r.cidr)
  BY BlockInside
<1>3. /\ Overlaps(B, v) <=> f = v.fam /\ Meets(B, v)
      /\ Overlaps(r.cidr, v) <=> f = v.fam /\ Meets(r.cidr, v)
  BY <1>1, OverlapTestExact
<1>4. CASE v.fam # f
  BY <1>3, <1>4 DEF InRange
<1>5. CASE v.fam = f /\ ~(r.cidr.len < v.len)
  <2>1. InRange(r, v) <=> Meets(r.cidr, v)
    BY <1>3, <1>5 DEF InRange
  <2>2. k \in Indices(r, v)
    BY <1>5 DEF Indices, BeginIndex, EndIndex
  <2>3. ASSUME NEW y \in Addresses(r.cidr) \cap Addresses(v) PROVE Meets(B, v)
    <3>1. v.len <= r.cidr.len /\ y \in Addresses(v) \cap Addresses(r.cidr)
      BY <1>1, <1>5 DEF IsCIDR
    <3>2. Addresses(r.cidr) \subseteq Addresses(v)
      BY <1>1, <1>5, <3>1, CIDRsNest
    <3>3. B.ip \in Addresses(B)
      BY <1>1, FirstAddress
    <3> QED
      BY <1>2, <3>2, <3>3
  <2>4. Meets(B, v) <=> Meets(r.cidr, v)
    BY <1>2, <2>3
  <2> QED
    BY <1>3, <1>5, <2>1, <2>2, <2>4
<1>6. CASE v.fam = f /\ r.cidr.len < v.len
  <2> DEFINE L == LastIP(v)
             from == v.ip \div S
             to == L \div S
             base == Base(r)
  <2>1. /\ S \in Nat /\ S > 0 /\ M \in Nat /\ M > 0 /\ W = M * S
        /\ base \in Nat /\ r.cidr.ip = S * base /\ k \in 0 .. M - 1
    BY Spans, BaseOf
  <2>2. /\ v.ip \in Nat /\ L \in Nat /\ v.ip <= L /\ Addresses(v) = v.ip .. L
        /\ Addresses(r.cidr) = r.cidr.ip .. r.cidr.ip + W - 1
    BY <1>1, CIDRIs DEF Addresses, LastIP
  <2>3. Addresses(B) = S * b .. S * b + S - 1
    BY <1>1, BlockInside, CIDRIs
  <2>4. BeginIndex(r, v) = from - base /\ EndIndex(r, v) = to - base
    BY <1>6, <2>2, IndexOf DEF BeginIndex, EndIndex
  <2> HIDE DEF S, W, M, L, base
  <2>5. from \in Int /\ to \in Int
    BY <2>1, <2>2, Division
  <2>6. from - base <= k <=> v.ip < S * b + S
    <3>1. base + k + 1 \in Int /\ S * (base + k + 1) = S * (base + k) + S
      BY <2>1
    <3>2. base + k + 1 <= from <=> S * (base + k + 1) <= v.ip
      BY <2>1, <2>2, <3>1, Floor
    <3>3. S * (base + k) \in Nat /\ b = base + k
      BY <2>1 DEF base
    <3> DEFINE z == S * (base + k)
               x == v.ip
    <3>4. S * b = z /\ z \in Nat /\ x \in Nat /\ (base + k + 1 <= from <=> z + S <= x)
      BY <2>2, <3>1, <3>2, <3>3
    <3> HIDE DEF from, b, z, x
    <3>5. from - base <= k <=> x < z + S
      BY <2>1, <2>5, <3>4
    <3> QED
      BY <3>4, <3>5 DEF x
  <2>7. k <= to - base <=> S * b <= L
    <3>1. base + k \in Int /\ b = base + k
      BY <2>1 DEF base
    <3>2. base + k <= to <=> S * (base + k) <= L
      BY <2>1, <2>2, <3>1, Floor
    <3> HIDE DEF to, b
    <3> QED
      BY <2>1, <2>5, <3>1, <3>2
  <2>8. k \in Indices(r, v) <=> Meets(B, v)
    <3>1. S * b \in Nat
      BY <2>1 DEF base
    <3>2. k \in Indices(r, v) <=> v.ip < S * b + S /\ S * b <= L
      <4> HIDE DEF from, to, b
      <4> QED
        BY <2>1, <2>4, <2>5, <2>6, <2>7 DEF Indices
    <3>3. Meets(B, v) <=> v.ip < S * b + S /\ S * b <= L
      <4> DEFINE z == S * b
      <4>1. z \in Nat /\ Addresses(B) = z .. z + S - 1
        BY <2>3, <3>1
      <4>2. ASSUME v.ip < z + S, z <= L PROVE Meets(B, v)
        <5>1. CASE v.ip <= z
          <6>1. z \in z .. z + S - 1 /\ z \in v.ip .. L
            BY <2>1, <2>2, <4>1, <4>2, <5>1
          <6> QED
            BY <2>2, <4>1, <6>1
        <5>2. CASE z <= v.ip
          <6>1. v.ip \in z .. z + S - 1 /\ v.ip \in v.ip .. L
            BY <2>1, <2>2, <4>1, <4>2, <5>2
          <6> QED
            BY <2>2, <4>1, <6>1
        <5> QED
          BY <2>2, <4>1, <5>1, <5>2
      <4>3. ASSUME NEW y \in Addresses(B) \cap Addresses(v) PROVE v.ip < z + S /\ z <= L
        <5>1. y \in z .. z + S - 1 /\ y \in v.ip .. L
          BY <2>2, <4>1
        <5> HIDE DEF z
        <5> QED
          BY <2>1, <2>2, <4>1, <5>1
      <4> QED
        BY <4>2, <4>3
    <3> QED
      BY <3>2, <3>3
  <2>9. ASSUME NEW y \in Addresses(B) \cap Addresses(v) PROVE InRange(r, v)
    <3>1. y \in Addresses(r.cidr) \cap Addresses(v)
      BY <1>2
    <3>2. Addresses(v) \subseteq Addresses(r.cidr) /\ Overlaps(r.cidr, v)
      <4>1. r.cidr.len <= v.len
        BY <1>1, <1>6 DEF IsCIDR
      <4> QED
        BY <1>1, <1>6, <3>1, <4>1, CIDRsNest
    <3>3. S * base <= v.ip /\ L < S * base + M * S
      BY <2>1, <2>2, <3>2
    <3>4. base <= from /\ base <= to /\ ~(base + M <= from) /\ ~(base + M <= to)
      <4>1. base \in Int /\ base + M \in Int /\ S * (base + M) = S * base + M * S
        BY <2>1
      <4>2. /\ base <= from <=> S * base <= v.ip
            /\ base <= to <=> S * base <= L
            /\ base + M <= from <=> S * (base + M) <= v.ip
            /\ base + M <= to <=> S * (base + M) <= L
        BY <2>1, <2>2, <4>1, Floor
      <4>3. S * base \in Nat /\ M * S \in Nat
        BY <2>1
      <4> HIDE DEF from, to
      <4> QED
        BY <2>1, <2>2, <3>3, <4>1, <4>2, <4>3
    <3> HIDE DEF from, to
    <3>5. from - base \in 0 .. M - 1 /\ to - base \in 0 .. M - 1
      BY <2>1, <2>5, <3>4
    <3> QED
      BY <2>4, <3>2, <3>5 DEF InRange, M
  <2> QED
    BY <1>3, <1>6, <2>8, <2>9
<1> QED
  BY <1>4, <1>5, <1>6

\* CIDRs of one size that overlap are the same.
LEMMA SameSize ==
    ASSUME NEW a, NEW b, IsCIDR(a), IsCIDR(b), a.len = b.len, Overlaps(a, b)
    PROVE  a = b
<1>1. a.fam = b.fam /\ Addresses(a) \cap Addresses(b) # {}
  BY OverlapTestExact
<1>2. a.len <= b.len /\ b.len <= a.len
  BY CIDRIs, AddrBitsAssumption
<1>3. Addresses(b) \subseteq Addresses(a) /\ Addresses(a) \subseteq Addresses(b)
  <2>1. PICK y : y \in Addresses(a) \cap Addresses(b) /\ y \in Addresses(b) \cap Addresses(a)
    BY <1>1
  <2> QED
    BY <1>1, <1>2, <2>1, CIDRsNest
<1>4. a.ip = b.ip
  <2>1. a.ip \in Addresses(b) /\ b.ip \in Addresses(a)
    BY <1>3, FirstAddress
  <2>2. /\ a.ip \in Nat /\ Span(a.fam, a.len) \in Nat /\ Addresses(a) = a.ip .. a.ip + Span(a.fam, a.len) - 1
        /\ b.ip \in Nat /\ Span(b.fam, b.len) \in Nat /\ Addresses(b) = b.ip .. b.ip + Span(b.fam, b.len) - 1
    BY CIDRIs
  <2> QED
    BY <2>1, <2>2
<1> QED
  BY <1>1, <1>4 DEF IsCIDR

\* A range accepts each of its blocks, and finds the block's own index.
LEMMA OwnBlock ==
    ASSUME NEW r, WellFormed(r), NEW k \in 0 .. MaxCIDRs(r) - 1
    PROVE  /\ InRange(r, Block(r, k))
           /\ Indices(r, Block(r, k)) = {k}
           /\ Overlaps(Block(r, k), Block(r, k))
<1> DEFINE B == Block(r, k)
           S == Span(r.cidr.fam, r.mask)
<1>1. IsCIDR(B) /\ B.len = r.mask /\ MaxCIDRs(r) \in Nat
  BY BlockIsCIDR, Spans
<1>2. Overlaps(B, B)
  BY <1>1, CIDRIs, OverlapTestExact
<1>3. InRange(r, B) /\ k \in Indices(r, B)
  BY <1>1, <1>2, IndicesAreExact
<1>4. ASSUME NEW j \in Indices(r, B) PROVE j = k
  <2>1. j \in 0 .. MaxCIDRs(r) - 1
    BY <1>1, <1>3 DEF InRange, Indices, BeginIndex, EndIndex
  <2>2. Block(r, j) = B
    BY <1>1, <1>3, <2>1, BlockIsCIDR, IndicesAreExact, SameSize
  <2>3. S * (Base(r) + j) = S * (Base(r) + k) /\ S \in Nat \ {0} /\ Base(r) \in Nat
    BY <2>1, <2>2, BlockInside, Spans, BaseOf
  <2> DEFINE x == Base(r) + j
             y == Base(r) + k
  <2>4. x \in Int /\ y \in Int /\ S * x = S * y /\ S * x \in Nat /\ S * x = S * x + 0
        /\ S * x = S * y + 0 /\ S \in Nat /\ S > 0 /\ 0 \in 0 .. S - 1
    BY <1>1, <2>1, <2>3
  <2> HIDE DEF x, y, S
  <2>5. x = (S * x) \div S /\ y = (S * x) \div S
    BY <2>4, QuotientRemainder
  <2> QED
    BY <1>1, <2>1, <2>3, <2>5 DEF x, y
<1> QED
  BY <1>2, <1>3, <1>4

\* A range that is cut into blocks of the same size and accepts a block of
\* another range has that very block, and finds its index.
LEMMA SharedBlock ==
    ASSUME NEW r, WellFormed(r), NEW t, WellFormed(t),
           r.cidr.fam = t.cidr.fam, r.mask = t.mask,
           NEW k \in 0 .. MaxCIDRs(t) - 1, InRange(r, Block(t, k))
    PROVE  \E j \in 0 .. MaxCIDRs(r) - 1 :
              Indices(r, Block(t, k)) = {j} /\ Block(r, j) = Block(t, k)
<1> DEFINE B == Block(t, k)
           S == Span(r.cidr.fam, r.mask)
           W == Span(r.cidr.fam, r.cidr.len)
           M == MaxCIDRs(r)
           base == Base(r)
           b == Base(t) + k
<1>1. IsCIDR(r.cidr) /\ IsCIDR(B) /\ B.fam = r.cidr.fam /\ B.len = r.mask /\ B.ip = S * b
  BY BlockIsCIDR, BlockInside DEF WellFormed
<1>2. Overlaps(r.cidr, B)
  BY DEF InRange
<1>3. B.ip \in Addresses(r.cidr)
  <2>1. r.cidr.len <= B.len /\ r.cidr.fam = B.fam /\ Addresses(r.cidr) \cap Addresses(B) # {}
    BY <1>1, <1>2, OverlapTestExact, AddrBitsAssumption DEF WellFormed, IsCIDR
  <2>2. B.ip \in Addresses(B)
    BY <1>1, CIDRIs
  <2> QED
    BY <1>1, <2>1, <2>2, CIDRsNest
<1>4. /\ S \in Nat /\ S > 0 /\ M \in Nat /\ W = M * S /\ base \in Nat /\ r.cidr.ip = S * base
      /\ b \in Nat /\ Addresses(r.cidr) = r.cidr.ip .. r.cidr.ip + W - 1
  <2>1. S \in Nat \ {0} /\ M \in Nat \ {0} /\ W = M * S
    BY Spans
  <2>2. base \in Nat /\ r.cidr.ip = S * base /\ Base(t) \in Nat
    BY BaseOf
  <2>3. Addresses(r.cidr) = r.cidr.ip .. r.cidr.ip + W - 1
    BY <1>1, CIDRIs
  <2>4. b \in Nat
    BY <2>2
  <2> HIDE DEF S, W, M, base, b
  <2> QED
    BY <2>1, <2>2, <2>3, <2>4
<1> HIDE DEF S, W, M, base, b, B
<1>5. S * base <= S * b /\ S * b < S * (base + M)
  BY <1>1, <1>3, <1>4
<1>6. b - base \in 0 .. M - 1
  <2>1. S * b \in Nat /\ base \in Int /\ base + M \in Int /\ b \in Int
    BY <1>4
  <2>2. S * b = S * b + 0 /\ 0 \in 0 .. S - 1
    BY <1>4, <2>1
  <2>3. (S * b) \div S = b
    BY <1>4, <2>1, <2>2, QuotientRemainder
  <2>4. base <= b /\ ~(base + M <= b)
    BY <1>4, <1>5, <2>1, <2>3, Floor
  <2> QED
    BY <1>4, <2>4
<1>7. Block(r, b - base) = B
  <2>1. base + (b - base) = b
    BY <1>4
  <2>2. /\ Block(r, b - base) = [fam |-> r.cidr.fam, ip |-> Block(r, b - base).ip, len |-> r.mask]
        /\ Block(r, b - base).ip = S * (base + (b - base))
    BY <1>6, BlockInside DEF S, M, base
  <2>3. B = [fam |-> r.cidr.fam, ip |-> B.ip, len |-> r.mask]
    BY BlockInside DEF B
  <2> QED
    BY <1>1, <2>1, <2>2, <2>3
<1> QED
  BY <1>6, <1>7, OwnBlock DEF B, M

\* A range that accepts a block of another range shares addresses with it.
LEMMA AcceptedMeets ==
    ASSUME NEW r, WellFormed(r), NEW t, WellFormed(t),
           NEW k \in 0 .. MaxCIDRs(t) - 1, InRange(r, Block(t, k))
    PROVE  Addresses(r.cidr) \cap Addresses(t.cidr) # {}
<1>1. IsCIDR(r.cidr) /\ IsCIDR(Block(t, k)) /\ Overlaps(r.cidr, Block(t, k))
  BY BlockIsCIDR DEF WellFormed, InRange
<1> QED
  BY <1>1, BlockInside, OverlapTestExact

-----------------------------------------------------------------------------
(***************************************************************************)
(* Lists.                                                                  *)
(***************************************************************************)
\* A list names finitely many ClusterCIDRs.
LEMMA ElementsFinite ==
    ASSUME NEW S, NEW s \in Seq(S)
    PROVE  IsFiniteSet(Elements(s)) /\ Elements(s) \subseteq S
<1>1. Len(s) \in Nat /\ s \in [1 .. Len(s) -> S] /\ DOMAIN s = 1 .. Len(s)
  OBVIOUS
<1> USE <1>1
<1>2. s \in Surjection(1 .. Len(s), Elements(s))
  BY DEF Elements, Surjection
<1>3. IsFiniteSet(1 .. Len(s))
  BY FS_Interval
<1> QED
  BY <1>2, <1>3, FS_Surjection DEF Elements

\* An arrangement of a finite set is a sequence of exactly its members.
LEMMA ArrangementIsSeq ==
    ASSUME NEW S, IsFiniteSet(S), NEW s \in Arrangements(S)
    PROVE  s \in Seq(S) /\ Elements(s) = S
<1>1. Cardinality(S) \in Nat
  BY FS_CardinalityType
<1>2. s \in [1 .. Cardinality(S) -> S] /\ Elements(s) = S
  BY DEF Arrangements
<1> QED
  BY <1>1, <1>2

\* A concatenation lists what both of its parts list.
LEMMA ElementsOfConcat ==
    ASSUME NEW S, NEW s \in Seq(S), NEW t \in Seq(S)
    PROVE  s \o t \in Seq(S) /\ Elements(s \o t) = Elements(s) \cup Elements(t)
<1> DEFINE u == s \o t
<1>1. /\ u \in Seq(S) /\ Len(u) = Len(s) + Len(t)
      /\ \A k \in 1 .. Len(s) + Len(t) : u[k] = IF k <= Len(s) THEN s[k] ELSE t[k - Len(s)]
  OBVIOUS
<1> USE <1>1
<1>2. /\ Len(s) \in Nat /\ DOMAIN s = 1 .. Len(s)
      /\ Len(t) \in Nat /\ DOMAIN t = 1 .. Len(t)
      /\ DOMAIN u = 1 .. Len(u)
  OBVIOUS
<1> USE <1>2
<1> HIDE DEF u
<1>3. ASSUME NEW k \in DOMAIN u PROVE u[k] \in Elements(s) \cup Elements(t)
  <2>1. CASE k <= Len(s)
    BY <1>3, <2>1 DEF Elements
  <2>2. CASE k > Len(s)
    <3>1. k - Len(s) \in DOMAIN t /\ u[k] = t[k - Len(s)]
      BY <1>3, <2>2
    <3> QED
      BY <3>1 DEF Elements
  <2> QED
    BY <2>1, <2>2
<1>4. ASSUME NEW k \in DOMAIN s PROVE s[k] \in Elements(u)
  <2>1. k \in DOMAIN u /\ u[k] = s[k]
    BY <1>4
  <2> QED
    BY <2>1 DEF Elements
<1>5. ASSUME NEW k \in DOMAIN t PROVE t[k] \in Elements(u)
  <2>1. k + Len(s) \in DOMAIN u /\ u[k + Len(s)] = t[k]
    BY <1>5
  <2> QED
    BY <2>1 DEF Elements
<1>6. Elements(u) = Elements(s) \cup Elements(t)
  BY <1>3, <1>4, <1>5 DEF Elements
<1> QED
  BY <1>6 DEF u

\* A sequence, of whatever members.
IsList(s) == Len(s) \in Nat /\ DOMAIN s = 1 .. Len(s)

\* A sequence is a list: its domain starts at 1 and ends at its length.
LEMMA SeqIsList ==
    ASSUME NEW S, NEW s \in Seq(S)
    PROVE  IsList(s)
  BY DEF IsList

\* Appending a new element keeps a list without repetitions.
LEMMA AppendIs ==
    ASSUME NEW S, NEW s \in Seq(S), \A j, k \in DOMAIN s : s[j] = s[k] => j = k,
           NEW x \in S, x \notin Elements(s)
    PROVE  /\ Append(s, x) \in Seq(S)
           /\ \A j, k \in DOMAIN Append(s, x) : Append(s, x)[j] = Append(s, x)[k] => j = k
           /\ Elements(Append(s, x)) = Elements(s) \cup {x}
<1> DEFINE t == Append(s, x)
           L == Len(s)
<1>1. /\ t \in Seq(S) /\ Len(t) = L + 1 /\ t[L + 1] = x
      /\ \A i \in 1 .. L : t[i] = s[i]
  OBVIOUS
<1> USE <1>1
<1>2. L \in Nat /\ DOMAIN s = 1 .. L /\ DOMAIN t = 1 .. L + 1
  OBVIOUS
<1> USE <1>2
<1> HIDE DEF t, L
<1>3. \A k \in 1 .. L : t[k] = s[k] /\ s[k] # x /\ k \in DOMAIN s /\ k \in DOMAIN t
  BY DEF Elements
<1> USE <1>3
<1>4. \A j, k \in DOMAIN t : t[j] = t[k] => j = k
  OBVIOUS
<1>5. L + 1 \in DOMAIN t
  OBVIOUS
<1>6. ASSUME NEW k \in DOMAIN t PROVE t[k] \in Elements(s) \cup {x}
  <2>1. k = L + 1 \/ k \in 1 .. L
    BY <1>6
  <2> QED
    BY <2>1 DEF Elements
<1>7. Elements(t) = Elements(s) \cup {x}
  BY <1>5, <1>6 DEF Elements
<1> QED
  BY <1>4, <1>7, Zenon DEF t

\* t is s, a list of length L without repetitions, without its p-th element.
Skips(s, L, p, t) ==
    /\ DOMAIN s = 1 .. L /\ \A j, k \in 1 .. L : s[j] = s[k] => j = k
    /\ DOMAIN t = 1 .. L - 1
    /\ \A k \in 1 .. L - 1 : t[k] = IF k < p THEN s[k] ELSE s[k + 1]

\* Leaving out one position of a list without repetitions leaves out one element.
LEMMA SkipOne ==
    ASSUME NEW L \in Nat, NEW p \in 1 .. L, NEW s, NEW t, Skips(s, L, p, t)
    PROVE  /\ \A j, k \in DOMAIN t : t[j] = t[k] => j = k
           /\ Elements(t) = Elements(s) \ {s[p]}
<1> USE DEF Skips
<1>1. \A j, k \in DOMAIN t : t[j] = t[k] => j = k
  OBVIOUS
<1>2. ASSUME NEW k \in DOMAIN t PROVE t[k] \in Elements(s) /\ t[k] # s[p]
  <2>1. PICK i \in 1 .. L : i # p /\ t[k] = s[i]
    <3>1. CASE k < p
      BY <3>1
    <3>2. CASE ~(k < p)
      <4>1. k + 1 \in 1 .. L /\ k + 1 # p /\ t[k] = s[k + 1]
        BY <3>2
      <4> QED
        BY <4>1
    <3> QED
      BY <3>1, <3>2
  <2> QED
    BY <2>1 DEF Elements
<1>3. ASSUME NEW k \in DOMAIN s, s[k] # s[p] PROVE s[k] \in Elements(t)
  <2>1. CASE k < p
    <3>1. k \in DOMAIN t /\ t[k] = s[k]
      BY <2>1
    <3> QED
      BY <3>1 DEF Elements
  <2>2. CASE k > p
    <3> DEFINE i == k - 1
    <3>1. i \in DOMAIN t /\ i + 1 = k /\ ~(i < p)
      BY <2>2
    <3> HIDE DEF i
    <3>2. t[i] = s[k]
      BY <3>1
    <3> QED
      BY <3>1, <3>2 DEF Elements
  <2> QED
    BY <1>3, <2>1, <2>2
<1> QED
  BY <1>1, <1>2, <1>3 DEF Elements

\* The two pieces deleteClusterCIDR joins lack exactly the deleted ClusterCIDR.
LEMMA RemoveAt ==
    ASSUME NEW S, NEW s \in Seq(S), \A j, k \in DOMAIN s : s[j] = s[k] => j = k,
           NEW p \in DOMAIN s
    PROVE  LET t == SubSeq(s, 1, p - 1) \o SubSeq(s, p + 1, Len(s))
           IN  /\ t \in Seq(S)
               /\ \A j, k \in DOMAIN t : t[j] = t[k] => j = k
               /\ Elements(t) = Elements(s) \ {s[p]}
<1> DEFINE L == Len(s)
           q == p - 1
           r == p + 1
           u == SubSeq(s, 1, q)
           v == SubSeq(s, r, L)
           t == u \o v
<1>1. L \in Nat /\ DOMAIN s = 1 .. L /\ p \in 1 .. L /\ \A i \in 1 .. L : s[i] \in S
  OBVIOUS
<1>2. q \in Int /\ r \in Int /\ q + 1 = p /\ r = p + 1
  BY <1>1
<1> HIDE DEF L, q, r
<1>3. u \in Seq(S) /\ Len(u) = q /\ \A i \in 1 .. q : u[i] = s[i]
  <2>1. \A i \in 1 .. q : s[i] \in S
    BY <1>1, <1>2
  <2>2. /\ u \in Seq(S) /\ Len(u) = (IF 1 <= q THEN q - 1 + 1 ELSE 0)
        /\ \A i \in 1 .. q - 1 + 1 : u[i] = s[1 + i - 1]
    BY <1>2, <2>1
  <2> HIDE DEF u
  <2> QED
    BY <1>1, <1>2, <2>2
<1>4. v \in Seq(S) /\ Len(v) = L - p /\ \A i \in 1 .. L - p : v[i] = s[p + i]
  <2>1. \A i \in r .. L : s[i] \in S
    BY <1>1, <1>2
  <2>2. /\ v \in Seq(S) /\ Len(v) = (IF r <= L THEN L - r + 1 ELSE 0)
        /\ \A i \in 1 .. L - r + 1 : v[i] = s[r + i - 1]
    BY <1>1, <1>2, <2>1
  <2> HIDE DEF v
  <2>3. Len(v) = L - p
    BY <1>1, <1>2, <2>2
  <2>4. ASSUME NEW i \in 1 .. L - p PROVE v[i] = s[p + i]
    <3>1. L - r + 1 = L - p
      BY <1>1, <1>2
    <3>2. r + i - 1 = p + i
      BY <1>1, <1>2
    <3>3. v[i] = s[r + i - 1]
      BY <2>2, <3>1, Zenon
    <3> QED
      BY <3>2, <3>3, Zenon
  <2> QED
    BY <2>2, <2>3, <2>4
<1> HIDE DEF u, v
<1>5. /\ t \in Seq(S) /\ Len(t) = Len(u) + Len(v)
      /\ \A k \in 1 .. Len(u) + Len(v) : t[k] = IF k <= Len(u) THEN u[k] ELSE v[k - Len(u)]
  <2>1. u \in Seq(S) /\ v \in Seq(S)
    BY <1>3, <1>4
  <2> QED
    BY <2>1
<1> HIDE DEF t
<1>6. DOMAIN t = 1 .. L - 1
  <2>1. DOMAIN t = 1 .. Len(t)
    BY <1>5
  <2>2. Len(t) = L - 1
    BY <1>1, <1>2, <1>3, <1>4, <1>5
  <2> QED
    BY <2>1, <2>2
<1>7. ASSUME NEW k \in 1 .. L - 1 PROVE t[k] = IF k < p THEN s[k] ELSE s[k + 1]
  <2>1. t[k] = IF k <= q THEN u[k] ELSE v[k - q]
    <3>1. k \in 1 .. Len(u) + Len(v) /\ Len(u) = q
      BY <1>1, <1>2, <1>3, <1>4
    <3> QED
      BY <1>5, <3>1, Zenon
  <2>2. CASE k < p
    BY <1>1, <1>2, <1>3, <2>1, <2>2
  <2>3. CASE ~(k < p)
    <3> DEFINE i == k - q
    <3>1. i \in 1 .. L - p /\ p + i = k + 1 /\ ~(k <= q)
      BY <1>1, <1>2, <2>3
    <3>2. t[k] = v[i]
      BY <2>1, <3>1
    <3> HIDE DEF i
    <3>3. v[i] = s[k + 1]
      BY <1>4, <3>1
    <3> QED
      BY <2>3, <3>2, <3>3
  <2> QED
    BY <2>2, <2>3
<1>8. (\A j, k \in DOMAIN t : t[j] = t[k] => j = k) /\ Elements(t) = Elements(s) \ {s[p]}
  <2>1. \A j, k \in 1 .. L : s[j] = s[k] => j = k
    BY <1>1
  <2>2. \A k \in 1 .. L - 1 : t[k] = IF k < p THEN s[k] ELSE s[k + 1]
    BY <1>7
  <2>3. Skips(s, L, p, t)
    BY <1>1, <1>6, <2>1, <2>2 DEF Skips
  <2> QED
    BY <1>1, <2>3, SkipOne
<1> QED
  BY <1>5, <1>8, Zenon DEF t, u, v, q, r, L

-----------------------------------------------------------------------------
(***************************************************************************)
(* Sets.                                                                   *)
(***************************************************************************)
\* The blocks getBeginningAndEndIndices names for a CIDR inside the range are blocks
\* of the range.
LEMMA IndicesInside ==
    ASSUME NEW r, MaxCIDRs(r) \in Nat, NEW cidr, InRange(r, cidr)
    PROVE  Indices(r, cidr) \subseteq 0 .. MaxCIDRs(r) - 1
<1> DEFINE M == MaxCIDRs(r)
           x == BeginIndex(r, cidr)
           y == EndIndex(r, cidr)
<1>1. CASE r.cidr.len < cidr.len
  <2>1. x \in 0 .. M - 1 /\ y \in 0 .. M - 1 /\ M \in Nat
    BY <1>1 DEF InRange
  <2> HIDE DEF M, x, y
  <2>2. x .. y \subseteq 0 .. M - 1
    BY <2>1
  <2> QED
    BY <2>2 DEF Indices, M, x, y
<1>2. CASE ~(r.cidr.len < cidr.len)
  <2>1. x = 0 /\ y = M - 1
    BY <1>2 DEF BeginIndex, EndIndex
  <2> HIDE DEF M, x, y
  <2>2. x .. y = 0 .. M - 1
    BY <2>1
  <2> QED
    BY <2>2, Zenon DEF Indices, M, x, y
<1> QED
  BY <1>1, <1>2

\* There are no more marks than blocks.
LEMMA SetFinite ==
    ASSUME NEW r, MaxCIDRs(r) \in Nat, NEW S, S \subseteq 0 .. MaxCIDRs(r) - 1
    PROVE  IsFiniteSet(S) /\ Cardinality(S) \in 0 .. MaxCIDRs(r)
<1> DEFINE M == MaxCIDRs(r)
<1>1. IsFiniteSet(0 .. M - 1) /\ Cardinality(0 .. M - 1) = M
  <2>1. M - 1 \in Int /\ 0 \in Int
    OBVIOUS
  <2>2. /\ IsFiniteSet(0 .. M - 1)
        /\ Cardinality(0 .. M - 1) = IF 0 > M - 1 THEN 0 ELSE M - 1 - 0 + 1
    BY <2>1, FS_Interval, Zenon
  <2> HIDE DEF M
  <2> QED
    BY <2>2 DEF M
<1>2. IsFiniteSet(S) /\ Cardinality(S) <= M
  BY <1>1, FS_Subset, Zenon
<1>3. Cardinality(S) \in Nat
  BY <1>2, FS_CardinalityType
<1> QED
  BY <1>2, <1>3

\* NewMultiCIDRSet makes a set of its range.
LEMMA NewIsSet ==
    ASSUME NEW r, MaxCIDRs(r) \in Nat
    PROVE  IsSet(r, NewSet)
  BY FS_EmptySet DEF IsSet, NewSet

\* Occupy keeps the count exact, whichever of the blocks were marked before.
LEMMA OccupyKeeps ==
    ASSUME NEW r, MaxCIDRs(r) \in Nat, NEW s, IsSet(r, s),
           NEW B, B \subseteq 0 .. MaxCIDRs(r) - 1
    PROVE  IsSet(r, OccupyIndices(s, B))
<1> DEFINE A == s.alloc
           D == B \ A
<1>1. A \subseteq 0 .. MaxCIDRs(r) - 1 /\ s.count = Cardinality(A) /\ s.next \in 0 .. MaxCIDRs(r)
  BY DEF IsSet
<1>2. IsFiniteSet(A) /\ IsFiniteSet(D)
  BY <1>1, SetFinite, Zenon
<1>3. A \cup B = A \cup D /\ A \cap D = {}
  OBVIOUS
<1>4. Cardinality(A) \in Nat /\ Cardinality(D) \in Nat
  BY <1>2, FS_CardinalityType
<1>5. Cardinality(A \cup B) = Cardinality(A) + Cardinality(D)
  <2>1. Cardinality(A \cup D) = Cardinality(A) + Cardinality(D) - Cardinality(A \cap D)
    BY <1>2, FS_Union
  <2>2. Cardinality(A \cap D) = 0
    BY <1>3, FS_EmptySet, Zenon
  <2> HIDE DEF A, D
  <2> QED
    BY <1>3, <1>4, <2>1, <2>2
<1> QED
  BY <1>1, <1>5 DEF IsSet, OccupyIndices

\* Release keeps the count exact, whichever of the blocks were marked.
LEMMA ReleaseKeeps ==
    ASSUME NEW r, MaxCIDRs(r) \in Nat, NEW s, IsSet(r, s), NEW B
    PROVE  IsSet(r, ReleaseIndices(s, B))
<1>1. /\ s.alloc \subseteq 0 .. MaxCIDRs(r) - 1 /\ s.count = Cardinality(s.alloc)
      /\ s.next \in 0 .. MaxCIDRs(r)
  BY DEF IsSet
<1>2. IsFiniteSet(s.alloc)
  BY <1>1, SetFinite
<1>3. Cardinality(s.alloc \ B) = Cardinality(s.alloc) - Cardinality(B \cap s.alloc)
  <2>1. B \cap s.alloc = s.alloc \cap B
    OBVIOUS
  <2>2. Cardinality(s.alloc \ B) = Cardinality(s.alloc) - Cardinality(s.alloc \cap B)
    BY <1>2, FS_Difference
  <2> QED
    BY <2>1, <2>2, Zenon
<1> QED
  BY <1>1, <1>3 DEF IsSet, ReleaseIndices

\* allocateCIDR marks one block that is neither marked nor ruled out.
LEMMA AllocateKeeps ==
    ASSUME NEW r, MaxCIDRs(r) \in Nat, NEW s, IsSet(r, s), NEW taken,
           CanAllocate(MaxCIDRs(r), s, taken)
    PROVE  LET i == AllocatedIndex(MaxCIDRs(r), s, taken)
               t == Allocate(MaxCIDRs(r), s, taken)
           IN  /\ i \in 0 .. MaxCIDRs(r) - 1 /\ i \notin taken /\ i \notin s.alloc
               /\ IsSet(r, t)
<1> DEFINE M == MaxCIDRs(r)
           G == GoodOffsets(M, s, taken)
           i == AllocatedIndex(M, s, taken)
           A == s.alloc
<1>1. A \subseteq 0 .. M - 1 /\ s.count = Cardinality(A) /\ s.next \in 0 .. M
  BY DEF IsSet
<1> USE <1>1
<1>2. G # {} /\ G \subseteq 0 .. M - 1
  BY DEF CanAllocate, GoodOffsets, FreeOffsets
<1> USE <1>2
<1>3. Least(G) \in G
  <2>1. G \in SUBSET Nat
    OBVIOUS
  <2> HIDE DEF G
  <2> QED
    BY <2>1, LeastExists
<1> USE <1>3
<1>4. i \notin taken /\ i \notin A
  BY Zenon DEF AllocatedIndex, GoodOffsets, FreeOffsets
<1> USE <1>4
<1>5. M \in Nat /\ M > 0
  <2>1. M \in Nat /\ Least(G) \in 0 .. M - 1
    OBVIOUS
  <2> HIDE DEF G, M
  <2> QED
    BY <2>1
<1> USE <1>5
<1>6. i \in 0 .. M - 1 /\ (i + 1) % M \in 0 .. M - 1
  <2> DEFINE x == s.next + Least(G)
  <2>1. x \in Nat /\ i = x % M
    <3>1. Least(G) \in Nat
      OBVIOUS
    <3> QED
      BY <3>1 DEF AllocatedIndex
  <2> HIDE DEF x, G, M, i
  <2>2. i \in 0 .. M - 1
    BY <2>1
  <2>3. i + 1 \in Nat
    BY <2>2
  <2> DEFINE y == i + 1
  <2> HIDE DEF y
  <2>4. y % M \in 0 .. M - 1
    BY <2>3 DEF y
  <2> QED
    BY <2>2, <2>4 DEF y
<1>7. IsFiniteSet(A) /\ Cardinality(A) \in Nat
  BY SetFinite, FS_CardinalityType
<1>8. Cardinality(A \cup {i}) = Cardinality(A) + 1
  BY <1>7, FS_AddElement, Zenon
<1>9. Allocate(M, s, taken) = [alloc |-> A \cup {i}, count |-> s.count + 1, next |-> (i + 1) % M]
  BY DEF Allocate
<1>10. (i + 1) % M \in 0 .. M
  <2> HIDE DEF i, M
  <2> QED
    BY <1>6
<1> HIDE DEF i
<1> QED
  BY <1>6, <1>8, <1>9, <1>10 DEF IsSet, i

\* A scan that finds nothing changes no mark.
LEMMA AllocateFailedKeeps ==
    ASSUME NEW r, MaxCIDRs(r) \in Nat, NEW s, IsSet(r, s)
    PROVE  LET t == AllocateFailed(MaxCIDRs(r), s)
           IN  IsSet(r, t) /\ t.alloc = s.alloc
<1> DEFINE M == MaxCIDRs(r)
           F == FreeOffsets(M, s)
           t == AllocateFailed(M, s)
           x == s.next + Least(F) + 1
           stays == s.count = M \/ F = {} \/ M - 1 \in F
<1>1. s.alloc \subseteq 0 .. M - 1 /\ s.count = Cardinality(s.alloc) /\ s.next \in 0 .. M
  BY DEF IsSet
<1> USE <1>1
<1>2. s = [alloc |-> s.alloc, count |-> s.count, next |-> s.next]
  BY DEF IsSet
<1>3. t = [s EXCEPT !.next = IF stays THEN s.next ELSE x % M]
  BY DEF AllocateFailed
<1>4. t = [alloc |-> s.alloc, count |-> s.count, next |-> IF stays THEN s.next ELSE x % M]
  <2> HIDE DEF t, stays, x, F, M
  <2> QED
    BY <1>2, <1>3
<1>5. CASE stays
  BY <1>4, <1>5 DEF IsSet
<1>6. CASE ~stays
  <2>1. F # {} /\ F \subseteq 0 .. M - 1
    BY <1>6 DEF FreeOffsets
  <2> USE <2>1
  <2>2. Least(F) \in F
    <3>1. F \in SUBSET Nat
      OBVIOUS
    <3> HIDE DEF F
    <3> QED
      BY <3>1, LeastExists
  <2>3. M \in Nat /\ M > 0
    <3>1. M \in Nat /\ Least(F) \in 0 .. M - 1
      BY <2>2
    <3> HIDE DEF F, M
    <3> QED
      BY <3>1
  <2>4. Least(F) \in Nat
    BY <2>2
  <2>5. x \in Nat
    <3> HIDE DEF F, M
    <3> QED
      BY <2>3, <2>4
  <2>6. x % M \in 0 .. M
    <3> HIDE DEF x, M
    <3> QED
      BY <2>3, <2>5
  <2>7. t = [alloc |-> s.alloc, count |-> s.count, next |-> x % M]
    BY <1>4, <1>6
  <2> HIDE DEF x, t
  <2> QED
    BY <2>6, <2>7 DEF IsSet, t
<1> QED
  BY <1>5, <1>6
=============================================================================
