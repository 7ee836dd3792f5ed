----------------------------- MODULE Validation -----------------------------
(***************************************************************************)
(* Which ClusterCIDR specs the API accepts, which ones pass the validation *)
(* package, what the allocator makes of them, and the one it writes itself.*)
(*                                                                         *)
(* A spec is [ipv4, ipv6, hostBits, selectors]: ipv4 and ipv6 are Unset,   *)
(* Garbage (text that is no CIDR) or the CIDR they parse to, of either     *)
(* family; selectors holds the nodeSelector, if there is one.  This is the *)
(* sequence of its terms, each with its matchExpressions and matchFields.  *)
(* A requirement has a key, an operator and values.  These are of five     *)
(* kinds: a "number" and a "word" are label values and may be names of     *)
(* nodes; a "Word" with capitals is a label value and no name of a node; a *)
(* "longName" (64 to 253 characters) may be the name of a node and is no   *)
(* label value; "text" is neither.                                         *)
(***************************************************************************)
EXTENDS ClusterCIDRs

CONSTANT MinPerNodeHostBits     \* minPerNodeHostBits, 4 in the program

ASSUME MinAssumption == MinPerNodeHostBits \in Nat

\* What the functions are given: a spec, the terms of a selector or flags, under that
\* name.
VARIABLE input

Given(name) == IF name \in DOMAIN input THEN {input[name]} ELSE {}

LabelValues == {"number", "word", "Word"}

DNSSubdomains == {"number", "word", "longName"}

Unset == [fam |-> "unset"]

Garbage == [fam |-> "garbage"]

Field(spec, fam) == IF fam = "v4" THEN spec.ipv4 ELSE spec.ipv6

Specified(spec) == {fam \in Families : Field(spec, fam) # Unset}

Parses(spec, fam) == Field(spec, fam) # Garbage

\* The rules of the CustomResourceDefinition on a ClusterCIDRSpec.
Admitted(spec) ==
    /\ Specified(spec) # {}
    /\ \A fam \in Specified(spec) : Parses(spec, fam) /\ Field(spec, fam).fam = fam

\* Mutant of ValidateCIDRConfig: no upper limit.
ValidateCIDRConfigUnlimited(spec, fam) ==
    /\ Parses(spec, fam)
    /\ Field(spec, fam).fam = fam
    /\ spec.hostBits >= MinPerNodeHostBits

ValidateCIDRConfig(spec, fam) ==
    /\ Parses(spec, fam)
    /\ Field(spec, fam).fam = fam
    /\ spec.hostBits >= MinPerNodeHostBits
    /\ spec.hostBits <= AddrBits[fam] - Field(spec, fam).len

\* Mutant of ValidateNodeSelectorRequirement: Exists may have values.
ValidateNodeSelectorRequirementLax(req) ==
    /\ \/ req.operator \in {"In", "NotIn"} /\ Len(req.values) > 0
       \/ req.operator \in {"Exists", "DoesNotExist"}
       \/ req.operator \in {"Gt", "Lt"} /\ Len(req.values) = 1
    /\ req.key # "noLabelName"

ValidateNodeSelectorRequirement(req) ==
    /\ \/ req.operator \in {"In", "NotIn"} /\ Len(req.values) > 0
       \/ req.operator \in {"Exists", "DoesNotExist"} /\ Len(req.values) = 0
       \/ req.operator \in {"Gt", "Lt"} /\ Len(req.values) = 1
    /\ req.key # "noLabelName"

ValidateNodeFieldSelectorRequirement(req) ==
    /\ req.operator \in {"In", "NotIn"} /\ Len(req.values) = 1
    /\ req.key = "metadata.name"
    /\ Elements(req.values) \subseteq DNSSubdomains

ValidateNodeSelector(terms) ==
    /\ terms # <<>>
    /\ \A term \in Elements(terms) :
         /\ \A req \in term.matchExpressions : ValidateNodeSelectorRequirement(req)
         /\ \A req \in term.matchFields : ValidateNodeFieldSelectorRequirement(req)

ValidateClusterCIDRSpec(spec) ==
    /\ \A terms \in spec.selectors : ValidateNodeSelector(terms)
    /\ Specified(spec) # {}
    /\ \A fam \in Specified(spec) : ValidateCIDRConfig(spec, fam)

-----------------------------------------------------------------------------
\* labels.NewRequirement.
NewRequirement(req) ==
    /\ \/ req.operator \in {"In", "NotIn"} /\ Len(req.values) > 0
       \/ req.operator \in {"Exists", "DoesNotExist"} /\ Len(req.values) = 0
       \/ req.operator \in {"Gt", "Lt"} /\ req.values = <<"number">>
    /\ req.key # "noLabelName"
    /\ Elements(req.values) \subseteq LabelValues

\* nodeSelectorAsSelector: the requirements of all terms, fields included, in
\* one selector, for which all of them must hold.
Requirements(terms) ==
    UNION {term.matchExpressions \cup term.matchFields : term \in Elements(terms)}

\* nodeSelectorKey returns no error.
HasKey(spec) ==
    \A terms \in spec.selectors : \A req \in Requirements(terms) : NewRequirement(req)

\* createClusterCIDRSet: the range of a field, of whatever family it is.
RangeFor(spec, fam) == NewRange(Field(spec, fam), spec.hostBits)

TooBig(spec) ==
    \E fam \in Specified(spec) : Parses(spec, fam) /\ SubNetTooBig(RangeFor(spec, fam))

\* createClusterCIDR gets as far as mapClusterCIDRSet.
Mappable(spec) ==
    /\ HasKey(spec)
    /\ \A fam \in Specified(spec) : Parses(spec, fam)
    /\ ~TooBig(spec)
    /\ Specified(spec) # {}

-----------------------------------------------------------------------------
(***************************************************************************)
(* createDefaultClusterCIDR, from the --cluster-cidr and node mask flags:  *)
(* a sequence of CIDRs, each with its node mask.                           *)
(***************************************************************************)
HostBits(flag) == AddrBits[flag.cidr.fam] - flag.mask

LastOf(flags, S) == flags[CHOOSE i \in S : \A j \in S : j <= i]

FlagsOf(flags, fam) == {i \in DOMAIN flags : flags[i].cidr.fam = fam}

\* A later CIDR of a family replaces an earlier one.  Without one the bits are fewer
\* than any (math.MinInt32).
FlagBits(flags, fam) ==
    IF FlagsOf(flags, fam) = {} THEN -1 ELSE HostBits(LastOf(flags, FlagsOf(flags, fam)))

\* Mutant of DefaultHostBits: two CIDRs get the larger value.
DefaultHostBitsLarger(flags) ==
    LET bits == {HostBits(flags[i]) : i \in DOMAIN flags} IN
    CHOOSE b \in bits : \A c \in bits : b >= c

DefaultHostBits(flags) ==
    IF Len(flags) = 2
      THEN LET v4Bits == FlagBits(flags, "v4")
               v6Bits == FlagBits(flags, "v6")
           IN  IF v4Bits >= MinPerNodeHostBits /\ v4Bits <= v6Bits THEN v4Bits
               ELSE IF v6Bits >= MinPerNodeHostBits /\ v6Bits <= AddrBits.v4 THEN v6Bits
               ELSE MinPerNodeHostBits
      ELSE LET more == {i \in DOMAIN flags : HostBits(flags[i]) > MinPerNodeHostBits} IN
           IF more = {} THEN MinPerNodeHostBits ELSE HostBits(LastOf(flags, more))

DefaultCIDR(flags, fam) ==
    IF FlagsOf(flags, fam) = {} THEN Unset ELSE LastOf(flags, FlagsOf(flags, fam)).cidr

DefaultSpecOf(flags) ==
    [ipv4 |-> DefaultCIDR(flags, "v4"), ipv6 |-> DefaultCIDR(flags, "v6"),
     hostBits |-> DefaultHostBits(flags), selectors |-> {}]

-----------------------------------------------------------------------------
(***************************************************************************)
(* What may be given, and what is shown of it.                             *)
(***************************************************************************)
IsText(text) == text \in {Unset, Garbage} \/ IsCIDR(text)

\* The values are label values, and Gt and Lt have a number to compare with.  The
\* validation asks for neither.
Convertible(terms) ==
    \A req \in Requirements(terms) :
        /\ Elements(req.values) \subseteq LabelValues
        /\ req.operator \in {"Gt", "Lt"} => req.values = <<"number">>

IsSpec(spec) ==
    /\ IsText(spec.ipv4) /\ IsText(spec.ipv6) /\ spec.hostBits \in Int
    /\ \A terms \in spec.selectors : Convertible(terms)

\* One CIDR or two, also two of one family, with node masks at or beyond their prefix
\* that leave at least the smallest number of host bits.
IsFlag(flag) ==
    /\ IsCIDR(flag.cidr)
    /\ flag.mask \in flag.cidr.len .. AddrBits[flag.cidr.fam] - MinPerNodeHostBits

IsFlags(flags) ==
    /\ DOMAIN flags = 1 .. Len(flags) /\ Len(flags) \in {1, 2}
    /\ \A i \in DOMAIN flags : IsFlag(flags[i])

\* What passes the validation package is admitted by the API and can be mapped,
\* unless NewMultiCIDRSet finds it too big: every family it names has at least
\* one block, and all blocks lie in the range it names.
ValidSpecsUsable ==
    \A spec \in Given("spec") : ValidateClusterCIDRSpec(spec) =>
        /\ Admitted(spec)
        /\ Mappable(spec) \/ TooBig(spec)
        /\ \A fam \in Specified(spec) :
             LET r == RangeFor(spec, fam) IN
             /\ MaxCIDRs(r) > 0
             /\ LastIP(Block(r, MaxCIDRs(r) - 1)) = LastIP(Field(spec, fam))

\* What becomes of a node selector that passes ValidateNodeSelector: nodeSelectorKey
\* returns a key for it exactly if all its values are label values and Gt and Lt
\* compare with a number.  So the two sets of rules agree on everything else, and
\* a selector of a long node name, of a value that is no label value or of Gt and
\* a word passes the validation, and createClusterCIDR never maps its ClusterCIDR.
ValidSelectorsConvert ==
    \A terms \in Given("terms") : ValidateNodeSelector(terms) =>
        (Convertible(terms) <=> \A req \in Requirements(terms) : NewRequirement(req))

\* The default ClusterCIDR of createDefaultClusterCIDR passes validation although
\* its two families share one perNodeHostBits and the flags have a mask for each,
\* and although two CIDRs of one family count as dual-stack.
DefaultIsValid == \A flags \in Given("flags") : ValidateClusterCIDRSpec(DefaultSpecOf(flags))
=============================================================================
