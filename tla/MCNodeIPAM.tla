----------------------------- MODULE MCNodeIPAM -----------------------------
(* Small clusters: a three-bit address space with node blocks of one or two *)
(* addresses.                                                               *)
EXTENDS NodeIPAM, TLC

MCAddrBits == [v4 |-> 3, v6 |-> 3]
WideAddrBits == [v4 |-> 3, v6 |-> 5]

V4(ip, len) == [fam |-> "v4", ip |-> ip, len |-> len]
V6(ip, len) == [fam |-> "v6", ip |-> ip, len |-> len]

Selected(reqs, rank, cidrs, label, hostBits) ==
    [reqs |-> reqs, default |-> FALSE, selRank |-> rank, cidrs |-> cidrs,
     label |-> label, hostBits |-> hostBits]

CatchAll(cidrs, label, hostBits) ==
    [Selected({"default"}, 9, cidrs, label, hostBits) EXCEPT !.default = TRUE]

\* A selected range of two blocks, and one for the default ClusterCIDR.
LifeSpecs == [c1 |-> Selected({"a"}, 1, [v4 |-> V4(0, 2)], 1, 0),
              c2 |-> CatchAll([v4 |-> V4(0, 2)], 1, 0)]

\* A catch-all range of two blocks.
DefaultSpec == [c1 |-> CatchAll([v4 |-> V4(0, 2)], 1, 0)]

\* A selected range of four blocks, two of them service addresses; a catch-all
\* range that is one of the others; and an IPv6 catch-all range that is too big
\* when ClusterSubnetMaxDiff is 0.
SharedSpecs == [c1 |-> Selected({"a"}, 1, [v4 |-> V4(0, 1)], 1, 0),
                c2 |-> CatchAll([v4 |-> V4(0, 3)], 2, 0),
                c3 |-> CatchAll([v6 |-> V6(0, 2)], 3, 0)]

\* A dual-stack range with two IPv4 blocks and one IPv6 block, and an IPv4
\* catch-all range.
MixedSpecs == [c1 |-> Selected({"a"}, 1, [v4 |-> V4(0, 2), v6 |-> V6(0, 3)], 1, 0),
               c2 |-> CatchAll([v4 |-> V4(4, 3)], 2, 0)]

\* Two selected ranges of two blocks: an IPv4 range with blocks of one address
\* and an IPv6 range with blocks of two, whose mask is longer.
FamiliesSpecs == [c1 |-> Selected({"a"}, 1, [v4 |-> V4(0, 2)], 1, 0),
                  c2 |-> Selected({"a"}, 1, [v6 |-> V6(0, 3)], 2, 1)]

\* An IPv6 block that is in no range, assigned by someone else.
OtherCIDRs == {<<V6(1, 3)>>}

\* Service addresses: half of c1's in SharedSpecs; and IPv6 ones.
SharedServices == {V4(2, 2)}
MixedServices == {V6(4, 2)}

NodeSymmetry == Permutations(Nodes)

-----------------------------------------------------------------------------
\* Everything in env happens without limit, or the kinds in limited at most
\* left times altogether.
Scenario(env, limited, left) ==
    [env |-> env, limited |-> limited, left |-> left, nodes |-> Nodes, ccs |-> CCNames]

Unlimited(env) == Scenario(env, {}, 0)

With(names, scenario) == [scenario EXCEPT !.ccs = names]

\* Nodes and the ClusterCIDR come and go four times, with requests that fail
\* when there is one node; or nodes come, also while the process starts,
\* requests may fail, and three times a node goes or the process stops; or the
\* process has a default ClusterCIDR, which users may create as well; or nodes
\* are deleted gracefully, with resyncs before their objects go.
LifeScenarios ==
    LET objects == {"createNode", "deleteNode", "createCC", "deleteCC"}
        restarts == {"createNode", "crash", "startupOps", "apiError"}
        changes(env) == With({"c1"}, Scenario(env, objects, 4))
    IN  {changes(objects),
         With({"c1"}, Scenario(restarts \cup {"deleteNode"}, {"deleteNode", "crash"}, 3)),
         With({"c2"}, Unlimited(restarts \cup {"createCC", "defaultCC"})),
         With({"c1"}, Scenario({"createNode", "gracefulDelete", "deleteNode", "resync"},
                               {"createNode", "gracefulDelete", "deleteNode"}, 3))}
        \cup {[changes(objects \cup {"apiError"}) EXCEPT !.nodes = {n}] : n \in Nodes}

\* Two nodes that come, go and change twice, with nested ranges; or three
\* nodes for the two blocks beside the service addresses, whose patches may
\* time out, without deletions.
SharedScenarios ==
    LET changes == {"createNode", "deleteNode"}
        late == {"createNode", "resync", "crash", "startupOps", "serverTimeout", "serviceRange"}
    IN  {[Scenario(changes \cup {"serviceRange"}, changes, 2) EXCEPT !.nodes = pair, !.ccs = {"c1", "c2"}] :
            pair \in {S \in SUBSET Nodes : Cardinality(S) = 2}}
        \cup {With({"c1", "c3"}, Unlimited(late))}

\* Everything twice; or an IPv6 service range beside an IPv4 ClusterCIDR.
MixedScenarios ==
    {Scenario(EnvKinds \ {"resync", "apiError", "serverTimeout", "serviceRange", "defaultCC"},
              {"createNode", "deleteNode", "gracefulDelete", "relabel",
               "createCC", "deleteCC", "crash"}, 2),
     Unlimited({"createNode", "startupOps", "serviceRange"})}

\* The ClusterCIDR is a user's; or it is the default one, for one node.
ProgressScenarios ==
    LET Progress(kind) ==
            Scenario({"createNode", "startupOps", "apiError", "crash", kind}, {"crash"}, 1)
    IN  {Progress("createCC"),
         [Progress("defaultCC") EXCEPT !.nodes = {CHOOSE n \in Nodes : TRUE}]}

-----------------------------------------------------------------------------
\* Instances that show where the program does not do what is said of it.
TerminatingDefault == {With({"c2"}, Unlimited({"createNode", "deleteCC"}))}

RestartWhileDeleting ==
    {With({"c1"}, Scenario({"createNode", "deleteCC", "crash"}, {"crash"}, 1))}

InDoubtPatch == {With({"c1"}, Unlimited({"createNode", "connectionLost"}))}

StuckDeletion ==
    LET changes == {"createNode", "deleteNode", "deleteCC"} IN
    {With({"c1"}, Scenario(changes, changes, 2))}

TwoFamilies == {Unlimited({"createNode"})}
=============================================================================
