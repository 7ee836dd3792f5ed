# A TLA+ model of the node IPAM controller

The controller gives every Kubernetes node one pod CIDR block per IP family of a
`ClusterCIDR` that selects the node. This directory models the controller's own
code (`pkg/controller/ipam`, `main.go`, leader election, validation), checks it with
TLC on small clusters, and proves facts about its parts with TLAPS for ranges, inputs
and numbers of processes of every size.

## 1. Inventory

| Part | State it keeps | Operations | What makes it correct |
|---|---|---|---|
| `MultiCIDRSet` (`multicidrset/multi_cidr_set.go`) | `allocatedCIDRMap`, `allocatedCIDRs`, `nextCandidate`; the range is immutable | `Occupy`, `Release`, `NextCandidate`, `CIDRAllocated`, `CIDROverlaps` and the index arithmetic | blocks of a range are disjoint; the counter is exact; a scan tries every block once |
| Priority queue (`multi_cidr_priority_queue.go`) | a heap for the time of one call | `Less`, `Push`, `Pop` | the documented order P0–P4 |
| Range allocator (`multi_cidr_range_allocator.go`) | `cidrMap`: per ClusterCIDR two sets, `AssociatedNodes`, `Terminating`; two work queues; `lock` | node and ClusterCIDR workers, informer handlers, bootstrap, allocation with patch and retry | no two nodes share addresses; a ClusterCIDR in use is not deleted; every node gets CIDRs while there are some |
| Process start (`main.go`) | none | list the nodes, construct the allocator, start informers, run | what was lost with the old process is rebuilt before the first allocation |
| Leader election (`pkg/leaderelection`, `pkg/signals`) | a lease | start the controller with a term, end the process after it | what one leader assigned, the next one knows |
| Validation (`pkg/apis/.../validation`) | none | pure checks of a ClusterCIDR, called from tests | what it accepts, `NewMultiCIDRSet` accepts; which selectors it accepts that the allocator cannot use is known |
| Generated clients, metrics, health server | – | – | – |

How they interact: users and kubelets change `Node` and `ClusterCIDR` objects in
the API server. Informers copy the objects into listers, later, and put their
names into the queues; a deleted node is handed to `handleNodeDelete`. Workers
take a name, read the lister, and then wait for `lock`, under which they change
`cidrMap` and call the API server: `PatchNodeCIDRs` for a node, an update of the
finalizer for a ClusterCIDR.

What makes this hard: the object a worker read is old by the time it has the lock;
the lister is old as well; a patch that failed may have been applied; a handler
may run twice for one node; the process may stop at any step, and everything but
the API server's objects is lost; ClusterCIDRs may overlap, may lack a family,
may be deleted while in use. The list with source lines is under `hazards` in
`PROJECT.json`.

## 2. Modules

```
CIDR ── CIDRSet ──┬─ CIDRArith ────────────────────┐
  │               ├─ MultiCIDRSet ─────────────────┼─ MCAlgorithms
  │               │    └─ MultiCIDRSetProofs (also extends Validation)
  │               └─ ClusterCIDRs ─┬─ PriorityQueue┤
  │                                ├─ Validation ──┘
  │      KubeAPI ──────────────────┴─ RangeAllocator ── NodeIPAM ── MCNodeIPAM
  └─ PodCIDRs                           ▲ implemented by NodeIPAM

ClusterCIDRs ── CIDRProofs

LeaderElection ──┬─ LeaderElectionProofs
                 └─ MCLeaderElection
```

`MC*.tla` give the constants their values, and every `.cfg` is one question.
MCAlgorithms also has the inputs of the pure functions (CIDRArith, PriorityQueue,
Validation) and the properties of their results: beside the calls on a set, its
variable `input` takes one input at a time.

**CIDR** – a block is a family, an address (a number below `2^AddrBits[family]`)
and a prefix length; masks and containment as in package `net`.

**CIDRSet** – the methods of `MultiCIDRSet` in closed form: a function from the
state of a set to the state after the call. The string keys of `allocatedCIDRMap`
are replaced by block indices.

**CIDRArith** – `indexToCIDRBlock`, `getIndexForIP` and the end address in
`getBeginningAndEndIndices` with shifts, ors and exclusive ors on words, IPv6 in
two halves, compared with CIDRSet's sums and remainders over all ranges and
indices of a small address space.

**MultiCIDRSet** – the same set with its loops: one action per iteration of
`Occupy`, `Release`, `NextCandidate` and `allocateCIDR`. It justifies the closed
forms, which the larger model then uses.

**ClusterCIDRs** – the spec of each ClusterCIDR, the priority order, and
`orderedMatchingClusterCIDRs`. `HeapOrders` has every order a heap may hand out:
equal items come in the order of a Go map iteration. A node's labels are the set
of selector requirements they satisfy.

**PriorityQueue** – that heap itself: `container/heap`'s sifting on an array, with
the allocator's `Less`, one push per ClusterCIDR and one pop per result. `HeapSorts`
shows that over all orders of arrival it produces exactly `HeapOrders`.

**Validation** – a ClusterCIDR spec as users write it (text that may not be a CIDR
or be one of the other family, any number of host bits, node selectors), the CRD's
rules, the validation package, what `createClusterCIDR` makes of it, and the spec
that `createDefaultClusterCIDR` derives from flags. Keys and values of a selector are
given by what the rules tell apart: a number, a label value, a DNS name that is too
long for a label value, any other text.

**KubeAPI** – external: the objects, finalizers, generation, and informers with
per-object order. `nodeCache`/`ccCache` are the listers, `tomb` a deletion on its
way (first it leaves the lister, then the handler is called). `scene` is the
scenario of a behaviour, chosen at its start from `Scenarios` and fixed apart from
its count: `env` lists the kinds of events that happen, those in `limited` at most
`left` times altogether, with the given `nodes` and `ccs`. One run covers several
scenarios.

**RangeAllocator** – the allocator. A queue never hands one key to two workers,
so a worker is known by its key: `nodeSnap[n]` and `ccSnap[c]` hold what it read
from the lister. `lock` is the frame of the handler that holds `r.lock`.

| Action | Code |
|---|---|
| `SyncNode`, `SyncClusterCIDR` | take a key, read the lister |
| `ReleaseDeletingNode`, `HandleNodeDelete` | `ReleaseCIDR` from `syncNode` and from the informer |
| `AllocateOrOccupyCIDR`, then `OccupyCIDRs` or `PrioritizedCIDRs`, one ClusterCIDR at a time | `occupyCIDRs`, `prioritizedCIDRs` with `allocateCIDR` |
| `UpdateCIDRsAllocation`, `PatchNodeCIDRs`, `PatchNodeCIDRsFails` | `updateCIDRsAllocation`: the second look at the lister, each patch attempt, the release after the last |
| `ReconcileCreate`, `ReconcileDelete` | the same, with the API update at their end |
| `ListNodes`, `ListClusterCIDRs` (with the default ClusterCIDR), `ReconcileBootstrap`, `OccupyListedNodes` (after `FilterOutServiceRange`), `Run` | `runControllers` and the constructor |
| `Crash`, `Restart` | the process stops; a panic ends it too |

**NodeIPAM** – all of it together, the fairness, and the properties.

**PodCIDRs** – the promise, over `Node.Spec.PodCIDRs` alone: a node without CIDRs
gets one list of blocks, apart from what other nodes have, and keeps it until it
is deleted: `Disappear` is the only step that takes podCIDRs away. `KeepsPromise`
says that NodeIPAM implements it, with the nodes in the API server that have no
deletion timestamp as `live`, and their podCIDRs.

**LeaderElection** – several processes, their lease, and as much of the allocator
as a handover can disturb: it lists the nodes once (`ListNodes`), reserves a block
(`Reserve`), patches a node and occupies what its informer shows (`Occupy`). A patch
takes up to `Retries` attempts. One is acknowledged (`Patch`), or it fails
(`PatchFails`): refused or lost, applied without an answer, or still under way; after
the last the block is released unless the error is a server timeout. A process that
stops leading (`GiveUp`) gives the lease back first and ends later (`Exit`). One that
was paused for longer than the lease loses it and goes on (`Seize`). A patch that is
under way may arrive after its process has ended or was told that it failed
(`orphans`, `Arrive`). `loose` remembers the nodes patched by a process after another
acquired the lease, or by such a request, and those whose block was released although
the patch had been applied.

Abstractions a reader should know of:

* Steps of a handler that touch only the allocator's memory are not interleaved
  with others (`Computing`): nobody else reads that memory without `r.lock`, and
  the lister read in `updateCIDRsAllocation` may come late or early anyway,
  because informer events are free to happen before the lock is taken. While a
  patch is under way everything else may happen.
* A node with a deletion timestamp no longer counts as a holder of its CIDRs in
  `Held`: the controller frees them as soon as it sees the timestamp.
* An informer event changes the lister and the queue in one step. For deletions
  the two are apart, since the handler there waits for the lock.
* A ClusterCIDR name always has the same spec; specs are immutable. An update
  carries the version of the object that was read; an object deleted and created
  anew in the same state counts as the same version, so such an update may
  succeed in the model (and may fail, with `apiError`).
* Initially the cluster is any set of nodes without CIDRs and of new
  ClusterCIDRs, and nodes of another controller where `foreignNode` is in `Env`.
* `main.go` passes empty `CIDRAllocatorParams`, so service ranges and the default
  ClusterCIDR (kinds `serviceRange`, `defaultCC`) concern other callers of the
  constructor.
* In LeaderElection a block is a value that overlaps with no other, and
  ClusterCIDRs do not come and go: that is NodeIPAM's subject. A process gives up
  before others may take the lease: at most `RetryPeriod + RenewDeadline` (12s by
  default) after its last renewal, while others wait `LeaseDuration` (15s). The
  exceptions are the processes in `Paused`, which stand for a process that was
  stopped in between and for flags without that margin.
* Rate limits and back-off are time, which is left out: a failed key is simply
  in the queue again.

## 3. Runs

Address spaces have three bits (four and six for the set and its arithmetic),
blocks one address or two: enough for ranges of one to four blocks, for nested
ranges and for exhaustion. Two nodes are needed for an overlap, three for two of
them to compete for the last block. `CidrUpdateRetries` is 2, the least value
with a first and a last attempt that differ. `SYMMETRY` permutes nodes in runs
without liveness. Deadlock is not checked in the NodeIPAM runs: a controller with
empty queues and nothing to report rests.

| Run | Instance | Checked |
|---|---|---|
| `algorithms` | ranges with 4, 2, 1 and 0 blocks, every CIDR as input, every set of blocks ruled out by other ranges; every range over 4-bit IPv4 and 6-bit IPv6 addresses; up to five ClusterCIDRs in a queue, in every order; specs, selectors with every kind of value, and one or two flags over that address space | `TypeOK`, `CountExact`, `LoopsMeetClosedForm`, `AllocateMeetsClosedForm`, `CallsReturn` (the set's loops); `BlocksExact`, `IndicesExact`, `OverlapsExact` (its arithmetic); `HeapSorts`; `ValidSpecsUsable`, `ValidSelectorsConvert`, `DefaultIsValid` |
| `life` | 2 nodes. They and their ClusterCIDR are created and deleted, four such events in all, also (1 node) with requests that fail; or nodes are created, also during the start, with requests that fail, and nodes are deleted or the process crashes, at any step, three times in all; or the process creates the default ClusterCIDR, in a race with users and crashes; or nodes get a deletion timestamp, with resyncs, and are deleted and created, three such events in all | `Accounted`, `DeletedOnlyUnused`, `NotFromTerminating`, `ReleasedOnDelete`, `KeepsPromise` |
| `shared` | 2 nodes with a range nested in another, created and deleted twice; or 3 nodes for the 2 blocks beside the service addresses, server timeouts with the patch applied or not, crashes, resyncs, and a ClusterCIDR that is too big to be mapped. Both with service addresses | `NoOverlap`, `HeldMarked`, `ServiceRangeKept`, `KeepsPromise`, `ReservationsSettled` |
| `mixed` | 1 node; a dual-stack range and an IPv4 catch-all, a node of another controller, relabelling, reused names, both kinds of deletion, deletion of ClusterCIDRs, lost connections, crashes, two such changes in all; or an IPv6 service range beside the IPv4 ClusterCIDR | `TypeOK`, `WholeOffers` |
| `progress` | 2 nodes, failing requests, a crash, the ClusterCIDR created by a user or (1 node) by the process; `FairSpec` | `NoLeak`, `EventuallyAssigned` |
| `leader_election` | 2 processes, one of which may be paused, 2 nodes, 2 blocks, 2 attempts, and one patch that may stray (`Stray`); `FairSpec` | `OverlapExplained`, `HandoverInv`, `AllServed` |

The properties of arithmetic, queue and validation are about one call: TLC evaluates
them for every value that `input` takes.

Validation and the conversion of selectors do not agree, and `ValidSelectorsConvert`
says where: of the selectors that `ValidateNodeSelector` passes, exactly those are
accepted by `nodeSelectorAsSelector` whose values are label values, and numbers for
`Gt` and `Lt`. The others (a node name of more than 63 characters, say) never get a
key in `cidrMap`.

Two properties are about lost blocks. `NoLeak` (every mark is some node's) holds in
`progress`, where nodes stay and no patch ends in a server timeout.
`ReservationsSettled` holds without that restriction and names the leaks: what a
handler reserves becomes the node's podCIDRs or is free again, except when the node is
gone from the lister in `updateCIDRsAllocation`, which returns without a release, and
after a server timeout, where a comment accepts the leak.

`OverlapExplained` does not say that nodes never share a block: after an attempt that
was applied but not acknowledged the code releases the block (`in_doubt_patch` below),
and a process that no longer leads may still patch. It says that there is no third way,
whatever the order of handovers.

`KeepsPromise` includes `NoOverlap`: PodCIDRs only assigns blocks that are apart
from all others. The events of the disagreements below, and of the hazards with a
note in `PROJECT.json`, stay out of the runs whose properties they break: timeouts
are not combined with deletions, and relabelling, lost connections, catch-all
ClusterCIDRs under deletion and nodes of another controller occur in no passing run
but `mixed`.

**Disagreements between code and what the repository says of it.** Each has a run
that must find the property violated; `findings` in `PROJECT.json` quotes both
sides.

| Run | Property | What happens |
|---|---|---|
| `terminating_default` | `NotFromTerminating` | a terminating catch-all ClusterCIDR is still allocated from |
| `restart_while_deleting` | `DeletedOnlyUnused` | after a restart a ClusterCIDR under deletion has no associated nodes and is removed while in use |
| `in_doubt_patch` | `NoOverlap` | an applied patch whose answer was lost is treated as failed; its block goes to another node |
| `stuck_deletion` | `DeletionCompletes` | a late worker occupies a deleted node again; its ClusterCIDR is never removed |
| `fewer_ips` | `FewerIPsFirst` | an IPv6 mask is compared with an IPv4 mask; the larger blocks come first |
| `handover` | `OneActive` | the lease is given back before the process ends; two allocators work side by side |

Five more behaviours are part of the model and listed under `hazards`, without a
run of their own: the first CIDR of a node stays marked in a ClusterCIDR that
refuses the second; an IPv6 CIDR offered to an IPv4-only ClusterCIDR ends the
process (`mixed` goes through that and the restart after it); a failed dual-stack
attempt leaves its IPv4 block marked; a ClusterCIDR created for nodes that already
have CIDRs may give one of their blocks away before they are processed; a
relabelled node is not released when it is deleted.

### Fairness

`FairSpec` assumes that goroutines run and queues hand out every key. Workers and
handlers wait for `r.lock`; `sync.Mutex` goes to the longest waiter once that has
waited for a millisecond, so a handler that is enabled again and again gets its
turn: strong fairness for what needs the lock. Informer events need no lock, but
the model holds them up while a handler computes, so theirs is strong as well.
Patches: one that could succeed infinitely often does so once; an API server that
refuses every patch is excluded. Users are under no obligation. In `MultiCIDRSet`
weak fairness of the steps of a call that is in progress is all there is.

LeaderElection's `FairSpec` asks for a little more than scheduling: `Stable` says
that at some time the terms of leaders stop ending, without which nothing can be
promised to a node. Processes are restarted, leases expire, a process that finds
another's name in the lease gives up, and requests end. The allocator's own steps
compete for its lock, hence strong fairness for `Reserve` and `Occupy`, and the API
server does not fail every patch. `AllServed` allows one thing: that a block is lost
after a server timeout, which leaves too few.

## 4. Proofs

| Theorem | States | Argument |
|---|---|---|
| `MultiCIDRSetProofs!TypeCorrect` | `[](TypeOK /\ Frame)` | `Frame` adds what the loops know: `last` is an index (or -1 for a set without blocks), a scan runs only on a set with blocks, a candidate that was offered is not allocated |
| `MultiCIDRSetProofs!CountIsExact` | `[]CountExact` | inductive together with `TypeOK /\ Frame`; every step adds or removes at most one index, with the cardinality lemmas of finite sets |
| `MultiCIDRSetProofs!LoopsCorrect` | `[]LoopsMeetClosedForm` | the loop invariant `Progress`: the blocks from `first` to `i - 1`, and no others, have been dealt with |
| `MultiCIDRSetProofs!AllocateCorrect` | `[]AllocateMeetsClosedForm` | the invariant `Scanned`, in places counted from the `nextCandidate` the call began with: every place below `evaluated` is in use or ruled out, and `next` and `cand` are `evaluated` places on, modulo `Max`. `evaluated` may pass `Max`, when the last scan runs over the place where the call began; then `Scanned` knows that it found only blocks in use there, which gives the `nextCandidate` a failed call leaves |
| `MultiCIDRSetProofs!SpecsAreUsable` | `ValidSpecsUsable` | `2^(mask-len) * 2^hostBits = 2^(width-len)`: the blocks of a range that passes fill it |
| `MultiCIDRSetProofs!SelectorsConvert` | `ValidSelectorsConvert` | requirement by requirement (`RequirementConverts`), over terms and fields, in both directions |
| `MultiCIDRSetProofs!DefaultsAreValid` | `DefaultIsValid` | the choice of `createDefaultClusterCIDR`, case by case: it is at least the minimum and at most what either flag leaves |
| `LeaderElectionProofs!HandoverInvariant` | `[]HandoverInv` | inductive together with `OverlapExplained`, one lemma for each group of actions. The point is an attempt that is applied: the block is one that the leader has marked, and no other node has it but a loose one. A failed attempt that was applied makes its node loose in the step that releases the block |
| `LeaderElectionProofs!OverlapsExplained` | `[]OverlapExplained` | from the same induction. Alone it is not inductive: it takes that the last to acquire the lease has marked every block of a node that is not loose, and that its pending block is free |
| `CIDRProofs!OverlapTestExact` | the code's test for overlap is true of exactly the CIDRs that share an address | the arithmetic of aligned intervals; what `OverlapsExact` checks for small widths |
| `CIDRProofs!IndicesAreExact` | `Occupy` and `Release` run over exactly the blocks that overlap the CIDR they get | an address is in the block whose index is its quotient; with `CIDRArith` (checked by TLC) this is what `IndicesExact` says |

They hold for every address width, every set of ranges with a natural number of
blocks (`RangesAssumption`), every input (specs and flags of the kind `IsSpec` and
`IsFlags` describe, `minPerNodeHostBits` a natural number), any number of processes,
nodes and blocks (`NoneAssumption` only says that `None` is none of them) and of
attempts (`RetriesAssumption`: at least one). `PowersAssumption` says
`2^(m+n) = 2^m * 2^n` up to the address width: true, but the provers know no law of
exponentiation. TLC evaluates all of them in the runs.

Only model-checked: everything about NodeIPAM, so far; liveness (`CallsReturn`,
`EventuallyAssigned`, `AllServed`), which is out of the prover's reach under fairness;
`BlocksExact` and `IndicesExact` of CIDRArith, which uses bit operators the prover does
not know, and `OverlapsExact` in the form it has beside them; `HeapSorts`, since
PriorityQueue is recursive.

## 5. Not modelled

Metrics, event recording, generated clients, flags and the health server: they
change no state that a decision reads. Validation of object metadata and of updates
(a comparison of fields). Parsing errors of `podCIDRs` strings: the API server
validates them. The lookup of identity and namespace in `lockID` and
`lockNamespace`: two processes with one identity are outside of what the election
promises. Node selectors in the allocator's model are the set of requirements a
node satisfies; how terms are joined is the subject of a TODO in the code.

## 6. Plan

Left for later: properties for the hazards that have only a note, once the
intended behaviour is settled (a ClusterCIDR left mapped after its object is gone,
relabelling, nodes of another controller); an inductive invariant of NodeIPAM
without the events of section 3's disagreements, with `Accounted` and "allocated
blocks of different owners are apart" as its core.
