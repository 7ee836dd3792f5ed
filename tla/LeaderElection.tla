--------------------------- MODULE LeaderElection ---------------------------
(***************************************************************************)
(* Several node IPAM processes, of which the holder of a Lease runs the    *)
(* allocator (StartLeaderElection, main, runControllers).  Of the          *)
(* allocator only what a handover can disturb is kept: it lists the nodes  *)
(* once, reserves blocks under its lock, and patches nodes one at a time.  *)
(*                                                                         *)
(* A process that stops leading gives the lease back first and exits       *)
(* later; in between its workers are not stopped.  A patch that is under   *)
(* way may reach the API server after its process has exited, or has been  *)
(* told that it failed.                                                    *)
(***************************************************************************)
EXTENDS Naturals

CONSTANTS
    Processes,  \* identities: POD_NAME or --leader-elect-id
    Paused,     \* the processes that may be stopped for longer than LeaseDuration
    Nodes,
    Blocks,     \* blocks of the ClusterCIDR, none of which overlap
    None,
    Retries,    \* cidrUpdateRetries, 3 in the program
    Stray       \* bound: the patches that may be under way without anyone waiting

ASSUME NoneAssumption == None \notin Processes /\ None \notin Blocks

ASSUME RetriesAssumption == Retries \in Nat \ {0}

VARIABLES
    lease,      \* the holder in the Lease object, None when it is free or has expired
    role,       \* where each process is in StartLeaderElection
    running,    \* runControllers is past the constructor in this process
    taken,      \* the blocks its allocator has marked
    seen,       \* the nodes its lister shows with podCIDRs
    request,    \* the patch its allocator is waiting for, and the failed attempts
    orphans,    \* patches under way that nobody waits for
    podCIDR,    \* Spec.PodCIDRs of each node
    leader,     \* history: the process that acquired the lease last
    loose       \* history: nodes patched by another process or by an orphan, and
                \* nodes that have a block their process has released

vars == <<lease, role, running, taken, seen, request, orphans, podCIDR, leader, loose>>

Patches == [node : Nodes, block : Blocks]

Requests == [node : Nodes, block : Blocks, tries : 0 .. Retries - 1]

NoRequest == [node |-> None, block |-> None, tries |-> 0]

Assigned == {n \in Nodes : podCIDR[n] # None}

Init ==
    /\ lease = None
    /\ role = [p \in Processes |-> "candidate"]
    /\ running = [p \in Processes |-> FALSE]
    /\ taken = [p \in Processes |-> {}] /\ seen = [p \in Processes |-> {}]
    /\ request = [p \in Processes |-> NoRequest]
    /\ orphans = {}
    /\ podCIDR = [n \in Nodes |-> None]
    /\ leader = None /\ loose = {}

-----------------------------------------------------------------------------
(***************************************************************************)
(* RunOrDie and main.                                                      *)
(***************************************************************************)
allocatorVars == <<running, taken, seen, request, orphans, podCIDR, loose>>

\* A candidate writes its name into the lease, and starts to lead.
Take(p) ==
    /\ role[p] = "candidate"
    /\ lease' = p /\ leader' = p
    /\ role' = [role EXCEPT ![p] = "leading"]
    /\ UNCHANGED allocatorVars

\* Mutant of Acquire: nobody looks whose the lease is.
AcquireHeld(p) == Take(p)

\* It does so when the lease is free.
Acquire(p) == lease = None /\ Take(p)

\* Or when it has expired although the holder leads: the holder was stopped for
\* longer than LeaseDuration, goes on and does not know.
Seize(p) == lease \in Paused /\ Take(p)

\* When the other process has left, it may have the lease again and never notice.
Renew(p) ==
    /\ role[p] = "leading"
    /\ lease = None /\ lease' = p
    /\ UNCHANGED <<role, leader, allocatorVars>>

\* The holder does not renew the lease any more.  It is free when ReleaseOnCancel
\* empties it, or when LeaseDuration is over; until then candidates wait.
Leave(p) == lease' = IF lease = p THEN None ELSE lease

\* The renew loop ends, after a signal or because renewals fail: the process had to
\* renew within RetryPeriod and RenewDeadline, which are shorter than LeaseDuration.
\* OnStoppedLeading cancels the context.
GiveUp(p) ==
    /\ role[p] = "leading"
    /\ role' = [role EXCEPT ![p] = "stopping"]
    /\ Leave(p)
    /\ UNCHANGED <<leader, allocatorVars>>

\* A patch is left to itself.
Abandon(r) ==
    LET patch == [node |-> r.node, block |-> r.block] IN
    patch \in Stray /\ orphans' = orphans \cup {patch}

\* The process is gone, and its successor of the same identity stands for election
\* when it is there; a patch that was sent may still arrive.
Gone(p) ==
    /\ role' = [role EXCEPT ![p] = "candidate"]
    /\ running' = [running EXCEPT ![p] = FALSE]
    /\ taken' = [taken EXCEPT ![p] = {}] /\ seen' = [seen EXCEPT ![p] = {}]
    /\ request' = [request EXCEPT ![p] = NoRequest]
    /\ UNCHANGED orphans \/ (request[p] # NoRequest /\ Abandon(request[p]))
    /\ Leave(p)
    /\ UNCHANGED <<podCIDR, leader, loose>>

\* RunOrDie returns, and main with it.
Exit(p) == role[p] = "stopping" /\ Gone(p)

\* A second signal, a panic or an error of runControllers ends the process.
Crash(p) == role[p] = "leading" /\ Gone(p)

-----------------------------------------------------------------------------
(***************************************************************************)
(* runControllers, which runs from the moment the process leads until the  *)
(* process exits.                                                          *)
(***************************************************************************)
Working(p) == role[p] \in {"leading", "stopping"}

\* Mutant of ListNodes: a candidate reads the node list as well.
ListNodesEarly(p) ==
    /\ ~running[p]
    /\ running' = [running EXCEPT ![p] = TRUE]
    /\ taken' = [taken EXCEPT ![p] = {podCIDR[n] : n \in Assigned}]
    /\ seen' = [seen EXCEPT ![p] = Assigned]
    /\ UNCHANGED <<lease, role, request, orphans, podCIDR, leader, loose>>

\* The node list is read after the lease was acquired, and the constructor
\* marks the blocks in it.
ListNodes(p) ==
    /\ Working(p) /\ ~running[p]
    /\ running' = [running EXCEPT ![p] = TRUE]
    /\ taken' = [taken EXCEPT ![p] = {podCIDR[n] : n \in Assigned}]
    /\ seen' = [seen EXCEPT ![p] = Assigned]
    /\ UNCHANGED <<lease, role, request, orphans, podCIDR, leader, loose>>

\* The allocator reserves a block for a node that has none in its lister.
Reserve(p, n, b) ==
    /\ running[p] /\ request[p] = NoRequest
    /\ n \notin seen[p] /\ b \notin taken[p]
    /\ taken' = [taken EXCEPT ![p] = @ \cup {b}]
    /\ request' = [request EXCEPT ![p] = [node |-> n, block |-> b, tries |-> 0]]
    /\ UNCHANGED <<lease, role, running, seen, orphans, podCIDR, leader, loose>>

\* The API server accepts the patch of a node without other podCIDRs.  The
\* request has a context of its own and nobody asks who leads.
Apply(r) ==
    /\ podCIDR[r.node] \in {None, r.block}
    /\ podCIDR' = [podCIDR EXCEPT ![r.node] = r.block]

\* The node, if p patched it first, while another process was the last to acquire
\* the lease.
Late(p, n) == {m \in {n} : p # leader /\ podCIDR'[m] # podCIDR[m]}

\* An attempt that is acknowledged.
Patch(p) ==
    /\ request[p] # NoRequest
    /\ Apply(request[p])
    /\ loose' = loose \cup Late(p, request[p].node)
    /\ request' = [request EXCEPT ![p] = NoRequest]
    /\ UNCHANGED <<lease, role, running, taken, seen, orphans, leader>>

\* An attempt that fails: it was refused or lost, or it was applied, or it is
\* still under way.
Attempt(r) ==
    \/ UNCHANGED <<podCIDR, orphans>>
    \/ Apply(r) /\ UNCHANGED orphans
    \/ Abandon(r) /\ UNCHANGED podCIDR

\* Mutant of PatchFails: the attempts are not counted.
PatchFailsForever(p, serverTimeout) ==
    /\ request[p] # NoRequest
    /\ Attempt(request[p])
    /\ loose' = loose \cup Late(p, request[p].node)
    /\ UNCHANGED <<lease, role, running, taken, seen, request, leader>>

\* After the last attempt the block is released, unless the error is a server
\* timeout.
PatchFails(p, serverTimeout) ==
    LET r == request[p] IN
    /\ r # NoRequest
    /\ Attempt(r)
    /\ \/ /\ r.tries + 1 < Retries
          /\ request' = [request EXCEPT ![p].tries = @ + 1]
          /\ loose' = loose \cup Late(p, r.node)
          /\ UNCHANGED taken
       \/ /\ r.tries + 1 = Retries /\ serverTimeout
          /\ request' = [request EXCEPT ![p] = NoRequest]
          /\ loose' = loose \cup Late(p, r.node)
          /\ UNCHANGED taken
       \/ /\ r.tries + 1 = Retries /\ ~serverTimeout
          /\ request' = [request EXCEPT ![p] = NoRequest]
          /\ loose' = loose \cup Late(p, r.node) \cup {m \in {r.node} : podCIDR'[m] = r.block}
          /\ taken' = [taken EXCEPT ![p] = @ \ {r.block}]
    /\ UNCHANGED <<lease, role, running, seen, leader>>

\* The informer shows a node's podCIDRs, and a worker occupies them.
Occupy(p, n) ==
    /\ running[p] /\ request[p] = NoRequest
    /\ n \in Assigned /\ n \notin seen[p]
    /\ taken' = [taken EXCEPT ![p] = @ \cup {podCIDR[n]}]
    /\ seen' = [seen EXCEPT ![p] = @ \cup {n}]
    /\ UNCHANGED <<lease, role, running, request, orphans, podCIDR, leader, loose>>

\* A patch that nobody waits for arrives, or is lost or refused.
Arrive(r) ==
    /\ orphans' = orphans \ {r}
    /\ \/ UNCHANGED <<podCIDR, loose>>
       \/ /\ podCIDR[r.node] = None
          /\ podCIDR' = [podCIDR EXCEPT ![r.node] = r.block]
          /\ loose' = loose \cup {r.node}
    /\ UNCHANGED <<lease, role, running, taken, seen, request, leader>>

-----------------------------------------------------------------------------
Fails(p) == \E serverTimeout \in BOOLEAN : PatchFails(p, serverTimeout)

Next ==
    \/ \E p \in Processes :
         \/ Acquire(p) \/ Seize(p) \/ Renew(p) \/ GiveUp(p) \/ Exit(p) \/ Crash(p)
         \/ ListNodes(p) \/ Patch(p) \/ Fails(p)
         \/ \E n \in Nodes : Occupy(p, n) \/ \E b \in Blocks : Reserve(p, n, b)
    \/ \E r \in orphans : Arrive(r)

Spec == Init /\ [][Next]_vars

\* From some time on the leader's renewals get through in time and nobody stops it.
Stable == <>[][\A p \in Processes : ~(Seize(p) \/ GiveUp(p) \/ Crash(p))]_vars

\* Processes are scheduled and restarted, the allocator's workers take turns,
\* leases expire, a process that finds another's name in the lease gives up, no
\* request is under way forever, and the API server does not fail every patch.
Fairness ==
    /\ WF_vars(\E r \in orphans : Arrive(r))
    /\ \A p \in Processes :
         /\ WF_vars(Acquire(p)) /\ WF_vars(Renew(p) \/ (lease # p /\ GiveUp(p)))
         /\ WF_vars(Exit(p)) /\ WF_vars(ListNodes(p))
         /\ WF_vars(Patch(p) \/ Fails(p))
    /\ SF_vars(\E p \in Processes : Patch(p))
    /\ \A n \in Nodes : /\ SF_vars(\E p \in Processes : Occupy(p, n))
                        /\ SF_vars(\E p \in Processes, b \in Blocks : Reserve(p, n, b))

FairSpec == Spec /\ Fairness /\ Stable

-----------------------------------------------------------------------------
\* Two nodes share a block only if one of them was patched by a process while
\* another was the last to acquire the lease, or by a request nobody waited for,
\* or if updateCIDRsAllocation released its block after an attempt that had been
\* applied: the node list that is read after the lease was acquired, and marks that
\* last as long as the process, keep all other patches apart.
OverlapExplained ==
    \A m, n \in Assigned :
        m # n /\ podCIDR[m] = podCIDR[n] => {m, n} \cap loose # {}

TypeOK ==
    /\ lease \in Processes \cup {None}
    /\ role \in [Processes -> {"candidate", "leading", "stopping"}]
    /\ running \in [Processes -> BOOLEAN]
    /\ taken \in [Processes -> SUBSET Blocks]
    /\ seen \in [Processes -> SUBSET Nodes]
    /\ request \in [Processes -> Requests \cup {NoRequest}]
    /\ orphans \in SUBSET Patches
    /\ podCIDR \in [Nodes -> Blocks \cup {None}]
    /\ leader \in Processes \cup {None}
    /\ loose \in SUBSET Nodes

\* The nodes that the last to acquire the lease has to know of.
Known == Assigned \ loose

LeaderHolds(p) ==
    p = leader =>
        /\ running[p] => \A n \in Known : podCIDR[n] \in taken[p]
        /\ request[p] # NoRequest =>
             /\ request[p].block \in taken[p]
             /\ \A n \in Known : podCIDR[n] = request[p].block => n = request[p].node

\* What makes it so.  A process that leads and is never stopped for long has the
\* lease, and nobody acquired it since: only a process that is stopping, or that was
\* paused, can patch a node late.  The last to acquire the lease has marked every
\* block that was not assigned late or released in doubt, and waits for a block that
\* no other node has.
HandoverInv ==
    /\ TypeOK
    /\ \A p \in Processes :
         /\ role[p] = "leading" /\ p \notin Paused => lease = p /\ leader = p
         /\ LeaderHolds(p)
         /\ running[p] => Working(p)
         /\ request[p] # NoRequest => running[p]

\* At most one process has an allocator at work.
OneActive == \A p, q \in Processes : running[p] /\ running[q] => p = q

\* However leaders came and went, in the end every node has a block, unless a process
\* keeps a block that no node has: the leak after a server timeout that the comment in
\* updateCIDRsAllocation accepts, because there are no more blocks than nodes here.
Leaky ==
    \E p \in Processes : \E b \in taken[p] \ {request[p].block} : \A n \in Nodes : podCIDR[n] # b

AllServed == \A n \in Nodes : <>[](podCIDR[n] # None \/ Leaky)
=============================================================================
