---------------------------- MODULE PriorityQueue ---------------------------
(***************************************************************************)
(* The PriorityQueue of orderedMatchingClusterCIDRs, as the array          *)
(* container/heap keeps: the children of position p are 2p and 2p + 1.     *)
(***************************************************************************)
EXTENDS ClusterCIDRs

Swap(h, p, q) == [h EXCEPT ![p] = h[q], ![q] = h[p]]

\* up: the new item rises past its parents while it is Less.
RECURSIVE Up(_, _)
Up(h, p) ==
    IF p = 1 \/ ~Less(h[p], h[p \div 2]) THEN h
    ELSE Up(Swap(h, p, p \div 2), p \div 2)

\* Mutant of Down: the right child is not looked at.
RECURSIVE DownLeft(_, _)
DownLeft(h, p) ==
    IF 2 * p > Len(h) \/ ~Less(h[2 * p], h[p]) THEN h
    ELSE DownLeft(Swap(h, p, 2 * p), 2 * p)

\* down: the item sinks below the lesser of its children.
RECURSIVE Down(_, _)
Down(h, p) ==
    LET right == 2 * p + 1
        child == IF right <= Len(h) /\ Less(h[right], h[2 * p]) THEN right ELSE 2 * p
    IN  IF 2 * p > Len(h) \/ ~Less(h[child], h[p]) THEN h
        ELSE Down(Swap(h, p, child), child)

Push(h, item) == Up(Append(h, item), Len(h) + 1)

\* heap.Pop puts the last item first and lets it sink in what is left.
AfterPop(h) ==
    IF Len(h) = 1 THEN <<>> ELSE Down(SubSeq(Swap(h, 1, Len(h)), 1, Len(h) - 1), 1)

\* The two loops of orderedMatchingClusterCIDRs: items are pushed in the order
\* the map iteration finds them, and popped until the queue is empty.
RECURSIVE PushAll(_, _)
PushAll(h, items) == IF items = <<>> THEN h ELSE PushAll(Push(h, Head(items)), Tail(items))

RECURSIVE PopAll(_)
PopAll(h) == IF h = <<>> THEN <<>> ELSE <<Head(h)>> \o PopAll(AfterPop(h))
=============================================================================
