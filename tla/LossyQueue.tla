----------------------------- MODULE LossyQueue -----------------------------
(***************************************************************************)
(* What the spool promises its users: a queue of lines on disk.  An append *)
(* puts one line at the tail and drops as few of the oldest lines as the   *)
(* size cap demands; a drain takes lines from the head; nothing else ever  *)
(* changes the queue, and each change is atomic for every reader, whatever *)
(* processes run, fail or die in between.                                  *)
(***************************************************************************)
EXTENDS Lines

VARIABLE queue

Init == queue = <<>>

\* The line reaches the tail and only the oldest lines make room for it.
Enqueue == \E l \in Line : queue' = Newest(Append(queue, l))

\* The n oldest lines leave and the others keep their order.
Dequeue == \E n \in 1 .. Len(queue) : queue' = From(queue, n + 1)

Next == Enqueue \/ Dequeue

Spec == Init /\ [][Next]_queue
============================================================================
