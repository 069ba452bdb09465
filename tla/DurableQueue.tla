---------------------------- MODULE DurableQueue ----------------------------
(***************************************************************************)
(* What the agent's HTTP spool promises: a first-in first-out queue that    *)
(* survives restarts.  A record enters at the back, leaves at the front     *)
(* once it is acknowledged, and nothing else ever changes the queue: not a  *)
(* crash, not a restart, not a compaction of the file that holds it.        *)
(***************************************************************************)
EXTENDS Naturals, Sequences

CONSTANT Records    \* the payloads a caller may hand to the queue

VARIABLE queue      \* the records not yet acknowledged, oldest first

Init == queue = <<>>

Enqueue(r) == queue' = Append(queue, r)

Acknowledge == queue # <<>> /\ queue' = Tail(queue)

Next == Acknowledge \/ \E r \in Records : Enqueue(r)

Spec == Init /\ [][Next]_queue
=============================================================================
