------------------------------ MODULE FifoQueue ------------------------------
(***************************************************************************)
(* What MPSCQueue promises its users (WorldSocket::_bufferQueue, Metric,   *)
(* the script reloader): a first-in first-out queue whose Dequeue returns  *)
(* the oldest value.  A Dequeue that returns false changes nothing, and is *)
(* allowed although the queue is not empty.                                *)
(***************************************************************************)
EXTENDS Sequences

CONSTANTS Values, NoValue

VARIABLES
    fifo,   \* the queued values, oldest first
    out     \* the value the last successful Dequeue returned

Init == fifo = <<>> /\ out = NoValue

Put(v) == fifo' = Append(fifo, v) /\ UNCHANGED out

Take ==
    /\ fifo # <<>>
    /\ out' = Head(fifo)
    /\ fifo' = Tail(fifo)

Next == Take \/ \E v \in Values : Put(v)

Spec == Init /\ [][Next]_<<fifo, out>>
=============================================================================
