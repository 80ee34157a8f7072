----------------------------- MODULE ByteStream -----------------------------
(***************************************************************************)
(* What a connection promises whoever sends packets over it                *)
(* (WorldSocket::SendPacket): a stream of bytes.  What is accepted is      *)
(* added at its end; what leaves are the next bytes of it, some of them or *)
(* all, in order and once; once the connection is shut down nothing leaves *)
(* any more, though bytes may still be accepted, and it stays shut down.   *)
(***************************************************************************)
EXTENDS SequencesExt

CONSTANT Streams

VARIABLES
    accepted,   \* the bytes that each stream has been given
    wire,       \* those that have left
    open        \* whether it has not been shut down

Init ==
    /\ accepted = [s \in Streams |-> <<>>]
    /\ wire = [s \in Streams |-> <<>>]
    /\ open = [s \in Streams |-> TRUE]

Put(s) ==
    /\ IsPrefix(accepted[s], accepted'[s])
    /\ wire'[s] = wire[s] /\ open'[s] = open[s]

(* The last bytes may leave in the step that shuts the connection down. *)
Take(s) ==
    /\ open[s] /\ open'[s] \in {TRUE, FALSE}
    /\ IsPrefix(wire[s], wire'[s]) /\ IsPrefix(wire'[s], accepted[s])
    /\ accepted'[s] = accepted[s]

Same(s) == accepted'[s] = accepted[s] /\ wire'[s] = wire[s] /\ open'[s] = open[s]

Next == \E s \in Streams : /\ Put(s) \/ Take(s)
                           /\ \A r \in Streams \ {s} : Same(r)

Spec == Init /\ [][Next]_<<accepted, wire, open>>
=============================================================================
