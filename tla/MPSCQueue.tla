------------------------------ MODULE MPSCQueue ------------------------------
(***************************************************************************)
(* common/Threading/MPSCQueue.h: the lock-free queue through which any     *)
(* thread hands packets to the network thread that owns a socket.          *)
(*                                                                         *)
(* The nodes are a finite pool: delete returns a node to it and new may    *)
(* return the same node again, so that a pointer kept too long would meet  *)
(* reused memory.  The acquire/release pairs on Next and the acq_rel       *)
(* exchange on _head make the steps below sequentially consistent.         *)
(***************************************************************************)
EXTENDS Sequences, FiniteSets, Integers

CONSTANTS
    Producers,  \* threads that call Enqueue
    Nodes,      \* bound: the nodes that exist at once
    Values,     \* what is enqueued
    Null,       \* nullptr
    NoValue     \* result before the first Dequeue

ASSUME ConstantsAssumption ==
    /\ Null \notin Nodes
    /\ IsFiniteSet(Nodes)
    /\ Nodes # {}
    /\ NoValue \notin Values

VARIABLES
    head,   \* _head
    tail,   \* _tail
    next,   \* Node::Next
    data,   \* Node::Data
    free,   \* nodes that are not allocated
    ppc,    \* where each producer is: "idle", "exchange" or "link"
    node,   \* Enqueue's node
    prev,   \* Enqueue's prevHead
    cpc,    \* where the consumer is: "idle" or "take"
    cnext,  \* Dequeue's next
    life,   \* "live", "closing" in the destructor, "closed" after it
    out,    \* the value the last successful Dequeue returned
    order   \* history: the nodes behind the tail in the order of the exchanges

queueVars == <<head, tail, next, data, free, ppc, node, prev, cpc, cnext,
               life, out, order>>

QueueInit ==
    /\ head \in Nodes
    /\ tail = head
    /\ next = [n \in Nodes |-> Null]
    /\ data = [n \in Nodes |-> NoValue]
    /\ free = Nodes \ {head}
    /\ ppc = [p \in Producers |-> "idle"]
    /\ node = [p \in Producers |-> Null]
    /\ prev = [p \in Producers |-> Null]
    /\ cpc = "idle"
    /\ cnext = Null
    /\ life = "live"
    /\ out = NoValue
    /\ order = <<>>

-----------------------------------------------------------------------------
(* Enqueue, on any thread.                                                   *)

NewNode(p, n, v) ==
    /\ life = "live"
    /\ ppc[p] = "idle"
    /\ n \in free
    /\ free' = free \ {n}
    /\ data' = [data EXCEPT ![n] = v]
    /\ next' = [next EXCEPT ![n] = Null]
    /\ node' = [node EXCEPT ![p] = n]
    /\ ppc' = [ppc EXCEPT ![p] = "exchange"]
    /\ UNCHANGED <<head, tail, prev, cpc, cnext, life, out, order>>

Exchange(p) ==
    /\ ppc[p] = "exchange"
    /\ prev' = [prev EXCEPT ![p] = head]
    /\ head' = node[p]
    /\ order' = Append(order, node[p])
    /\ ppc' = [ppc EXCEPT ![p] = "link"]
    /\ UNCHANGED <<tail, next, data, free, node, cpc, cnext, life, out>>

\* Mutant: the predecessor is never made to point to the new node.
Link_Forgotten(p) ==
    /\ ppc[p] = "link"
    /\ ppc' = [ppc EXCEPT ![p] = "idle"]
    /\ node' = [node EXCEPT ![p] = Null]
    /\ prev' = [prev EXCEPT ![p] = Null]
    /\ UNCHANGED <<head, tail, next, data, free, cpc, cnext, life, out, order>>

Link(p) ==
    /\ ppc[p] = "link"
    /\ next' = [next EXCEPT ![prev[p]] = node[p]]
    /\ ppc' = [ppc EXCEPT ![p] = "idle"]
    /\ node' = [node EXCEPT ![p] = Null]
    /\ prev' = [prev EXCEPT ![p] = Null]
    /\ UNCHANGED <<head, tail, data, free, cpc, cnext, life, out, order>>

-----------------------------------------------------------------------------
(* Dequeue, on the consumer's thread.  A Dequeue that finds Next null        *)
(* returns false and changes nothing.                                        *)

\* Mutant: an unlinked successor is found through _head.
DequeueLoad_Head ==
    /\ life # "closed"
    /\ cpc = "idle"
    /\ head # tail
    /\ cnext' = IF next[tail] # Null THEN next[tail] ELSE head
    /\ cpc' = "take"
    /\ UNCHANGED <<head, tail, next, data, free, ppc, node, prev, life, out,
                   order>>

DequeueLoad ==
    /\ life # "closed"
    /\ cpc = "idle"
    /\ next[tail] # Null
    /\ cnext' = next[tail]
    /\ cpc' = "take"
    /\ UNCHANGED <<head, tail, next, data, free, ppc, node, prev, life, out,
                   order>>

(* operator delete; what the memory holds then no longer matters. *)
Delete(n) ==
    /\ free' = free \cup {n}
    /\ data' = [data EXCEPT ![n] = NoValue]
    /\ next' = [next EXCEPT ![n] = Null]

\* Mutant: the node whose value was read is deleted, not the old tail.
DequeueTake_WrongNode ==
    /\ cpc = "take"
    /\ out' = data[cnext]
    /\ tail' = cnext
    /\ Delete(cnext)
    /\ order' = Tail(order)
    /\ cpc' = "idle"
    /\ cnext' = Null
    /\ UNCHANGED <<head, ppc, node, prev, life>>

DequeueTake ==
    /\ cpc = "take"
    /\ out' = data[cnext]
    /\ tail' = cnext
    /\ Delete(tail)
    /\ order' = Tail(order)
    /\ cpc' = "idle"
    /\ cnext' = Null
    /\ UNCHANGED <<head, ppc, node, prev, life>>

-----------------------------------------------------------------------------
(* The destructor, when no thread uses the queue any more: it dequeues until *)
(* Dequeue returns false and deletes the node _head points to.               *)

BeginDestroy ==
    /\ life = "live"
    /\ cpc = "idle"
    /\ \A p \in Producers : ppc[p] = "idle"
    /\ life' = "closing"
    /\ UNCHANGED <<head, tail, next, data, free, ppc, node, prev, cpc, cnext,
                   out, order>>

EndDestroy ==
    /\ life = "closing"
    /\ cpc = "idle"
    /\ next[tail] = Null
    /\ life' = "closed"
    /\ Delete(head)
    /\ UNCHANGED <<head, tail, ppc, node, prev, cpc, cnext, out, order>>

-----------------------------------------------------------------------------
ProducerStep(p) == Exchange(p) \/ Link(p)

ConsumerStep == DequeueLoad \/ DequeueTake

Terminated == life = "closed" /\ UNCHANGED queueVars

QueueNext ==
    \/ \E p \in Producers, n \in Nodes, v \in Values : NewNode(p, n, v)
    \/ \E p \in Producers : ProducerStep(p)
    \/ ConsumerStep
    \/ BeginDestroy
    \/ EndDestroy
    \/ Terminated

(* A producer inside Enqueue goes on, and the consumer polls for ever: the  *)
(* network thread calls WorldSocket::Update in every pass of its loop.      *)
QueueFairness ==
    /\ \A p \in Producers : WF_queueVars(ProducerStep(p))
    /\ WF_queueVars(ConsumerStep)

QueueSpec == QueueInit /\ [][QueueNext]_queueVars

FairQueueSpec == QueueSpec /\ QueueFairness

-----------------------------------------------------------------------------
(* Properties.                                                               *)

(* No thread follows a pointer to a deleted node: not the consumer through  *)
(* _tail or next, not a producer through the prevHead it took before the    *)
(* consumer caught up with it.                                              *)
NoUseAfterFree ==
    /\ life # "closed" => head \notin free /\ tail \notin free
    /\ cpc = "take" => cnext \notin free
    /\ \A p \in Producers : /\ ppc[p] # "idle" => node[p] \notin free
                            /\ ppc[p] = "link" => prev[p] \notin free

(* Enqueue is atomic at the exchange, Dequeue at the store to _tail: the    *)
(* values in the order of the exchanges are a FIFO queue, although a node   *)
(* may be unreachable from the tail until its producer has linked it.       *)
Fifo == INSTANCE FifoQueue WITH fifo <- [i \in 1..Len(order) |-> data[order[i]]]

(* MPSCQueue implements FifoQueue: values come out in the order of the      *)
(* exchanges, each once, whatever the interleaving of Enqueue and Dequeue.  *)
ImplementsFifo == Fifo!Spec

(* Whatever is enqueued is dequeued: a producer that stops between the      *)
(* exchange and the link delays the values behind its own, but no value is  *)
(* stuck once the producers have gone on.                                   *)
AllDequeued ==
    \A n \in Nodes :
        (\E i \in 1..Len(order) : order[i] = n) ~>
            ~ \E i \in 1..Len(order) : order[i] = n
=============================================================================
