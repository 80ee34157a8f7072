---------------------------- MODULE NetworkProofs ----------------------------
(***************************************************************************)
(* Proofs about the way of a packet to the wire: MPSCQueue, through which  *)
(* any thread hands a packet to the network thread, and Socket, which      *)
(* writes the packets out.                                                 *)
(***************************************************************************)
EXTENDS MPSCQueue, Socket, SequenceTheorems, TLAPS

-----------------------------------------------------------------------------
(***************************************************************************)
(* Proofs about MPSCQueue, for any number of producers, nodes and values:  *)
(* no thread follows a pointer to a deleted node, and the queue implements *)
(* FifoQueue.                                                              *)
(*                                                                         *)
(* Both rest on the shape of the list.  Its nodes are the tail, whose      *)
(* value was taken, and those of order; each points to the one behind it,  *)
(* or to nothing while the producer that put the next one is between its   *)
(* exchange and its link.                                                  *)
(***************************************************************************)
(* Every variable has the type its C++ declaration gives it. *)
TypeOK ==
    /\ head \in Nodes
    /\ tail \in Nodes
    /\ next \in [Nodes -> Nodes \cup {Null}]
    /\ data \in [Nodes -> Values \cup {NoValue}]
    /\ free \subseteq Nodes
    /\ ppc \in [Producers -> {"idle", "exchange", "link"}]
    /\ node \in [Producers -> Nodes \cup {Null}]
    /\ prev \in [Producers -> Nodes \cup {Null}]
    /\ cpc \in {"idle", "take"}
    /\ cnext \in Nodes \cup {Null}
    /\ life \in {"live", "closing", "closed"}
    /\ order \in Seq(Nodes)

(* The nodes of the list, from the tail to the head. *)
At(i) == IF i = 0 THEN tail ELSE order[i]

Positions == 0..Len(order)

(* The nodes are distinct, allocated, and end at the head. *)
ListShape ==
    /\ \A i, j \in Positions : At(i) = At(j) => i = j
    /\ \A i \in Positions : At(i) \notin free
    /\ head = At(Len(order))
    /\ next[head] = Null

(* Producer p is about to link the node at i to the one before it. *)
Links(p, i) == ppc[p] = "link" /\ prev[p] = At(i - 1) /\ node[p] = At(i)

(* A node points to the one behind it, or a producer is about to link them. *)
ListLinked ==
    \A i \in Positions \ {0} :
        \/ next[At(i - 1)] = At(i)
        \/ next[At(i - 1)] = Null /\ \E p \in Producers : Links(p, i)

(* Before the exchange a producer's node is its own; after it, the node is in
   the list, behind one that points to nothing. *)
ProducerInv ==
    /\ \A p \in Producers :
          ppc[p] = "exchange" =>
              /\ node[p] \in Nodes \ free
              /\ next[node[p]] = Null
              /\ data[node[p]] \in Values
              /\ \A i \in Positions : At(i) # node[p]
    /\ \A p \in Producers :
          ppc[p] = "link" =>
              \E i \in Positions \ {0} : Links(p, i) /\ next[At(i - 1)] = Null
    /\ \A p, q \in Producers :
          ppc[p] # "idle" /\ ppc[q] # "idle" /\ node[p] = node[q] => p = q

(* Between its two steps the consumer knows the oldest node. *)
ConsumerInv ==
    cpc = "take" => /\ order # <<>>
                    /\ cnext = order[1]
                    /\ next[tail] = order[1]

(* The destructor runs alone and leaves nothing behind. *)
LifeInv ==
    /\ life # "live" => \A p \in Producers : ppc[p] = "idle"
    /\ life = "closed" => cpc = "idle" /\ order = <<>>

QueueIInv ==
    /\ TypeOK
    /\ life # "closed" => ListShape /\ ListLinked
    /\ ProducerInv
    /\ ConsumerInv
    /\ LifeInv

-----------------------------------------------------------------------------
(* The nodes of the list are nodes. *)
LEMMA AtType ==
  ASSUME TypeOK
  PROVE  /\ Len(order) \in Nat
         /\ \A i \in Positions \ {0} : i \in 1..Len(order) /\ i - 1 \in Positions
         /\ \A i \in Positions : At(i) \in Nodes
BY DEF TypeOK, Positions, At

LEMMA InitQueueIInv == QueueInit => QueueIInv
<1> SUFFICES ASSUME QueueInit PROVE QueueIInv
  OBVIOUS
<1>1. Len(order) = 0 /\ Positions = {0}
  BY DEF QueueInit, Positions
<1>2. TypeOK
  BY DEF QueueInit, TypeOK
<1>3. ListShape /\ ListLinked
  BY <1>1 DEF QueueInit, ListShape, ListLinked, At
<1>4. ProducerInv /\ ConsumerInv /\ LifeInv
  BY DEF QueueInit, ProducerInv, ConsumerInv, LifeInv
<1> QED
  BY <1>2, <1>3, <1>4 DEF QueueIInv

(* The node that Enqueue allocates is no other thread's. *)
LEMMA NewNodeIInv ==
  ASSUME QueueIInv, NEW p \in Producers, NEW n \in Nodes, NEW v \in Values, NewNode(p, n, v)
  PROVE  QueueIInv'
<1>1. /\ TypeOK /\ ListShape /\ ListLinked /\ ProducerInv /\ ConsumerInv /\ LifeInv
      /\ life = "live"
  BY DEF QueueIInv, NewNode
<1>2. /\ n \in free /\ free' = free \ {n}
      /\ ppc[p] = "idle" /\ ppc'[p] = "exchange" /\ node'[p] = n
      /\ next'[n] = Null /\ data'[n] = v
      /\ \A q \in Producers \ {p} : ppc'[q] = ppc[q] /\ node'[q] = node[q]
      /\ \A m \in Nodes \ {n} : next'[m] = next[m] /\ data'[m] = data[m]
      /\ UNCHANGED <<head, tail, prev, cpc, cnext, life, out, order>>
  BY <1>1 DEF NewNode, TypeOK
<1>3. Positions' = Positions /\ \A i : At(i)' = At(i)
  BY <1>2 DEF Positions, At
<1>4. \A i \in Positions : At(i) \in Nodes \ {n}
  BY <1>1, <1>2, AtType DEF ListShape
<1>5. TypeOK'
  BY <1>1 DEF NewNode, TypeOK
<1>6. ListShape'
  <2>1. head \in Nodes \ {n}
    BY <1>1, <1>4, AtType DEF ListShape, Positions
  <2> QED
    BY <1>1, <1>2, <1>3, <2>1, AtType DEF ListShape
<1>7. \A q \in Producers : \A i : Links(q, i) => Links(q, i)'
  BY <1>2, <1>3 DEF Links
<1>8. ListLinked'
  BY <1>1, <1>2, <1>3, <1>4, <1>7, AtType DEF ListLinked
<1>9. ProducerInv'
  <2>1. ASSUME NEW q \in Producers, ppc'[q] = "exchange"
        PROVE  /\ node'[q] \in Nodes \ free'
               /\ next'[node'[q]] = Null
               /\ data'[node'[q]] \in Values
               /\ \A i \in Positions' : At(i)' # node'[q]
    <3>1. CASE q = p
      BY <1>2, <1>3, <1>4, <3>1
    <3>2. CASE q # p
      <4>1. node[q] \in Nodes \ free /\ node'[q] = node[q] /\ node[q] # n /\ ppc[q] = "exchange"
        BY <1>1, <1>2, <2>1, <3>2 DEF ProducerInv
      <4> QED
        BY <1>1, <1>2, <1>3, <4>1 DEF ProducerInv
    <3> QED
      BY <3>1, <3>2
  <2>2. ASSUME NEW q \in Producers, ppc'[q] = "link"
        PROVE  \E i \in Positions' \ {0} : Links(q, i)' /\ next'[At(i - 1)'] = Null
    <3>1. ppc[q] = "link"
      BY <1>2, <2>2
    <3>2. PICK i \in Positions \ {0} : Links(q, i) /\ next[At(i - 1)] = Null
      BY <1>1, <3>1 DEF ProducerInv
    <3> QED
      BY <1>1, <1>2, <1>3, <1>4, <1>7, <3>2, AtType
  <2>3. \A q \in Producers \ {p} : ppc[q] # "idle" => node[q] # n
    <3>1. ASSUME NEW q \in Producers \ {p}, ppc[q] = "link" PROVE node[q] # n
      BY <1>1, <1>4, <3>1 DEF ProducerInv, Links
    <3>2. ASSUME NEW q \in Producers \ {p}, ppc[q] = "exchange" PROVE node[q] # n
      BY <1>1, <1>2, <3>2 DEF ProducerInv
    <3> QED
      BY <1>1, <3>1, <3>2 DEF TypeOK
  <2> QED
    BY <1>1, <1>2, <2>1, <2>2, <2>3 DEF ProducerInv
<1>10. ConsumerInv'
  BY <1>1, <1>2, <1>4, AtType DEF ConsumerInv, TypeOK, Positions, At
<1> QED
  BY <1>1, <1>2, <1>5, <1>6, <1>8, <1>9, <1>10 DEF QueueIInv, LifeInv

(* The exchange puts the producer's node at the end of the list. *)
LEMMA ExchangeIInv ==
  ASSUME QueueIInv, NEW p \in Producers, Exchange(p)
  PROVE  QueueIInv'
<1>1. /\ TypeOK /\ ListShape /\ ListLinked /\ ProducerInv /\ ConsumerInv /\ LifeInv
      /\ life = "live"
  BY DEF QueueIInv, Exchange, LifeInv, TypeOK
<1>2. /\ ppc[p] = "exchange" /\ ppc'[p] = "link" /\ prev'[p] = head
      /\ head' = node[p] /\ order' = Append(order, node[p])
      /\ \A q \in Producers \ {p} : ppc'[q] = ppc[q] /\ prev'[q] = prev[q]
      /\ UNCHANGED <<tail, next, data, free, node, cpc, cnext, life, out>>
  BY <1>1 DEF Exchange, TypeOK
<1>3. /\ node[p] \in Nodes \ free /\ next[node[p]] = Null
      /\ \A i \in Positions : At(i) # node[p]
  BY <1>1, <1>2 DEF ProducerInv
<1>n. PICK k \in Nat : k = Len(order)
  BY <1>1 DEF TypeOK
<1>4. Len(order') = k + 1 /\ Positions = 0..k /\ Positions' = 0..k + 1
  BY <1>1, <1>2, <1>3, <1>n DEF TypeOK, Positions
<1>5. /\ \A i \in Positions : At(i)' = At(i)
      /\ At(k + 1)' = node[p]
  BY <1>1, <1>2, <1>3, <1>n DEF TypeOK, Positions, At
<1>6. TypeOK'
  BY <1>1, <1>3 DEF Exchange, TypeOK
<1>7. ListShape'
  BY <1>1, <1>2, <1>3, <1>n, <1>4, <1>5 DEF ListShape
<1>8. \A q \in Producers, i \in Positions \ {0} : Links(q, i) => Links(q, i)'
  BY <1>1, <1>2, <1>5, AtType DEF Links
<1>9. Links(p, k + 1)' /\ next'[At(k + 1 - 1)'] = Null
  <2>1. At(k + 1 - 1)' = head /\ next[head] = Null
    BY <1>1, <1>n, <1>4, <1>5 DEF ListShape
  <2>2. Links(p, k + 1)'
    BY <1>2, <1>5, <2>1 DEF Links
  <2> QED
    BY <1>2, <2>1, <2>2
<1>10. ListLinked'
  <2>1. ASSUME NEW i \in Positions \ {0}
        PROVE  \/ next'[At(i - 1)'] = At(i)'
               \/ next'[At(i - 1)'] = Null /\ \E q \in Producers : Links(q, i)'
    BY <1>1, <1>2, <1>5, <1>8, AtType DEF ListLinked
  <2> QED
    BY <1>4, <1>9, <2>1 DEF ListLinked
<1>11. ProducerInv'
  <2>1. ASSUME NEW q \in Producers, ppc'[q] = "exchange"
        PROVE  /\ node'[q] \in Nodes \ free'
               /\ next'[node'[q]] = Null
               /\ data'[node'[q]] \in Values
               /\ \A i \in Positions' : At(i)' # node'[q]
    <3>1. q # p /\ ppc[q] = "exchange"
      BY <1>2, <2>1
    <3>2. node[q] # node[p]
      BY <1>1, <1>2, <3>1 DEF ProducerInv
    <3> QED
      BY <1>1, <1>2, <1>4, <1>5, <3>1, <3>2 DEF ProducerInv
  <2>2. ASSUME NEW q \in Producers, ppc'[q] = "link"
        PROVE  \E i \in Positions' \ {0} : Links(q, i)' /\ next'[At(i - 1)'] = Null
    <3>1. CASE q = p
      BY <1>4, <1>9, <3>1
    <3>2. CASE q # p
      <4>1. PICK i \in Positions \ {0} : Links(q, i) /\ next[At(i - 1)] = Null
        BY <1>1, <1>2, <2>2, <3>2 DEF ProducerInv
      <4> QED
        BY <1>1, <1>2, <1>4, <1>5, <1>8, <4>1, AtType
    <3> QED
      BY <3>1, <3>2
  <2>3. \A q \in Producers : ppc'[q] # "idle" => ppc[q] # "idle"
    BY <1>2
  <2> QED
    BY <1>1, <1>2, <2>1, <2>2, <2>3 DEF ProducerInv
<1>12. ConsumerInv'
  BY <1>1, <1>2, <1>3 DEF ConsumerInv, TypeOK
<1> QED
  BY <1>1, <1>2, <1>6, <1>7, <1>10, <1>11, <1>12 DEF QueueIInv, LifeInv

(* The link is made where the exchange found the end of the list, wherever the
   consumer is by then. *)
LEMMA LinkIInv ==
  ASSUME QueueIInv, NEW p \in Producers, Link(p)
  PROVE  QueueIInv'
<1>1. /\ TypeOK /\ ListShape /\ ListLinked /\ ProducerInv /\ ConsumerInv /\ LifeInv
      /\ life = "live" /\ ppc[p] = "link"
  BY DEF QueueIInv, Link, LifeInv, TypeOK
<1>2. PICK k \in Positions \ {0} : Links(p, k) /\ next[At(k - 1)] = Null
  BY <1>1 DEF ProducerInv
<1>3. /\ At(k) \in Nodes /\ At(k - 1) \in Nodes /\ node[p] = At(k) /\ prev[p] = At(k - 1)
      /\ k - 1 \in Positions /\ Len(order) \in Nat
  BY <1>1, <1>2, AtType DEF Links
<1>4. /\ ppc'[p] = "idle" /\ next'[At(k - 1)] = At(k)
      /\ \A m \in Nodes \ {At(k - 1)} : next'[m] = next[m]
      /\ \A q \in Producers \ {p} : /\ ppc'[q] = ppc[q]
                                    /\ node'[q] = node[q] /\ prev'[q] = prev[q]
      /\ UNCHANGED <<head, tail, data, free, cpc, cnext, life, out, order>>
  BY <1>1, <1>3 DEF Link, TypeOK
<1>5. Positions' = Positions /\ \A i : At(i)' = At(i)
  BY <1>4 DEF Positions, At
<1>6. TypeOK'
  BY <1>1, <1>3 DEF Link, TypeOK
<1>7. \A i \in Positions \ {0} : i # k => At(i - 1) # At(k - 1) /\ At(i) # At(k)
  BY <1>1, <1>2, <1>3, AtType DEF ListShape, Positions
<1>8. head # At(k - 1)
  BY <1>1, <1>2, <1>3 DEF ListShape, Positions
<1>9. ListShape'
  BY <1>1, <1>4, <1>5, <1>8 DEF ListShape, TypeOK
<1>10. ASSUME NEW q \in Producers \ {p}, NEW i, Links(q, i) PROVE Links(q, i)'
  BY <1>4, <1>5, <1>10 DEF Links
<1>11. ListLinked'
  <2>1. ASSUME NEW i \in Positions \ {0}, i # k
        PROVE  \/ next'[At(i - 1)] = At(i)
               \/ next'[At(i - 1)] = Null /\ \E q \in Producers : Links(q, i)'
    <3>1. next'[At(i - 1)] = next[At(i - 1)]
      BY <1>1, <1>4, <1>7, <2>1, AtType
    <3>2. CASE next[At(i - 1)] = At(i)
      BY <3>1, <3>2
    <3>3. CASE next[At(i - 1)] = Null /\ \E q \in Producers : Links(q, i)
      <4>1. PICK q \in Producers : Links(q, i)
        BY <3>3
      <4>2. q # p
        BY <1>3, <1>7, <2>1, <4>1 DEF Links
      <4> QED
        BY <1>10, <3>1, <3>3, <4>1, <4>2
    <3> QED
      BY <1>1, <3>2, <3>3 DEF ListLinked
  <2> QED
    BY <1>4, <1>5, <2>1 DEF ListLinked
<1>12. ProducerInv'
  <2>1. ASSUME NEW q \in Producers, ppc'[q] = "exchange"
        PROVE  /\ node'[q] \in Nodes \ free'
               /\ next'[node'[q]] = Null
               /\ \A i \in Positions' : At(i)' # node'[q]
               /\ data'[node'[q]] \in Values
    <3>1. q # p /\ ppc[q] = "exchange"
      BY <1>4, <2>1
    <3>2. node[q] # At(k - 1)
      BY <1>1, <1>3, <3>1 DEF ProducerInv
    <3> QED
      BY <1>1, <1>4, <1>5, <3>1, <3>2 DEF ProducerInv
  <2>2. ASSUME NEW q \in Producers, ppc'[q] = "link"
        PROVE  \E i \in Positions' \ {0} : Links(q, i)' /\ next'[At(i - 1)'] = Null
    <3>1. q # p /\ ppc[q] = "link"
      BY <1>4, <2>2
    <3>2. PICK i \in Positions \ {0} : Links(q, i) /\ next[At(i - 1)] = Null
      BY <1>1, <3>1 DEF ProducerInv
    <3>3. i # k
      BY <1>1, <1>3, <3>1, <3>2 DEF ProducerInv, Links
    <3>4. next'[At(i - 1)] = Null
      BY <1>1, <1>4, <1>7, <3>2, <3>3, AtType
    <3> QED
      BY <1>5, <1>10, <3>1, <3>2, <3>4
  <2> QED
    BY <1>1, <1>4, <2>1, <2>2 DEF ProducerInv
<1>13. ConsumerInv'
  <2>1. cpc = "take" => next[tail] # Null
    BY <1>1, ConstantsAssumption DEF ConsumerInv, TypeOK
  <2>2. cpc = "take" => tail # At(k - 1)
    BY <1>2, <2>1
  <2> QED
    BY <1>1, <1>4, <2>2 DEF ConsumerInv, TypeOK
<1> QED
  BY <1>1, <1>4, <1>6, <1>9, <1>11, <1>12, <1>13 DEF QueueIInv, LifeInv

(* A node that the tail points to is the oldest of the list. *)
LEMMA LoadIInv ==
  ASSUME QueueIInv, DequeueLoad
  PROVE  QueueIInv'
<1>1. /\ TypeOK /\ ListShape /\ ListLinked /\ ProducerInv /\ LifeInv
      /\ life # "closed" /\ next[tail] # Null
  BY DEF QueueIInv, DequeueLoad
<1>2. /\ cnext' = next[tail] /\ cpc' = "take"
      /\ UNCHANGED <<head, tail, next, data, free, ppc, node, prev, life, order>>
  BY DEF DequeueLoad
<1>3. order # <<>>
  <2>1. SUFFICES ASSUME order = <<>> PROVE FALSE
    OBVIOUS
  <2>2. At(Len(order)) = tail
    BY <2>1 DEF At
  <2> QED
    BY <1>1, <2>2 DEF ListShape
<1>4. next[tail] = order[1]
  <2>1. 1 \in Positions
    BY <1>1, <1>3 DEF TypeOK, Positions
  <2>2. At(1 - 1) = tail /\ At(1) = order[1]
    BY DEF At
  <2> QED
    BY <1>1, <2>1, <2>2 DEF ListLinked
<1>5. TypeOK'
  BY <1>1 DEF DequeueLoad, TypeOK
<1>6. Positions' = Positions /\ \A i : At(i)' = At(i)
  BY <1>2 DEF Positions, At
<1> QED
  BY <1>1, <1>2, <1>3, <1>4, <1>5, <1>6
  DEF QueueIInv, ListShape, ListLinked, ProducerInv, Links, ConsumerInv, LifeInv

(* Taking a value frees the old tail, which no producer is about to link: the
   link behind it was made before the consumer could take its successor. *)
LEMMA TakeIInv ==
  ASSUME QueueIInv, DequeueTake
  PROVE  QueueIInv'
<1>1. /\ TypeOK /\ ListShape /\ ListLinked /\ ProducerInv /\ ConsumerInv /\ LifeInv
      /\ life # "closed" /\ cpc = "take"
  BY DEF QueueIInv, DequeueTake, LifeInv
<1>2. /\ order # <<>> /\ cnext = order[1] /\ next[tail] = order[1]
      /\ tail \in Nodes /\ order \in Seq(Nodes) /\ order[1] \in Nodes
  BY <1>1 DEF ConsumerInv, TypeOK
<1>3. /\ tail' = cnext /\ free' = free \cup {tail} /\ order' = Tail(order)
      /\ cpc' = "idle" /\ cnext' = Null
      /\ \A m \in Nodes \ {tail} : next'[m] = next[m] /\ data'[m] = data[m]
      /\ UNCHANGED <<head, ppc, node, prev, life>>
  BY <1>1 DEF DequeueTake, Delete, TypeOK
<1>n. PICK k \in Nat : Len(order) = k + 1
  <2>1. Len(order) \in Nat \ {0}
    BY <1>2
  <2>2. Len(order) - 1 \in Nat /\ Len(order) = (Len(order) - 1) + 1
    BY <2>1
  <2> QED
    BY <2>2
<1>4. /\ Len(order') = k /\ Positions = 0..k + 1 /\ Positions' = 0..k
      /\ \A i \in 1..k : order'[i] = order[i + 1]
  BY <1>2, <1>3, <1>n, HeadTailProperties DEF Positions
<1>5. \A i \in 0..k : At(i)' = At(i + 1)
  BY <1>2, <1>3, <1>4 DEF At
<1>6. \A i \in 1..k + 1 : At(i) \in Nodes \ {tail}
  <2>1. At(0) = tail
    BY DEF At
  <2> QED
    BY <1>1, <1>4, <2>1, AtType DEF ListShape
<1>7. TypeOK'
  BY <1>1, <1>2 DEF DequeueTake, Delete, TypeOK
<1>8. ListShape'
  <2>1. \A i, j \in 0..k : At(i)' = At(j)' => i = j
    BY <1>1, <1>4, <1>5 DEF ListShape
  <2>2. \A i \in 0..k : At(i)' \notin free'
    BY <1>1, <1>3, <1>4, <1>5, <1>6 DEF ListShape
  <2>3. head = At(k + 1) /\ head \in Nodes \ {tail}
    BY <1>1, <1>n, <1>6 DEF ListShape
  <2> QED
    BY <1>1, <1>3, <1>4, <1>5, <2>1, <2>2, <2>3 DEF ListShape
<1>9. \A q \in Producers, i \in 1..k : Links(q, i + 1) <=> Links(q, i)'
  <2>1. \A i \in 1..k : At(i)' = At(i + 1) /\ At(i - 1)' = At((i + 1) - 1)
    BY <1>5
  <2> QED
    BY <1>3, <2>1 DEF Links
<1>10. \A i \in 1..k : /\ At(i)' = At(i + 1) /\ At(i - 1)' = At((i + 1) - 1)
                       /\ next'[At((i + 1) - 1)] = next[At((i + 1) - 1)]
                       /\ i + 1 \in Positions \ {0}
  BY <1>3, <1>4, <1>5, <1>6
<1>11. ListLinked'
  <2>1. ASSUME NEW i \in 1..k
        PROVE  \/ next'[At(i - 1)'] = At(i)'
               \/ next'[At(i - 1)'] = Null /\ \E q \in Producers : Links(q, i)'
    <3>1. \/ next[At((i + 1) - 1)] = At(i + 1)
          \/ next[At((i + 1) - 1)] = Null /\ \E q \in Producers : Links(q, i + 1)
      BY <1>1, <1>10 DEF ListLinked
    <3> QED
      BY <1>9, <1>10, <3>1
  <2>2. Positions' \ {0} = 1..k
    BY <1>4
  <2> QED
    BY <2>1, <2>2 DEF ListLinked
<1>12. ProducerInv'
  <2>1. ASSUME NEW q \in Producers, ppc'[q] = "exchange"
        PROVE  /\ node'[q] \in Nodes \ free'
               /\ next'[node'[q]] = Null
               /\ \A i \in Positions' : At(i)' # node'[q]
               /\ data'[node'[q]] \in Values
    <3>1. ppc[q] = "exchange" /\ node[q] # tail
      <4>1. At(0) = tail /\ 0 \in Positions
        BY <1>4 DEF At
      <4> QED
        BY <1>1, <1>3, <2>1, <4>1 DEF ProducerInv
    <3> QED
      BY <1>1, <1>3, <1>4, <1>5, <3>1 DEF ProducerInv
  <2>2. ASSUME NEW q \in Producers, ppc'[q] = "link"
        PROVE  \E i \in Positions' \ {0} : Links(q, i)' /\ next'[At(i - 1)'] = Null
    <3>1. PICK i \in Positions \ {0} : Links(q, i) /\ next[At(i - 1)] = Null
      BY <1>1, <1>3, <2>2 DEF ProducerInv
    <3>2. i # 1
      BY <1>1, <1>2, <3>1, ConstantsAssumption DEF At
    <3>3. PICK j \in 1..k : i = j + 1
      <4>1. i - 1 \in 1..k /\ i = (i - 1) + 1
        BY <1>4, <3>1, <3>2
      <4> QED
        BY <4>1
    <3>4. Links(q, j)' /\ next'[At(j - 1)'] = Null
      BY <1>9, <1>10, <3>1, <3>3
    <3>5. j \in Positions' \ {0}
      BY <1>4, <3>3
    <3> QED
      BY <3>4, <3>5
  <2> QED
    BY <1>1, <1>3, <2>1, <2>2 DEF ProducerInv
<1> QED
  BY <1>1, <1>3, <1>7, <1>8, <1>11, <1>12 DEF QueueIInv, ConsumerInv, LifeInv

(* The destructor begins when no producer is inside Enqueue, and ends when the
   list is its last node. *)
LEMMA DestroyIInv ==
  ASSUME QueueIInv, BeginDestroy \/ EndDestroy
  PROVE  QueueIInv'
<1>1. /\ TypeOK /\ ListShape /\ ListLinked /\ ProducerInv /\ ConsumerInv /\ LifeInv
      /\ cpc = "idle" /\ \A p \in Producers : ppc[p] = "idle"
  BY DEF QueueIInv, BeginDestroy, EndDestroy, LifeInv
<1>2. CASE BeginDestroy
  BY <1>1, <1>2 DEF BeginDestroy, QueueIInv, TypeOK, ListShape, ListLinked, ProducerInv,
     ConsumerInv, LifeInv, Positions, At, Links
<1>3. CASE EndDestroy
  <2>1. TypeOK'
    BY <1>1, <1>3 DEF EndDestroy, Delete, TypeOK
  <2>2. order = <<>>
    <3>1. SUFFICES ASSUME order # <<>> PROVE FALSE
      OBVIOUS
    <3>2. 1 \in Positions /\ At(1) \in Nodes /\ At(1 - 1) = tail
      <4>1. 1 \in Positions
        BY <1>1, <3>1 DEF TypeOK, Positions
      <4> QED
        BY <1>1, <4>1, AtType DEF At
    <3> QED
      BY <1>1, <1>3, <3>2, ConstantsAssumption DEF EndDestroy, ListLinked, Links
  <2> QED
    BY <1>1, <1>3, <2>1, <2>2 DEF EndDestroy, QueueIInv, ProducerInv, ConsumerInv, LifeInv
<1> QED
  BY <1>2, <1>3

LEMMA NextQueueIInv ==
  ASSUME QueueIInv, [QueueNext]_queueVars
  PROVE  QueueIInv'
<1>1. CASE UNCHANGED queueVars
  BY <1>1 DEF queueVars, QueueIInv, TypeOK, ListShape, ListLinked, ProducerInv, ConsumerInv,
     LifeInv, Positions, At, Links
<1> QED
  BY <1>1, NewNodeIInv, ExchangeIInv, LinkIInv, LoadIInv, TakeIInv, DestroyIInv
  DEF QueueNext, ProducerStep, ConsumerStep, Terminated

-----------------------------------------------------------------------------
(* The shape of the list holds in every reachable state. *)
THEOREM QueueInvariance == QueueSpec => []QueueIInv
<1>1. QueueInit => QueueIInv
  BY InitQueueIInv
<1>2. QueueIInv /\ [QueueNext]_queueVars => QueueIInv'
  BY NextQueueIInv
<1> QED
  BY <1>1, <1>2, PTL DEF QueueSpec

(* Every variable keeps its type. *)
THEOREM TypeCorrect == QueueSpec => []TypeOK
<1>1. QueueIInv => TypeOK
  BY DEF QueueIInv
<1> QED
  BY <1>1, QueueInvariance, PTL

(* Neither Dequeue, through _tail and its next, nor Enqueue, through the head
   it exchanged, uses a node that was deleted. *)
THEOREM NoUseAfterFreeCorrect == QueueSpec => []NoUseAfterFree
<1>1. QueueIInv => NoUseAfterFree
  <2> SUFFICES ASSUME QueueIInv PROVE NoUseAfterFree
    OBVIOUS
  <2>0. TypeOK /\ ProducerInv /\ ConsumerInv /\ LifeInv
    BY DEF QueueIInv
  <2>1. Len(order) \in Positions /\ 0 \in Positions
    BY <2>0 DEF TypeOK, Positions
  <2>2. CASE life = "closed"
    BY <2>0, <2>2 DEF NoUseAfterFree, LifeInv
  <2>3. CASE life # "closed"
    <3>1. ListShape /\ At(0) = tail
      BY <2>3 DEF QueueIInv, At
    <3>2. head \notin free /\ tail \notin free
      BY <2>1, <3>1 DEF ListShape
    <3>3. cpc = "take" => cnext \notin free
      <4>1. cpc = "take" => 1 \in Positions /\ At(1) = cnext
        BY <2>0 DEF TypeOK, ConsumerInv, Positions, At
      <4> QED
        BY <3>1, <4>1 DEF ListShape
    <3>4. ASSUME NEW p \in Producers
          PROVE  /\ ppc[p] # "idle" => node[p] \notin free
                 /\ ppc[p] = "link" => prev[p] \notin free
      <4>1. ppc[p] = "link" => node[p] \notin free /\ prev[p] \notin free
        BY <2>0, <3>1, AtType DEF ProducerInv, Links, ListShape
      <4>2. ppc[p] = "exchange" => node[p] \notin free
        BY <2>0 DEF ProducerInv
      <4> QED
        BY <2>0, <4>1, <4>2 DEF TypeOK
    <3> QED
      BY <3>2, <3>3, <3>4 DEF NoUseAfterFree
  <2> QED
    BY <2>2, <2>3
<1> QED
  BY <1>1, QueueInvariance, PTL

-----------------------------------------------------------------------------
(* The refinement.  Enqueue takes effect at its exchange, Dequeue at its store
   to _tail; every other step leaves the abstract queue alone. *)

(* The values in the order of the exchanges: the mapping of Fifo. *)
Mapped == [i \in 1..Len(order) |-> data[order[i]]]

LEMMA MappedType ==
  ASSUME TypeOK
  PROVE  /\ Mapped \in Seq(Values \cup {NoValue})
         /\ Len(Mapped) = Len(order)
         /\ \A i \in 1..Len(order) : order[i] \in Nodes /\ Mapped[i] = data[order[i]]
BY DEF TypeOK, Mapped

(* A step that leaves order and the values of its nodes alone. *)
LEMMA MappedSame ==
  ASSUME TypeOK, order' = order, \A i \in 1..Len(order) : data'[order[i]] = data[order[i]]
  PROVE  Mapped' = Mapped
BY DEF Mapped

(* Exchange appends the value of the producer's node. *)
LEMMA ExchangePuts ==
  ASSUME QueueIInv, NEW p \in Producers, Exchange(p)
  PROVE  data[node[p]] \in Values /\ Mapped' = Append(Mapped, data[node[p]]) /\ out' = out
<1>1. /\ TypeOK /\ TypeOK' /\ data[node[p]] \in Values /\ node[p] \in Nodes
      /\ order' = Append(order, node[p]) /\ UNCHANGED <<data, out>>
  BY ExchangeIInv DEF QueueIInv, Exchange, ProducerInv
<1> DEFINE V == Values \cup {NoValue}
           s == Append(Mapped, data[node[p]])
<1>2. /\ s \in Seq(V) /\ Len(s) = Len(order) + 1
      /\ \A i \in 1..Len(order) : s[i] = data[order[i]]
      /\ s[Len(order) + 1] = data[node[p]]
  BY <1>1, MappedType
<1>3. /\ Len(order) \in Nat /\ Len(order') = Len(order) + 1
      /\ \A i \in 1..Len(order) : order'[i] = order[i]
      /\ order'[Len(order) + 1] = node[p]
  BY <1>1 DEF TypeOK
<1>4. /\ Mapped' \in Seq(V) /\ Len(Mapped') = Len(order')
      /\ \A i \in 1..Len(order') : Mapped'[i] = data[order'[i]]
  BY <1>1 DEF TypeOK, Mapped
<1>5. \A i \in 1..Len(order') : Mapped'[i] = s[i]
  BY <1>2, <1>3, <1>4
<1>6. Mapped' = s
  BY <1>2, <1>3, <1>4, <1>5, SeqEqual
<1> QED
  BY <1>1, <1>6

(* DequeueTake returns the oldest value and removes it. *)
LEMMA DequeueTakes ==
  ASSUME QueueIInv, DequeueTake
  PROVE  Mapped # <<>> /\ out' = Head(Mapped) /\ Mapped' = Tail(Mapped)
<1>1. /\ TypeOK /\ TypeOK' /\ ListShape /\ ConsumerInv /\ order # <<>> /\ cnext = order[1]
      /\ out' = data[cnext] /\ order' = Tail(order) /\ tail \in Nodes
      /\ data' = [data EXCEPT ![tail] = NoValue]
  BY TakeIInv DEF QueueIInv, DequeueTake, Delete, LifeInv, ConsumerInv, TypeOK
<1> DEFINE V == Values \cup {NoValue}
           s == Tail(Mapped)
<1>2. Len(order) \in Nat \ {0} /\ Mapped \in Seq(V) /\ Len(Mapped) = Len(order)
      /\ Mapped # <<>> /\ Mapped[1] = data[order[1]]
  <2>1. Len(order) \in Nat \ {0}
    BY <1>1 DEF TypeOK
  <2> QED
    BY <1>1, <2>1, MappedType
<1>3. out' = Head(Mapped)
  BY <1>1, <1>2
<1>4. /\ s \in Seq(V) /\ Len(s) = Len(order) - 1
      /\ \A i \in 1..Len(order) - 1 : s[i] = Mapped[i + 1]
  BY <1>2, HeadTailProperties
<1>5. /\ Len(order') = Len(order) - 1
      /\ \A i \in 1..Len(order) - 1 : order'[i] = order[i + 1]
  BY <1>1, HeadTailProperties DEF TypeOK
<1>6. ASSUME NEW i \in 2..Len(order) PROVE order[i] \in Nodes \ {tail}
  <2>1. At(i) = order[i] /\ At(0) = tail /\ i \in Positions /\ 0 \in Positions
    BY <1>2 DEF At, Positions
  <2> QED
    BY <1>1, <2>1, AtType DEF ListShape
<1>7. \A i \in 1..Len(order) - 1 : data'[order[i + 1]] = data[order[i + 1]]
  BY <1>1, <1>2, <1>6 DEF TypeOK
<1>8. /\ Mapped' \in Seq(V) /\ Len(Mapped') = Len(order')
      /\ \A i \in 1..Len(order') : Mapped'[i] = data'[order'[i]]
  BY <1>1 DEF TypeOK, Mapped
<1>9. \A i \in 1..Len(Mapped') : Mapped'[i] = s[i]
  BY <1>2, <1>4, <1>5, <1>7, <1>8, MappedType, <1>1
<1>10. Mapped' = s
  BY <1>4, <1>5, <1>8, <1>9, SeqEqual
<1> QED
  BY <1>2, <1>3, <1>10

(* Every step of the queue is a step of FifoQueue or leaves it alone. *)
LEMMA StepImplements ==
  ASSUME QueueIInv, [QueueNext]_queueVars
  PROVE  [Fifo!Next]_<<Mapped, out>>
<1>0. TypeOK
  BY DEF QueueIInv
<1>1. CASE UNCHANGED queueVars
  BY <1>0, <1>1, MappedSame DEF queueVars
<1>2. ASSUME NEW p \in Producers, NEW n \in Nodes, NEW v \in Values, NewNode(p, n, v)
      PROVE  UNCHANGED <<Mapped, out>>
  <2>1. \A i \in 1..Len(order) : order[i] \in Nodes \ {n}
    <3>1. ListShape /\ n \in free
      BY <1>2 DEF QueueIInv, NewNode
    <3>2. \A i \in 1..Len(order) : order[i] = At(i) /\ i \in Positions
      BY <1>0 DEF TypeOK, At, Positions
    <3> QED
      BY <1>0, <3>1, <3>2, AtType DEF ListShape
  <2> QED
    BY <1>0, <1>2, <2>1, MappedSame DEF NewNode, TypeOK
<1>3. ASSUME NEW p \in Producers, Exchange(p) PROVE Fifo!Next
  BY <1>3, ExchangePuts DEF Fifo!Next, Fifo!Put, Mapped
<1>4. ASSUME NEW p \in Producers, Link(p) PROVE UNCHANGED <<Mapped, out>>
  BY <1>0, <1>4, MappedSame DEF Link
<1>5. CASE DequeueLoad \/ BeginDestroy
  BY <1>0, <1>5, MappedSame DEF DequeueLoad, BeginDestroy
<1>6. CASE DequeueTake
  BY <1>6, DequeueTakes DEF Fifo!Next, Fifo!Take, Mapped
<1>7. CASE EndDestroy
  <2>1. order = <<>>
    BY <1>7, DestroyIInv DEF EndDestroy, QueueIInv, LifeInv
  <2>2. 1..Len(order) = {}
    BY <2>1
  <2> QED
    BY <1>0, <1>7, <2>2, MappedSame DEF EndDestroy
<1> QED
  BY <1>1, <1>2, <1>3, <1>4, <1>5, <1>6, <1>7
  DEF QueueNext, ProducerStep, ConsumerStep, Terminated

(* MPSCQueue is a FIFO queue: whatever the interleaving of Enqueue and Dequeue,
   values come out in the order of the exchanges, each once. *)
THEOREM ImplementsFifoCorrect == QueueSpec => ImplementsFifo
<1>1. QueueInit => Fifo!Init
  BY DEF QueueInit, Fifo!Init
<1>2. QueueIInv /\ [QueueNext]_queueVars => [Fifo!Next]_<<[i \in 1..Len(order) |-> data[order[i]]], out>>
  BY StepImplements DEF Mapped
<1> QED
  BY <1>1, <1>2, QueueInvariance, PTL DEF QueueSpec, ImplementsFifo, Fifo!Spec

-----------------------------------------------------------------------------
(***************************************************************************)
(* Proofs about Socket, for any sockets, packet sizes, buffer sizes and    *)
(* number of packets: the bytes on the wire are those of the accepted      *)
(* packets in order, and OnClose runs once.                                *)
(*                                                                         *)
(* What is to be written lies in three places: the write queue, the        *)
(* message WorldSocket::Update is filling and the packet queue.  As long   *)
(* as the socket can be written to, these hold exactly the accepted bytes  *)
(* that have not left, each at its place (Stream); once it cannot, nothing *)
(* leaves any more.                                                        *)
(***************************************************************************)
Bytes == Seq(Nat)

SocketType ==
    [closed: BOOLEAN, closing: BOOLEAN, shut: BOOLEAN, closes: Nat,
     bufferQueue: Seq(Bytes), writeQueue: Seq(Bytes), writing: BOOLEAN,
     reading: BOOLEAN,
     query: {"none", "ip", "greeted", "auth", "continued", "permissions", "done"},
     instance: BOOLEAN, known: BOOLEAN, sending: Nat, finishing: BOOLEAN,
     up: BOOLEAN, room: Nat, count: Nat, accepted: Bytes, wire: Bytes]

InUpdate == {"drain", "base", "handle", "queries"}

TypeInv ==
    /\ sock \in [Sockets -> SocketType]
    /\ where \in [Sockets -> {"none", "new", "live", "gone"}]
    /\ pc \in {"idle", "next", "exited"} \cup InUpdate
    /\ pc \in InUpdate => cur \in Sockets
    /\ buffer \in Bytes
    /\ pc # "drain" => buffer = <<>>

(* The message that is being filled for socket s. *)
Open(s) == IF pc = "drain" /\ cur = s THEN buffer ELSE <<>>

(* Message m holds the bytes of the stream that follow the first p. *)
Segment(m, p, stream) ==
    /\ p + Len(m) <= Len(stream)
    /\ \A i \in 1..Len(m) : m[i] = stream[p + i]

(* The messages of the queue hold the bytes of the stream after the first p, up
   to byte r, one message after the other; off says where each one begins. *)
Chain(queue, p, r, stream) ==
    \E off \in [1..Len(queue) + 1 -> Nat] :
        /\ off[1] = p /\ off[Len(queue) + 1] = r
        /\ \A i \in 1..Len(queue) :
            /\ Segment(queue[i], off[i], stream)
            /\ off[i + 1] = off[i] + Len(queue[i])

(* Sent and unsent bytes of a socket whose open message is b. *)
Stream(k, b) ==
    /\ Segment(k.wire, 0, k.accepted)
    /\ Writable(k) =>
        \E p \in Nat :
            /\ Chain(k.writeQueue, Len(k.wire), p, k.accepted)
            /\ Segment(b, p, k.accepted)
            /\ Chain(k.bufferQueue, p + Len(b), Len(k.accepted), k.accepted)

(* What the two halves of a CloseSocket leave behind. *)
Closing(k) ==
    /\ ~k.closed => k.closes = 0 /\ ~k.finishing /\ ~k.shut
    /\ k.finishing => k.closes = 0
    /\ k.closes <= 1

(* Until its address is checked a socket sends nothing: the greeting, which
   goes straight to the write queue, overtakes no packet. *)
Silent(k) == k.bufferQueue = <<>> /\ ~k.reading /\ ~k.known /\ k.sending = 0

Fresh(w, k) ==
    /\ (w = "none" \/ k.query = "ip") => Silent(k)
    /\ w = "none" => k.query = "none"

IInv ==
    /\ TypeInv
    /\ \A s \in Sockets : Stream(sock[s], Open(s)) /\ Closing(sock[s])
                            /\ Fresh(where[s], sock[s])

-----------------------------------------------------------------------------
(* Segments and chains. *)

(* The stream grows at its end. *)
LEMMA SegmentExtend ==
    ASSUME NEW m \in Bytes, NEW p \in Nat, NEW a \in Bytes, NEW x \in Bytes,
           Segment(m, p, a)
    PROVE  Segment(m, p, a \o x)
  <1>1. /\ Len(m) \in Nat /\ Len(a) \in Nat /\ Len(x) \in Nat
        /\ Len(a \o x) = Len(a) + Len(x)
        /\ \A i \in 1..Len(a) : (a \o x)[i] = a[i]
    BY ConcatProperties, LenProperties DEF Bytes
  <1>2. \A i \in 1..Len(m) : p + i \in 1..Len(a)
    BY <1>1 DEF Segment
  <1> QED BY <1>1, <1>2 DEF Segment

(* What is added to the stream is the segment after its old end. *)
LEMMA SegmentNew ==
    ASSUME NEW a \in Bytes, NEW x \in Bytes
    PROVE  Segment(x, Len(a), a \o x)
  <1>1. /\ Len(a) \in Nat /\ Len(x) \in Nat
        /\ Len(a \o x) = Len(a) + Len(x)
        /\ \A i \in 1..Len(a) + Len(x) :
              (a \o x)[i] = IF i <= Len(a) THEN a[i] ELSE x[i - Len(a)]
    BY ConcatProperties, LenProperties DEF Bytes
  <1>2. ASSUME NEW i \in 1..Len(x) PROVE x[i] = (a \o x)[Len(a) + i]
    <2>1. Len(a) + i \in 1..Len(a) + Len(x) /\ ~(Len(a) + i <= Len(a))
            /\ (Len(a) + i) - Len(a) = i
      BY <1>1
    <2> QED BY <1>1, <2>1
  <1> QED BY <1>1, <1>2 DEF Segment

(* Two segments, one after the other, are one. *)
LEMMA SegmentConcat ==
    ASSUME NEW m \in Bytes, NEW n \in Bytes, NEW p \in Nat, NEW a \in Bytes,
           Segment(m, p, a), Segment(n, p + Len(m), a)
    PROVE  Segment(m \o n, p, a)
  <1>1. /\ Len(m) \in Nat /\ Len(n) \in Nat /\ Len(a) \in Nat
        /\ Len(m \o n) = Len(m) + Len(n)
        /\ \A i \in 1..Len(m) + Len(n) :
              (m \o n)[i] = IF i <= Len(m) THEN m[i] ELSE n[i - Len(m)]
    BY ConcatProperties, LenProperties DEF Bytes
  <1>2. ASSUME NEW i \in 1..Len(m) + Len(n) PROVE (m \o n)[i] = a[p + i]
    <2>1. CASE i <= Len(m)
      BY <1>1, <2>1 DEF Segment
    <2>2. CASE ~(i <= Len(m))
      <3>1. i - Len(m) \in 1..Len(n) /\ (p + Len(m)) + (i - Len(m)) = p + i
        BY <1>1, <2>2
      <3>2. n[i - Len(m)] = a[(p + Len(m)) + (i - Len(m))]
        BY <3>1 DEF Segment
      <3> QED BY <1>1, <2>2, <3>1, <3>2
    <2> QED BY <2>1, <2>2
  <1> QED BY <1>1, <1>2 DEF Segment

(* A segment cut in two. *)
LEMMA SegmentCut ==
    ASSUME NEW m \in Bytes, NEW p \in Nat, NEW a \in Bytes, Segment(m, p, a),
           NEW n \in 0..Len(m)
    PROVE  /\ SubSeq(m, 1, n) \in Bytes /\ SubSeq(m, n + 1, Len(m)) \in Bytes
           /\ Len(SubSeq(m, 1, n)) = n /\ Len(SubSeq(m, n + 1, Len(m))) = Len(m) - n
           /\ Segment(SubSeq(m, 1, n), p, a)
           /\ Segment(SubSeq(m, n + 1, Len(m)), p + n, a)
  <1>0. Len(m) \in Nat /\ Len(a) \in Nat /\ n \in Nat
    BY LenProperties DEF Bytes
  <1>1. /\ SubSeq(m, 1, n) \in Bytes /\ Len(SubSeq(m, 1, n)) = n
        /\ \A i \in 1..n : SubSeq(m, 1, n)[i] = m[i]
    <2>1. \A i \in 1..n : m[i] \in Nat
      BY <1>0, ElementOfSeq DEF Bytes
    <2>2. /\ SubSeq(m, 1, n) \in Seq(Nat)
          /\ Len(SubSeq(m, 1, n)) = IF 1 <= n THEN n - 1 + 1 ELSE 0
          /\ \A i \in 1..n - 1 + 1 : SubSeq(m, 1, n)[i] = m[1 + i - 1]
      BY <1>0, <2>1, SubSeqProperties
    <2> QED BY <1>0, <2>2 DEF Bytes
  <1>2. /\ SubSeq(m, n + 1, Len(m)) \in Bytes
        /\ Len(SubSeq(m, n + 1, Len(m))) = Len(m) - n
        /\ \A i \in 1..Len(m) - n : SubSeq(m, n + 1, Len(m))[i] = m[n + i]
    <2>1. \A i \in n + 1..Len(m) : m[i] \in Nat
      BY <1>0, ElementOfSeq DEF Bytes
    <2>2. /\ SubSeq(m, n + 1, Len(m)) \in Seq(Nat)
          /\ Len(SubSeq(m, n + 1, Len(m))) =
                IF n + 1 <= Len(m) THEN Len(m) - (n + 1) + 1 ELSE 0
          /\ \A i \in 1..Len(m) - (n + 1) + 1 :
                SubSeq(m, n + 1, Len(m))[i] = m[(n + 1) + i - 1]
      BY <1>0, <2>1, SubSeqProperties
    <2>3. Len(m) - (n + 1) + 1 = Len(m) - n
            /\ \A i \in 1..Len(m) - n : (n + 1) + i - 1 = n + i
      BY <1>0
    <2>4. Len(SubSeq(m, n + 1, Len(m))) = Len(m) - n
      BY <1>0, <2>2, n <= Len(m)
    <2> QED BY <2>2, <2>3, <2>4 DEF Bytes
  <1>3. Segment(SubSeq(m, 1, n), p, a)
    BY <1>0, <1>1 DEF Segment
  <1>4. Segment(SubSeq(m, n + 1, Len(m)), p + n, a)
    <2>1. \A i \in 1..Len(m) - n : n + i \in 1..Len(m) /\ p + (n + i) = (p + n) + i
      BY <1>0
    <2>2. \A i \in 1..Len(m) - n : m[n + i] = a[(p + n) + i]
      BY <2>1 DEF Segment
    <2>3. (p + n) + (Len(m) - n) <= Len(a)
      BY <1>0 DEF Segment
    <2> QED BY <1>2, <2>2, <2>3 DEF Segment
  <1> QED BY <1>1, <1>2, <1>3, <1>4

LEMMA SegmentEmpty ==
    ASSUME NEW p \in Nat, NEW a \in Bytes, p <= Len(a)
    PROVE  Segment(<<>>, p, a)
  BY LenProperties, EmptySeq DEF Segment, Bytes

(* The empty queue. *)
LEMMA ChainEmpty ==
    ASSUME NEW p \in Nat, NEW a
    PROVE  Chain(<<>>, p, p, a)
  <1> DEFINE off == [i \in 1..1 |-> p]
  <1>1. off \in [1..Len(<<>>) + 1 -> Nat] /\ off[1] = p /\ off[Len(<<>>) + 1] = p
    BY EmptySeq
  <1>2. 1..Len(<<>>) = {}
    BY EmptySeq
  <1> QED BY <1>1, <1>2 DEF Chain

(* And no other chain of an empty queue. *)
LEMMA ChainOfEmpty ==
    ASSUME NEW p, NEW r, NEW a, Chain(<<>>, p, r, a)
    PROVE  p = r /\ p \in Nat
  <1>1. Len(<<>>) = 0
    BY EmptySeq
  <1>2. PICK off \in [1..Len(<<>>) + 1 -> Nat] : off[1] = p /\ off[Len(<<>>) + 1] = r
    BY DEF Chain
  <1> QED BY <1>1, <1>2

LEMMA ChainEnds ==
    ASSUME NEW q \in Seq(Bytes), NEW p, NEW r, NEW a, Chain(q, p, r, a)
    PROVE  p \in Nat /\ r \in Nat
  <1>1. Len(q) \in Nat
    BY LenProperties
  <1>2. PICK off \in [1..Len(q) + 1 -> Nat] : off[1] = p /\ off[Len(q) + 1] = r
    BY DEF Chain
  <1> QED BY <1>1, <1>2

LEMMA ChainExtend ==
    ASSUME NEW q \in Seq(Bytes), NEW p, NEW r, NEW a \in Bytes, NEW x \in Bytes,
           Chain(q, p, r, a)
    PROVE  Chain(q, p, r, a \o x)
  <1>1. Len(q) \in Nat
    BY LenProperties
  <1>2. PICK off \in [1..Len(q) + 1 -> Nat] :
            /\ off[1] = p /\ off[Len(q) + 1] = r
            /\ \A i \in 1..Len(q) :
                /\ Segment(q[i], off[i], a)
                /\ off[i + 1] = off[i] + Len(q[i])
    BY DEF Chain
  <1>3. ASSUME NEW i \in 1..Len(q) PROVE Segment(q[i], off[i], a \o x)
    <2>1. q[i] \in Bytes /\ off[i] \in Nat
      BY <1>1, ElementOfSeq
    <2> QED BY <1>2, <2>1, SegmentExtend
  <1> QED BY <1>2, <1>3 DEF Chain

(* A message is queued. *)
LEMMA ChainAppend ==
    ASSUME NEW q \in Seq(Bytes), NEW p, NEW r, NEW a, NEW m \in Bytes,
           Chain(q, p, r, a), Segment(m, r, a)
    PROVE  Chain(Append(q, m), p, r + Len(m), a)
  <1>1. /\ Len(q) \in Nat /\ Len(m) \in Nat /\ Append(q, m) \in Seq(Bytes)
        /\ Len(Append(q, m)) = Len(q) + 1
        /\ \A i \in 1..Len(q) : Append(q, m)[i] = q[i]
        /\ Append(q, m)[Len(q) + 1] = m
    <2>1. Len(m) \in Nat
      BY LenProperties DEF Bytes
    <2> QED BY <2>1, LenProperties, AppendProperties
  <1>2. PICK off \in [1..Len(q) + 1 -> Nat] :
            /\ off[1] = p /\ off[Len(q) + 1] = r
            /\ \A i \in 1..Len(q) :
                /\ Segment(q[i], off[i], a)
                /\ off[i + 1] = off[i] + Len(q[i])
    BY DEF Chain
  <1>3. r \in Nat
    BY <1>1, <1>2
  <1> DEFINE of2 == [i \in 1..(Len(q) + 1) + 1 |->
                        IF i = Len(q) + 2 THEN r + Len(m) ELSE off[i]]
  <1>4. of2 \in [1..Len(Append(q, m)) + 1 -> Nat]
    <2>1. ASSUME NEW i \in 1..(Len(q) + 1) + 1
          PROVE  (IF i = Len(q) + 2 THEN r + Len(m) ELSE off[i]) \in Nat
      <3>1. CASE i = Len(q) + 2
        BY <1>1, <1>3, <3>1
      <3>2. CASE i # Len(q) + 2
        <4>1. i \in 1..Len(q) + 1
          BY <1>1, <3>2
        <4> QED BY <3>2, <4>1
      <3> QED BY <3>1, <3>2
    <2> QED BY <1>1, <2>1
  <1>5. /\ of2[1] = p /\ of2[Len(Append(q, m)) + 1] = r + Len(m)
        /\ \A i \in 1..Len(q) + 1 : of2[i] = off[i]
    BY <1>1, <1>2
  <1> HIDE DEF of2
  <1>6. ASSUME NEW i \in 1..Len(Append(q, m))
        PROVE  /\ Segment(Append(q, m)[i], of2[i], a)
               /\ of2[i + 1] = of2[i] + Len(Append(q, m)[i])
    <2>1. CASE i \in 1..Len(q)
      <3>1. i + 1 \in 1..Len(q) + 1 /\ i \in 1..Len(q) + 1
        BY <1>1, <2>1
      <3> QED BY <1>1, <1>2, <1>5, <2>1, <3>1
    <2>2. CASE i = Len(q) + 1
      <3>1. of2[i] = r /\ of2[i + 1] = r + Len(m) /\ Append(q, m)[i] = m
        BY <1>1, <1>2, <1>5, <2>2
      <3> QED BY <3>1
    <2> QED BY <1>1, <2>1, <2>2
  <1> QED BY <1>4, <1>5, <1>6 DEF Chain

(* The front message, and the rest. *)
LEMMA ChainTail ==
    ASSUME NEW q \in Seq(Bytes), q # <<>>, NEW p, NEW r, NEW a, Chain(q, p, r, a)
    PROVE  /\ Segment(Head(q), p, a)
           /\ Chain(Tail(q), p + Len(Head(q)), r, a)
  <1>1. /\ Len(q) \in Nat /\ Len(q) # 0 /\ Head(q) = q[1]
        /\ Tail(q) \in Seq(Bytes) /\ Len(Tail(q)) = Len(q) - 1
        /\ \A i \in 1..Len(Tail(q)) : Tail(q)[i] = q[i + 1]
    BY LenProperties, EmptySeq, HeadTailProperties
  <1>2. PICK off \in [1..Len(q) + 1 -> Nat] :
            /\ off[1] = p /\ off[Len(q) + 1] = r
            /\ \A i \in 1..Len(q) :
                /\ Segment(q[i], off[i], a)
                /\ off[i + 1] = off[i] + Len(q[i])
    BY DEF Chain
  <1>3. 1 \in 1..Len(q) /\ 1 + 1 = 2
    BY <1>1
  <1>4. Segment(Head(q), p, a) /\ off[2] = p + Len(Head(q))
    BY <1>1, <1>2, <1>3
  <1> DEFINE of2 == [i \in 1..Len(q) |-> off[i + 1]]
  <1>5. /\ of2 \in [1..Len(Tail(q)) + 1 -> Nat]
        /\ of2[1] = p + Len(Head(q)) /\ of2[Len(Tail(q)) + 1] = r
    BY <1>1, <1>2, <1>4
  <1>6. \A i \in 1..Len(q) : of2[i] = off[i + 1]
    OBVIOUS
  <1> HIDE DEF of2
  <1>7. ASSUME NEW i \in 1..Len(Tail(q))
        PROVE  /\ Segment(Tail(q)[i], of2[i], a)
               /\ of2[i + 1] = of2[i] + Len(Tail(q)[i])
    <2>1. i + 1 \in 1..Len(q) /\ i \in 1..Len(q)
      BY <1>1
    <2>2. Tail(q)[i] = q[i + 1] /\ of2[i] = off[i + 1] /\ of2[i + 1] = off[(i + 1) + 1]
      BY <1>1, <1>6, <2>1
    <2>3. Segment(q[i + 1], off[i + 1], a) /\ off[(i + 1) + 1] = off[i + 1] + Len(q[i + 1])
      BY <1>2, <2>1
    <2> QED BY <2>2, <2>3
  <1> QED BY <1>4, <1>5, <1>7 DEF Chain

(* The first n bytes of the front message are gone. *)
LEMMA ChainTrim ==
    ASSUME NEW q \in Seq(Bytes), q # <<>>, NEW p, NEW r, NEW a \in Bytes,
           Chain(q, p, r, a), NEW n \in 0..Len(Head(q))
    PROVE  /\ [q EXCEPT ![1] = SubSeq(@, n + 1, Len(@))] \in Seq(Bytes)
           /\ Chain([q EXCEPT ![1] = SubSeq(@, n + 1, Len(@))], p + n, r, a)
  <1>1. Len(q) \in Nat /\ Len(q) # 0 /\ Head(q) = q[1] /\ 1 \in 1..Len(q)
    BY LenProperties, EmptySeq
  <1>2. PICK off \in [1..Len(q) + 1 -> Nat] :
            /\ off[1] = p /\ off[Len(q) + 1] = r
            /\ \A i \in 1..Len(q) :
                /\ Segment(q[i], off[i], a)
                /\ off[i + 1] = off[i] + Len(q[i])
    BY DEF Chain
  <1>3. p \in Nat /\ q[1] \in Bytes /\ n \in 0..Len(q[1]) /\ n \in Nat
            /\ Segment(q[1], p, a) /\ off[2] = p + Len(q[1]) /\ Len(q[1]) \in Nat
    <2>1. q[1] \in Bytes /\ n \in 0..Len(q[1]) /\ 1 + 1 = 2
      BY <1>1, ElementOfSeq
    <2>2. Len(q[1]) \in Nat
      BY <2>1, LenProperties DEF Bytes
    <2> QED BY <1>1, <1>2, <2>1, <2>2
  <1> DEFINE rest == SubSeq(q[1], n + 1, Len(q[1]))
             q2 == [q EXCEPT ![1] = rest]
             of2 == [off EXCEPT ![1] = p + n]
  <1>4. rest \in Bytes /\ Len(rest) = Len(q[1]) - n /\ Segment(rest, p + n, a)
    BY <1>3, SegmentCut
  <1> HIDE DEF rest
  <1>5. /\ q2 \in Seq(Bytes) /\ Len(q2) = Len(q)
        /\ q2[1] = rest /\ \A i \in 1..Len(q) : i # 1 => q2[i] = q[i]
    BY <1>1, <1>4, ExceptSeq
  <1>6. /\ of2 \in [1..Len(q) + 1 -> Nat] /\ of2[1] = p + n
        /\ \A i \in 1..Len(q) + 1 : i # 1 => of2[i] = off[i]
    BY <1>1, <1>3
  <1> HIDE DEF q2, of2
  <1>7. of2[Len(q) + 1] = r
    BY <1>1, <1>2, <1>6
  <1>8. ASSUME NEW i \in 1..Len(q)
        PROVE  Segment(q2[i], of2[i], a) /\ of2[i + 1] = of2[i] + Len(q2[i])
    <2>0. i + 1 \in 1..Len(q) + 1 /\ i + 1 # 1 /\ i \in 1..Len(q) + 1
      BY <1>1
    <2>1. CASE i = 1
      <3>1. of2[2] = p + Len(q[1]) /\ i + 1 = 2
        BY <1>3, <1>6, <2>0, <2>1
      <3>2. p + Len(q[1]) = (p + n) + (Len(q[1]) - n)
        <4>1. p \in Nat /\ n \in Nat /\ Len(q[1]) \in Nat
          BY <1>3
        <4>2. \A x, y, z \in Nat : x + z = (x + y) + (z - y)
          OBVIOUS
        <4> QED BY <4>1, <4>2
      <3> QED BY <1>4, <1>5, <1>6, <2>1, <3>1, <3>2
    <2>2. CASE i # 1
      BY <1>2, <1>5, <1>6, <2>0, <2>2
    <2> QED BY <2>1, <2>2
  <1>9. q2 \in Seq(Bytes) /\ Chain(q2, p + n, r, a)
    BY <1>5, <1>6, <1>7, <1>8 DEF Chain
  <1> QED BY <1>9 DEF q2, rest

-----------------------------------------------------------------------------
(* What happens to the bytes of a socket. *)

(* Sockets k and k2 differ in nothing that Stream reads. *)
SameBytes(k, k2) ==
    /\ k2.wire = k.wire /\ k2.accepted = k.accepted
    /\ k2.writeQueue = k.writeQueue /\ k2.bufferQueue = k.bufferQueue
    /\ Writable(k2) => Writable(k)

LEMMA StreamSame ==
    ASSUME NEW k, NEW k2, NEW b, Stream(k, b), SameBytes(k, k2)
    PROVE  Stream(k2, b)
  BY DEF Stream, SameBytes

(* A packet enters the packet queue. *)
LEMMA StreamEnqueue ==
    ASSUME NEW k \in SocketType, NEW k2 \in SocketType, NEW b \in Bytes, NEW x \in Bytes,
           Stream(k, b),
           k2.wire = k.wire, k2.writeQueue = k.writeQueue,
           k2.bufferQueue = Append(k.bufferQueue, x), k2.accepted = k.accepted \o x,
           Writable(k2) => Writable(k)
    PROVE  Stream(k2, b)
  <1>1. /\ k.wire \in Bytes /\ k.accepted \in Bytes
        /\ k.writeQueue \in Seq(Bytes) /\ k.bufferQueue \in Seq(Bytes)
    BY DEF SocketType
  <1>2. Segment(k2.wire, 0, k2.accepted)
    BY <1>1, SegmentExtend DEF Stream
  <1>3. ASSUME Writable(k2)
        PROVE  \E p \in Nat :
                  /\ Chain(k2.writeQueue, Len(k2.wire), p, k2.accepted)
                  /\ Segment(b, p, k2.accepted)
                  /\ Chain(k2.bufferQueue, p + Len(b), Len(k2.accepted), k2.accepted)
    <2>1. PICK p \in Nat :
            /\ Chain(k.writeQueue, Len(k.wire), p, k.accepted)
            /\ Segment(b, p, k.accepted)
            /\ Chain(k.bufferQueue, p + Len(b), Len(k.accepted), k.accepted)
      BY <1>3 DEF Stream
    <2>2. Chain(k2.writeQueue, Len(k2.wire), p, k2.accepted)
      BY <1>1, <2>1, ChainExtend
    <2>3. Segment(b, p, k2.accepted)
      BY <1>1, <2>1, SegmentExtend
    <2>4. Chain(k.bufferQueue, p + Len(b), Len(k.accepted), k2.accepted)
      BY <1>1, <2>1, ChainExtend
    <2>5. Segment(x, Len(k.accepted), k2.accepted)
      BY <1>1, SegmentNew
    <2>6. Chain(k2.bufferQueue, p + Len(b), Len(k.accepted) + Len(x), k2.accepted)
      BY <1>1, <2>4, <2>5, ChainAppend
    <2>7. Len(k2.accepted) = Len(k.accepted) + Len(x)
      BY <1>1, ConcatProperties DEF Bytes
    <2> QED BY <2>2, <2>3, <2>6, <2>7
  <1> QED BY <1>2, <1>3 DEF Stream

(* A message goes straight to the write queue while nothing waits elsewhere. *)
LEMMA StreamQueuePacket ==
    ASSUME NEW k \in SocketType, NEW k2 \in SocketType, NEW x \in Bytes,
           Stream(k, <<>>), k.bufferQueue = <<>>,
           k2.wire = k.wire, k2.bufferQueue = <<>>,
           k2.writeQueue = Append(k.writeQueue, x), k2.accepted = k.accepted \o x,
           Writable(k2) => Writable(k)
    PROVE  Stream(k2, <<>>)
  <1>1. /\ k.wire \in Bytes /\ k.accepted \in Bytes /\ k.writeQueue \in Seq(Bytes)
        /\ k2.accepted \in Bytes /\ Len(k2.accepted) \in Nat
        /\ Len(k.accepted) \in Nat /\ Len(<<>>) = 0 /\ Len(x) \in Nat
        /\ Len(k2.accepted) = Len(k.accepted) + Len(x)
    BY ConcatProperties, LenProperties, EmptySeq DEF SocketType, Bytes
  <1>2. Segment(k2.wire, 0, k2.accepted)
    BY <1>1, SegmentExtend DEF Stream
  <1>3. ASSUME Writable(k2)
        PROVE  \E p \in Nat :
                  /\ Chain(k2.writeQueue, Len(k2.wire), p, k2.accepted)
                  /\ Segment(<<>>, p, k2.accepted)
                  /\ Chain(k2.bufferQueue, p + Len(<<>>), Len(k2.accepted), k2.accepted)
    <2>1. PICK p \in Nat :
            /\ Chain(k.writeQueue, Len(k.wire), p, k.accepted)
            /\ Chain(<<>>, p + Len(<<>>), Len(k.accepted), k.accepted)
      BY <1>3 DEF Stream
    <2>2. p = Len(k.accepted)
      BY <1>1, <2>1, ChainOfEmpty
    <2>3. Chain(k.writeQueue, Len(k.wire), Len(k.accepted), k2.accepted)
      BY <1>1, <2>1, <2>2, ChainExtend
    <2>4. Segment(x, Len(k.accepted), k2.accepted)
      BY <1>1, SegmentNew
    <2>5. Chain(k2.writeQueue, Len(k2.wire), Len(k2.accepted), k2.accepted)
      BY <1>1, <2>3, <2>4, ChainAppend
    <2>6. Chain(<<>>, Len(k2.accepted), Len(k2.accepted), k2.accepted)
      BY <1>1, ChainEmpty
    <2>7. Segment(<<>>, Len(k2.accepted), k2.accepted)
      <3>1. Len(k2.accepted) <= Len(k2.accepted)
        BY <1>1
      <3> QED BY <1>1, <3>1, SegmentEmpty
    <2> QED BY <1>1, <2>5, <2>6, <2>7
  <1> QED BY <1>2, <1>3 DEF Stream

(* The front message is dropped: it is empty, or the socket is no longer
   written to. *)
LEMMA StreamDrop ==
    ASSUME NEW k \in SocketType, NEW k2 \in SocketType, NEW b \in Bytes, Stream(k, b),
           k.writeQueue # <<>>, Head(k.writeQueue) = <<>> \/ ~Writable(k),
           k2.wire = k.wire, k2.accepted = k.accepted, k2.bufferQueue = k.bufferQueue,
           k2.writeQueue = Tail(k.writeQueue), Writable(k2) => Writable(k)
    PROVE  Stream(k2, b)
  <1>1. /\ Len(k.wire) \in Nat /\ k.writeQueue \in Seq(Bytes) /\ Len(<<>>) = 0
    BY LenProperties, EmptySeq DEF SocketType, Bytes
  <1>2. ASSUME Writable(k2)
        PROVE  \E p \in Nat :
                  /\ Chain(k2.writeQueue, Len(k2.wire), p, k2.accepted)
                  /\ Segment(b, p, k2.accepted)
                  /\ Chain(k2.bufferQueue, p + Len(b), Len(k2.accepted), k2.accepted)
    <2>1. PICK p \in Nat :
            /\ Chain(k.writeQueue, Len(k.wire), p, k.accepted)
            /\ Segment(b, p, k.accepted)
            /\ Chain(k.bufferQueue, p + Len(b), Len(k.accepted), k.accepted)
      BY <1>2 DEF Stream
    <2>2. Chain(Tail(k.writeQueue), Len(k.wire) + Len(Head(k.writeQueue)), p, k.accepted)
      BY <1>1, <2>1, ChainTail
    <2>3. Len(k.wire) + Len(Head(k.writeQueue)) = Len(k.wire)
      <3>1. Head(k.writeQueue) = <<>>
        BY <1>2
      <3>2. Len(k.wire) + 0 = Len(k.wire)
        BY <1>1
      <3> QED BY <1>1, <3>1, <3>2
    <2> QED BY <2>1, <2>2, <2>3
  <1> QED BY <1>2 DEF Stream

(* The first n bytes of the front message leave. *)
LEMMA StreamSent ==
    ASSUME NEW k \in SocketType, NEW b \in Bytes, Stream(k, b), Writable(k),
           k.writeQueue # <<>>, NEW n \in 0..Len(Head(k.writeQueue)), n <= k.room
    PROVE  /\ Sent(k, n) \in SocketType /\ Stream(Sent(k, n), b)
           /\ Len(Head(Sent(k, n).writeQueue)) = Len(Head(k.writeQueue)) - n
           /\ Sent(k, n).writeQueue # <<>>
           /\ Sent(k, n).room = k.room - n
  <1> DEFINE front == Head(k.writeQueue)
             queue == [k.writeQueue EXCEPT ![1] = SubSeq(@, n + 1, Len(@))]
             wire == k.wire \o SubSeq(front, 1, n)
  <1>1. /\ k.wire \in Bytes /\ k.accepted \in Bytes /\ k.writeQueue \in Seq(Bytes)
        /\ k.bufferQueue \in Seq(Bytes) /\ k.room \in Nat
        /\ front \in Bytes /\ Len(front) \in Nat /\ Len(k.wire) \in Nat /\ n \in Nat
    <2>1. k.wire \in Bytes /\ k.accepted \in Bytes /\ k.writeQueue \in Seq(Bytes)
            /\ k.bufferQueue \in Seq(Bytes) /\ k.room \in Nat
      BY DEF SocketType
    <2>2. front \in Bytes
      BY <2>1, HeadTailProperties
    <2> QED BY <2>1, <2>2, LenProperties DEF Bytes
  <1>2. PICK p \in Nat :
            /\ Chain(k.writeQueue, Len(k.wire), p, k.accepted)
            /\ Segment(b, p, k.accepted)
            /\ Chain(k.bufferQueue, p + Len(b), Len(k.accepted), k.accepted)
    BY DEF Stream
  <1>3. Segment(front, Len(k.wire), k.accepted)
    BY <1>1, <1>2, ChainTail
  <1>4. /\ SubSeq(front, 1, n) \in Bytes /\ Len(SubSeq(front, 1, n)) = n
        /\ Segment(SubSeq(front, 1, n), Len(k.wire), k.accepted)
        /\ Len(SubSeq(front, n + 1, Len(front))) = Len(front) - n
    BY <1>1, <1>3, SegmentCut
  <1>5. queue \in Seq(Bytes) /\ Chain(queue, Len(k.wire) + n, p, k.accepted)
    BY <1>1, <1>2, ChainTrim
  <1>6. queue # <<>> /\ Head(queue) = SubSeq(front, n + 1, Len(front))
    <2>1. Len(k.writeQueue) \in Nat /\ Len(k.writeQueue) # 0
            /\ DOMAIN k.writeQueue = 1..Len(k.writeQueue)
      BY <1>1, LenProperties, EmptySeq
    <2>2. 1 \in DOMAIN k.writeQueue /\ front = k.writeQueue[1]
      BY <1>1, <2>1
    <2>3. queue[1] = SubSeq(front, n + 1, Len(front)) /\ DOMAIN queue = 1..Len(k.writeQueue)
      BY <2>1, <2>2
    <2>4. 1 \in DOMAIN queue
      BY <2>1, <2>3
    <2>5. queue # <<>>
      BY <2>4, EmptySeq
    <2> HIDE DEF queue
    <2> QED BY <1>5, <2>3, <2>5
  <1>7. wire \in Bytes /\ Len(wire) = Len(k.wire) + n
    <2>1. wire \in Seq(Nat) /\ Len(wire) = Len(k.wire) + Len(SubSeq(front, 1, n))
      BY <1>1, <1>4, ConcatProperties DEF Bytes
    <2> QED BY <1>4, <2>1 DEF Bytes
  <1>8. Segment(wire, 0, k.accepted)
    <2>1. Segment(k.wire, 0, k.accepted) /\ 0 + Len(k.wire) = Len(k.wire)
      BY <1>1 DEF Stream
    <2> QED BY <1>1, <1>4, <2>1, SegmentConcat
  <1>9. k.room - n \in Nat
    BY <1>1
  <1>10. Sent(k, n) = [k EXCEPT !.wire = wire, !.room = k.room - n, !.writeQueue = queue]
    BY DEF Sent
  <1> HIDE DEF wire, queue, front
  <1>11. /\ Sent(k, n) \in SocketType
         /\ Sent(k, n).wire = wire /\ Sent(k, n).writeQueue = queue
         /\ Sent(k, n).accepted = k.accepted /\ Sent(k, n).bufferQueue = k.bufferQueue
         /\ Sent(k, n).room = k.room - n
    <2> DEFINE k1 == [k EXCEPT !.wire = wire]
               k2 == [k1 EXCEPT !.room = k.room - n]
               k3 == [k2 EXCEPT !.writeQueue = queue]
    <2>0. Sent(k, n) = k3
      BY <1>10
    <2>1. /\ k1 \in SocketType /\ k1.wire = wire /\ k1.accepted = k.accepted
          /\ k1.bufferQueue = k.bufferQueue
      BY <1>7 DEF SocketType
    <2> HIDE DEF k1
    <2>2. /\ k2 \in SocketType /\ k2.wire = wire /\ k2.accepted = k.accepted
          /\ k2.bufferQueue = k.bufferQueue /\ k2.room = k.room - n
      BY <1>9, <2>1 DEF SocketType
    <2> HIDE DEF k2
    <2>3. /\ k3 \in SocketType /\ k3.wire = wire /\ k3.accepted = k.accepted
          /\ k3.bufferQueue = k.bufferQueue /\ k3.room = k.room - n
          /\ k3.writeQueue = queue
      BY <1>5, <2>2 DEF SocketType
    <2> QED BY <2>0, <2>3
  <1>12. Stream(Sent(k, n), b)
    BY <1>2, <1>5, <1>7, <1>8, <1>11 DEF Stream
  <1>13. Head(queue) = SubSeq(front, n + 1, Len(front)) /\ front = Head(k.writeQueue)
    BY <1>6 DEF front
  <1> QED BY <1>4, <1>6, <1>11, <1>12, <1>13

-----------------------------------------------------------------------------
(* The operations of a socket. *)

Sound(k, b) == k \in SocketType /\ Stream(k, b) /\ Closing(k)

(* The fields that Fresh reads. *)
Keeps(k, k2) ==
    /\ k2.query = k.query /\ k2.reading = k.reading /\ k2.known = k.known
    /\ k2.sending = k.sending /\ k2.bufferQueue = k.bufferQueue

SameClose(k, k2) ==
    /\ k2.closed = k.closed /\ k2.finishing = k.finishing
    /\ k2.shut = k.shut /\ k2.closes = k.closes

LEMMA FreshKeeps ==
    ASSUME NEW k, NEW k2, NEW w, Fresh(w, k), Keeps(k, k2)
    PROVE  Fresh(w, k2)
  BY DEF Fresh, Silent, Keeps

LEMMA SoundSame ==
    ASSUME NEW k, NEW k2, NEW b, Sound(k, b), k2 \in SocketType,
           SameBytes(k, k2), SameClose(k, k2)
    PROVE  Sound(k2, b)
  <1>1. Stream(k2, b)
    BY StreamSame DEF Sound
  <1>2. Closing(k2)
    BY DEF Sound, Closing, SameClose
  <1> QED BY <1>1, <1>2 DEF Sound

(* CloseSocket as one step. *)
LEMMA CloseSound ==
    ASSUME NEW k, NEW b, Sound(k, b)
    PROVE  Sound(CloseSocket(k), b) /\ Keeps(k, CloseSocket(k))
  <1>1. CASE k.closed
    BY <1>1 DEF CloseSocket, Keeps
  <1>2. CASE ~k.closed
    <2> DEFINE k2 == [k EXCEPT !.closed = TRUE, !.shut = TRUE, !.closes = @ + 1]
    <2>1. CloseSocket(k) = k2
      BY <1>2 DEF CloseSocket
    <2>2. k \in SocketType /\ k.closes = 0 /\ ~k.finishing
      BY <1>2 DEF Sound, Closing
    <2>3. /\ k2 \in SocketType /\ k2.closed /\ k2.shut /\ k2.closes = 1
          /\ k2.finishing = k.finishing /\ k2.wire = k.wire /\ k2.accepted = k.accepted
          /\ k2.writeQueue = k.writeQueue /\ k2.bufferQueue = k.bufferQueue
          /\ Keeps(k, k2)
      <3> DEFINE k3 == [k EXCEPT !.closed = TRUE]
                 k4 == [k3 EXCEPT !.shut = TRUE]
                 k5 == [k4 EXCEPT !.closes = 1]
      <3>0. k2 = k5
        <4>1. k2 = [k4 EXCEPT !.closes = k.closes + 1]
          OBVIOUS
        <4>2. k.closes + 1 = 1
          BY <2>2
        <4> QED BY <4>1, <4>2
      <3>1. /\ k3 \in SocketType /\ k3.closed /\ k3.finishing = k.finishing
            /\ SameBytes(k, k3) /\ Keeps(k, k3) /\ k3.closes = k.closes
        BY <2>2 DEF SocketType, Keeps, SameBytes, Writable
      <3> HIDE DEF k3
      <3>2. /\ k4 \in SocketType /\ k4.closed /\ k4.finishing = k.finishing /\ k4.shut
            /\ SameBytes(k, k4) /\ Keeps(k, k4) /\ k4.closes = k.closes
        BY <2>2, <3>1 DEF SocketType, Keeps, SameBytes, Writable
      <3> HIDE DEF k4
      <3>3. /\ k5 \in SocketType /\ k5.closed /\ k5.finishing = k.finishing /\ k5.shut
            /\ SameBytes(k, k5) /\ Keeps(k, k5) /\ k5.closes = 1
        BY <2>2, <3>2 DEF SocketType, Keeps, SameBytes, Writable
      <3> HIDE DEF k5
      <3> QED BY <3>0, <3>3 DEF SameBytes
    <2> HIDE DEF k2
    <2>4. Stream(k2, b)
      <3>1. SameBytes(k, k2)
        BY <2>3 DEF SameBytes, Writable
      <3> QED BY <3>1, StreamSame DEF Sound
    <2>5. Closing(k2)
      BY <2>2, <2>3 DEF Closing
    <2> QED BY <2>1, <2>3, <2>4, <2>5 DEF Sound
  <1> QED BY <1>1, <1>2

(* The front message is taken off, and a delayed close may follow. *)
LEMMA PopSound ==
    ASSUME NEW k, NEW b \in Bytes, Sound(k, b), k.writeQueue # <<>>,
           Head(k.writeQueue) = <<>> \/ ~Writable(k)
    PROVE  Sound(Pop(k), b) /\ Keeps(k, Pop(k))
  <1> DEFINE k2 == [k EXCEPT !.writeQueue = Tail(@)]
  <1>1. k \in SocketType /\ Tail(k.writeQueue) \in Seq(Bytes)
    BY HeadTailProperties DEF Sound, SocketType
  <1>2. /\ k2 \in SocketType /\ k2.writeQueue = Tail(k.writeQueue)
        /\ k2.wire = k.wire /\ k2.accepted = k.accepted /\ k2.bufferQueue = k.bufferQueue
        /\ k2.up = k.up /\ SameClose(k, k2) /\ Keeps(k, k2)
    BY <1>1 DEF SocketType, SameClose, Keeps
  <1>3. Pop(k) = IF k2.closing /\ k2.writeQueue = <<>> THEN CloseSocket(k2) ELSE k2
    BY DEF Pop
  <1> HIDE DEF k2
  <1>4. Stream(k2, b)
    <2>1. Writable(k2) => Writable(k)
      BY <1>2 DEF Writable, SameClose
    <2>2. Stream(k, b)
      BY DEF Sound
    <2> QED BY <1>1, <1>2, <2>1, <2>2, StreamDrop
  <1>5. Sound(k2, b)
    BY <1>2, <1>4 DEF Sound, Closing, SameClose
  <1>6. Sound(CloseSocket(k2), b) /\ Keeps(k2, CloseSocket(k2))
    BY <1>5, CloseSound
  <1> QED BY <1>2, <1>3, <1>5, <1>6 DEF Keeps

LEMMA SentSound ==
    ASSUME NEW k, NEW b \in Bytes, Sound(k, b), Writable(k),
           k.writeQueue # <<>>, NEW n \in 0..Len(Head(k.writeQueue)), n <= k.room
    PROVE  /\ Sound(Sent(k, n), b) /\ Keeps(k, Sent(k, n))
           /\ Sent(k, n).writeQueue # <<>>
           /\ Len(Head(Sent(k, n).writeQueue)) = Len(Head(k.writeQueue)) - n
  <1>1. k \in SocketType /\ Stream(k, b) /\ Closing(k)
    BY DEF Sound
  <1>2. /\ Sent(k, n) \in SocketType /\ Stream(Sent(k, n), b)
        /\ Len(Head(Sent(k, n).writeQueue)) = Len(Head(k.writeQueue)) - n
        /\ Sent(k, n).writeQueue # <<>>
    BY <1>1, StreamSent
  <1>3. SameClose(k, Sent(k, n)) /\ Keeps(k, Sent(k, n))
    BY <1>1 DEF Sent, SocketType, SameClose, Keeps
  <1>4. Closing(Sent(k, n))
    BY <1>1, <1>3 DEF Closing, SameClose
  <1> QED BY <1>2, <1>3, <1>4 DEF Sound

LEMMA AsyncSound ==
    ASSUME NEW k, NEW b, Sound(k, b)
    PROVE  Sound(AsyncProcessQueue(k), b) /\ Keeps(k, AsyncProcessQueue(k))
  <1>1. k \in SocketType
    BY DEF Sound
  <1>2. /\ AsyncProcessQueue(k) \in SocketType /\ SameBytes(k, AsyncProcessQueue(k))
        /\ SameClose(k, AsyncProcessQueue(k)) /\ Keeps(k, AsyncProcessQueue(k))
    BY <1>1 DEF AsyncProcessQueue, SocketType, SameBytes, SameClose, Keeps, Writable
  <1> QED BY <1>2, SoundSame

(* HandleQueue in each of its cases. *)
LEMMA HandleQueueSound ==
    ASSUME NEW k, NEW b \in Bytes, Sound(k, b)
    PROVE  Sound(HandleQueue(k).socket, b) /\ Keeps(k, HandleQueue(k).socket)
  <1> DEFINE message == Head(k.writeQueue)
  <1>1. CASE k.writeQueue = <<>>
    <2>1. HandleQueue(k).socket = k
      BY <1>1 DEF HandleQueue
    <2> QED BY <2>1 DEF Keeps
  <1>2. CASE k.writeQueue # <<>> /\ (message = <<>> \/ ~Writable(k))
    <2>1. HandleQueue(k).socket = Pop(k)
      BY <1>2 DEF HandleQueue
    <2> QED BY <1>2, <2>1, PopSound
  <1>3. CASE k.writeQueue # <<>> /\ message # <<>> /\ Writable(k)
    <2>1. k.room \in Nat /\ message \in Bytes /\ Len(message) \in Nat
      <3>1. k.room \in Nat /\ k.writeQueue \in Seq(Bytes)
        BY DEF Sound, SocketType
      <3>2. message \in Bytes
        BY <1>3, <3>1, HeadTailProperties
      <3> QED BY <3>1, <3>2, LenProperties DEF Bytes
    <2>2. CASE k.room < Len(message) /\ k.room = 0
      <3>1. HandleQueue(k).socket = AsyncProcessQueue(k)
        BY <1>3, <2>2 DEF HandleQueue
      <3> QED BY <3>1, AsyncSound
    <2>3. CASE k.room < Len(message) /\ k.room # 0
      <3>1. HandleQueue(k).socket = AsyncProcessQueue(Sent(k, k.room))
        BY <1>3, <2>3 DEF HandleQueue
      <3>2. k.room \in 0..Len(message) /\ k.room <= k.room
        BY <2>1, <2>3
      <3>3. Sound(Sent(k, k.room), b) /\ Keeps(k, Sent(k, k.room))
        BY <1>3, <3>2, SentSound
      <3> QED BY <3>1, <3>3, AsyncSound DEF Keeps
    <2>4. CASE ~(k.room < Len(message))
      <3> DEFINE k2 == Sent(k, Len(message))
      <3>1. HandleQueue(k).socket = Pop(k2)
        BY <1>3, <2>4 DEF HandleQueue
      <3>2. Len(message) \in 0..Len(message) /\ Len(message) <= k.room
        BY <2>1, <2>4
      <3>3. /\ Sound(k2, b) /\ Keeps(k, k2) /\ k2.writeQueue # <<>>
            /\ Len(Head(k2.writeQueue)) = Len(message) - Len(message)
        BY <1>3, <3>2, SentSound
      <3> HIDE DEF k2
      <3>4. Head(k2.writeQueue) = <<>>
        <4>1. k2.writeQueue \in Seq(Bytes)
          BY <3>3 DEF Sound, SocketType
        <4>2. Head(k2.writeQueue) \in Seq(Nat)
          BY <3>3, <4>1, HeadTailProperties DEF Bytes
        <4>3. Len(Head(k2.writeQueue)) = 0
          BY <2>1, <3>3
        <4> HIDE DEF message
        <4> QED BY <4>2, <4>3, EmptySeq
      <3>5. Sound(Pop(k2), b) /\ Keeps(k2, Pop(k2))
        BY <3>3, <3>4, PopSound
      <3> QED BY <3>1, <3>3, <3>5 DEF Keeps
    <2> QED BY <2>2, <2>3, <2>4
  <1> QED BY <1>1, <1>2, <1>3

-----------------------------------------------------------------------------
(* WorldSocket::Update fills messages. *)

(* The open message is queued. *)
LEMMA StreamQueueOpen ==
    ASSUME NEW k \in SocketType, NEW k2 \in SocketType, NEW b \in Bytes, Stream(k, b),
           k2.wire = k.wire, k2.accepted = k.accepted, k2.bufferQueue = k.bufferQueue,
           k2.writeQueue = Append(k.writeQueue, b), Writable(k2) => Writable(k)
    PROVE  Stream(k2, <<>>)
  <1>1. /\ k.writeQueue \in Seq(Bytes) /\ Len(b) \in Nat /\ Len(<<>>) = 0
        /\ k.accepted \in Bytes /\ Len(k.accepted) \in Nat
    BY LenProperties, EmptySeq DEF SocketType, Bytes
  <1>2. ASSUME Writable(k2)
        PROVE  \E p \in Nat :
                  /\ Chain(k2.writeQueue, Len(k2.wire), p, k2.accepted)
                  /\ Segment(<<>>, p, k2.accepted)
                  /\ Chain(k2.bufferQueue, p + Len(<<>>), Len(k2.accepted), k2.accepted)
    <2>1. PICK p \in Nat :
            /\ Chain(k.writeQueue, Len(k.wire), p, k.accepted)
            /\ Segment(b, p, k.accepted)
            /\ Chain(k.bufferQueue, p + Len(b), Len(k.accepted), k.accepted)
      BY <1>2 DEF Stream
    <2>2. Chain(k2.writeQueue, Len(k.wire), p + Len(b), k.accepted)
      BY <1>1, <2>1, ChainAppend
    <2>3. p + Len(b) \in Nat /\ (p + Len(b)) + 0 = p + Len(b)
      BY <1>1
    <2>4. Segment(<<>>, p + Len(b), k.accepted)
      BY <1>1, <2>1, <2>3, SegmentEmpty DEF Segment
    <2>5. Chain(k.bufferQueue, (p + Len(b)) + Len(<<>>), Len(k.accepted), k.accepted)
      BY <1>1, <2>1, <2>3
    <2> QED BY <2>2, <2>3, <2>4, <2>5
  <1> QED BY <1>2 DEF Stream

(* The next packet is added to the open message. *)
LEMMA StreamFill ==
    ASSUME NEW k \in SocketType, NEW k2 \in SocketType, NEW b \in Bytes, Stream(k, b),
           k.bufferQueue # <<>>,
           k2.wire = k.wire, k2.accepted = k.accepted, k2.writeQueue = k.writeQueue,
           k2.bufferQueue = Tail(k.bufferQueue), Writable(k2) => Writable(k)
    PROVE  Stream(k2, b \o Head(k.bufferQueue))
  <1> DEFINE x == Head(k.bufferQueue)
  <1>1. /\ k.bufferQueue \in Seq(Bytes) /\ x \in Bytes /\ Len(b) \in Nat /\ Len(x) \in Nat
        /\ k.accepted \in Bytes
        /\ Len(b \o x) = Len(b) + Len(x)
    <2>1. k.bufferQueue \in Seq(Bytes) /\ k.accepted \in Bytes
      BY DEF SocketType
    <2>2. x \in Bytes
      BY <2>1, HeadTailProperties
    <2> HIDE DEF x
    <2> QED BY <2>1, <2>2, LenProperties, ConcatProperties DEF Bytes
  <1>2. ASSUME Writable(k2)
        PROVE  \E p \in Nat :
                  /\ Chain(k2.writeQueue, Len(k2.wire), p, k2.accepted)
                  /\ Segment(b \o x, p, k2.accepted)
                  /\ Chain(k2.bufferQueue, p + Len(b \o x), Len(k2.accepted), k2.accepted)
    <2>1. PICK p \in Nat :
            /\ Chain(k.writeQueue, Len(k.wire), p, k.accepted)
            /\ Segment(b, p, k.accepted)
            /\ Chain(k.bufferQueue, p + Len(b), Len(k.accepted), k.accepted)
      BY <1>2 DEF Stream
    <2>2. /\ Segment(x, p + Len(b), k.accepted)
          /\ Chain(Tail(k.bufferQueue), (p + Len(b)) + Len(x), Len(k.accepted), k.accepted)
      BY <1>1, <2>1, ChainTail
    <2>3. Segment(b \o x, p, k.accepted)
      <3> HIDE DEF x
      <3> QED BY <1>1, <2>1, <2>2, SegmentConcat
    <2>4. (p + Len(b)) + Len(x) = p + Len(b \o x)
      <3> HIDE DEF x
      <3> QED BY <1>1
    <2> QED BY <2>1, <2>2, <2>3, <2>4
  <1> QED BY <1>2 DEF Stream

(* The next packet is a message of its own. *)
LEMMA StreamBig ==
    ASSUME NEW k \in SocketType, NEW k2 \in SocketType, Stream(k, <<>>),
           k.bufferQueue # <<>>,
           k2.wire = k.wire, k2.accepted = k.accepted,
           k2.writeQueue = Append(k.writeQueue, Head(k.bufferQueue)),
           k2.bufferQueue = Tail(k.bufferQueue), Writable(k2) => Writable(k)
    PROVE  Stream(k2, <<>>)
  <1> DEFINE x == Head(k.bufferQueue)
  <1>1. /\ k.bufferQueue \in Seq(Bytes) /\ x \in Bytes /\ Len(x) \in Nat /\ Len(<<>>) = 0
        /\ k.accepted \in Bytes /\ Len(k.accepted) \in Nat /\ k.writeQueue \in Seq(Bytes)
    <2>1. k.bufferQueue \in Seq(Bytes) /\ k.accepted \in Bytes /\ k.writeQueue \in Seq(Bytes)
      BY DEF SocketType
    <2>2. x \in Bytes
      BY <2>1, HeadTailProperties
    <2> QED BY <2>1, <2>2, LenProperties, EmptySeq DEF Bytes
  <1>2. ASSUME Writable(k2)
        PROVE  \E p \in Nat :
                  /\ Chain(k2.writeQueue, Len(k2.wire), p, k2.accepted)
                  /\ Segment(<<>>, p, k2.accepted)
                  /\ Chain(k2.bufferQueue, p + Len(<<>>), Len(k2.accepted), k2.accepted)
    <2>1. PICK p \in Nat :
            /\ Chain(k.writeQueue, Len(k.wire), p, k.accepted)
            /\ Chain(k.bufferQueue, p + Len(<<>>), Len(k.accepted), k.accepted)
      BY <1>2 DEF Stream
    <2>2. p + Len(<<>>) = p
      BY <1>1
    <2>3. /\ Segment(x, p, k.accepted)
          /\ Chain(Tail(k.bufferQueue), p + Len(x), Len(k.accepted), k.accepted)
      BY <1>1, <2>1, <2>2, ChainTail
    <2>4. Chain(k2.writeQueue, Len(k2.wire), p + Len(x), k.accepted)
      BY <1>1, <2>1, <2>3, ChainAppend
    <2>5. p + Len(x) \in Nat /\ (p + Len(x)) + Len(<<>>) = p + Len(x)
      <3> HIDE DEF x
      <3> QED BY <1>1
    <2>6. Segment(<<>>, p + Len(x), k.accepted)
      BY <1>1, <2>3, <2>5, SegmentEmpty DEF Segment
    <2> QED BY <2>3, <2>4, <2>5, <2>6
  <1> QED BY <1>2 DEF Stream

(* One turn of the loop. *)
LEMMA BatchSound ==
    ASSUME NEW k, NEW b \in Bytes, Sound(k, b), k.bufferQueue # <<>>
    PROVE  /\ Sound(Batch(k, b).socket, Batch(k, b).open) /\ Batch(k, b).open \in Bytes
           /\ Batch(k, b).socket.query = k.query
  <1> DEFINE x == Head(k.bufferQueue)
             q == Append(k.writeQueue, b)
             k1 == [k EXCEPT !.writeQueue = q]
  <1>1. /\ k \in SocketType /\ k.bufferQueue \in Seq(Bytes) /\ k.writeQueue \in Seq(Bytes)
        /\ x \in Bytes /\ Tail(k.bufferQueue) \in Seq(Bytes)
        /\ Len(b) \in Nat /\ Len(x) \in Nat /\ <<>> \in Bytes /\ q \in Seq(Bytes)
    <2>1. k \in SocketType /\ k.bufferQueue \in Seq(Bytes) /\ k.writeQueue \in Seq(Bytes)
      BY DEF Sound, SocketType
    <2>2. x \in Bytes /\ Tail(k.bufferQueue) \in Seq(Bytes)
      BY <2>1, HeadTailProperties
    <2>3. q \in Seq(Bytes)
      BY <2>1, AppendProperties
    <2> QED BY <2>1, <2>2, <2>3, LenProperties, EmptySeq DEF Bytes
  <1> HIDE DEF q
  <1>2. /\ k1 \in SocketType /\ k1.wire = k.wire /\ k1.accepted = k.accepted
        /\ k1.bufferQueue = k.bufferQueue /\ k1.writeQueue = q /\ SameClose(k, k1)
        /\ (Writable(k1) => Writable(k)) /\ k1.query = k.query
    BY <1>1 DEF SocketType, SameClose, Writable
  <1>3. Stream(k1, <<>>)
    <2> HIDE DEF k1
    <2>1. Stream(k, b)
      BY DEF Sound
    <2> QED BY <1>1, <1>2, <2>1, StreamQueueOpen DEF q
  <1>4. CASE Len(x) > BufferSize
    <2> DEFINE r == Append(q, x)
               k2 == [k EXCEPT !.bufferQueue = Tail(@), !.writeQueue = r]
    <2>1. ~(Len(b) + Len(x) <= BufferSize)
      BY <1>1, <1>4, SizesAssumption
    <2>2. Batch(k, b) = [socket |-> k2, open |-> <<>>]
      BY <1>4, <2>1 DEF Batch, q
    <2>3. r \in Seq(Bytes)
      BY <1>1, AppendProperties
    <2> HIDE DEF r, x
    <2>4. /\ k2 \in SocketType /\ k2.wire = k.wire /\ k2.accepted = k.accepted
          /\ k2.bufferQueue = Tail(k.bufferQueue) /\ k2.writeQueue = r /\ SameClose(k, k2)
          /\ (Writable(k2) => Writable(k)) /\ k2.query = k.query
          /\ k2.shut = k.shut /\ k2.up = k.up
      BY <1>1, <2>3 DEF SocketType, SameClose, Writable
    <2>5. Writable(k2) => Writable(k1)
      BY <1>1, <2>4 DEF Writable, SocketType
    <2> HIDE DEF k1, k2
    <2>6. Stream(k2, <<>>)
      BY <1>2, <1>3, <2>4, <2>5, StreamBig DEF r, x
    <2>7. Closing(k2)
      BY <2>4 DEF Sound, Closing, SameClose
    <2> QED BY <1>1, <2>2, <2>4, <2>6, <2>7 DEF Sound
  <1>5. CASE ~(Len(x) > BufferSize) /\ Len(b) + Len(x) <= BufferSize
    <2> DEFINE k2 == [k EXCEPT !.bufferQueue = Tail(@), !.writeQueue = @]
    <2>1. Batch(k, b) = [socket |-> k2, open |-> b \o x]
      BY <1>5 DEF Batch
    <2>2. b \o x \in Bytes
      BY <1>1, ConcatProperties DEF Bytes
    <2> HIDE DEF x
    <2>3. /\ k2 \in SocketType /\ k2.wire = k.wire /\ k2.accepted = k.accepted
          /\ k2.bufferQueue = Tail(k.bufferQueue) /\ k2.writeQueue = k.writeQueue
          /\ SameClose(k, k2) /\ (Writable(k2) => Writable(k)) /\ k2.query = k.query
      BY <1>1 DEF SocketType, SameClose, Writable
    <2> HIDE DEF k1, k2
    <2>4. Stream(k2, b \o x)
      <3>1. Stream(k, b)
        BY DEF Sound
      <3> QED BY <1>1, <2>3, <3>1, StreamFill DEF x
    <2>5. Closing(k2)
      BY <2>3 DEF Sound, Closing, SameClose
    <2> QED BY <2>1, <2>2, <2>3, <2>4, <2>5 DEF Sound
  <1>6. CASE ~(Len(x) > BufferSize) /\ ~(Len(b) + Len(x) <= BufferSize)
    <2> DEFINE k2 == [k EXCEPT !.bufferQueue = Tail(@), !.writeQueue = q]
    <2>1. Batch(k, b) = [socket |-> k2, open |-> <<>> \o x]
      BY <1>6 DEF Batch, q
    <2>2. <<>> \o x \in Bytes
      BY <1>1, ConcatProperties DEF Bytes
    <2> HIDE DEF x
    <2>3. /\ k2 \in SocketType /\ k2.wire = k.wire /\ k2.accepted = k.accepted
          /\ k2.bufferQueue = Tail(k.bufferQueue) /\ k2.writeQueue = q
          /\ SameClose(k, k2) /\ (Writable(k2) => Writable(k1)) /\ k2.query = k.query
      BY <1>1 DEF SocketType, SameClose, Writable
    <2> HIDE DEF k1, k2
    <2>4. Stream(k2, <<>> \o x)
      BY <1>1, <1>2, <1>3, <2>3, StreamFill DEF x
    <2>5. Closing(k2)
      BY <2>3 DEF Sound, Closing, SameClose
    <2> QED BY <2>1, <2>2, <2>3, <2>4, <2>5 DEF Sound
  <1> QED BY <1>4, <1>5, <1>6

(* What is left in the open message is queued. *)
LEMMA DrainEndsSound ==
    ASSUME NEW k, NEW b \in Bytes, Sound(k, b), NEW k2,
           k2 = [k EXCEPT !.writeQueue = IF b = <<>> THEN @ ELSE Append(@, b)]
    PROVE  Sound(k2, <<>>) /\ Keeps(k, k2)
  <1>1. k \in SocketType /\ k.writeQueue \in Seq(Bytes)
    BY DEF Sound, SocketType
  <1>2. CASE b = <<>>
    <2>1. k2 = k
      BY <1>1, <1>2 DEF SocketType
    <2> QED BY <1>2, <2>1 DEF Keeps
  <1>3. CASE b # <<>>
    <2> DEFINE q == Append(k.writeQueue, b)
    <2>1. q \in Seq(Bytes)
      BY <1>1, AppendProperties
    <2>2. k2 = [k EXCEPT !.writeQueue = q]
      BY <1>3
    <2> HIDE DEF q
    <2>3. /\ k2 \in SocketType /\ k2.wire = k.wire /\ k2.accepted = k.accepted
          /\ k2.bufferQueue = k.bufferQueue /\ k2.writeQueue = q /\ SameClose(k, k2)
          /\ (Writable(k2) => Writable(k)) /\ Keeps(k, k2)
      BY <1>1, <2>1, <2>2 DEF SocketType, SameClose, Writable, Keeps
    <2>4. Stream(k2, <<>>)
      <3>1. Stream(k, b)
        BY DEF Sound
      <3> QED BY <1>1, <2>3, <3>1, StreamQueueOpen DEF q
    <2> QED BY <2>3, <2>4 DEF Sound, Closing, SameClose
  <1> QED BY <1>2, <1>3

-----------------------------------------------------------------------------
(* What the handlers, the query callbacks and the world thread do to a socket. *)

LEMMA PacketBytesType ==
    ASSUME NEW k \in SocketType, NEW n \in Nat
    PROVE  PacketBytes(k, n) \in Bytes
  <1>1. k.count + 1 \in Nat
    BY DEF SocketType
  <1> QED BY <1>1 DEF PacketBytes, Bytes

LEMMA EnqueueSound ==
    ASSUME NEW k, NEW b \in Bytes, NEW n \in Nat, Sound(k, b)
    PROVE  /\ Sound(Enqueue(k, n), b)
           /\ Enqueue(k, n).query = k.query
  <1> DEFINE x == PacketBytes(k, n)
             q == Append(k.bufferQueue, x)
             a == k.accepted \o x
             k1 == [k EXCEPT !.bufferQueue = q]
             k2 == [k1 EXCEPT !.accepted = a]
             k3 == [k2 EXCEPT !.count = k.count + 1]
  <1>1. k \in SocketType /\ k.bufferQueue \in Seq(Bytes) /\ k.accepted \in Bytes
            /\ k.count + 1 \in Nat
    BY DEF Sound, SocketType
  <1>2. x \in Bytes
    BY <1>1, PacketBytesType
  <1> HIDE DEF x
  <1>3. q \in Seq(Bytes) /\ a \in Bytes
    BY <1>1, <1>2, AppendProperties, ConcatProperties DEF Bytes
  <1>4. Enqueue(k, n) = k3
    BY DEF Enqueue, x
  <1> HIDE DEF q, a
  <1>5. /\ k1 \in SocketType /\ k1.wire = k.wire /\ k1.writeQueue = k.writeQueue
        /\ k1.bufferQueue = q /\ k1.up = k.up /\ SameClose(k, k1) /\ k1.query = k.query
    BY <1>1, <1>3 DEF SocketType, SameClose
  <1> HIDE DEF k1
  <1>6. /\ k2 \in SocketType /\ k2.wire = k.wire /\ k2.writeQueue = k.writeQueue
        /\ k2.bufferQueue = q /\ k2.accepted = a /\ k2.up = k.up /\ SameClose(k, k2)
        /\ k2.query = k.query
    BY <1>3, <1>5 DEF SocketType, SameClose
  <1> HIDE DEF k2
  <1>7. /\ k3 \in SocketType /\ k3.wire = k.wire /\ k3.writeQueue = k.writeQueue
        /\ k3.bufferQueue = q /\ k3.accepted = a /\ k3.up = k.up /\ SameClose(k, k3)
        /\ k3.query = k.query
    BY <1>1, <1>6 DEF SocketType, SameClose
  <1> HIDE DEF k3
  <1>8. Stream(k3, b)
    <2>1. Writable(k3) => Writable(k)
      BY <1>7 DEF Writable, SameClose
    <2>2. Stream(k, b)
      BY DEF Sound
    <2> QED BY <1>1, <1>2, <1>7, <2>1, <2>2, StreamEnqueue DEF q, a
  <1> QED BY <1>4, <1>7, <1>8 DEF Sound, Closing, SameClose

LEMMA SendPacketSound ==
    ASSUME NEW k, NEW b \in Bytes, NEW n \in Nat, Sound(k, b)
    PROVE  Sound(SendPacket(k, n), b) /\ SendPacket(k, n).query = k.query
  BY EnqueueSound DEF SendPacket

LEMMA DelayedCloseSound ==
    ASSUME NEW k, NEW b, Sound(k, b)
    PROVE  Sound(DelayedCloseSocket(k), b) /\ DelayedCloseSocket(k).query = k.query
  <1>1. k \in SocketType
    BY DEF Sound
  <1>2. /\ DelayedCloseSocket(k) \in SocketType /\ SameBytes(k, DelayedCloseSocket(k))
        /\ SameClose(k, DelayedCloseSocket(k)) /\ DelayedCloseSocket(k).query = k.query
    BY <1>1 DEF DelayedCloseSocket, SocketType, SameBytes, SameClose, Writable
  <1> QED BY <1>2, SoundSame

LEMMA AsyncReadSound ==
    ASSUME NEW k, NEW b, Sound(k, b)
    PROVE  /\ Sound(AsyncRead(k), b)
           /\ AsyncRead(k).query = k.query /\ AsyncRead(k).bufferQueue = k.bufferQueue
  <1>1. k \in SocketType /\ IsOpen(k) \in BOOLEAN
    BY DEF Sound, IsOpen
  <1>2. AsyncRead(k) = [k EXCEPT !.reading = IsOpen(k)]
    BY DEF AsyncRead
  <1>3. /\ AsyncRead(k) \in SocketType /\ SameBytes(k, AsyncRead(k))
        /\ SameClose(k, AsyncRead(k)) /\ AsyncRead(k).query = k.query
        /\ AsyncRead(k).bufferQueue = k.bufferQueue
    BY <1>1, <1>2 DEF SocketType, SameBytes, SameClose, Writable
  <1> QED BY <1>3, SoundSame

(* The greeting. *)
LEMMA QueuePacketSound ==
    ASSUME NEW k, NEW n \in Nat, Sound(k, <<>>), k.bufferQueue = <<>>
    PROVE  /\ Sound(QueuePacket(k, n), <<>>)
           /\ QueuePacket(k, n).query = k.query
  <1> DEFINE x == PacketBytes(k, n)
             q == Append(k.writeQueue, x)
             a == k.accepted \o x
             k1 == [k EXCEPT !.writeQueue = q]
             k2 == [k1 EXCEPT !.accepted = a]
             k3 == [k2 EXCEPT !.count = k.count + 1]
  <1>1. k \in SocketType /\ k.writeQueue \in Seq(Bytes) /\ k.accepted \in Bytes
            /\ k.count + 1 \in Nat
    BY DEF Sound, SocketType
  <1>2. x \in Bytes
    BY <1>1, PacketBytesType
  <1> HIDE DEF x
  <1>3. q \in Seq(Bytes) /\ a \in Bytes
    BY <1>1, <1>2, AppendProperties, ConcatProperties DEF Bytes
  <1>4. QueuePacket(k, n) = k3
    BY DEF QueuePacket, x
  <1> HIDE DEF q, a
  <1>5. /\ k1 \in SocketType /\ k1.wire = k.wire /\ k1.bufferQueue = k.bufferQueue
        /\ k1.writeQueue = q /\ k1.up = k.up /\ SameClose(k, k1) /\ k1.query = k.query
    BY <1>1, <1>3 DEF SocketType, SameClose
  <1> HIDE DEF k1
  <1>6. /\ k2 \in SocketType /\ k2.wire = k.wire /\ k2.bufferQueue = k.bufferQueue
        /\ k2.writeQueue = q /\ k2.accepted = a /\ k2.up = k.up /\ SameClose(k, k2)
        /\ k2.query = k.query
    BY <1>3, <1>5 DEF SocketType, SameClose
  <1> HIDE DEF k2
  <1>7. /\ k3 \in SocketType /\ k3.wire = k.wire /\ k3.bufferQueue = k.bufferQueue
        /\ k3.writeQueue = q /\ k3.accepted = a /\ k3.up = k.up /\ SameClose(k, k3)
        /\ k3.query = k.query
    BY <1>1, <1>6 DEF SocketType, SameClose
  <1> HIDE DEF k3
  <1>8. Stream(k3, <<>>)
    <2>1. Writable(k3) => Writable(k)
      BY <1>7 DEF Writable, SameClose
    <2>2. Stream(k, <<>>) /\ k3.bufferQueue = <<>>
      BY <1>7 DEF Sound
    <2> QED BY <1>1, <1>2, <1>7, <2>1, <2>2, StreamQueuePacket DEF q, a
  <1> QED BY <1>4, <1>7, <1>8 DEF Sound, Closing, SameClose

(* A query is answered. *)
LEMMA SetQuerySound ==
    ASSUME NEW k, NEW b, Sound(k, b),
           NEW q \in {"none", "ip", "greeted", "auth", "continued", "permissions", "done"}
    PROVE  /\ Sound([k EXCEPT !.query = q], b)
           /\ [k EXCEPT !.query = q].query = q
           /\ [k EXCEPT !.query = q].bufferQueue = k.bufferQueue
  <1> DEFINE k2 == [k EXCEPT !.query = q]
  <1>1. k \in SocketType
    BY DEF Sound
  <1>2. /\ k2 \in SocketType /\ SameBytes(k, k2) /\ SameClose(k, k2) /\ k2.query = q
    BY <1>1 DEF SocketType, SameBytes, SameClose, Writable
  <1> HIDE DEF k2
  <1>3. Sound(k2, b) /\ k2.query = q /\ k2.bufferQueue = k.bufferQueue
    BY <1>2, SoundSame DEF SameBytes
  <1> QED BY <1>3 DEF k2

LEMMA StopReadingSound ==
    ASSUME NEW k, NEW b, Sound(k, b)
    PROVE  /\ Sound([k EXCEPT !.reading = FALSE], b)
           /\ [k EXCEPT !.reading = FALSE].query = k.query
  <1> DEFINE k2 == [k EXCEPT !.reading = FALSE]
  <1>1. k \in SocketType
    BY DEF Sound
  <1>2. /\ k2 \in SocketType /\ SameBytes(k, k2) /\ SameClose(k, k2) /\ k2.query = k.query
    BY <1>1 DEF SocketType, SameBytes, SameClose, Writable
  <1> HIDE DEF k2
  <1>3. Sound(k2, b) /\ k2.query = k.query
    BY <1>2, SoundSame
  <1> QED BY <1>3 DEF k2

(* A socket that was added and does not wait for the answer about its address
   may do anything. *)
LEMMA FreshLive ==
    ASSUME NEW w, NEW k, w # "none", k.query # "ip"
    PROVE  Fresh(w, k)
  BY DEF Fresh

-----------------------------------------------------------------------------
(* Steps that change one socket. *)

LEMMA ChangesIInv ==
    ASSUME IInv, NEW s \in Sockets, NEW k, Changes(s, k),
           Sound(k, Open(s)), Fresh(where[s], k)
    PROVE  IInv'
  <1>1. sock' = [sock EXCEPT ![s] = k] /\ UNCHANGED <<where, pc, cur, buffer>>
    BY DEF Changes
  <1>2. TypeInv'
    BY <1>1 DEF IInv, TypeInv, Sound
  <1>3. ASSUME NEW r \in Sockets
        PROVE  (Stream(sock[r], Open(r)) /\ Closing(sock[r]) /\ Fresh(where[r], sock[r]))'
    <2>1. Open(r)' = Open(r) /\ where'[r] = where[r]
      BY <1>1 DEF Open
    <2>2. sock'[r] = IF r = s THEN k ELSE sock[r]
      BY <1>1 DEF IInv, TypeInv
    <2>3. CASE r = s
      <3>1. Stream(k, Open(r)) /\ Closing(k) /\ Fresh(where[r], k)
        BY <2>3 DEF Sound
      <3> QED BY <2>1, <2>2, <2>3, <3>1
    <2>4. CASE r # s
      <3>1. Stream(sock[r], Open(r)) /\ Closing(sock[r]) /\ Fresh(where[r], sock[r])
        BY DEF IInv
      <3> QED BY <2>1, <2>2, <2>4, <3>1
    <2> QED BY <2>3, <2>4
  <1> QED BY <1>2, <1>3 DEF IInv

(* A step of the network thread that changes the socket it is at and fills no
   message afterwards. *)
LEMMA CurrentIInv ==
    ASSUME IInv, pc \in InUpdate, NEW k, sock' = [sock EXCEPT ![cur] = k],
           where' = where,
           Sound(k, <<>>), Fresh(where[cur], k),
           pc' \in {"next", "base", "handle", "queries"}, buffer' = <<>>,
           cur' = cur \/ pc' = "next"
    PROVE  IInv'
  <1>1. cur \in Sockets
    BY DEF IInv, TypeInv
  <1>2. TypeInv'
    <2>1. sock' \in [Sockets -> SocketType] /\ buffer' \in Bytes
      BY <1>1, EmptySeq DEF IInv, TypeInv, Sound, Bytes
    <2>2. pc' \in InUpdate => cur' \in Sockets
      BY <1>1 DEF InUpdate
    <2> QED BY <2>1, <2>2 DEF IInv, TypeInv, InUpdate
  <1>3. ASSUME NEW r \in Sockets
        PROVE  (Stream(sock[r], Open(r)) /\ Closing(sock[r]) /\ Fresh(where[r], sock[r]))'
    <2>1. Open(r)' = <<>> /\ where'[r] = where[r]
      BY DEF Open
    <2>2. sock'[r] = IF r = cur THEN k ELSE sock[r]
      BY <1>1 DEF IInv, TypeInv
    <2>3. CASE r = cur
      <3>1. Stream(k, <<>>) /\ Closing(k) /\ Fresh(where[r], k)
        BY <2>3 DEF Sound
      <3> QED BY <2>1, <2>2, <2>3, <3>1
    <2>4. CASE r # cur
      <3>1. Stream(sock[r], Open(r)) /\ Closing(sock[r]) /\ Fresh(where[r], sock[r])
        BY DEF IInv
      <3>2. Open(r) = <<>>
        BY <2>4 DEF Open
      <3> QED BY <2>1, <2>2, <2>4, <3>1, <3>2
    <2> QED BY <2>3, <2>4
  <1> QED BY <1>2, <1>3 DEF IInv

(* A step that changes no socket, fills no message afterwards and had an empty
   one before. *)
LEMMA QuietIInv ==
    ASSUME IInv, sock' = sock, where' \in [Sockets -> {"none", "new", "live", "gone"}],
           \A s \in Sockets : where'[s] = "none" => where[s] = "none",
           buffer = <<>> , buffer' = <<>>,
           pc' \in {"idle", "next", "exited"} \cup InUpdate,
           pc' \in InUpdate => cur' \in Sockets
    PROVE  IInv'
  <1>1. TypeInv'
    BY DEF IInv, TypeInv
  <1>2. ASSUME NEW r \in Sockets
        PROVE  (Stream(sock[r], Open(r)) /\ Closing(sock[r]) /\ Fresh(where[r], sock[r]))'
    <2>1. Open(r)' = <<>> /\ Open(r) = <<>> /\ sock'[r] = sock[r]
      BY DEF Open
    <2>2. Stream(sock[r], Open(r)) /\ Closing(sock[r]) /\ Fresh(where[r], sock[r])
      BY DEF IInv
    <2>3. Fresh(where'[r], sock[r])
      BY <2>2 DEF Fresh
    <2> QED BY <2>1, <2>2, <2>3
  <1> QED BY <1>1, <1>2 DEF IInv

-----------------------------------------------------------------------------
(* The invariant holds at first. *)
LEMMA InitIInv ==
    ASSUME Init
    PROVE  IInv
  <1>1. NewSocket \in SocketType /\ <<>> \in Bytes /\ <<>> \in Seq(Bytes)
    BY SizesAssumption, EmptySeq DEF NewSocket, SocketType, Bytes
  <1>2. TypeInv
    BY <1>1 DEF Init, TypeInv, InUpdate
  <1>3. Stream(NewSocket, <<>>)
    <2>1. Segment(<<>>, 0, <<>>) /\ Len(<<>>) = 0
      BY <1>1, EmptySeq, SegmentEmpty
    <2>2. Chain(<<>>, 0, 0, <<>>) /\ 0 + Len(<<>>) = 0
      BY <1>1, <2>1, ChainEmpty
    <2>3. /\ NewSocket.wire = <<>> /\ NewSocket.accepted = <<>>
          /\ NewSocket.writeQueue = <<>> /\ NewSocket.bufferQueue = <<>>
      BY DEF NewSocket
    <2> QED BY <2>1, <2>2, <2>3 DEF Stream
  <1>4. Closing(NewSocket) /\ Fresh("none", NewSocket)
    BY DEF Closing, Fresh, Silent, NewSocket
  <1>5. \A s \in Sockets : sock[s] = NewSocket /\ where[s] = "none" /\ Open(s) = <<>>
    BY DEF Init, Open
  <1> QED BY <1>2, <1>3, <1>4, <1>5 DEF IInv

(* What the invariant says of one socket. *)
LEMMA OneSocket ==
    ASSUME IInv, NEW s \in Sockets
    PROVE  Sound(sock[s], Open(s)) /\ Fresh(where[s], sock[s]) /\ Open(s) \in Bytes
  BY EmptySeq DEF IInv, TypeInv, Sound, Open, Bytes

(* Adding a socket, and the loop of NetworkThread::Update. *)
LEMMA LoopIInv ==
    ASSUME IInv,
           \/ \E s \in Sockets : AddSocket(s) \/ UpdateSocket(s)
           \/ UpdateBegins \/ UpdateEnds \/ RemoveClosed \/ BaseUpdate
           \/ Stop \/ RunExits
    PROVE  IInv'
  <1> USE DEF InUpdate
  <1>1. ASSUME NEW s \in Sockets, AddSocket(s) PROVE IInv'
    <2> DEFINE k == Start(sock[s])
    <2>1. /\ where[s] = "none" /\ where' = [where EXCEPT ![s] = "new"]
          /\ sock' = [sock EXCEPT ![s] = k] /\ UNCHANGED <<pc, cur, buffer>>
      BY <1>1 DEF AddSocket
    <2>2. Sound(sock[s], Open(s)) /\ Fresh("none", sock[s])
      BY <2>1, OneSocket
    <2>3. Sound(k, Open(s))
      BY <2>2, SetQuerySound DEF Start
    <2>4. Silent(k) /\ k.query = "ip"
      BY <2>2 DEF Fresh, Silent, Start, Sound, SocketType
    <2>5. Fresh("new", k)
      BY <2>4 DEF Fresh
    <2> HIDE DEF k
    <2>6. TypeInv'
      BY <2>1, <2>3 DEF IInv, TypeInv, Sound
    <2>7. ASSUME NEW r \in Sockets
          PROVE  (Stream(sock[r], Open(r)) /\ Closing(sock[r]) /\ Fresh(where[r], sock[r]))'
      <3>1. Open(r)' = Open(r)
        BY <2>1 DEF Open
      <3>2. sock'[r] = IF r = s THEN k ELSE sock[r]
        BY <2>1 DEF IInv, TypeInv
      <3>3. where'[r] = IF r = s THEN "new" ELSE where[r]
        BY <2>1 DEF IInv, TypeInv
      <3>4. CASE r = s
        <4>1. Stream(k, Open(r)) /\ Closing(k)
          BY <2>3, <3>4 DEF Sound
        <4> QED BY <2>5, <3>1, <3>2, <3>3, <3>4, <4>1
      <3>5. CASE r # s
        <4>1. Stream(sock[r], Open(r)) /\ Closing(sock[r]) /\ Fresh(where[r], sock[r])
          BY DEF IInv
        <4> QED BY <3>1, <3>2, <3>3, <3>5, <4>1
      <3> QED BY <3>4, <3>5
    <2> QED BY <2>6, <2>7 DEF IInv
  <1>2. ASSUME NEW s \in Sockets, UpdateSocket(s) PROVE IInv'
    <2>1. TypeInv'
      BY <1>2, EmptySeq DEF UpdateSocket, IInv, TypeInv, Bytes
    <2>2. ASSUME NEW r \in Sockets
          PROVE  (Stream(sock[r], Open(r)) /\ Closing(sock[r]) /\ Fresh(where[r], sock[r]))'
      <3>1. Open(r)' = Open(r) /\ sock' = sock /\ where' = where
        BY <1>2 DEF UpdateSocket, Open
      <3>2. Stream(sock[r], Open(r)) /\ Closing(sock[r]) /\ Fresh(where[r], sock[r])
        BY DEF IInv
      <3> QED BY <3>1, <3>2
    <2> QED BY <2>1, <2>2 DEF IInv
  <1>3. CASE UpdateBegins
    <2>1. buffer = <<>> /\ buffer' = <<>> /\ sock' = sock /\ pc' = "next"
      BY <1>3 DEF UpdateBegins, IInv, TypeInv
    <2>2. where' \in [Sockets -> {"none", "new", "live", "gone"}]
      BY <1>3 DEF UpdateBegins, IInv, TypeInv
    <2>3. \A s \in Sockets : where'[s] = "none" => where[s] = "none"
      BY <1>3 DEF UpdateBegins
    <2> QED BY <2>1, <2>2, <2>3, QuietIInv
  <1>4. CASE UpdateEnds
    <2>1. /\ buffer = <<>> /\ buffer' = <<>> /\ sock' = sock /\ pc' = "idle"
          /\ where' = where /\ where \in [Sockets -> {"none", "new", "live", "gone"}]
      BY <1>4 DEF UpdateEnds, IInv, TypeInv
    <2> QED BY <2>1, QuietIInv
  <1>5. CASE RemoveClosed
    <2>1. /\ buffer = <<>> /\ buffer' = <<>> /\ sock' = sock /\ pc' = "next"
          /\ where' = [where EXCEPT ![cur] = "gone"]
          /\ where \in [Sockets -> {"none", "new", "live", "gone"}]
      BY <1>5 DEF RemoveClosed, IInv, TypeInv
    <2>2. \A s \in Sockets : where'[s] = "none" => where[s] = "none"
      BY <2>1
    <2>3. where' \in [Sockets -> {"none", "new", "live", "gone"}]
      BY <2>1
    <2> QED BY <2>1, <2>2, <2>3, QuietIInv
  <1>6. CASE BaseUpdate
    <2>1. /\ buffer = <<>> /\ buffer' = <<>> /\ sock' = sock
          /\ pc' \in {"queries", "handle"} /\ cur' = cur /\ cur \in Sockets
          /\ where' = where /\ where \in [Sockets -> {"none", "new", "live", "gone"}]
      BY <1>6 DEF BaseUpdate, IInv, TypeInv
    <2> QED BY <2>1, QuietIInv
  <1>7. CASE Stop
    <2>1. UNCHANGED <<sock, where, pc, cur, buffer>>
      BY <1>7 DEF Stop
    <2> QED BY <2>1 DEF IInv, TypeInv, Open
  <1>8. CASE RunExits
    <2>1. buffer = <<>> /\ buffer' = <<>> /\ sock' = sock /\ pc' = "exited"
      BY <1>8 DEF RunExits, IInv, TypeInv
    <2>2. /\ where' \in [Sockets -> {"none", "new", "live", "gone"}]
          /\ \A s \in Sockets : where'[s] = "none" => where[s] = "none"
      BY <1>8 DEF RunExits
    <2> QED BY <2>1, <2>2, QuietIInv
  <1> QED BY <1>1, <1>2, <1>3, <1>4, <1>5, <1>6, <1>7, <1>8

(* The socket NetworkThread::Update is at. *)
LEMMA UpdateIInv ==
    ASSUME IInv, DrainPacket \/ DrainEnds \/ HandleStep
    PROVE  IInv'
  <1> USE DEF InUpdate
  <1>0. pc \in InUpdate /\ cur \in Sockets
    BY DEF DrainPacket, DrainEnds, HandleStep, IInv, TypeInv
  <1>1. Sound(sock[cur], Open(cur)) /\ Fresh(where[cur], sock[cur]) /\ Open(cur) \in Bytes
    BY <1>0, OneSocket
  <1>2. CASE DrainPacket
    <2> DEFINE k == Batch(sock[cur], buffer).socket
               b == Batch(sock[cur], buffer).open
    <2>1. /\ pc = "drain" /\ sock[cur].bufferQueue # <<>>
          /\ sock' = [sock EXCEPT ![cur] = k] /\ buffer' = b
          /\ UNCHANGED <<where, pc, cur>>
      BY <1>2 DEF DrainPacket
    <2>2. Open(cur) = buffer
      BY <2>1 DEF Open
    <2>3. Sound(k, b) /\ b \in Bytes /\ k.query = sock[cur].query
      BY <1>1, <2>1, <2>2, BatchSound
    <2>4. Fresh(where[cur], k)
      BY <1>1, <2>1, <2>3 DEF Fresh, Silent
    <2> HIDE DEF k, b
    <2>5. TypeInv'
      BY <1>0, <2>1, <2>3 DEF IInv, TypeInv, Sound
    <2>6. ASSUME NEW r \in Sockets
          PROVE  (Stream(sock[r], Open(r)) /\ Closing(sock[r]) /\ Fresh(where[r], sock[r]))'
      <3>1. sock'[r] = IF r = cur THEN k ELSE sock[r]
        BY <2>1 DEF IInv, TypeInv
      <3>2. CASE r = cur
        <4>1. Open(r)' = b
          BY <2>1, <3>2 DEF Open
        <4>2. Stream(k, b) /\ Closing(k)
          BY <2>3 DEF Sound
        <4>3. where' = where
          BY <2>1
        <4> QED BY <2>4, <3>1, <3>2, <4>1, <4>2, <4>3
      <3>3. CASE r # cur
        <4>1. Open(r)' = <<>> /\ Open(r) = <<>> /\ where' = where
          BY <2>1, <3>3 DEF Open
        <4>2. Stream(sock[r], Open(r)) /\ Closing(sock[r]) /\ Fresh(where[r], sock[r])
          BY DEF IInv
        <4> QED BY <3>1, <3>3, <4>1, <4>2
      <3> QED BY <3>2, <3>3
    <2> QED BY <2>5, <2>6 DEF IInv
  <1>3. CASE DrainEnds
    <2> DEFINE k == [sock[cur] EXCEPT !.writeQueue =
                        IF buffer = <<>> THEN @ ELSE Append(@, buffer)]
    <2>1. /\ pc = "drain" /\ pc' = "base" /\ sock' = [sock EXCEPT ![cur] = k]
          /\ buffer' = <<>> /\ UNCHANGED <<where, cur>>
      BY <1>3 DEF DrainEnds
    <2>2. Open(cur) = buffer
      BY <2>1 DEF Open
    <2>3. Sound(k, <<>>) /\ Keeps(sock[cur], k)
      <3>1. PICK k2 : k2 = k
        OBVIOUS
      <3> HIDE DEF k
      <3>2. k2 = [sock[cur] EXCEPT !.writeQueue = IF buffer = <<>> THEN @ ELSE Append(@, buffer)]
        BY <3>1 DEF k
      <3>3. Sound(k2, <<>>) /\ Keeps(sock[cur], k2)
        BY <1>1, <2>2, <3>2, DrainEndsSound
      <3> QED BY <3>1, <3>3
    <2> HIDE DEF k
    <2>4. Fresh(where[cur], k)
      BY <1>1, <2>3, FreshKeeps
    <2> QED BY <1>0, <2>1, <2>3, <2>4, CurrentIInv
  <1>4. CASE HandleStep
    <2> DEFINE k == HandleQueue(sock[cur]).socket
    <2>1. /\ pc = "handle" /\ pc' \in {"handle", "queries"}
          /\ sock' = [sock EXCEPT ![cur] = k] /\ UNCHANGED <<where, cur, buffer>>
      BY <1>4 DEF HandleStep
    <2>2. Open(cur) = <<>> /\ buffer' = <<>>
      BY <2>1 DEF Open, IInv, TypeInv
    <2>3. Sound(k, <<>>) /\ Keeps(sock[cur], k)
      BY <1>1, <2>2, HandleQueueSound
    <2> HIDE DEF k
    <2>4. Fresh(where[cur], k)
      BY <1>1, <2>3, FreshKeeps
    <2> QED BY <1>0, <2>1, <2>2, <2>3, <2>4, CurrentIInv
  <1> QED BY <1>2, <1>3, <1>4

(* ProcessReadyQueries. *)
LEMMA QueriesIInv ==
    ASSUME IInv, Queries
    PROVE  IInv'
  <1> DEFINE c == sock[cur]
  <1>0. pc = "queries" /\ cur \in Sockets /\ Open(cur) = <<>> /\ buffer = <<>>
    BY DEF Queries, NotReady, CheckIpBanned, CheckIpPassed, AuthRefusedSilently,
           AuthRefused, AuthAccepted, PermissionsLoaded, ContinuedRefusedSilently,
           ContinuedRefused, ContinuedAccepted, QueriesDone, IInv, TypeInv, InUpdate, Open
  <1>1. Sound(c, <<>>) /\ Fresh(where[cur], c) /\ <<>> \in Bytes
    BY <1>0, OneSocket
  <1> HIDE DEF c
  <1>2. ASSUME NEW k, QueriesDone(k), Sound(k, <<>>), Fresh(where[cur], k)
        PROVE  IInv'
    <2>1. /\ pc \in InUpdate /\ sock' = [sock EXCEPT ![cur] = k] /\ where' = where
          /\ pc' = "next" /\ buffer' = <<>>
      BY <1>0, <1>2 DEF QueriesDone, InUpdate
    <2> QED BY <1>2, <2>1, CurrentIInv
  <1>3. ASSUME c.query # "none" PROVE where[cur] # "none"
    BY <1>1, <1>3 DEF Fresh
  <1>4. ASSUME NEW q \in {"none", "ip", "greeted", "auth", "continued", "permissions", "done"}
        PROVE  /\ Sound([c EXCEPT !.query = q], <<>>)
               /\ [c EXCEPT !.query = q].query = q
               /\ [c EXCEPT !.query = q].bufferQueue = c.bufferQueue
    BY <1>1, SetQuerySound
  <1>5. CASE NotReady
    BY <1>1, <1>2, <1>5 DEF NotReady, c
  <1>6. CASE CheckIpBanned \/ AuthRefusedSilently \/ ContinuedRefusedSilently
    <2> DEFINE k1 == [c EXCEPT !.query = "none"]
    <2>1. c.query # "none" /\ QueriesDone(DelayedCloseSocket(k1))
      BY <1>6 DEF CheckIpBanned, AuthRefusedSilently, ContinuedRefusedSilently, c
    <2>2. Sound(k1, <<>>) /\ k1.query = "none"
      BY <1>4
    <2> HIDE DEF k1
    <2>3. Sound(DelayedCloseSocket(k1), <<>>) /\ DelayedCloseSocket(k1).query = "none"
      BY <2>2, DelayedCloseSound
    <2> QED BY <1>2, <1>3, <2>1, <2>3, FreshLive
  <1>7. CASE CheckIpPassed
    <2> DEFINE k1 == [c EXCEPT !.query = "greeted"]
               k2 == AsyncRead(k1)
    <2>1. c.query = "ip" /\ QueriesDone(QueuePacket(k2, 1))
      BY <1>7 DEF CheckIpPassed, c
    <2>2. Sound(k1, <<>>) /\ k1.query = "greeted" /\ k1.bufferQueue = <<>>
      BY <1>1, <1>4, <2>1 DEF Fresh, Silent
    <2> HIDE DEF k1
    <2>3. Sound(k2, <<>>) /\ k2.query = "greeted" /\ k2.bufferQueue = <<>>
      BY <2>2, AsyncReadSound
    <2> HIDE DEF k2
    <2>4. Sound(QueuePacket(k2, 1), <<>>) /\ QueuePacket(k2, 1).query = "greeted"
      BY <2>3, QueuePacketSound
    <2> QED BY <1>2, <1>3, <2>1, <2>4, FreshLive
  <1>8. CASE AuthRefused \/ ContinuedRefused
    <2> DEFINE k1 == [c EXCEPT !.query = "none"]
               k2 == SendPacket(k1, 1)
    <2>1. c.query # "none" /\ QueriesDone(DelayedCloseSocket(k2))
      BY <1>8 DEF AuthRefused, ContinuedRefused, c
    <2>2. Sound(k1, <<>>) /\ k1.query = "none"
      BY <1>4
    <2> HIDE DEF k1
    <2>3. Sound(k2, <<>>) /\ k2.query = "none"
      BY <1>1, <2>2, SendPacketSound
    <2> HIDE DEF k2
    <2>4. Sound(DelayedCloseSocket(k2), <<>>) /\ DelayedCloseSocket(k2).query = "none"
      BY <2>3, DelayedCloseSound
    <2> QED BY <1>2, <1>3, <2>1, <2>4, FreshLive
  <1>9. CASE AuthAccepted
    <2> DEFINE k1 == [c EXCEPT !.query = "permissions"]
    <2>1. c.query # "none" /\ QueriesDone(AsyncRead(k1))
      BY <1>9 DEF AuthAccepted, c
    <2>2. Sound(k1, <<>>) /\ k1.query = "permissions"
      BY <1>4
    <2> HIDE DEF k1
    <2>3. Sound(AsyncRead(k1), <<>>) /\ AsyncRead(k1).query = "permissions"
      BY <2>2, AsyncReadSound
    <2> QED BY <1>2, <1>3, <2>1, <2>3, FreshLive
  <1>10. CASE PermissionsLoaded
    <2> DEFINE k1 == [c EXCEPT !.query = "done"]
    <2>1. c.query # "none" /\ QueriesDone(SendPacket(k1, 1))
      BY <1>10 DEF PermissionsLoaded, c
    <2>2. Sound(k1, <<>>) /\ k1.query = "done"
      BY <1>4
    <2> HIDE DEF k1
    <2>3. Sound(SendPacket(k1, 1), <<>>) /\ SendPacket(k1, 1).query = "done"
      BY <1>1, <2>2, SendPacketSound
    <2> QED BY <1>2, <1>3, <2>1, <2>3, FreshLive
  <1>11. CASE ContinuedAccepted
    <2> DEFINE k0 == [c EXCEPT !.query = "done"]
               k1 == [c EXCEPT !.query = "done", !.instance = TRUE]
               k2 == SendPacket(k1, 1)
    <2>1. c.query # "none" /\ QueriesDone(AsyncRead(k2))
      BY <1>11 DEF ContinuedAccepted, c
    <2>2. Sound(k0, <<>>) /\ k0.query = "done"
      BY <1>4
    <2>3. k1 = [k0 EXCEPT !.instance = TRUE]
      OBVIOUS
    <2> HIDE DEF k0
    <2>4. /\ k1 \in SocketType /\ SameBytes(k0, k1) /\ SameClose(k0, k1)
          /\ k1.query = "done"
      <3> HIDE DEF k1
      <3>1. k0 \in SocketType
        BY <2>2 DEF Sound
      <3> QED BY <2>2, <2>3, <3>1 DEF SocketType, SameBytes, SameClose, Writable
    <2> HIDE DEF k1
    <2>5. Sound(k1, <<>>)
      BY <2>2, <2>4, SoundSame
    <2>6. Sound(k2, <<>>) /\ k2.query = "done"
      BY <1>1, <2>4, <2>5, SendPacketSound
    <2> HIDE DEF k2
    <2>7. Sound(AsyncRead(k2), <<>>) /\ AsyncRead(k2).query = "done"
      BY <2>6, AsyncReadSound
    <2> QED BY <1>2, <1>3, <2>1, <2>7, FreshLive
  <1> QED BY <1>5, <1>6, <1>7, <1>8, <1>9, <1>10, <1>11 DEF Queries

(* The handlers of the network thread. *)
LEMMA HandlersIInv ==
    ASSUME IInv, NEW s \in Sockets,
           \/ WriteHandler(s) \/ ReadError(s) \/ ReadIgnored(s) \/ ReadMalformed(s)
           \/ InitializeHandler(s) \/ ReadPing(s) \/ ReadAuthSession(s)
           \/ ReadAuthContinued(s) \/ ReadAuthContinuedDenied(s) \/ ReadEncryptionAck(s)
    PROVE  IInv'
  <1> DEFINE c == sock[s]
             b == Open(s)
  <1>1. Sound(c, b) /\ Fresh(where[s], c) /\ b \in Bytes /\ c \in SocketType
    BY OneSocket DEF Sound
  <1>2. ASSUME NEW k, Changes(s, k), Sound(k, b), Fresh(where[s], k)
        PROVE  IInv'
    BY <1>2, ChangesIInv
  <1> DEFINE r == [c EXCEPT !.reading = FALSE]
  <1>3. Sound(r, b) /\ r.query = c.query
    BY <1>1, StopReadingSound
  <1>4. Fresh(where[s], r)
    BY <1>1 DEF Fresh, Silent, SocketType
  <1>5. c.reading => where[s] # "none" /\ c.query # "ip"
    BY <1>1 DEF Fresh, Silent
  <1>6. CASE WriteHandler(s)
    <2> DEFINE k1 == [c EXCEPT !.writing = FALSE]
    <2>1. Changes(s, HandleQueue(k1).socket)
      BY <1>6 DEF WriteHandler
    <2>2. k1 \in SocketType /\ SameBytes(c, k1) /\ SameClose(c, k1) /\ Keeps(c, k1)
      <3> HIDE DEF c
      <3> QED BY <1>1 DEF SocketType, SameBytes, SameClose, Writable, Keeps
    <2> HIDE DEF k1, c, b
    <2>3. Sound(k1, b) /\ Fresh(where[s], k1)
      BY <1>1, <2>2, SoundSame, FreshKeeps
    <2>4. Sound(HandleQueue(k1).socket, b) /\ Keeps(k1, HandleQueue(k1).socket)
      BY <1>1, <2>3, HandleQueueSound
    <2>5. Fresh(where[s], HandleQueue(k1).socket)
      BY <2>3, <2>4, FreshKeeps
    <2> QED BY <1>2, <2>1, <2>4, <2>5
  <1>7. CASE ReadError(s) \/ ReadMalformed(s)
    <2>1. Changes(s, CloseSocket(r))
      BY <1>7 DEF ReadError, ReadMalformed
    <2> HIDE DEF r, c, b
    <2>2. Sound(CloseSocket(r), b) /\ Keeps(r, CloseSocket(r))
      BY <1>3, CloseSound
    <2>3. Fresh(where[s], CloseSocket(r))
      BY <1>4, <2>2, FreshKeeps
    <2> QED BY <1>2, <2>1, <2>2, <2>3
  <1>8. CASE ReadIgnored(s)
    <2>1. Changes(s, r)
      BY <1>8 DEF ReadIgnored
    <2> HIDE DEF r, c, b
    <2> QED BY <1>2, <1>3, <1>4, <2>1
  <1>9. CASE InitializeHandler(s)
    <2> DEFINE k1 == [c EXCEPT !.query = "none"]
               k2 == SendPacket(k1, 1)
    <2>1. c.reading /\ Changes(s, AsyncRead(k2))
      BY <1>9 DEF InitializeHandler, Reads
    <2>2. Sound(k1, b) /\ k1.query = "none"
      BY <1>1, SetQuerySound
    <2> HIDE DEF k1, c, b
    <2>3. Sound(k2, b) /\ k2.query = "none"
      BY <1>1, <2>2, SendPacketSound
    <2> HIDE DEF k2
    <2>4. Sound(AsyncRead(k2), b) /\ AsyncRead(k2).query = "none"
      BY <2>3, AsyncReadSound
    <2> QED BY <1>2, <1>5, <2>1, <2>4, FreshLive
  <1>10. CASE ReadPing(s)
    <2> DEFINE k2 == SendPacket(c, 1)
    <2>1. c.reading /\ Changes(s, AsyncRead(k2))
      BY <1>10 DEF ReadPing, Reads
    <2> HIDE DEF c, b
    <2>2. Sound(k2, b) /\ k2.query = c.query
      BY <1>1, SendPacketSound
    <2> HIDE DEF k2
    <2>3. Sound(AsyncRead(k2), b) /\ AsyncRead(k2).query = c.query
      BY <2>2, AsyncReadSound
    <2> QED BY <1>2, <1>5, <2>1, <2>3, FreshLive
  <1>11. CASE ReadAuthSession(s) \/ ReadAuthContinued(s)
    <2>1. PICK q \in {"auth", "continued"} :
            Changes(s, [c EXCEPT !.reading = FALSE, !.query = q]) /\ c.reading
      BY <1>11 DEF ReadAuthSession, ReadAuthContinued, Reads
    <2> DEFINE k == [r EXCEPT !.query = q]
    <2>2. Sound(k, b) /\ k.query = q
      <3>1. q \in {"none", "ip", "greeted", "auth", "continued", "permissions", "done"}
        BY <2>1
      <3> HIDE DEF r, c, b
      <3> QED BY <1>3, <3>1, SetQuerySound
    <2>3. Changes(s, k)
      BY <2>1
    <2> HIDE DEF k, r, c, b
    <2>4. Fresh(where[s], k)
      BY <1>5, <2>1, <2>2, FreshLive
    <2> QED BY <1>2, <2>2, <2>3, <2>4
  <1>12. CASE ReadAuthContinuedDenied(s)
    <2> DEFINE k2 == SendPacket(r, 1)
    <2>1. c.reading /\ Changes(s, DelayedCloseSocket(k2))
      BY <1>12 DEF ReadAuthContinuedDenied, Reads
    <2> HIDE DEF r, c, b
    <2>2. Sound(k2, b) /\ k2.query = c.query
      BY <1>1, <1>3, SendPacketSound
    <2> HIDE DEF k2
    <2>3. Sound(DelayedCloseSocket(k2), b) /\ DelayedCloseSocket(k2).query = c.query
      BY <2>2, DelayedCloseSound
    <2> QED BY <1>2, <1>5, <2>1, <2>3, FreshLive
  <1>13. CASE ReadEncryptionAck(s)
    <2> DEFINE k1 == [c EXCEPT !.known = TRUE]
    <2>1. c.reading /\ Changes(s, AsyncRead(k1))
      BY <1>13 DEF ReadEncryptionAck, Reads
    <2>2. /\ k1 \in SocketType /\ SameBytes(c, k1) /\ SameClose(c, k1)
          /\ k1.query = c.query
      <3> HIDE DEF c
      <3> QED BY <1>1 DEF SocketType, SameBytes, SameClose, Writable
    <2> HIDE DEF k1, c, b
    <2>3. Sound(k1, b)
      BY <1>1, <2>2, SoundSame
    <2>4. Sound(AsyncRead(k1), b) /\ AsyncRead(k1).query = c.query
      BY <2>2, <2>3, AsyncReadSound
    <2> QED BY <1>2, <1>5, <2>1, <2>4, FreshLive
  <1> QED BY <1>6, <1>7, <1>8, <1>9, <1>10, <1>11, <1>12, <1>13

(* The world thread and the client. *)
LEMMA OthersIInv ==
    ASSUME IInv, NEW s \in Sockets,
           \/ SendPacketEnqueue(s) \/ CloseSocketExchange(s) \/ CloseSocketFinish(s)
           \/ PeerReads(s) \/ PeerLeaves(s) \/ WorldRefuses(s)
           \/ \E n \in Sizes : SendPacketCheck(s, n)
    PROVE  IInv'
  <1> DEFINE c == sock[s]
             b == Open(s)
  <1>1. Sound(c, b) /\ Fresh(where[s], c) /\ b \in Bytes /\ c \in SocketType
    BY OneSocket DEF Sound
  <1>2. ASSUME NEW k, Changes(s, k), Sound(k, b), Fresh(where[s], k)
        PROVE  IInv'
    BY <1>2, ChangesIInv
  <1>3. c.known \/ c.sending # 0 => where[s] # "none" /\ c.query # "ip"
    BY <1>1 DEF Fresh, Silent
  <1>4. CASE SendPacketEnqueue(s)
    <2> DEFINE k1 == Enqueue(c, c.sending)
               k == [k1 EXCEPT !.sending = 0]
    <2>1. c.sending # 0 /\ Changes(s, k)
      BY <1>4 DEF SendPacketEnqueue
    <2> HIDE DEF c, b
    <2>2. Sound(k1, b) /\ k1.query = c.query
      <3>1. c.sending \in Nat
        BY <1>1 DEF SocketType
      <3> QED BY <1>1, <3>1, EnqueueSound
    <2> HIDE DEF k1
    <2>3. /\ k \in SocketType /\ SameBytes(k1, k) /\ SameClose(k1, k)
          /\ k.query = c.query
      <3>1. k1 \in SocketType
        BY <2>2 DEF Sound
      <3> QED BY <2>2, <3>1 DEF SocketType, SameBytes, SameClose, Writable
    <2> HIDE DEF k
    <2>4. Sound(k, b)
      BY <2>2, <2>3, SoundSame
    <2> QED BY <1>2, <1>3, <2>1, <2>3, <2>4, FreshLive
  <1>5. CASE CloseSocketExchange(s)
    <2> DEFINE k1 == [c EXCEPT !.closed = TRUE]
               k == [k1 EXCEPT !.finishing = TRUE]
    <2>1. c.known /\ ~c.closed /\ Changes(s, k)
      BY <1>5 DEF CloseSocketExchange
    <2> HIDE DEF c, b
    <2>2. /\ k1 \in SocketType /\ SameBytes(c, k1) /\ k1.query = c.query
          /\ k1.closed /\ k1.closes = c.closes
      BY <1>1 DEF SocketType, SameBytes, Writable
    <2> HIDE DEF k1
    <2>3. /\ k \in SocketType /\ SameBytes(k1, k) /\ k.query = c.query
          /\ k.closed /\ k.closes = c.closes
      BY <2>2 DEF SocketType, SameBytes, Writable
    <2> HIDE DEF k
    <2>4. Stream(k, b)
      <3>1. Stream(c, b)
        BY <1>1 DEF Sound
      <3>2. Stream(k1, b)
        BY <2>2, <3>1, StreamSame
      <3> QED BY <2>3, <3>2, StreamSame
    <2>5. Closing(k)
      BY <1>1, <2>1, <2>3 DEF Sound, Closing
    <2>6. Sound(k, b)
      BY <2>3, <2>4, <2>5 DEF Sound
    <2> QED BY <1>2, <1>3, <2>1, <2>3, <2>6, FreshLive
  <1>6. CASE CloseSocketFinish(s)
    <2> DEFINE k1 == [c EXCEPT !.finishing = FALSE]
               k2 == [k1 EXCEPT !.shut = TRUE]
               k == [k2 EXCEPT !.closes = 1]
    <2>1. c.finishing /\ c.closed /\ c.closes = 0
      BY <1>1, <1>6 DEF CloseSocketFinish, Sound, Closing
    <2>2. Changes(s, k)
      <3>1. Changes(s, [c EXCEPT !.finishing = FALSE, !.shut = TRUE, !.closes = @ + 1])
        BY <1>6 DEF CloseSocketFinish
      <3>2. [c EXCEPT !.finishing = FALSE, !.shut = TRUE, !.closes = @ + 1]
              = [k2 EXCEPT !.closes = c.closes + 1]
        OBVIOUS
      <3>3. c.closes + 1 = 1
        BY <2>1
      <3> QED BY <3>1, <3>2, <3>3
    <2> HIDE DEF c, b
    <2>3. /\ k1 \in SocketType /\ SameBytes(c, k1) /\ Keeps(c, k1) /\ k1.closed
          /\ ~k1.finishing
      BY <1>1, <2>1 DEF SocketType, SameBytes, Writable, Keeps
    <2> HIDE DEF k1
    <2>4. /\ k2 \in SocketType /\ SameBytes(k1, k2) /\ Keeps(k1, k2) /\ k2.closed
          /\ ~k2.finishing
      BY <2>3 DEF SocketType, SameBytes, Writable, Keeps
    <2> HIDE DEF k2
    <2>5. /\ k \in SocketType /\ SameBytes(k2, k) /\ Keeps(k2, k) /\ k.closed
          /\ ~k.finishing /\ k.closes = 1
      BY <2>4 DEF SocketType, SameBytes, Writable, Keeps
    <2> HIDE DEF k
    <2>6. Stream(k, b)
      <3>1. Stream(c, b)
        BY <1>1 DEF Sound
      <3>2. Stream(k1, b)
        BY <2>3, <3>1, StreamSame
      <3>3. Stream(k2, b)
        BY <2>4, <3>2, StreamSame
      <3> QED BY <2>5, <3>3, StreamSame
    <2>7. Closing(k)
      BY <2>5 DEF Closing
    <2>8. Sound(k, b)
      BY <2>5, <2>6, <2>7 DEF Sound
    <2>9. Fresh(where[s], k)
      BY <1>1, <2>3, <2>4, <2>5, FreshKeeps
    <2> QED BY <1>2, <2>2, <2>8, <2>9
  <1>7. CASE PeerReads(s)
    <2> DEFINE k == [c EXCEPT !.room = SendRoom]
    <2>1. Changes(s, k)
      BY <1>7 DEF PeerReads
    <2> HIDE DEF c, b
    <2>2. k \in SocketType /\ SameBytes(c, k) /\ SameClose(c, k) /\ Keeps(c, k)
      BY <1>1, SizesAssumption DEF SocketType, SameBytes, SameClose, Writable, Keeps
    <2> HIDE DEF k
    <2>3. Sound(k, b) /\ Fresh(where[s], k)
      BY <1>1, <2>2, SoundSame, FreshKeeps
    <2> QED BY <1>2, <2>1, <2>3
  <1>8. CASE PeerLeaves(s)
    <2> DEFINE k == [c EXCEPT !.up = FALSE]
    <2>1. Changes(s, k)
      BY <1>8 DEF PeerLeaves
    <2> HIDE DEF c, b
    <2>2. k \in SocketType /\ SameBytes(c, k) /\ SameClose(c, k) /\ Keeps(c, k)
      BY <1>1 DEF SocketType, SameBytes, SameClose, Writable, Keeps
    <2> HIDE DEF k
    <2>3. Sound(k, b) /\ Fresh(where[s], k)
      BY <1>1, <2>2, SoundSame, FreshKeeps
    <2> QED BY <1>2, <2>1, <2>3
  <1>9. CASE WorldRefuses(s)
    <2> DEFINE k2 == SendPacket(c, 1)
    <2>1. c.known /\ Changes(s, DelayedCloseSocket(k2))
      BY <1>9 DEF WorldRefuses
    <2> HIDE DEF c, b
    <2>2. Sound(k2, b) /\ k2.query = c.query
      BY <1>1, SendPacketSound
    <2> HIDE DEF k2
    <2>3. Sound(DelayedCloseSocket(k2), b) /\ DelayedCloseSocket(k2).query = c.query
      BY <2>2, DelayedCloseSound
    <2> QED BY <1>2, <1>3, <2>1, <2>3, FreshLive
  <1>10. CASE \E n \in Sizes : SendPacketCheck(s, n)
    <2>1. PICK n \in Sizes : c.known /\ Changes(s, [c EXCEPT !.sending = n])
      BY <1>10 DEF SendPacketCheck
    <2> DEFINE k == [c EXCEPT !.sending = n]
    <2>2. n \in Nat
      BY SizesAssumption
    <2>3. Changes(s, k)
      BY <2>1
    <2> HIDE DEF c, b
    <2>4. k \in SocketType /\ SameBytes(c, k) /\ SameClose(c, k) /\ k.query = c.query
      BY <1>1, <2>2 DEF SocketType, SameBytes, SameClose, Writable
    <2> HIDE DEF k
    <2>5. Sound(k, b)
      BY <1>1, <2>4, SoundSame
    <2> QED BY <1>2, <1>3, <2>1, <2>3, <2>4, <2>5, FreshLive
  <1> QED BY <1>4, <1>5, <1>6, <1>7, <1>8, <1>9, <1>10

(* Every step keeps the invariant. *)
LEMMA NextIInv ==
    ASSUME IInv, [Next]_vars
    PROVE  IInv'
  <1>1. CASE UNCHANGED vars
    BY <1>1 DEF vars, IInv, TypeInv, Open
  <1>2. CASE Next
    BY <1>2, LoopIInv, UpdateIInv, QueriesIInv, HandlersIInv, OthersIInv
       DEF Next, UpdateThread
  <1> QED BY <1>1, <1>2

(* The inductive invariant holds in every state. *)
THEOREM Invariance == Spec => []IInv
  <1>1. Init => IInv
    BY InitIInv
  <1>2. IInv /\ [Next]_vars => IInv'
    BY NextIInv
  <1> QED BY <1>1, <1>2, PTL DEF Spec

(* Prefixes, by their elements. *)
LEMMA PrefixElements ==
    ASSUME NEW w \in Bytes, NEW a \in Bytes, Len(w) <= Len(a),
           \A i \in 1..Len(w) : w[i] = a[i]
    PROVE  IsPrefix(w, a)
  <1>1. Len(w) \in Nat /\ Len(a) \in Nat
    BY LenProperties DEF Bytes
  <1>2. ASSUME NEW q \in Bytes, Len(w) <= Len(q)
        PROVE  /\ SubSeq(q, 1, Len(w)) \in Seq(Nat) /\ Len(SubSeq(q, 1, Len(w))) = Len(w)
               /\ \A i \in 1..Len(w) : SubSeq(q, 1, Len(w))[i] = q[i]
    <2>1. Len(q) \in Nat
      BY LenProperties DEF Bytes
    <2>2. ASSUME NEW i \in 1..Len(w) PROVE q[i] \in Nat
      <3>1. i \in 1..Len(q)
        BY <1>1, <1>2, <2>1
      <3> QED BY <3>1, ElementOfSeq DEF Bytes
    <2>3. /\ SubSeq(q, 1, Len(w)) \in Seq(Nat)
          /\ Len(SubSeq(q, 1, Len(w))) = IF 1 <= Len(w) THEN Len(w) - 1 + 1 ELSE 0
          /\ \A i \in 1..Len(w) - 1 + 1 : SubSeq(q, 1, Len(w))[i] = q[1 + i - 1]
      BY <1>1, <2>2, SubSeqProperties
    <2> QED BY <1>1, <2>3
  <1>3. /\ SubSeq(w, 1, Len(w)) \in Seq(Nat) /\ Len(SubSeq(w, 1, Len(w))) = Len(w)
        /\ \A i \in 1..Len(w) : SubSeq(w, 1, Len(w))[i] = w[i]
    BY <1>1, <1>2
  <1>4. /\ SubSeq(a, 1, Len(w)) \in Seq(Nat) /\ Len(SubSeq(a, 1, Len(w))) = Len(w)
        /\ \A i \in 1..Len(w) : SubSeq(a, 1, Len(w))[i] = a[i]
    BY <1>1, <1>2
  <1>5. SubSeq(w, 1, Len(w)) = SubSeq(a, 1, Len(w))
    BY <1>1, <1>3, <1>4, SeqEqual
  <1> QED BY <1>5 DEF IsPrefix

LEMMA PrefixConcat ==
    ASSUME NEW w \in Bytes, NEW x \in Bytes
    PROVE  IsPrefix(w, w \o x)
  <1>1. /\ w \o x \in Bytes /\ Len(w \o x) = Len(w) + Len(x)
        /\ \A i \in 1..Len(w) + Len(x) : (w \o x)[i] = IF i <= Len(w) THEN w[i] ELSE x[i - Len(w)]
    BY ConcatProperties DEF Bytes
  <1>2. Len(w) \in Nat /\ Len(x) \in Nat
    BY LenProperties DEF Bytes
  <1>3. Len(w) <= Len(w \o x) /\ \A i \in 1..Len(w) : w[i] = (w \o x)[i]
    BY <1>1, <1>2
  <1> QED BY <1>1, <1>3, PrefixElements

(* A segment at the beginning of the stream is a prefix of it. *)
LEMMA SegmentPrefix ==
    ASSUME NEW w \in Bytes, NEW a \in Bytes, Segment(w, 0, a)
    PROVE  IsPrefix(w, a)
  <1>1. Len(w) \in Nat /\ Len(a) \in Nat
    BY LenProperties DEF Bytes
  <1>2. Len(w) <= Len(a) /\ \A i \in 1..Len(w) : w[i] = a[i]
    BY <1>1 DEF Segment
  <1> QED BY <1>2, PrefixElements

LEMMA InOrder == IInv => StreamInOrder
  <1>1. ASSUME IInv, NEW s \in Sockets PROVE IsPrefix(sock[s].wire, sock[s].accepted)
    <2>1. /\ sock[s].wire \in Bytes /\ sock[s].accepted \in Bytes
          /\ Segment(sock[s].wire, 0, sock[s].accepted)
      BY <1>1 DEF IInv, TypeInv, SocketType, Stream
    <2> QED BY <2>1, SegmentPrefix
  <1> QED BY <1>1 DEF StreamInOrder

(* The bytes on the wire are those of the accepted packets, in order, with no
   gap and nothing twice, however WorldSocket::Update batches them and whichever
   of Update and the write handler sends them. *)
THEOREM StreamInOrderCorrect == Spec => []StreamInOrder
  BY InOrder, Invariance, PTL

(* OnClose runs once and only a closed socket is shut down, however the closes
   of the network thread and the world thread interleave. *)
THEOREM ClosedOnceCorrect == Spec => []ClosedOnce
  <1>1. IInv => ClosedOnce
    BY DEF IInv, TypeInv, SocketType, Closing, ClosedOnce
  <1> QED BY <1>1, Invariance, PTL

-----------------------------------------------------------------------------
(***************************************************************************)
(* Socket implements ByteStream.  Every step leaves the sockets alone or   *)
(* does one of three things to one of them: it adds packets behind the     *)
(* accepted bytes, it writes the next bytes, or it does neither and may    *)
(* shut the socket down.                                                   *)
(***************************************************************************)
Kept(k, k2) == k2.accepted = k.accepted /\ k2.wire = k.wire /\ k2.shut = k.shut

Rests(k, k2) ==
    k2.accepted = k.accepted /\ k2.wire = k.wire /\ (k.shut => k2.shut)

Grows(k, k2) ==
    IsPrefix(k.accepted, k2.accepted) /\ k2.wire = k.wire /\ k2.shut = k.shut

Flows(k, k2) ==
    ~k.shut /\ IsPrefix(k.wire, k2.wire) /\ k2.accepted = k.accepted

Moves(k, k2) == Rests(k, k2) \/ Grows(k, k2) \/ Flows(k, k2)

SocketMoves ==
    \/ sock' = sock
    \/ \E s \in Sockets : /\ Moves(sock[s], sock'[s])
                          /\ \A r \in Sockets \ {s} : sock'[r] = sock[r]

LEMMA KeptMoves ==
    ASSUME NEW k, NEW k2, Kept(k, k2)
    PROVE  Moves(k, k2)
  BY DEF Kept, Moves, Rests

LEMMA MovesAfter ==
    ASSUME NEW k, NEW k1, NEW k2, Kept(k, k1), Moves(k1, k2)
    PROVE  Moves(k, k2)
  BY DEF Kept, Moves, Rests, Grows, Flows

LEMMA MovesBefore ==
    ASSUME NEW k, NEW k1, NEW k2, Moves(k, k1), Kept(k1, k2)
    PROVE  Moves(k, k2)
  BY DEF Kept, Moves, Rests, Grows, Flows

LEMMA OneMoves ==
    ASSUME IInv, NEW s \in Sockets, NEW k, sock' = [sock EXCEPT ![s] = k],
           Moves(sock[s], k)
    PROVE  SocketMoves
  <1>1. sock'[s] = k /\ \A r \in Sockets \ {s} : sock'[r] = sock[r]
    BY DEF IInv, TypeInv
  <1> QED BY <1>1 DEF SocketMoves

(* The fields a stream does not see. *)
LEMMA FieldKept ==
    ASSUME NEW k \in SocketType, NEW v
    PROVE  /\ Kept(k, [k EXCEPT !.query = v])
           /\ Kept(k, [k EXCEPT !.reading = v])
           /\ Kept(k, [k EXCEPT !.writing = v])
           /\ Kept(k, [k EXCEPT !.known = v])
           /\ Kept(k, [k EXCEPT !.sending = v])
           /\ Kept(k, [k EXCEPT !.up = v])
           /\ Kept(k, [k EXCEPT !.room = v])
           /\ Kept(k, [k EXCEPT !.writeQueue = v])
           /\ Kept(k, DelayedCloseSocket(k))
           /\ Kept(k, AsyncRead(k))
           /\ Kept(k, AsyncProcessQueue(k))
  <1>1. /\ Kept(k, [k EXCEPT !.query = v])
        /\ Kept(k, [k EXCEPT !.reading = v])
        /\ Kept(k, [k EXCEPT !.writing = v])
        /\ Kept(k, [k EXCEPT !.known = v])
    BY DEF SocketType, Kept
  <1>2. /\ Kept(k, [k EXCEPT !.sending = v])
        /\ Kept(k, [k EXCEPT !.up = v])
        /\ Kept(k, [k EXCEPT !.room = v])
        /\ Kept(k, [k EXCEPT !.writeQueue = v])
    BY DEF SocketType, Kept
  <1>3. /\ Kept(k, DelayedCloseSocket(k))
        /\ Kept(k, AsyncProcessQueue(k))
    BY DEF SocketType, Kept, DelayedCloseSocket, AsyncProcessQueue
  <1>4. Kept(k, AsyncRead(k))
    BY DEF SocketType, Kept, AsyncRead
  <1> QED BY <1>1, <1>2, <1>3, <1>4

LEMMA CloseRests ==
    ASSUME NEW k \in SocketType
    PROVE  Rests(k, CloseSocket(k))
  <1>1. CASE k.closed
    BY <1>1 DEF CloseSocket, Rests
  <1>2. CASE ~k.closed
    <2> DEFINE k2 == [k EXCEPT !.closed = TRUE, !.shut = TRUE, !.closes = @ + 1]
    <2>1. CloseSocket(k) = k2
      BY <1>2 DEF CloseSocket
    <2>2. k2.accepted = k.accepted /\ k2.wire = k.wire /\ k2.shut
      BY DEF SocketType
    <2> QED BY <2>1, <2>2 DEF Rests
  <1> QED BY <1>1, <1>2

LEMMA PopRests ==
    ASSUME NEW k \in SocketType, k.writeQueue # <<>>
    PROVE  Rests(k, Pop(k))
  <1> DEFINE k2 == [k EXCEPT !.writeQueue = Tail(@)]
  <1>1. Tail(k.writeQueue) \in Seq(Bytes)
    BY HeadTailProperties DEF SocketType
  <1>2. k2 \in SocketType
    BY <1>1 DEF SocketType
  <1>3. Kept(k, k2)
    BY DEF SocketType, Kept
  <1>4. Pop(k) = IF k2.closing /\ k2.writeQueue = <<>> THEN CloseSocket(k2) ELSE k2
    BY DEF Pop
  <1> HIDE DEF k2
  <1>5. Rests(k2, CloseSocket(k2))
    BY <1>2, CloseRests
  <1> QED BY <1>3, <1>4, <1>5 DEF Kept, Rests

LEMMA SentFlows ==
    ASSUME NEW k \in SocketType, Writable(k), k.writeQueue # <<>>,
           NEW n \in 0..Len(Head(k.writeQueue))
    PROVE  Flows(k, Sent(k, n)) /\ Sent(k, n).shut = k.shut
  <1> DEFINE front == Head(k.writeQueue)
  <1>1. front \in Bytes /\ k.wire \in Bytes
    BY HeadTailProperties DEF SocketType
  <1>2. SubSeq(front, 1, n) \in Bytes
    <2>1. Len(front) \in Nat /\ \A i \in 1..n : front[i] \in Nat
      <3>1. Len(front) \in Nat
        BY <1>1, LenProperties DEF Bytes
      <3>2. ASSUME NEW i \in 1..n PROVE front[i] \in Nat
        <4>1. i \in 1..Len(front)
          BY <3>1
        <4> HIDE DEF front
        <4> QED BY <1>1, <4>1, ElementOfSeq DEF Bytes
      <3> QED BY <3>1, <3>2
    <2> HIDE DEF front
    <2> QED BY <2>1, SubSeqProperties DEF Bytes
  <1>3. /\ Sent(k, n).wire = k.wire \o SubSeq(front, 1, n)
        /\ Sent(k, n).accepted = k.accepted /\ Sent(k, n).shut = k.shut
    BY DEF Sent, SocketType
  <1> HIDE DEF front
  <1>4. IsPrefix(k.wire, k.wire \o SubSeq(front, 1, n))
    BY <1>1, <1>2, PrefixConcat
  <1>5. ~k.shut
    BY DEF Writable
  <1> QED BY <1>3, <1>4, <1>5 DEF Flows

LEMMA HandleQueueMoves ==
    ASSUME NEW k, NEW b \in Bytes, Sound(k, b)
    PROVE  Moves(k, HandleQueue(k).socket)
  <1> DEFINE message == Head(k.writeQueue)
  <1>0. k \in SocketType
    BY DEF Sound
  <1>1. CASE k.writeQueue = <<>>
    <2>1. HandleQueue(k).socket = k
      BY <1>1 DEF HandleQueue
    <2> QED BY <2>1 DEF Moves, Rests
  <1>2. CASE k.writeQueue # <<>> /\ (message = <<>> \/ ~Writable(k))
    <2>1. HandleQueue(k).socket = Pop(k)
      BY <1>2 DEF HandleQueue
    <2> QED BY <1>0, <1>2, <2>1, PopRests DEF Moves
  <1>3. CASE k.writeQueue # <<>> /\ message # <<>> /\ Writable(k)
    <2>1. k.room \in Nat /\ message \in Bytes /\ Len(message) \in Nat
      <3>1. k.room \in Nat /\ k.writeQueue \in Seq(Bytes)
        BY <1>0 DEF SocketType
      <3>2. message \in Bytes
        BY <1>3, <3>1, HeadTailProperties
      <3> QED BY <3>1, <3>2, LenProperties DEF Bytes
    <2>2. CASE k.room < Len(message) /\ k.room = 0
      <3>1. HandleQueue(k).socket = AsyncProcessQueue(k)
        BY <1>3, <2>2 DEF HandleQueue
      <3> QED BY <1>0, <3>1, FieldKept, KeptMoves
    <2>3. CASE k.room < Len(message) /\ k.room # 0
      <3> DEFINE k2 == Sent(k, k.room)
      <3>1. HandleQueue(k).socket = AsyncProcessQueue(k2)
        BY <1>3, <2>3 DEF HandleQueue
      <3>2. k.room \in 0..Len(message) /\ k.room <= k.room
        BY <2>1, <2>3
      <3>3. Sound(k2, b) /\ Flows(k, k2)
        BY <1>0, <1>3, <3>2, SentSound, SentFlows
      <3> HIDE DEF k2
      <3>4. Kept(k2, AsyncProcessQueue(k2))
        BY <3>3, FieldKept DEF Sound
      <3> QED BY <3>1, <3>3, <3>4, MovesBefore DEF Moves
    <2>4. CASE ~(k.room < Len(message))
      <3> DEFINE k2 == Sent(k, Len(message))
      <3>1. HandleQueue(k).socket = Pop(k2)
        BY <1>3, <2>4 DEF HandleQueue
      <3>2. Len(message) \in 0..Len(message) /\ Len(message) <= k.room
        BY <2>1, <2>4
      <3>3. Sound(k2, b) /\ k2.writeQueue # <<>>
        BY <1>3, <3>2, SentSound
      <3>4. Flows(k, k2)
        BY <1>0, <1>3, <3>2, SentFlows
      <3> HIDE DEF k2
      <3>5. Rests(k2, Pop(k2))
        BY <3>3, PopRests DEF Sound
      <3> QED BY <3>1, <3>4, <3>5 DEF Moves, Flows, Rests
    <2> QED BY <2>2, <2>3, <2>4
  <1> QED BY <1>1, <1>2, <1>3

(* A packet is accepted. *)
LEMMA EnqueueGrows ==
    ASSUME NEW k \in SocketType, NEW n \in Nat
    PROVE  Grows(k, Enqueue(k, n)) /\ Grows(k, QueuePacket(k, n))
  <1> DEFINE x == PacketBytes(k, n)
  <1>1. x \in Bytes /\ k.accepted \in Bytes
    BY PacketBytesType DEF SocketType
  <1>2. /\ Enqueue(k, n).accepted = k.accepted \o x
        /\ Enqueue(k, n).wire = k.wire /\ Enqueue(k, n).shut = k.shut
    <2> HIDE DEF x
    <2> QED BY DEF Enqueue, SocketType, x
  <1>3. /\ QueuePacket(k, n).accepted = k.accepted \o x
        /\ QueuePacket(k, n).wire = k.wire /\ QueuePacket(k, n).shut = k.shut
    BY DEF QueuePacket, SocketType
  <1> HIDE DEF x
  <1>4. IsPrefix(k.accepted, k.accepted \o x)
    BY <1>1, PrefixConcat
  <1> QED BY <1>2, <1>3, <1>4 DEF Grows

LEMMA SendPacketMoves ==
    ASSUME NEW k \in SocketType, NEW n \in Nat
    PROVE  Moves(k, SendPacket(k, n))
  <1>1. CASE IsOpen(k)
    BY <1>1, EnqueueGrows DEF SendPacket, Moves
  <1>2. CASE ~IsOpen(k)
    BY <1>2 DEF SendPacket, Moves, Rests
  <1> QED BY <1>1, <1>2

LEMMA BatchKept ==
    ASSUME NEW k \in SocketType, NEW b
    PROVE  Kept(k, Batch(k, b).socket)
  <1>1. PICK w : Batch(k, b).socket = [k EXCEPT !.bufferQueue = Tail(@), !.writeQueue = w]
    BY DEF Batch
  <1> QED BY <1>1 DEF SocketType, Kept

(* Adding a socket, and the steps of NetworkThread::Update. *)
LEMMA LoopMoves ==
    ASSUME IInv,
           \/ \E s \in Sockets : AddSocket(s) \/ UpdateSocket(s)
           \/ UpdateBegins \/ UpdateEnds \/ RemoveClosed \/ BaseUpdate
           \/ Stop \/ RunExits
    PROVE  SocketMoves
  <1>1. ASSUME NEW s \in Sockets, AddSocket(s) PROVE SocketMoves
    <2>1. sock[s] \in SocketType
      BY DEF IInv, TypeInv
    <2>2. Moves(sock[s], Start(sock[s]))
      BY <2>1, FieldKept, KeptMoves DEF Start
    <2>3. sock' = [sock EXCEPT ![s] = Start(sock[s])]
      BY <1>1 DEF AddSocket
    <2> QED BY <2>2, <2>3, OneMoves
  <1>2. ASSUME \/ \E s \in Sockets : UpdateSocket(s)
               \/ UpdateBegins \/ UpdateEnds \/ RemoveClosed \/ BaseUpdate
               \/ Stop \/ RunExits
        PROVE  sock' = sock
    BY <1>2 DEF UpdateSocket, UpdateBegins, UpdateEnds, RemoveClosed, BaseUpdate,
                Stop, RunExits
  <1> QED BY <1>1, <1>2 DEF SocketMoves

LEMMA UpdateMoves ==
    ASSUME IInv, DrainPacket \/ DrainEnds \/ HandleStep
    PROVE  SocketMoves
  <1>1. cur \in Sockets
    BY DEF DrainPacket, DrainEnds, HandleStep, IInv, TypeInv, InUpdate
  <1>2. /\ sock[cur] \in SocketType /\ Sound(sock[cur], Open(cur))
        /\ Open(cur) \in Bytes
    BY <1>1, OneSocket DEF Sound
  <1>3. CASE DrainPacket
    <2>1. sock' = [sock EXCEPT ![cur] = Batch(sock[cur], buffer).socket]
      BY <1>3 DEF DrainPacket
    <2>2. Moves(sock[cur], Batch(sock[cur], buffer).socket)
      BY <1>2, BatchKept, KeptMoves
    <2> QED BY <1>1, <2>1, <2>2, OneMoves
  <1>4. CASE DrainEnds
    <2> DEFINE q == IF buffer = <<>> THEN sock[cur].writeQueue
                    ELSE Append(sock[cur].writeQueue, buffer)
    <2>1. sock' = [sock EXCEPT ![cur] = [sock[cur] EXCEPT !.writeQueue = q]]
      BY <1>4 DEF DrainEnds
    <2> HIDE DEF q
    <2>2. Moves(sock[cur], [sock[cur] EXCEPT !.writeQueue = q])
      BY <1>2, FieldKept, KeptMoves
    <2> QED BY <1>1, <2>1, <2>2, OneMoves
  <1>5. CASE HandleStep
    <2>1. sock' = [sock EXCEPT ![cur] = HandleQueue(sock[cur]).socket]
      BY <1>5 DEF HandleStep
    <2>2. Moves(sock[cur], HandleQueue(sock[cur]).socket)
      BY <1>2, HandleQueueMoves
    <2> QED BY <1>1, <2>1, <2>2, OneMoves
  <1> QED BY <1>3, <1>4, <1>5

(* ProcessReadyQueries. *)
LEMMA QueriesMoves ==
    ASSUME IInv, Queries
    PROVE  SocketMoves
  <1> DEFINE c == sock[cur]
             b == Open(cur)
  <1>0. cur \in Sockets
    BY DEF Queries, NotReady, CheckIpBanned, CheckIpPassed, AuthRefusedSilently,
           AuthRefused, AuthAccepted, PermissionsLoaded, ContinuedRefusedSilently,
           ContinuedRefused, ContinuedAccepted, IInv, TypeInv, InUpdate, QueriesDone
  <1>1. c \in SocketType /\ Sound(c, b) /\ b \in Bytes
    BY <1>0, OneSocket DEF Sound
  <1> HIDE DEF b
  <1>2. ASSUME NEW k, QueriesDone(k), Moves(c, k) PROVE SocketMoves
    BY <1>0, <1>2, OneMoves DEF QueriesDone
  <1> HIDE DEF c
  <1>3. ASSUME NEW q \in {"none", "ip", "greeted", "auth", "continued", "permissions", "done"}
        PROVE  [c EXCEPT !.query = q] \in SocketType /\ Kept(c, [c EXCEPT !.query = q])
               /\ Sound([c EXCEPT !.query = q], b)
    BY <1>1, SetQuerySound, FieldKept DEF Sound
  <1>4. CASE NotReady
    BY <1>2, <1>4 DEF NotReady, c, Moves, Rests
  <1>5. CASE CheckIpBanned \/ AuthRefusedSilently \/ ContinuedRefusedSilently
    <2> DEFINE k1 == [c EXCEPT !.query = "none"]
    <2>1. QueriesDone(DelayedCloseSocket(k1))
      BY <1>5 DEF CheckIpBanned, AuthRefusedSilently, ContinuedRefusedSilently, c
    <2>2. k1 \in SocketType /\ Kept(c, k1)
      BY <1>3
    <2> HIDE DEF k1
    <2>3. Moves(k1, DelayedCloseSocket(k1))
      BY <2>2, FieldKept, KeptMoves
    <2> QED BY <1>2, <2>1, <2>2, <2>3, MovesAfter
  <1>6. CASE CheckIpPassed
    <2> DEFINE k1 == [c EXCEPT !.query = "greeted"]
               k2 == AsyncRead(k1)
    <2>1. QueriesDone(QueuePacket(k2, 1))
      BY <1>6 DEF CheckIpPassed, c
    <2>2. k1 \in SocketType /\ Kept(c, k1) /\ Sound(k1, b)
      BY <1>3
    <2> HIDE DEF k1
    <2>3. k2 \in SocketType /\ Kept(k1, k2)
      BY <2>2, FieldKept, AsyncReadSound DEF Sound
    <2> HIDE DEF k2
    <2>4. Moves(k2, QueuePacket(k2, 1))
      BY <2>3, EnqueueGrows DEF Moves
    <2>5. Moves(k1, QueuePacket(k2, 1))
      BY <2>3, <2>4, MovesAfter
    <2> QED BY <1>2, <2>1, <2>2, <2>5, MovesAfter
  <1>7. CASE AuthRefused \/ ContinuedRefused
    <2> DEFINE k1 == [c EXCEPT !.query = "none"]
               k2 == SendPacket(k1, 1)
    <2>1. QueriesDone(DelayedCloseSocket(k2))
      BY <1>7 DEF AuthRefused, ContinuedRefused, c
    <2>2. k1 \in SocketType /\ Kept(c, k1) /\ Sound(k1, b)
      BY <1>3
    <2> HIDE DEF k1
    <2>3. Moves(k1, k2) /\ k2 \in SocketType
      BY <1>1, <2>2, SendPacketMoves, SendPacketSound DEF Sound
    <2> HIDE DEF k2
    <2>4. Moves(k1, DelayedCloseSocket(k2))
      BY <2>3, FieldKept, MovesBefore
    <2> QED BY <1>2, <2>1, <2>2, <2>4, MovesAfter
  <1>8. CASE AuthAccepted
    <2> DEFINE k1 == [c EXCEPT !.query = "permissions"]
    <2>1. QueriesDone(AsyncRead(k1))
      BY <1>8 DEF AuthAccepted, c
    <2>2. k1 \in SocketType /\ Kept(c, k1)
      BY <1>3
    <2> HIDE DEF k1
    <2>3. Moves(k1, AsyncRead(k1))
      BY <2>2, FieldKept, KeptMoves
    <2> QED BY <1>2, <2>1, <2>2, <2>3, MovesAfter
  <1>9. CASE PermissionsLoaded
    <2> DEFINE k1 == [c EXCEPT !.query = "done"]
    <2>1. QueriesDone(SendPacket(k1, 1))
      BY <1>9 DEF PermissionsLoaded, c
    <2>2. k1 \in SocketType /\ Kept(c, k1)
      BY <1>3
    <2> HIDE DEF k1
    <2>3. Moves(k1, SendPacket(k1, 1))
      BY <2>2, SendPacketMoves
    <2> QED BY <1>2, <2>1, <2>2, <2>3, MovesAfter
  <1>10. CASE ContinuedAccepted
    <2> DEFINE k0 == [c EXCEPT !.query = "done"]
               k1 == [k0 EXCEPT !.instance = TRUE]
               k2 == SendPacket(k1, 1)
    <2>1. QueriesDone(AsyncRead(k2))
      <3>1. k1 = [c EXCEPT !.query = "done", !.instance = TRUE]
        OBVIOUS
      <3> HIDE DEF k1
      <3> QED BY <1>10, <3>1 DEF ContinuedAccepted, c
    <2>2. k0 \in SocketType /\ Kept(c, k0) /\ Sound(k0, b)
      BY <1>3
    <2> HIDE DEF k0
    <2>3. Kept(k0, k1) /\ k1 \in SocketType /\ SameBytes(k0, k1) /\ SameClose(k0, k1)
      BY <2>2 DEF SocketType, Kept, SameBytes, SameClose, Writable
    <2> HIDE DEF k1
    <2>4. Sound(k1, b) /\ Kept(c, k1)
      BY <2>2, <2>3, SoundSame DEF Kept
    <2>5. Moves(k1, k2) /\ k2 \in SocketType
      BY <1>1, <2>3, <2>4, SendPacketMoves, SendPacketSound DEF Sound
    <2> HIDE DEF k2
    <2>6. Moves(k1, AsyncRead(k2))
      BY <2>5, FieldKept, MovesBefore
    <2> QED BY <1>2, <2>1, <2>4, <2>6, MovesAfter
  <1> QED BY <1>4, <1>5, <1>6, <1>7, <1>8, <1>9, <1>10 DEF Queries

(* The handlers of the network thread. *)
LEMMA HandlersMoves ==
    ASSUME IInv, NEW s \in Sockets,
           \/ WriteHandler(s) \/ ReadError(s) \/ ReadIgnored(s) \/ ReadMalformed(s)
           \/ InitializeHandler(s) \/ ReadPing(s) \/ ReadAuthSession(s)
           \/ ReadAuthContinued(s) \/ ReadAuthContinuedDenied(s) \/ ReadEncryptionAck(s)
    PROVE  SocketMoves
  <1> DEFINE c == sock[s]
             b == Open(s)
             r == [c EXCEPT !.reading = FALSE]
  <1>1. c \in SocketType /\ Sound(c, b) /\ b \in Bytes
    BY OneSocket DEF Sound
  <1> HIDE DEF b
  <1>2. ASSUME NEW k, Changes(s, k), Moves(c, k) PROVE SocketMoves
    BY <1>2, OneMoves DEF Changes
  <1> HIDE DEF c
  <1>3. r \in SocketType /\ Kept(c, r) /\ Sound(r, b)
    BY <1>1, StopReadingSound, FieldKept DEF Sound
  <1> HIDE DEF r
  <1>4. CASE WriteHandler(s)
    <2> DEFINE k1 == [c EXCEPT !.writing = FALSE]
    <2>1. Changes(s, HandleQueue(k1).socket)
      BY <1>4 DEF WriteHandler, c
    <2>2. Kept(c, k1) /\ k1 \in SocketType /\ SameBytes(c, k1) /\ SameClose(c, k1)
      BY <1>1 DEF SocketType, SameBytes, SameClose, Writable, Kept
    <2> HIDE DEF k1
    <2>3. Moves(k1, HandleQueue(k1).socket)
      BY <1>1, <2>2, SoundSame, HandleQueueMoves
    <2> QED BY <1>2, <2>1, <2>2, <2>3, MovesAfter
  <1>5. CASE ReadError(s) \/ ReadMalformed(s)
    <2>1. Changes(s, CloseSocket(r))
      BY <1>5 DEF ReadError, ReadMalformed, c, r
    <2>2. Moves(r, CloseSocket(r))
      BY <1>3, CloseRests DEF Moves
    <2> QED BY <1>2, <1>3, <2>1, <2>2, MovesAfter
  <1>6. CASE ReadIgnored(s)
    <2>1. Changes(s, r)
      BY <1>6 DEF ReadIgnored, c, r
    <2> QED BY <1>2, <1>3, <2>1, KeptMoves
  <1>7. CASE InitializeHandler(s)
    <2> DEFINE k1 == [c EXCEPT !.query = "none"]
               k2 == SendPacket(k1, 1)
    <2>1. Changes(s, AsyncRead(k2))
      BY <1>7 DEF InitializeHandler, c
    <2>2. Sound(k1, b) /\ k1 \in SocketType /\ Kept(c, k1)
      BY <1>1, SetQuerySound, FieldKept DEF Sound
    <2> HIDE DEF k1
    <2>3. Moves(k1, k2) /\ k2 \in SocketType
      BY <1>1, <2>2, SendPacketMoves, SendPacketSound DEF Sound
    <2> HIDE DEF k2
    <2>4. Moves(k1, AsyncRead(k2))
      BY <2>3, FieldKept, MovesBefore
    <2> QED BY <1>2, <2>1, <2>2, <2>4, MovesAfter
  <1>8. CASE ReadPing(s)
    <2> DEFINE k2 == SendPacket(c, 1)
    <2>1. Changes(s, AsyncRead(k2))
      BY <1>8 DEF ReadPing, c
    <2>2. Moves(c, k2) /\ k2 \in SocketType
      BY <1>1, SendPacketMoves, SendPacketSound DEF Sound
    <2> HIDE DEF k2
    <2>3. Moves(c, AsyncRead(k2))
      BY <2>2, FieldKept, MovesBefore
    <2> QED BY <1>2, <2>1, <2>3
  <1>9. CASE ReadAuthSession(s) \/ ReadAuthContinued(s)
    <2>1. PICK q \in {"auth", "continued"} :
            Changes(s, [c EXCEPT !.reading = FALSE, !.query = q])
      BY <1>9 DEF ReadAuthSession, ReadAuthContinued, c
    <2> DEFINE k == [r EXCEPT !.query = q]
    <2>2. Changes(s, k)
      BY <2>1 DEF r
    <2>3. Moves(r, k)
      BY <1>3, FieldKept, KeptMoves
    <2> HIDE DEF k
    <2> QED BY <1>2, <1>3, <2>2, <2>3, MovesAfter
  <1>10. CASE ReadAuthContinuedDenied(s)
    <2> DEFINE k2 == SendPacket(r, 1)
    <2>1. Changes(s, DelayedCloseSocket(k2))
      BY <1>10 DEF ReadAuthContinuedDenied, c, r
    <2>2. Moves(r, k2) /\ k2 \in SocketType
      BY <1>1, <1>3, SendPacketMoves, SendPacketSound DEF Sound
    <2> HIDE DEF k2
    <2>3. Moves(r, DelayedCloseSocket(k2))
      BY <2>2, FieldKept, MovesBefore
    <2> QED BY <1>2, <1>3, <2>1, <2>3, MovesAfter
  <1>11. CASE ReadEncryptionAck(s)
    <2> DEFINE k1 == [c EXCEPT !.known = TRUE]
    <2>1. Changes(s, AsyncRead(k1))
      BY <1>11 DEF ReadEncryptionAck, c
    <2>2. Kept(c, k1) /\ k1 \in SocketType
      BY <1>1 DEF SocketType, Kept
    <2> HIDE DEF k1
    <2>3. Moves(k1, AsyncRead(k1))
      BY <2>2, FieldKept, KeptMoves
    <2> QED BY <1>2, <2>1, <2>2, <2>3, MovesAfter
  <1> QED BY <1>4, <1>5, <1>6, <1>7, <1>8, <1>9, <1>10, <1>11

(* The world thread and the client. *)
LEMMA OthersMove ==
    ASSUME IInv, NEW s \in Sockets,
           \/ SendPacketEnqueue(s) \/ CloseSocketExchange(s) \/ CloseSocketFinish(s)
           \/ PeerReads(s) \/ PeerLeaves(s) \/ WorldRefuses(s)
           \/ \E n \in Sizes : SendPacketCheck(s, n)
    PROVE  SocketMoves
  <1> DEFINE c == sock[s]
             b == Open(s)
  <1>1. c \in SocketType /\ Sound(c, b) /\ b \in Bytes
    BY OneSocket DEF Sound
  <1> HIDE DEF b
  <1>2. ASSUME NEW k, Changes(s, k), Moves(c, k) PROVE SocketMoves
    BY <1>2, OneMoves DEF Changes
  <1> HIDE DEF c
  <1>3. CASE SendPacketEnqueue(s)
    <2> DEFINE k1 == Enqueue(c, c.sending)
    <2>1. Changes(s, [k1 EXCEPT !.sending = 0])
      BY <1>3 DEF SendPacketEnqueue, c
    <2>2. c.sending \in Nat
      BY <1>1 DEF SocketType
    <2>3. Moves(c, k1) /\ k1 \in SocketType
      BY <1>1, <2>2, EnqueueGrows, EnqueueSound DEF Moves, Sound
    <2> HIDE DEF k1
    <2>4. Kept(k1, [k1 EXCEPT !.sending = 0])
      BY <2>3, FieldKept
    <2> QED BY <1>2, <2>1, <2>3, <2>4, MovesBefore
  <1>4. CASE CloseSocketExchange(s)
    <2> DEFINE k == [c EXCEPT !.closed = TRUE, !.finishing = TRUE]
    <2>1. Changes(s, k)
      BY <1>4 DEF CloseSocketExchange, c
    <2>2. Kept(c, k)
      BY <1>1 DEF SocketType, Kept
    <2> HIDE DEF k
    <2> QED BY <1>2, <2>1, <2>2, KeptMoves
  <1>5. CASE CloseSocketFinish(s)
    <2> DEFINE k == [c EXCEPT !.finishing = FALSE, !.shut = TRUE, !.closes = @ + 1]
    <2>1. Changes(s, k)
      BY <1>5 DEF CloseSocketFinish, c
    <2>2. Rests(c, k)
      <3>1. k.accepted = c.accepted /\ k.wire = c.wire /\ k.shut
        BY <1>1 DEF SocketType
      <3> QED BY <3>1 DEF Rests
    <2> HIDE DEF k
    <2> QED BY <1>2, <2>1, <2>2 DEF Moves
  <1>6. CASE PeerReads(s) \/ PeerLeaves(s)
    <2>1. Changes(s, [c EXCEPT !.room = SendRoom]) \/ Changes(s, [c EXCEPT !.up = FALSE])
      BY <1>6 DEF PeerReads, PeerLeaves, c
    <2>2. Moves(c, [c EXCEPT !.room = SendRoom]) /\ Moves(c, [c EXCEPT !.up = FALSE])
      BY <1>1, FieldKept, KeptMoves
    <2> QED BY <1>2, <2>1, <2>2
  <1>7. CASE WorldRefuses(s)
    <2> DEFINE k2 == SendPacket(c, 1)
    <2>1. Changes(s, DelayedCloseSocket(k2))
      BY <1>7 DEF WorldRefuses, c
    <2>2. Moves(c, k2) /\ k2 \in SocketType
      BY <1>1, SendPacketMoves, SendPacketSound DEF Sound
    <2> HIDE DEF k2
    <2>3. Moves(c, DelayedCloseSocket(k2))
      BY <2>2, FieldKept, MovesBefore
    <2> QED BY <1>2, <2>1, <2>3
  <1>8. CASE \E n \in Sizes : SendPacketCheck(s, n)
    <2>1. PICK n \in Sizes : Changes(s, [c EXCEPT !.sending = n])
      BY <1>8 DEF SendPacketCheck, c
    <2>2. Moves(c, [c EXCEPT !.sending = n])
      BY <1>1, FieldKept, KeptMoves
    <2> QED BY <1>2, <2>1, <2>2
  <1> QED BY <1>3, <1>4, <1>5, <1>6, <1>7, <1>8

LEMMA NextMoves ==
    ASSUME IInv, [Next]_vars
    PROVE  SocketMoves
  <1>1. CASE UNCHANGED vars
    BY <1>1 DEF vars, SocketMoves
  <1>2. CASE Next
    BY <1>2, LoopMoves, UpdateMoves, QueriesMoves, HandlersMoves, OthersMove
       DEF Next, UpdateThread
  <1> QED BY <1>1, <1>2

(* What is accepted, what has left and what is open, as ByteStream sees them. *)
Given == [s \in Sockets |-> sock[s].accepted]
Left == [s \in Sockets |-> sock[s].wire]
Able == [s \in Sockets |-> ~sock[s].shut]

LEMMA StepStreams ==
    ASSUME IInv, IInv', StreamInOrder', [Next]_vars
    PROVE  [Streams!Next]_<<Given, Left, Able>>
  <1>1. ASSUME NEW r \in Sockets, sock'[r] = sock[r]
        PROVE  /\ Given'[r] = Given[r] /\ Left'[r] = Left[r] /\ Able'[r] = Able[r]
    BY <1>1 DEF Given, Left, Able
  <1>2. CASE sock' = sock
    BY <1>2 DEF Given, Left, Able
  <1>3. ASSUME NEW s \in Sockets, Moves(sock[s], sock'[s]),
               \A r \in Sockets \ {s} : sock'[r] = sock[r]
        PROVE  Streams!Next
    <2> DEFINE k == sock[s]
               k2 == sock'[s]
    <2>1. /\ Given[s] = k.accepted /\ Left[s] = k.wire /\ Able[s] = ~k.shut
          /\ Given'[s] = k2.accepted /\ Left'[s] = k2.wire /\ Able'[s] = ~k2.shut
      BY DEF Given, Left, Able
    <2>2. /\ k.accepted \in Bytes /\ k.wire \in Bytes
          /\ k.shut \in BOOLEAN /\ k2.shut \in BOOLEAN
      BY DEF IInv, TypeInv, SocketType
    <2>3. /\ IsPrefix(k.accepted, k.accepted) /\ IsPrefix(k.wire, k.wire)
          /\ IsPrefix(k2.wire, k2.accepted)
      <3>1. IsPrefix(k2.wire, k2.accepted)
        BY DEF StreamInOrder
      <3>2. Len(k.accepted) \in Nat /\ Len(k.wire) \in Nat
        BY <2>2, LenProperties DEF Bytes
      <3> HIDE DEF k, k2
      <3> QED BY <3>1, <3>2 DEF IsPrefix
    <2>4. Moves(k, k2)
      BY <1>3
    <2> HIDE DEF k, k2
    <2>5. \/ /\ IsPrefix(Given[s], Given'[s])
             /\ Left'[s] = Left[s] /\ Able'[s] = Able[s]
          \/ /\ Able[s] /\ Able'[s] \in {TRUE, FALSE}
             /\ IsPrefix(Left[s], Left'[s]) /\ IsPrefix(Left'[s], Given[s])
             /\ Given'[s] = Given[s]
      <3>1. CASE Grows(k, k2)
        BY <2>1, <3>1 DEF Grows
      <3>2. CASE Flows(k, k2)
        BY <2>1, <2>2, <2>3, <3>2 DEF Flows
      <3>3. CASE Rests(k, k2) /\ k.shut
        <4>1. k2.shut = k.shut
          BY <2>2, <3>3 DEF Rests
        <4> QED BY <2>1, <2>3, <3>3, <4>1 DEF Rests
      <3>4. CASE Rests(k, k2) /\ ~k.shut
        BY <2>1, <2>2, <2>3, <3>4 DEF Rests
      <3> QED BY <2>4, <3>1, <3>2, <3>3, <3>4 DEF Moves
    <2>6. \A r \in Sockets \ {s} :
            Given'[r] = Given[r] /\ Left'[r] = Left[r] /\ Able'[r] = Able[r]
      BY <1>1, <1>3
    <2>7. ASSUME NEW u, NEW v, IsPrefix(u, v) PROVE Streams!IsPrefix(u, v)
      BY <2>7 DEF IsPrefix, Streams!IsPrefix
    <2>8. Streams!Put(s) \/ Streams!Take(s)
      <3>1. CASE /\ IsPrefix(Given[s], Given'[s])
                 /\ Left'[s] = Left[s] /\ Able'[s] = Able[s]
        <4>1. Streams!Put(s)
          BY <2>7, <3>1, Zenon DEF Streams!Put, Given, Left, Able
        <4> QED BY <4>1
      <3>2. CASE /\ Able[s] /\ Able'[s] \in {TRUE, FALSE}
                 /\ IsPrefix(Left[s], Left'[s]) /\ IsPrefix(Left'[s], Given[s])
                 /\ Given'[s] = Given[s]
        <4>1. Streams!Take(s)
          BY <2>7, <3>2, Zenon DEF Streams!Take, Given, Left, Able
        <4> QED BY <4>1
      <3> QED BY <2>5, <3>1, <3>2
    <2>9. ASSUME NEW r \in Sockets \ {s} PROVE Streams!Same(r)
      BY <2>6 DEF Streams!Same, Given, Left, Able
    <2> QED BY <2>8, <2>9 DEF Streams!Next
  <1> QED BY <1>2, <1>3, NextMoves DEF SocketMoves

(* Socket is a byte stream: whatever the network thread and the world thread do,
   bytes are only added to what was accepted, the next ones leave, and none does
   once the socket is shut down, which is for good. *)
THEOREM ImplementsByteStreamCorrect == Spec => ImplementsByteStream
  <1>1. Init => Streams!Init
    <2> SUFFICES ASSUME Init PROVE Streams!Init
      OBVIOUS
    <2>1. ASSUME NEW s \in Sockets
          PROVE  sock[s].accepted = <<>> /\ sock[s].wire = <<>> /\ ~sock[s].shut
      BY DEF Init, NewSocket
    <2>2. /\ [s \in Sockets |-> sock[s].accepted] = [s \in Sockets |-> <<>>]
          /\ [s \in Sockets |-> sock[s].wire] = [s \in Sockets |-> <<>>]
          /\ [s \in Sockets |-> ~sock[s].shut] = [s \in Sockets |-> TRUE]
      BY <2>1
    <2> QED BY <2>2 DEF Streams!Init
  <1>2. IInv /\ IInv' /\ StreamInOrder' /\ [Next]_vars
            => [Streams!Next]_<<[s \in Sockets |-> sock[s].accepted],
                                [s \in Sockets |-> sock[s].wire],
                                [s \in Sockets |-> ~sock[s].shut]>>
    BY StepStreams DEF Given, Left, Able
  <1> QED BY <1>1, <1>2, Invariance, StreamInOrderCorrect, PTL
          DEF Spec, ImplementsByteStream, Streams!Spec

=============================================================================
