------------------------- MODULE SessionPacketsProofs -------------------------
(***************************************************************************)
(* Proofs about SessionPackets, for any number of sessions and packets: no *)
(* network thread works on a deleted session, and a session handed to the  *)
(* World has one owner until it is deleted, and none afterwards, while     *)
(* each connection acknowledges its encryption once, when it is asked to.  *)
(*                                                                         *)
(* The heart of it is what a socket that is closed may still do (SockInv)  *)
(* and that a session is deleted only when its sockets are closed (Dying). *)
(***************************************************************************)
EXTENDS SessionPackets, SequenceTheorems, FiniteSetTheorems, TLAPS

Session == [live: BOOLEAN, realm: BOOLEAN, inst: BOOLEAN, loading: BOOLEAN,
            character: BOOLEAN, player: {"none", "world", "between"}, recent: BOOLEAN,
            force: BOOLEAN, expire: Nat]

RealmPcs == {"auth", "perm", "encrypt", "read", "locked", "abort", "stuck", "closing", "closed"}
InstPcs  == {"none", "asked", "read", "locked", "closing", "closed"}

Socket == [pc: RealmPcs \cup InstPcs, closed: BOOLEAN, ptr: Ids \cup {None},
           packet: Kinds \cup {NoPacket}]

TypeInv ==
    /\ sess \in [Ids -> Session]
    /\ sock \in [Sockets -> Socket]
    /\ addSessQueue \in Seq(Ids) /\ linkQueue \in Seq(Ids) /\ closing \in Seq(Sockets)
    /\ current \in Ids \cup {None} /\ doomed \in Ids \cup {None}
    /\ wpc \in {"link", "setsession", "add", "delete", "start", "packets", "readd",
                "callbacks", "logout", "cleanup"}
    /\ midClose \in BOOLEAN
    /\ handedOver \subseteq Ids

In(x, s) == \E i \in 1..Len(s) : s[i] = x

Distinct(s) == \A i, j \in 1..Len(s) : s[i] = s[j] => i = j

(* The session's record still has the socket, m_Socket. *)
Has(k, s) == IF s[2] = "realm" THEN k.realm ELSE k.inst

(* The network thread of socket k still serves the session. *)
Serving(k) == k.pc \in {"perm", "encrypt", "read", "locked", "abort"} /\ k.ptr # None

(* Socket s, whose state is k: _worldSession is that of the socket, and is there
   while the session is worked on; a session that is served exists; a closed socket
   has no session, unless its network thread no longer reads or OnClose is about to
   take it away; and a socket with a session is closed with the session. *)
SockInv(s, k) ==
    /\ k.pc \in (IF s[2] = "realm" THEN RealmPcs ELSE InstPcs)
    /\ k.ptr = None \/ k.ptr = s[1]
    /\ s[2] = "inst" /\ k.ptr # None => s[1] \in handedOver
    /\ k.pc \in {"auth", "asked"} => k.ptr = None
    /\ k.pc = "auth" => ~k.closed
    /\ k.pc \in {"perm", "encrypt", "locked", "abort"} => k.ptr # None
    /\ k.pc \in {"auth", "perm", "encrypt"} => s[1] \notin handedOver
    /\ Serving(k) => sess[s[1]].live
    /\ k.closed /\ k.ptr # None =>
        k.pc \in {"closing", "stuck", "closed"} \/ (midClose /\ s = Head(closing))
    /\ ~k.closed /\ k.ptr # None => Has(sess[s[1]], s) \/ In(s, closing)

(* An instance socket that is not linked to its session yet is known to its
   network thread only. *)
Unlinked(n, k) ==
    /\ k.ptr = None /\ (k.closed => k.pc \in {"closing", "closed"})
    /\ ~sess[n].inst /\ ~In(<<n, "inst">>, closing)

InstInv(n) ==
    LET k == sock[<<n, "inst">>] IN
    /\ In(n, linkQueue) => Unlinked(n, k)
    /\ k.pc = "asked" => Unlinked(n, k) /\ ~In(n, linkQueue)

(* The sockets of the session that is deleted are closed, or about to be. *)
Dying ==
    /\ wpc = "delete" <=> doomed # None
    /\ \A s \in Sockets : s[1] = doomed /\ sock[s].ptr # None =>
        sock[s].closed \/ In(s, closing)

(* Where a session that was handed over and exists is. *)
Owned ==
    /\ Distinct(addSessQueue)
    /\ \A i \in 1..Len(addSessQueue) : LET n == addSessQueue[i] IN
        n \in handedOver /\ sess[n].live /\ n # current /\ n # doomed
    /\ current # None => current \in handedOver /\ sess[current].live /\ current # doomed
    /\ doomed # None => doomed \in handedOver /\ sess[doomed].live
    /\ \A n \in handedOver : sess[n].live =>
        In(n, addSessQueue) \/ n = current \/ n = doomed

(* The world thread closes sockets of sessions that were handed over, and updates
   or links the present session. *)
World ==
    /\ \A i \in 1..Len(closing) : closing[i][1] \in handedOver
    /\ midClose => closing # <<>>
    /\ wpc \in {"start", "packets", "readd", "callbacks", "logout", "cleanup"} =>
        current # None
    /\ wpc = "setsession" => linkQueue # <<>> /\ current = Head(linkQueue)
    /\ Distinct(linkQueue)

IInv ==
    /\ TypeInv /\ Dying /\ Owned /\ World
    /\ \A s \in Sockets : SockInv(s, sock[s])
    /\ \A n \in Ids : InstInv(n)

-----------------------------------------------------------------------------
(* Sockets, sequences and records. *)

LEMMA SocketFacts ==
  /\ \A s \in Sockets : /\ s[1] \in Ids /\ s[2] \in {"realm", "inst"}
                        /\ s = <<s[1], s[2]>>
  /\ \A n \in Ids : /\ <<n, "realm">> \in Sockets /\ <<n, "inst">> \in Sockets
                    /\ <<n, "realm">> # <<n, "inst">>
  /\ \A n : <<n, "realm">>[1] = n /\ <<n, "realm">>[2] = "realm"
            /\ <<n, "inst">>[1] = n /\ <<n, "inst">>[2] = "inst"
  /\ None \notin Ids
BY ConstantsAssumption DEF Sockets, Ids, None

LEMMA TailFacts ==
  ASSUME NEW S, NEW q \in Seq(S), q # <<>>
  PROVE  /\ Len(q) \in Nat \ {0} /\ Head(q) = q[1] /\ Head(q) \in S /\ 1 \in 1..Len(q)
         /\ Tail(q) \in Seq(S) /\ Len(Tail(q)) = Len(q) - 1
         /\ \A i \in 1..Len(Tail(q)) : Tail(q)[i] = q[i + 1] /\ i + 1 \in 1..Len(q)
<1>1. /\ Len(q) \in Nat \ {0} /\ Head(q) = q[1] /\ q[1] \in S
      /\ Tail(q) \in Seq(S) /\ Len(Tail(q)) = Len(q) - 1
      /\ \A i \in 1..Len(Tail(q)) : Tail(q)[i] = q[i + 1]
  BY HeadTailProperties
<1> QED
  BY <1>1

(* A sequence has what its tail has, and the head. *)
LEMMA InTail ==
  ASSUME NEW S, NEW q \in Seq(S), q # <<>>
  PROVE  /\ In(Head(q), q)
         /\ \A x : In(x, q) <=> x = Head(q) \/ In(x, Tail(q))
         /\ Distinct(q) => Distinct(Tail(q)) /\ ~In(Head(q), Tail(q))
<1>1. /\ Len(q) \in Nat \ {0} /\ Head(q) = q[1] /\ 1 \in 1..Len(q)
      /\ Len(Tail(q)) = Len(q) - 1
      /\ \A i \in 1..Len(Tail(q)) : Tail(q)[i] = q[i + 1] /\ i + 1 \in 1..Len(q)
  BY TailFacts
<1>2. In(Head(q), q)
  BY <1>1 DEF In
<1>3. ASSUME NEW x, In(x, q), x # Head(q) PROVE In(x, Tail(q))
  <2>1. PICK i \in 1..Len(q) : q[i] = x
    BY <1>3 DEF In
  <2>2. i - 1 \in 1..Len(Tail(q)) /\ (i - 1) + 1 = i
    BY <1>1, <1>3, <2>1
  <2> QED
    BY <1>1, <2>1, <2>2 DEF In
<1>4. ASSUME NEW x, In(x, Tail(q)) PROVE In(x, q)
  BY <1>1, <1>4 DEF In
<1>5. ASSUME Distinct(q) PROVE Distinct(Tail(q)) /\ ~In(Head(q), Tail(q))
  <2>1. ASSUME NEW i \in 1..Len(Tail(q)), NEW j \in 1..Len(Tail(q)),
               Tail(q)[i] = Tail(q)[j]
        PROVE  i = j
    <3>1. i + 1 = j + 1
      BY <1>1, <1>5, <2>1 DEF Distinct
    <3> QED
      BY <1>1, <3>1
  <2>2. ASSUME NEW i \in 1..Len(Tail(q)), Tail(q)[i] = Head(q) PROVE FALSE
    <3>1. i + 1 = 1
      BY <1>1, <1>5, <2>2 DEF Distinct
    <3> QED
      BY <1>1, <3>1
  <2> QED
    BY <2>1, <2>2 DEF Distinct, In
<1> QED
  BY <1>2, <1>3, <1>4, <1>5

LEMMA InAppend ==
  ASSUME NEW S, NEW q \in Seq(S), NEW y \in S
  PROVE  /\ Append(q, y) \in Seq(S)
         /\ \A x : In(x, Append(q, y)) <=> In(x, q) \/ x = y
         /\ Distinct(q) /\ ~In(y, q) => Distinct(Append(q, y))
<1>1. /\ Append(q, y) \in Seq(S) /\ Len(Append(q, y)) = Len(q) + 1
      /\ \A i \in 1..Len(q) : Append(q, y)[i] = q[i]
      /\ Append(q, y)[Len(q) + 1] = y /\ Len(q) \in Nat
  OBVIOUS
<1>2. \A i \in 1..Len(Append(q, y)) : i \in 1..Len(q) \/ i = Len(q) + 1
  BY <1>1
<1>3. ASSUME NEW x PROVE In(x, Append(q, y)) <=> In(x, q) \/ x = y
  BY <1>1, <1>2 DEF In
<1>4. ASSUME Distinct(q), ~In(y, q) PROVE Distinct(Append(q, y))
  <2> SUFFICES ASSUME NEW i \in 1..Len(Append(q, y)), NEW j \in 1..Len(Append(q, y)),
                      Append(q, y)[i] = Append(q, y)[j]
               PROVE  i = j
    BY DEF Distinct
  <2> QED
    BY <1>1, <1>2, <1>4 DEF Distinct, In
<1> QED
  BY <1>1, <1>3, <1>4

LEMMA InEmpty == Len(<<>>) = 0 /\ (\A x : ~In(x, <<>>)) /\ Distinct(<<>>)
<1>1. Len(<<>>) = 0 /\ 1..0 = {}
  OBVIOUS
<1> QED
  BY <1>1 DEF In, Distinct

LEMMA InOne == \A x : /\ <<x>> # <<>> /\ Head(<<x>>) = x
                      /\ \A y : In(y, <<x>>) <=> y = x
<1> TAKE x
<1>1. Len(<<x>>) = 1 /\ <<x>>[1] = x /\ 1..1 = {1} /\ <<x>> # <<>> /\ Head(<<x>>) = x
  OBVIOUS
<1> QED
  BY <1>1 DEF In

LEMMA InConcat ==
  ASSUME NEW S, NEW u \in Seq(S), NEW v \in Seq(S)
  PROVE  u \o v \in Seq(S) /\ \A x : In(x, u \o v) <=> In(x, u) \/ In(x, v)
<1>1. /\ u \o v \in Seq(S) /\ Len(u \o v) = Len(u) + Len(v)
      /\ Len(u) \in Nat /\ Len(v) \in Nat
      /\ \A i \in 1..(Len(u) + Len(v)) :
            (u \o v)[i] = IF i <= Len(u) THEN u[i] ELSE v[i - Len(u)]
  BY ConcatProperties, LenProperties
<1>2. ASSUME NEW x, In(x, u \o v) PROVE In(x, u) \/ In(x, v)
  <2>1. PICK i \in 1..(Len(u) + Len(v)) : (u \o v)[i] = x
    BY <1>1, <1>2 DEF In
  <2>2. CASE i <= Len(u)
    <3>1. i \in 1..Len(u) /\ u[i] = x
      BY <1>1, <2>1, <2>2
    <3> QED
      BY <3>1 DEF In
  <2>3. CASE ~(i <= Len(u))
    <3>1. i - Len(u) \in 1..Len(v) /\ v[i - Len(u)] = x
      BY <1>1, <2>1, <2>3
    <3> QED
      BY <3>1 DEF In
  <2> QED
    BY <2>2, <2>3
<1>3. ASSUME NEW x, In(x, u) PROVE In(x, u \o v)
  <2>1. PICK i \in 1..Len(u) : u[i] = x
    BY <1>3 DEF In
  <2>2. i \in 1..(Len(u) + Len(v)) /\ i <= Len(u)
    BY <1>1, <2>1
  <2> QED
    BY <1>1, <2>1, <2>2 DEF In
<1>4. ASSUME NEW x, In(x, v) PROVE In(x, u \o v)
  <2>1. PICK i \in 1..Len(v) : v[i] = x
    BY <1>4 DEF In
  <2>2. Len(u) + i \in 1..(Len(u) + Len(v)) /\ ~(Len(u) + i <= Len(u))
        /\ (Len(u) + i) - Len(u) = i
    BY <1>1, <2>1
  <2> QED
    BY <1>1, <2>1, <2>2 DEF In
<1> QED
  BY <1>1, <1>2, <1>3, <1>4

(* SocketsOf has the sockets that the record has. *)
LEMMA SocketsOfFacts ==
  ASSUME NEW n \in Ids, NEW k
  PROVE  /\ SocketsOf(k, n) \in Seq(Sockets)
         /\ \A s \in Sockets : In(s, SocketsOf(k, n)) <=> s[1] = n /\ Has(k, s)
<1> DEFINE r == <<n, "realm">>
           i == <<n, "inst">>
           u == IF k.realm THEN <<r>> ELSE <<>>
           v == IF k.inst THEN <<i>> ELSE <<>>
<1>1. r \in Sockets /\ i \in Sockets
  BY SocketFacts
<1>2. SocketsOf(k, n) = u \o v
  BY DEF SocketsOf
<1>3. \A s \in Sockets : /\ (s = r <=> s[1] = n /\ s[2] = "realm")
                         /\ (s = i <=> s[1] = n /\ s[2] = "inst")
                         /\ s[2] \in {"realm", "inst"}
  BY SocketFacts
<1> HIDE DEF r, i
<1>4. u \in Seq(Sockets) /\ v \in Seq(Sockets)
  BY <1>1
<1>5. \A x : (In(x, u) <=> k.realm /\ x = r) /\ (In(x, v) <=> k.inst /\ x = i)
  BY InEmpty, InOne
<1> HIDE DEF u, v
<1>6. /\ u \o v \in Seq(Sockets)
      /\ \A x : In(x, u \o v) <=> In(x, u) \/ In(x, v)
  BY <1>4, InConcat
<1>7. ASSUME NEW s \in Sockets
      PROVE  In(s, SocketsOf(k, n)) <=> s[1] = n /\ Has(k, s)
  BY <1>2, <1>3, <1>5, <1>6 DEF Has
<1> QED
  BY <1>2, <1>6, <1>7

-----------------------------------------------------------------------------
(* What a step that changes one socket, or no socket, has to keep. *)

Pcs == RealmPcs \cup InstPcs

LEMMA SocketRecord ==
  ASSUME NEW k \in Socket
  PROVE  /\ k.pc \in Pcs /\ k.closed \in BOOLEAN /\ k.ptr \in Ids \cup {None}
         /\ \A p \in Pcs : LET l == [k EXCEPT !.pc = p] IN
               l \in Socket /\ l.pc = p /\ l.closed = k.closed /\ l.ptr = k.ptr
         /\ \A c \in BOOLEAN : LET l == [k EXCEPT !.closed = c] IN
               l \in Socket /\ l.pc = k.pc /\ l.closed = c /\ l.ptr = k.ptr
         /\ \A m \in Ids \cup {None} : LET l == [k EXCEPT !.ptr = m] IN
               l \in Socket /\ l.pc = k.pc /\ l.closed = k.closed /\ l.ptr = m
         /\ \A x \in Kinds \cup {NoPacket} : LET l == [k EXCEPT !.packet = x] IN
               l \in Socket /\ l.pc = k.pc /\ l.closed = k.closed /\ l.ptr = k.ptr
<1>1. k.pc \in Pcs /\ k.closed \in BOOLEAN /\ k.ptr \in Ids \cup {None}
  BY DEF Socket, Pcs
<1>2. ASSUME NEW p \in Pcs
      PROVE  LET l == [k EXCEPT !.pc = p] IN
               l \in Socket /\ l.pc = p /\ l.closed = k.closed /\ l.ptr = k.ptr
  BY DEF Socket, Pcs
<1>3. ASSUME NEW c \in BOOLEAN
      PROVE  LET l == [k EXCEPT !.closed = c] IN
               l \in Socket /\ l.pc = k.pc /\ l.closed = c /\ l.ptr = k.ptr
  BY DEF Socket
<1>4. ASSUME NEW m \in Ids \cup {None}
      PROVE  LET l == [k EXCEPT !.ptr = m] IN
               l \in Socket /\ l.pc = k.pc /\ l.closed = k.closed /\ l.ptr = m
  BY DEF Socket
<1>5. ASSUME NEW x \in Kinds \cup {NoPacket}
      PROVE  LET l == [k EXCEPT !.packet = x] IN
               l \in Socket /\ l.pc = k.pc /\ l.closed = k.closed /\ l.ptr = k.ptr
  BY DEF Socket
<1> QED
  BY <1>1, <1>2, <1>3, <1>4, <1>5

(* Record l differs from k in nothing that the invariant is about. *)
Same(k, l) == (l.live <=> k.live) /\ (l.realm <=> k.realm) /\ (l.inst <=> k.inst)

(* The other fields of a session. *)
LEMMA SessionRecord ==
  ASSUME NEW k \in Session
  PROVE  /\ k.live \in BOOLEAN /\ k.realm \in BOOLEAN /\ k.inst \in BOOLEAN
         /\ k.expire \in Nat /\ k.player \in {"none", "world", "between"}
         /\ \A c \in BOOLEAN :
               /\ [k EXCEPT !.loading = c] \in Session /\ Same(k, [k EXCEPT !.loading = c])
               /\ [k EXCEPT !.character = c] \in Session /\ Same(k, [k EXCEPT !.character = c])
               /\ [k EXCEPT !.recent = c] \in Session /\ Same(k, [k EXCEPT !.recent = c])
               /\ [k EXCEPT !.force = c] \in Session /\ Same(k, [k EXCEPT !.force = c])
         /\ \A p \in {"none", "world", "between"} :
               [k EXCEPT !.player = p] \in Session /\ Same(k, [k EXCEPT !.player = p])
         /\ \A e \in Nat :
               [k EXCEPT !.expire = e] \in Session /\ Same(k, [k EXCEPT !.expire = e])
<1>1. /\ k.live \in BOOLEAN /\ k.realm \in BOOLEAN /\ k.inst \in BOOLEAN
      /\ k.expire \in Nat /\ k.player \in {"none", "world", "between"}
  BY DEF Session
<1>2. ASSUME NEW c \in BOOLEAN
      PROVE  [k EXCEPT !.loading = c] \in Session /\ Same(k, [k EXCEPT !.loading = c])
  BY DEF Session, Same
<1>3. ASSUME NEW c \in BOOLEAN
      PROVE  [k EXCEPT !.character = c] \in Session /\ Same(k, [k EXCEPT !.character = c])
  BY DEF Session, Same
<1>4. ASSUME NEW c \in BOOLEAN
      PROVE  [k EXCEPT !.recent = c] \in Session /\ Same(k, [k EXCEPT !.recent = c])
  BY DEF Session, Same
<1>5. ASSUME NEW c \in BOOLEAN
      PROVE  [k EXCEPT !.force = c] \in Session /\ Same(k, [k EXCEPT !.force = c])
  BY DEF Session, Same
<1>6. ASSUME NEW p \in {"none", "world", "between"}
      PROVE  [k EXCEPT !.player = p] \in Session /\ Same(k, [k EXCEPT !.player = p])
  BY DEF Session, Same
<1>7. ASSUME NEW e \in Nat
      PROVE  [k EXCEPT !.expire = e] \in Session /\ Same(k, [k EXCEPT !.expire = e])
  BY DEF Session, Same
<1> QED
  BY <1>1, <1>2, <1>3, <1>4, <1>5, <1>6, <1>7

(* What the invariant says of the sockets, and of the instance sockets. *)
SocksInv == \A s \in Sockets : SockInv(s, sock[s])
InstsInv == \A n \in Ids : InstInv(n)

(* Socket s in state k fits the invariant as the rest of the state is. *)
Fits(s, k) ==
    /\ SockInv(s, k)
    /\ s[2] = "inst" =>
        /\ In(s[1], linkQueue) => Unlinked(s[1], k)
        /\ k.pc = "asked" => Unlinked(s[1], k) /\ ~In(s[1], linkQueue)
    /\ s[1] = doomed /\ k.ptr # None => k.closed \/ In(s, closing)

LEMMA SocketsFit ==
  ASSUME IInv
  PROVE  \A s \in Sockets : Fits(s, sock[s]) /\ sock[s] \in Socket
<1> SUFFICES ASSUME NEW s \in Sockets PROVE Fits(s, sock[s]) /\ sock[s] \in Socket
  OBVIOUS
<1>1. SockInv(s, sock[s]) /\ sock[s] \in Socket
  BY DEF IInv, TypeInv
<1>2. s[1] = doomed /\ sock[s].ptr # None => sock[s].closed \/ In(s, closing)
  BY DEF IInv, Dying
<1>3. ASSUME s[2] = "inst"
      PROVE  /\ In(s[1], linkQueue) => Unlinked(s[1], sock[s])
             /\ sock[s].pc = "asked" => Unlinked(s[1], sock[s]) /\ ~In(s[1], linkQueue)
  <2>1. s[1] \in Ids /\ s = <<s[1], "inst">>
    BY <1>3, SocketFacts
  <2>2. InstInv(s[1])
    BY <2>1 DEF IInv
  <2> QED
    BY <2>1, <2>2 DEF InstInv
<1> QED
  BY <1>1, <1>2, <1>3 DEF Fits

(* The other variables keep their values. *)
Others == UNCHANGED <<addSessQueue, linkQueue, handedOver, current, wpc, closing, midClose,
                      doomed>>

(* A step of sockets and of what the invariant does not say of the sessions. *)
LEMMA SocketStep ==
  ASSUME IInv, Others,
         sess' \in [Ids -> Session], \A n \in Ids : Same(sess[n], sess'[n]),
         sock' \in [Sockets -> Socket], \A s \in Sockets : Fits(s, sock'[s])
  PROVE  IInv'
<1>1. TypeInv'
  BY DEF IInv, TypeInv, Others
<1>2. Owned'
  BY DEF IInv, TypeInv, Owned, Others, Same
<1>3. World'
  BY DEF IInv, World, Others
<1>4. Dying'
  BY DEF IInv, Dying, Others, Fits
<1>5. SocksInv'
  <2> SUFFICES ASSUME NEW t \in Sockets PROVE SockInv(t, sock[t])'
    BY DEF SocksInv
  <2>1. SockInv(t, sock'[t])
    BY DEF Fits
  <2>2. t[1] \in Ids /\ Same(sess[t[1]], sess'[t[1]])
    BY SocketFacts
  <2> QED
    BY <2>1, <2>2 DEF SockInv, Others, Has, Same
<1>6. InstsInv'
  <2> SUFFICES ASSUME NEW n \in Ids PROVE InstInv(n)'
    BY DEF InstsInv
  <2> DEFINE i == <<n, "inst">>
  <2>1. i \in Sockets /\ i[1] = n /\ i[2] = "inst"
    BY SocketFacts
  <2> HIDE DEF i
  <2>2. /\ In(n, linkQueue) => Unlinked(n, sock'[i])
        /\ sock'[i].pc = "asked" => Unlinked(n, sock'[i]) /\ ~In(n, linkQueue)
    BY <2>1 DEF Fits
  <2> QED
    BY <2>2 DEF InstInv, Unlinked, Others, Same, i
<1> QED
  BY <1>1, <1>2, <1>3, <1>4, <1>5, <1>6 DEF IInv, SocksInv, InstsInv

(* The step of socket s alone. *)
LEMMA OneSocket ==
  ASSUME IInv, Others, sess' = sess, NEW s \in Sockets, NEW k \in Socket,
         sock' = [sock EXCEPT ![s] = k], Fits(s, k)
  PROVE  IInv'
<1>1. /\ sock' \in [Sockets -> Socket]
      /\ \A t \in Sockets : sock'[t] = IF t = s THEN k ELSE sock[t]
  BY DEF IInv, TypeInv
<1>2. \A t \in Sockets : Fits(t, sock'[t])
  BY <1>1, SocketsFit
<1>3. sess' \in [Ids -> Session] /\ \A n \in Ids : Same(sess[n], sess'[n])
  BY DEF IInv, TypeInv, Same
<1> QED
  BY <1>1, <1>2, <1>3, SocketStep

-----------------------------------------------------------------------------
(* The network threads. *)

LEMMA LoadSessionPermissionsCallbackKeeps ==
  ASSUME IInv, NEW n \in Ids, LoadSessionPermissionsCallback(n)
  PROVE  IInv'
<1> DEFINE s == <<n, "realm">>
           k == [sock[s] EXCEPT !.pc = "encrypt"]
<1>1. s \in Sockets /\ s[1] = n /\ s[2] = "realm" /\ None \notin Ids
  BY SocketFacts
<1> HIDE DEF s
<1>2. sock[s].pc = "perm" /\ sock' = [sock EXCEPT ![s] = k] /\ Others /\ sess' = sess
  BY DEF LoadSessionPermissionsCallback, s, Others, netVars, worldVars, closeVars
<1>3. /\ sock[s] \in Socket /\ Fits(s, sock[s])
      /\ k \in Socket /\ k.pc = "encrypt" /\ k.closed = sock[s].closed /\ k.ptr = sock[s].ptr
  BY <1>1, SocketsFit, SocketRecord DEF Pcs, RealmPcs
<1> HIDE DEF k
<1>4. Fits(s, k)
  BY <1>1, <1>2, <1>3 DEF Fits, SockInv, Serving, RealmPcs
<1> QED
  BY <1>1, <1>2, <1>3, <1>4, OneSocket

LEMMA ReadDataHandlerKeeps ==
  ASSUME IInv, NEW s \in Sockets, NEW x \in Kinds, ReadDataHandler(s, x)
  PROVE  IInv'
<1> DEFINE l == [sock[s] EXCEPT !.pc = "locked"]
           k == [l EXCEPT !.packet = x]
<1>1. s[1] \in Ids /\ s[2] \in {"realm", "inst"} /\ None \notin Ids
  BY SocketFacts
<1>2. /\ sock[s].pc = "read" /\ sock[s].ptr # None /\ sock' = [sock EXCEPT ![s] = k]
      /\ Others /\ sess' = sess
  BY DEF ReadDataHandler, Others, netVars, worldVars, closeVars
<1>3. sock[s] \in Socket /\ Fits(s, sock[s])
  BY SocketsFit
<1>4. l \in Socket /\ l.pc = "locked" /\ l.closed = sock[s].closed /\ l.ptr = sock[s].ptr
  BY <1>3, SocketRecord DEF Pcs, RealmPcs
<1> HIDE DEF l
<1>5. k \in Socket /\ k.pc = "locked" /\ k.closed = sock[s].closed /\ k.ptr = sock[s].ptr
  BY <1>4, SocketRecord
<1> HIDE DEF k
<1>6. Fits(s, k)
  BY <1>1, <1>2, <1>3, <1>5 DEF Fits, SockInv, Serving, RealmPcs, InstPcs, Unlinked
<1> QED
  BY <1>2, <1>5, <1>6, OneSocket

LEMMA QueuePacketKeeps ==
  ASSUME IInv, NEW s \in Sockets, QueuePacket(s)
  PROVE  IInv'
<1> DEFINE l == [sock[s] EXCEPT !.pc = "read"]
           k == [l EXCEPT !.packet = NoPacket]
<1>1. s[1] \in Ids /\ s[2] \in {"realm", "inst"} /\ None \notin Ids
  BY SocketFacts
<1>2. /\ sock[s].pc = "locked" /\ sock' = [sock EXCEPT ![s] = k] /\ Others /\ sess' = sess
  BY DEF QueuePacket, Others, worldVars, closeVars
<1>3. sock[s] \in Socket /\ Fits(s, sock[s])
  BY SocketsFit
<1>4. l \in Socket /\ l.pc = "read" /\ l.closed = sock[s].closed /\ l.ptr = sock[s].ptr
  BY <1>3, SocketRecord DEF Pcs, RealmPcs
<1> HIDE DEF l
<1>5. k \in Socket /\ k.pc = "read" /\ k.closed = sock[s].closed /\ k.ptr = sock[s].ptr
  BY <1>4, SocketRecord
<1> HIDE DEF k
<1>6. Fits(s, k)
  BY <1>1, <1>2, <1>3, <1>5 DEF Fits, SockInv, Serving, RealmPcs, InstPcs, Unlinked
<1> QED
  BY <1>2, <1>5, <1>6, OneSocket

LEMMA HandleConnectToFailedKeeps ==
  ASSUME IInv, NEW n \in Ids, HandleConnectToFailed(n)
  PROVE  IInv'
<1> DEFINE s == <<n, "realm">>
           k == [sock[s] EXCEPT !.pc = "abort"]
<1>1. s \in Sockets /\ s[1] = n /\ s[2] = "realm" /\ None \notin Ids
  BY SocketFacts
<1> HIDE DEF s
<1>2. /\ sock[s].pc = "read" /\ sock[s].ptr # None /\ sock' = [sock EXCEPT ![s] = k]
      /\ Others /\ sess' = sess
  BY DEF HandleConnectToFailed, s, Others, netVars, worldVars, closeVars
<1>3. /\ sock[s] \in Socket /\ Fits(s, sock[s])
      /\ k \in Socket /\ k.pc = "abort" /\ k.closed = sock[s].closed /\ k.ptr = sock[s].ptr
  BY <1>1, SocketsFit, SocketRecord DEF Pcs, RealmPcs
<1> HIDE DEF k
<1>4. Fits(s, k)
  BY <1>1, <1>2, <1>3 DEF Fits, SockInv, Serving, RealmPcs
<1> QED
  BY <1>1, <1>2, <1>3, <1>4, OneSocket

LEMMA NetworkCloseKeeps ==
  ASSUME IInv, NEW s \in Sockets, NetworkClose(s)
  PROVE  IInv'
<1> DEFINE p == IF sock[s].closed THEN "closed" ELSE "closing"
           l == [sock[s] EXCEPT !.pc = p]
           k == [l EXCEPT !.closed = TRUE]
<1>1. s[1] \in Ids /\ s[2] \in {"realm", "inst"} /\ None \notin Ids
  BY SocketFacts
<1>2. sock' = [sock EXCEPT ![s] = k] /\ Others /\ sess' = sess
  BY DEF NetworkClose, Others, netVars, worldVars, closeVars
<1>3. sock[s] \in Socket /\ Fits(s, sock[s])
  BY SocketsFit
<1>4. p \in {"closed", "closing"}
  OBVIOUS
<1> HIDE DEF p
<1>5. l \in Socket /\ l.pc = p /\ l.closed = sock[s].closed /\ l.ptr = sock[s].ptr
  BY <1>3, <1>4, SocketRecord DEF Pcs, RealmPcs
<1> HIDE DEF l
<1>6. k \in Socket /\ k.pc = p /\ k.closed = TRUE /\ k.ptr = sock[s].ptr
  BY <1>5, SocketRecord
<1> HIDE DEF k
<1>7. Fits(s, k)
  BY <1>1, <1>3, <1>4, <1>6 DEF Fits, SockInv, Serving, RealmPcs, InstPcs, Unlinked
<1> QED
  BY <1>2, <1>6, <1>7, OneSocket

LEMMA NetworkOnCloseKeeps ==
  ASSUME IInv, NEW s \in Sockets, NetworkOnClose(s)
  PROVE  IInv'
<1> DEFINE l == [sock[s] EXCEPT !.pc = "closed"]
           k == [l EXCEPT !.ptr = None]
<1>1. s[1] \in Ids /\ s[2] \in {"realm", "inst"} /\ None \notin Ids
  BY SocketFacts
<1>2. sock' = [sock EXCEPT ![s] = k] /\ Others /\ sess' = sess
  BY DEF NetworkOnClose, Others, netVars, worldVars, closeVars
<1>3. sock[s] \in Socket /\ Fits(s, sock[s])
  BY SocketsFit
<1>4. l \in Socket /\ l.pc = "closed" /\ l.closed = sock[s].closed
  BY <1>3, SocketRecord DEF Pcs, RealmPcs
<1> HIDE DEF l
<1>5. k \in Socket /\ k.pc = "closed" /\ k.closed = sock[s].closed /\ k.ptr = None
  BY <1>4, SocketRecord
<1> HIDE DEF k
<1>6. Fits(s, k)
  BY <1>1, <1>3, <1>5 DEF Fits, SockInv, Serving, RealmPcs, InstPcs, Unlinked
<1> QED
  BY <1>2, <1>5, <1>6, OneSocket

(* The session that is handed over is in the queue of new sessions, once. *)
LEMMA HandleEnableEncryptionAckKeeps ==
  ASSUME IInv, strays \in Nat, UNCHANGED strays, NEW n \in Ids, HandleEnableEncryptionAck(n)
  PROVE  IInv'
<1> DEFINE s == <<n, "realm">>
           k == [sock[s] EXCEPT !.pc = "read"]
<1>1. s \in Sockets /\ s[1] = n /\ s[2] = "realm" /\ None \notin Ids
  BY SocketFacts
<1> HIDE DEF s
<1>2. /\ sock[s].pc = "encrypt"
      /\ addSessQueue' = Append(addSessQueue, sock[s].ptr)
      /\ handedOver' = handedOver \cup ({sock[s].ptr} \ {None})
      /\ sock' = [sock EXCEPT ![s] = k]
      /\ UNCHANGED <<sess, linkQueue, current, wpc, closing, midClose, doomed>>
  <2>1. sock[s].pc = "encrypt"
    BY DEF HandleEnableEncryptionAck, Ack, s
  <2> QED
    BY <2>1 DEF HandleEnableEncryptionAck, s, worldVars, closeVars
<1>3. /\ sock[s] \in Socket /\ SockInv(s, sock[s])
      /\ k \in Socket /\ k.pc = "read" /\ k.closed = sock[s].closed /\ k.ptr = sock[s].ptr
  BY <1>1, SocketsFit, SocketRecord DEF Pcs, RealmPcs, Fits
<1> HIDE DEF k
<1>4. /\ sock[s].ptr = n /\ n \notin handedOver /\ sess[n].live
      /\ handedOver' = handedOver \cup {n}
      /\ ~sock[s].closed
  <2>1. /\ sock[s].ptr = n /\ n \notin handedOver /\ sess[n].live
        /\ sock[s].closed => midClose /\ s = Head(closing)
    BY <1>1, <1>2, <1>3 DEF SockInv, Serving
  <2>2. midClose => closing # <<>> /\ closing \in Seq(Sockets) /\ closing[1][1] \in handedOver
                    /\ Head(closing) = closing[1]
    <3>1. closing \in Seq(Sockets) /\ (midClose => closing # <<>>)
      BY DEF IInv, TypeInv, World
    <3>2. closing # <<>> => Head(closing) = closing[1] /\ 1 \in 1..Len(closing)
      BY <3>1, TailFacts
    <3> QED
      BY <3>1, <3>2 DEF IInv, World
  <2> QED
    BY <1>1, <1>2, <2>1, <2>2
<1>5. /\ \A t \in Sockets : sock'[t] = IF t = s THEN k ELSE sock[t]
      /\ sock' \in [Sockets -> Socket]
  BY <1>1, <1>2, <1>3 DEF IInv, TypeInv
<1>6. /\ ~In(n, addSessQueue) /\ n # current /\ n # doomed
  BY <1>1, <1>4 DEF IInv, Owned, In
<1>7. /\ addSessQueue' \in Seq(Ids) /\ Distinct(addSessQueue')
      /\ \A x : In(x, addSessQueue') <=> In(x, addSessQueue) \/ x = n
  BY <1>2, <1>4, <1>6, InAppend DEF IInv, TypeInv, Owned
<1>8. TypeInv'
  BY <1>2, <1>4, <1>5, <1>7 DEF IInv, TypeInv
<1>9. Dying'
  BY <1>2, <1>3, <1>5 DEF IInv, Dying
<1>10. World'
  BY <1>2 DEF IInv, World
<1>11. Owned'
  <2>1. ASSUME NEW i \in 1..Len(addSessQueue')
        PROVE  LET m == addSessQueue'[i] IN
               m \in handedOver' /\ sess[m].live /\ m # current /\ m # doomed
    <3>1. In(addSessQueue'[i], addSessQueue) \/ addSessQueue'[i] = n
      BY <1>7 DEF In
    <3> QED
      BY <1>2, <1>4, <1>6, <3>1 DEF IInv, Owned, In
  <2>2. ASSUME NEW m \in handedOver', sess[m].live
        PROVE  In(m, addSessQueue') \/ m = current \/ m = doomed
    BY <1>2, <1>4, <1>7, <2>2 DEF IInv, Owned
  <2> QED
    BY <1>2, <1>7, <2>1, <2>2 DEF IInv, Owned
<1>12. SocksInv'
  <2> SUFFICES ASSUME NEW t \in Sockets PROVE SockInv(t, sock[t])'
    BY DEF SocksInv
  <2>1. t[1] = n /\ t # s => t[2] = "inst"
    BY SocketFacts DEF s
  <2>2. SockInv(t, sock[t]) /\ t[2] \in {"realm", "inst"}
    BY SocketFacts DEF IInv
  <2>3. CASE t = s
    BY <1>1, <1>2, <1>3, <1>4, <1>5, <2>3 DEF SockInv, Serving, RealmPcs
  <2>4. CASE t # s
    BY <1>2, <1>4, <1>5, <2>1, <2>2, <2>4 DEF SockInv, Serving, InstPcs
  <2> QED
    BY <2>3, <2>4
<1>13. InstsInv'
  <2> SUFFICES ASSUME NEW m \in Ids PROVE InstInv(m)'
    BY DEF InstsInv
  <2>1. <<m, "inst">> \in Sockets /\ <<m, "inst">> # s
    BY SocketFacts, <1>1
  <2>2. sock'[<<m, "inst">>] = sock[<<m, "inst">>] /\ InstInv(m)
    BY <1>5, <2>1 DEF IInv
  <2> QED
    BY <1>2, <2>2 DEF InstInv, Unlinked
<1> QED
  BY <1>8, <1>9, <1>10, <1>11, <1>12, <1>13 DEF IInv, SocksInv, InstsInv

(* The session that is made is known to its network thread only. *)
LEMMA HandleAuthSessionCallbackKeeps ==
  ASSUME IInv, NEW n \in Ids, HandleAuthSessionCallback(n)
  PROVE  IInv'
<1> DEFINE s == <<n, "realm">>
           l == [sock[s] EXCEPT !.pc = "perm"]
           k == [l EXCEPT !.ptr = n]
<1>1. s \in Sockets /\ s[1] = n /\ s[2] = "realm" /\ None \notin Ids
  BY SocketFacts
<1> HIDE DEF s
<1>2. /\ sock[s].pc = "auth" /\ sock' = [sock EXCEPT ![s] = k]
      /\ sess' = [sess EXCEPT ![n] = NewSession] /\ Others
  BY DEF HandleAuthSessionCallback, s, Others, netVars, worldVars, closeVars
<1>3. sock[s] \in Socket /\ SockInv(s, sock[s]) /\ Fits(s, sock[s])
  BY <1>1, SocketsFit DEF Fits
<1>4. l \in Socket /\ l.pc = "perm" /\ l.closed = sock[s].closed
  BY <1>3, SocketRecord DEF Pcs, RealmPcs
<1> HIDE DEF l
<1>5. k \in Socket /\ k.pc = "perm" /\ k.closed = sock[s].closed /\ k.ptr = n
  BY <1>4, SocketRecord
<1> HIDE DEF k
<1>6. n \notin handedOver
  BY <1>1, <1>2, <1>3 DEF SockInv
<1>7. /\ \A t \in Sockets : sock'[t] = IF t = s THEN k ELSE sock[t]
      /\ sock' \in [Sockets -> Socket]
  BY <1>1, <1>2, <1>5 DEF IInv, TypeInv
<1>8. /\ NewSession \in Session /\ NewSession.live = TRUE /\ NewSession.realm = TRUE
      /\ NewSession.inst = FALSE
  BY ConstantsAssumption DEF NewSession, Session
<1>9. /\ \A m \in Ids : sess'[m] = IF m = n THEN NewSession ELSE sess[m]
      /\ sess' \in [Ids -> Session]
  BY <1>2, <1>8 DEF IInv, TypeInv
<1>10. ~In(s, closing) /\ \A i \in 1..Len(closing) : closing[i][1] # n
  BY <1>1, <1>6 DEF IInv, World, In
<1>11. n # current /\ n # doomed /\ \A i \in 1..Len(addSessQueue) : addSessQueue[i] # n
  BY <1>1, <1>6 DEF IInv, Owned
<1>12. TypeInv'
  BY <1>2, <1>7, <1>9 DEF IInv, TypeInv, Others
<1>13. Dying'
  BY <1>1, <1>2, <1>7, <1>11 DEF IInv, Dying, Others
<1>14. World'
  BY <1>2 DEF IInv, World, Others
<1>15. Owned'
  <2>1. handedOver \subseteq Ids /\ \A i \in 1..Len(addSessQueue) : addSessQueue[i] \in Ids
    BY DEF IInv, TypeInv
  <2>2. ASSUME NEW i \in 1..Len(addSessQueue)
        PROVE  LET m == addSessQueue[i] IN
               m \in handedOver /\ sess'[m].live /\ m # current /\ m # doomed
    BY <1>9, <1>11, <2>1 DEF IInv, Owned
  <2>3. current # None => current \in handedOver /\ sess'[current].live /\ current # doomed
    BY <1>9, <1>11, <2>1 DEF IInv, Owned
  <2>4. doomed # None => doomed \in handedOver /\ sess'[doomed].live
    BY <1>9, <1>11, <2>1 DEF IInv, Owned
  <2>5. ASSUME NEW m \in handedOver, sess'[m].live
        PROVE  In(m, addSessQueue) \/ m = current \/ m = doomed
    BY <1>6, <1>9, <2>1, <2>5 DEF IInv, Owned
  <2> QED
    BY <1>2, <2>2, <2>3, <2>4, <2>5 DEF IInv, Owned, Others
<1>16. SocksInv'
  <2> SUFFICES ASSUME NEW t \in Sockets PROVE SockInv(t, sock[t])'
    BY DEF SocksInv
  <2>1. t[1] \in Ids /\ t[2] \in {"realm", "inst"} /\ (t[1] = n /\ t # s => t[2] = "inst")
    BY SocketFacts DEF s
  <2>2. SockInv(t, sock[t])
    BY DEF IInv
  <2>3. CASE t = s
    <3>1. sock'[t] = k /\ sess'[n] = NewSession
      BY <1>7, <1>9, <2>3
    <3>2. ~k.closed
      BY <1>1, <1>2, <1>3, <1>5 DEF SockInv
    <3> QED
      BY <1>1, <1>2, <1>5, <1>6, <1>8, <2>3, <3>1, <3>2 DEF SockInv, Serving, RealmPcs, Others, Has
  <2>4. CASE t # s /\ t[1] = n
    BY <1>2, <1>6, <1>7, <2>1, <2>2, <2>4 DEF SockInv, Serving, Others
  <2>5. CASE t[1] # n
    BY <1>1, <1>2, <1>7, <1>9, <2>1, <2>2, <2>5 DEF SockInv, Serving, Others, Has
  <2> QED
    BY <2>3, <2>4, <2>5
<1>17. InstsInv'
  <2> SUFFICES ASSUME NEW m \in Ids PROVE InstInv(m)'
    BY DEF InstsInv
  <2>1. <<m, "inst">> \in Sockets /\ <<m, "inst">> # s
    BY SocketFacts, <1>1
  <2>2. sock'[<<m, "inst">>] = sock[<<m, "inst">>] /\ InstInv(m)
    BY <1>7, <2>1 DEF IInv
  <2> QED
    BY <1>2, <1>8, <1>9, <2>2 DEF InstInv, Unlinked, Others
<1> QED
  BY <1>12, <1>13, <1>14, <1>15, <1>16, <1>17 DEF IInv, SocksInv, InstsInv

(* The instance socket is to be linked; only its network thread knew it. *)
LEMMA InstanceEncryptionAckKeeps ==
  ASSUME IInv, strays \in Nat, UNCHANGED strays, NEW n \in Ids, InstanceEncryptionAck(n)
  PROVE  IInv'
<1> DEFINE s == <<n, "inst">>
           k == [sock[s] EXCEPT !.pc = "read"]
<1>1. s \in Sockets /\ s[1] = n /\ s[2] = "inst" /\ None \notin Ids
  BY SocketFacts
<1> HIDE DEF s
<1>2. /\ sock[s].pc = "asked" /\ sock' = [sock EXCEPT ![s] = k]
      /\ linkQueue' = Append(linkQueue, n)
      /\ UNCHANGED <<sess, addSessQueue, handedOver, current, wpc, closing, midClose, doomed>>
  BY DEF InstanceEncryptionAck, Ack, s, worldVars, closeVars
<1>3. /\ sock[s] \in Socket /\ SockInv(s, sock[s])
      /\ Unlinked(n, sock[s]) /\ ~In(n, linkQueue)
      /\ k \in Socket /\ k.pc = "read" /\ k.closed = sock[s].closed /\ k.ptr = sock[s].ptr
  <2>1. sock[s] \in Socket /\ Fits(s, sock[s])
    BY <1>1, SocketsFit
  <2>2. SockInv(s, sock[s]) /\ Unlinked(n, sock[s]) /\ ~In(n, linkQueue)
    BY <1>1, <1>2, <2>1 DEF Fits
  <2>3. k \in Socket /\ k.pc = "read" /\ k.closed = sock[s].closed /\ k.ptr = sock[s].ptr
    BY <2>1, SocketRecord DEF Pcs, RealmPcs
  <2> QED
    BY <2>1, <2>2, <2>3
<1> HIDE DEF k
<1>4. k.ptr = None /\ ~k.closed
  BY <1>1, <1>2, <1>3 DEF Unlinked
<1>5. /\ \A t \in Sockets : sock'[t] = IF t = s THEN k ELSE sock[t]
      /\ sock' \in [Sockets -> Socket]
  BY <1>1, <1>2, <1>3 DEF IInv, TypeInv
<1>6. /\ linkQueue' \in Seq(Ids) /\ Distinct(linkQueue')
      /\ \A x : In(x, linkQueue') <=> In(x, linkQueue) \/ x = n
  BY <1>2, <1>3, InAppend DEF IInv, TypeInv, World
<1>7. TypeInv'
  BY <1>2, <1>5, <1>6 DEF IInv, TypeInv
<1>8. Dying'
  BY <1>2, <1>4, <1>5 DEF IInv, Dying
<1>9. World'
  <2>1. ASSUME linkQueue # <<>> PROVE linkQueue' # <<>> /\ Head(linkQueue') = Head(linkQueue)
    BY <1>2, <2>1 DEF IInv, TypeInv
  <2> QED
    BY <1>2, <1>6, <2>1 DEF IInv, World
<1>10. Owned'
  BY <1>2 DEF IInv, Owned
<1>11. SocksInv'
  <2> SUFFICES ASSUME NEW t \in Sockets PROVE SockInv(t, sock[t])'
    BY DEF SocksInv
  <2>1. SockInv(t, sock[t])
    BY DEF IInv
  <2>2. CASE t = s
    BY <1>1, <1>2, <1>3, <1>4, <1>5, <2>2 DEF SockInv, Serving, InstPcs
  <2>3. CASE t # s
    BY <1>2, <1>5, <2>1, <2>3 DEF SockInv, Serving
  <2> QED
    BY <2>2, <2>3
<1>12. InstsInv'
  <2> SUFFICES ASSUME NEW m \in Ids PROVE InstInv(m)'
    BY DEF InstsInv
  <2>1. <<m, "inst">> \in Sockets /\ InstInv(m) /\ (<<m, "inst">> = s <=> m = n)
    BY SocketFacts, <1>1 DEF IInv, s
  <2>2. CASE m = n
    BY <1>2, <1>3, <1>4, <1>5, <2>1, <2>2 DEF InstInv, Unlinked
  <2>3. CASE m # n
    BY <1>2, <1>5, <1>6, <2>1, <2>3 DEF InstInv, Unlinked
  <2> QED
    BY <2>2, <2>3
<1> QED
  BY <1>7, <1>8, <1>9, <1>10, <1>11, <1>12 DEF IInv, SocksInv, InstsInv

LEMMA AbortLoginKeeps ==
  ASSUME IInv, NEW n \in Ids, AbortLogin(n)
  PROVE  IInv'
<1> DEFINE s == <<n, "realm">>
           k == [sock[s] EXCEPT !.pc = "read"]
           r == [sess[n] EXCEPT !.loading = FALSE]
<1>1. s \in Sockets /\ s[1] = n /\ s[2] = "realm" /\ None \notin Ids
  BY SocketFacts
<1> HIDE DEF s
<1>2. /\ sock[s].pc = "abort" /\ sock' = [sock EXCEPT ![s] = k] /\ Others
      /\ sess' = [sess EXCEPT ![sock[s].ptr].loading = FALSE]
  BY DEF AbortLogin, s, Others, netVars, worldVars, closeVars
<1>3. /\ sock[s] \in Socket /\ Fits(s, sock[s])
      /\ k \in Socket /\ k.pc = "read" /\ k.closed = sock[s].closed /\ k.ptr = sock[s].ptr
  BY <1>1, SocketsFit, SocketRecord DEF Pcs, RealmPcs
<1> HIDE DEF k
<1>4. sock[s].ptr = n
  BY <1>1, <1>2, <1>3 DEF Fits, SockInv
<1>5. sess' = [sess EXCEPT ![n] = r] /\ r \in Session /\ Same(sess[n], r)
  BY <1>2, <1>4, SessionRecord DEF IInv, TypeInv
<1> HIDE DEF r
<1>6. sess' \in [Ids -> Session] /\ \A m \in Ids : Same(sess[m], sess'[m])
  BY <1>5 DEF IInv, TypeInv, Same
<1>7. Fits(s, k)
  BY <1>1, <1>2, <1>3 DEF Fits, SockInv, Serving, RealmPcs
<1>8. /\ sock' \in [Sockets -> Socket]
      /\ \A t \in Sockets : sock'[t] = IF t = s THEN k ELSE sock[t]
  BY <1>1, <1>2, <1>3 DEF IInv, TypeInv
<1>9. \A t \in Sockets : Fits(t, sock'[t])
  BY <1>7, <1>8, SocketsFit
<1> QED
  BY <1>2, <1>6, <1>8, <1>9, SocketStep

(* KickPlayer: the network thread is stuck, or closes the instance socket. *)
LEMMA AbortLoginKicksKeeps ==
  ASSUME IInv, NEW n \in Ids, AbortLoginKicks(n)
  PROVE  IInv'
<1> DEFINE s == <<n, "realm">>
           i == <<n, "inst">>
           m == sock[s].ptr
<1>1. /\ s \in Sockets /\ s[1] = n /\ s[2] = "realm" /\ None \notin Ids
      /\ i \in Sockets /\ i[1] = n /\ i[2] = "inst" /\ i # s
  BY SocketFacts
<1>2. /\ sock[s].pc = "abort" /\ Others
      /\ \/ /\ sock' = [sock EXCEPT ![s].closed = TRUE, ![s].pc = "stuck"]
            /\ sess' = sess
         \/ /\ sock[s].closed /\ ~Holding(i)
            /\ sock' = [[sock EXCEPT ![i].closed = sess[m].inst \/ @,
                                     ![i].ptr = IF sess[m].inst THEN None ELSE @]
                          EXCEPT ![s].pc = "read"]
            /\ sess' = [sess EXCEPT ![m].force = TRUE]
  BY DEF AbortLoginKicks, Others, netVars, worldVars, closeVars
<1> HIDE DEF s, i
<1>3. sock[s] \in Socket /\ Fits(s, sock[s]) /\ sock[i] \in Socket /\ Fits(i, sock[i])
  BY <1>1, SocketsFit
<1>4. m = n
  BY <1>1, <1>2, <1>3 DEF Fits, SockInv
<1> HIDE DEF m
<1>5. ASSUME sock' = [sock EXCEPT ![s].closed = TRUE, ![s].pc = "stuck"], sess' = sess
      PROVE  IInv'
  <2> DEFINE l == [sock[s] EXCEPT !.closed = TRUE]
             k == [l EXCEPT !.pc = "stuck"]
  <2>1. sock' = [sock EXCEPT ![s] = k]
    BY <1>5
  <2>2. l \in Socket /\ l.closed = TRUE /\ l.ptr = sock[s].ptr
    BY <1>3, SocketRecord
  <2> HIDE DEF l
  <2>3. k \in Socket /\ k.pc = "stuck" /\ k.closed = TRUE /\ k.ptr = sock[s].ptr
    BY <2>2, SocketRecord DEF Pcs, RealmPcs
  <2> HIDE DEF k
  <2>4. Fits(s, k)
    BY <1>1, <1>2, <1>3, <2>3 DEF Fits, SockInv, Serving, RealmPcs
  <2> QED
    BY <1>1, <1>2, <1>5, <2>1, <2>3, <2>4, OneSocket
<1>6. ASSUME ~Holding(i),
             sock' = [[sock EXCEPT ![i].closed = sess[m].inst \/ @,
                                   ![i].ptr = IF sess[m].inst THEN None ELSE @]
                        EXCEPT ![s].pc = "read"],
             sess' = [sess EXCEPT ![m].force = TRUE]
      PROVE  IInv'
  <2> DEFINE r == [sess[n] EXCEPT !.force = TRUE]
             k == [sock[s] EXCEPT !.pc = "read"]
             c == sess[n].inst \/ sock[i].closed
             o == IF sess[n].inst THEN None ELSE sock[i].ptr
             l == [sock[i] EXCEPT !.closed = c]
             h == [l EXCEPT !.ptr = o]
  <2>1. r \in Session /\ Same(sess[n], r)
    BY SessionRecord DEF IInv, TypeInv
  <2>2. sess' = [sess EXCEPT ![n] = r]
    BY <1>4, <1>6
  <2> HIDE DEF r
  <2>3. sess' \in [Ids -> Session] /\ \A x \in Ids : Same(sess[x], sess'[x])
    BY <2>1, <2>2 DEF IInv, TypeInv, Same
  <2>4. k \in Socket /\ k.pc = "read" /\ k.closed = sock[s].closed /\ k.ptr = sock[s].ptr
    BY <1>3, SocketRecord DEF Pcs, RealmPcs
  <2>5. /\ c \in BOOLEAN /\ o \in Ids \cup {None} /\ (sess[n].inst => c /\ o = None)
        /\ (~sess[n].inst => (c <=> sock[i].closed) /\ o = sock[i].ptr)
    BY <1>3 DEF Socket
  <2>6. sock' = [sock EXCEPT ![i] = h, ![s] = k]
    BY <1>1, <1>4, <1>6 DEF IInv, TypeInv
  <2> HIDE DEF c, o, k
  <2>7. l \in Socket /\ l.pc = sock[i].pc /\ l.closed = c
    BY <1>3, <2>5, SocketRecord
  <2> HIDE DEF l
  <2>8. h \in Socket /\ h.pc = sock[i].pc /\ h.closed = c /\ h.ptr = o
    BY <2>5, <2>7, SocketRecord
  <2> HIDE DEF h
  <2>9. Fits(s, k)
    BY <1>1, <1>2, <1>3, <2>4 DEF Fits, SockInv, Serving, RealmPcs
  <2>10. Fits(i, h)
    <3>1. CASE sess[n].inst
      BY <1>1, <1>3, <1>6, <2>5, <2>8, <3>1
         DEF Fits, SockInv, Serving, InstPcs, Holding, Unlinked
    <3>2. CASE ~sess[n].inst
      BY <1>1, <1>3, <2>5, <2>8, <3>2 DEF Fits, SockInv, Serving, InstPcs, Unlinked
    <3> QED
      BY <3>1, <3>2
  <2>11. /\ sock' \in [Sockets -> Socket]
         /\ \A t \in Sockets : sock'[t] = IF t = s THEN k ELSE IF t = i THEN h ELSE sock[t]
    BY <1>1, <2>4, <2>6, <2>8 DEF IInv, TypeInv
  <2>12. \A t \in Sockets : Fits(t, sock'[t])
    BY <2>9, <2>10, <2>11, SocketsFit
  <2> QED
    BY <1>2, <2>3, <2>11, <2>12, SocketStep
<1> QED
  BY <1>2, <1>5, <1>6

-----------------------------------------------------------------------------
(* The world thread closes sockets. *)

(* The first of the sockets to close is closed, and has no session or no thread
   that serves it: it need not be closed any more. *)
LEMMA ClosingEnds ==
  ASSUME IInv, closing # <<>>, NEW s \in Sockets, s = Head(closing),
         NEW k \in Socket, sock' = [sock EXCEPT ![s] = k], k.pc = sock[s].pc,
         SockInv(s, k), k.closed \/ k.ptr = None,
         k.closed /\ k.ptr # None => k.pc \in {"closing", "stuck", "closed"},
         closing' = Tail(closing), midClose' = FALSE, UNCHANGED sess,
         UNCHANGED <<addSessQueue, linkQueue, handedOver, current, wpc, doomed>>,
         midClose => k.ptr = None
  PROVE  IInv'
<1>1. /\ \A t \in Sockets : sock'[t] = IF t = s THEN k ELSE sock[t]
      /\ sock' \in [Sockets -> Socket]
  BY DEF IInv, TypeInv
<1>2. /\ closing' \in Seq(Sockets) /\ Len(closing') = Len(closing) - 1
      /\ \A i \in 1..Len(closing') : closing'[i] = closing[i + 1] /\ i + 1 \in 1..Len(closing)
      /\ s[1] \in handedOver /\ In(s, closing)
      /\ \A t : In(t, closing) <=> t = s \/ In(t, closing')
  <2>1. closing \in Seq(Sockets)
    BY DEF IInv, TypeInv
  <2>2. In(s, closing) /\ \A t : In(t, closing) <=> t = s \/ In(t, closing')
    BY <2>1, InTail
  <2>3. /\ closing' \in Seq(Sockets) /\ Len(closing') = Len(closing) - 1 /\ s = closing[1]
        /\ \A i \in 1..Len(closing') : closing'[i] = closing[i + 1] /\ i + 1 \in 1..Len(closing)
        /\ 1 \in 1..Len(closing)
    BY <2>1, TailFacts
  <2> QED
    BY <2>2, <2>3 DEF IInv, World
<1>3. TypeInv'
  BY <1>1, <1>2 DEF IInv, TypeInv
<1>4. Owned'
  BY DEF IInv, Owned
<1>5. World'
  BY <1>2 DEF IInv, World
<1>6. Dying'
  BY <1>1, <1>2 DEF IInv, Dying
<1>7. SocksInv'
  <2> SUFFICES ASSUME NEW t \in Sockets PROVE SockInv(t, sock[t])'
    BY DEF SocksInv
  <2>1. SockInv(t, sock[t])
    BY DEF IInv
  <2>2. CASE t = s
    BY <1>1, <2>2 DEF SockInv, Serving
  <2>3. CASE t # s
    BY <1>1, <1>2, <2>1, <2>3 DEF SockInv, Serving
  <2> QED
    BY <2>2, <2>3
<1>8. InstsInv'
  <2> SUFFICES ASSUME NEW n \in Ids PROVE InstInv(n)'
    BY DEF InstsInv
  <2> DEFINE i == <<n, "inst">>
  <2>1. i \in Sockets /\ InstInv(n)
    BY SocketFacts DEF IInv
  <2>2. CASE i = s
    BY <1>1, <1>2, <2>1, <2>2 DEF InstInv, Unlinked
  <2>3. CASE i # s
    BY <1>1, <1>2, <2>1, <2>3 DEF InstInv, Unlinked
  <2> QED
    BY <2>2, <2>3
<1> QED
  BY <1>3, <1>4, <1>5, <1>6, <1>7, <1>8 DEF IInv, SocksInv, InstsInv

LEMMA CloseSocketKeeps ==
  ASSUME IInv, CloseSocket
  PROVE  IInv'
<1> DEFINE s == Head(closing)
<1>1. closing # <<>> /\ ~midClose /\ closing \in Seq(Sockets)
  BY DEF CloseSocket, IInv, TypeInv
<1>2. s \in Sockets /\ s = closing[1] /\ 1 \in 1..Len(closing) /\ In(s, closing)
  BY <1>1, TailFacts, InTail
<1>3. s[1] \in handedOver /\ None \notin Ids /\ s[1] \in Ids
      /\ s[2] \in {"realm", "inst"}
  BY <1>2, SocketFacts DEF IInv, World
<1>4. /\ \/ sock[s].closed /\ closing' = Tail(closing) /\ UNCHANGED <<sock, midClose>>
         \/ /\ ~sock[s].closed /\ sock' = [sock EXCEPT ![s].closed = TRUE]
            /\ midClose' = TRUE /\ UNCHANGED closing
      /\ UNCHANGED <<sess, addSessQueue, linkQueue, handedOver, current, wpc, doomed>>
  BY DEF CloseSocket, netVars
<1> HIDE DEF s
<1>5. sock[s] \in Socket /\ Fits(s, sock[s]) /\ SockInv(s, sock[s])
  BY <1>2, SocketsFit DEF Fits
<1>6. ASSUME sock[s].closed, closing' = Tail(closing), UNCHANGED <<sock, midClose>>
      PROVE  IInv'
  <2>1. sock[s].closed /\ sock[s].ptr # None => sock[s].pc \in {"closing", "stuck", "closed"}
    BY <1>1, <1>5 DEF SockInv
  <2>2. sock' = [sock EXCEPT ![s] = sock[s]] /\ midClose' = FALSE
    BY <1>1, <1>6 DEF IInv, TypeInv
  <2>3. s = Head(closing)
    BY DEF s
  <2> QED
    BY <1>1, <1>2, <1>4, <1>5, <1>6, <2>1, <2>2, <2>3, ClosingEnds
<1>7. ASSUME ~sock[s].closed, sock' = [sock EXCEPT ![s].closed = TRUE], midClose' = TRUE,
             UNCHANGED closing
      PROVE  IInv'
  <2> DEFINE k == [sock[s] EXCEPT !.closed = TRUE]
  <2>1. k \in Socket /\ k.pc = sock[s].pc /\ k.closed = TRUE /\ k.ptr = sock[s].ptr
    BY <1>5, SocketRecord
  <2>2. sock' = [sock EXCEPT ![s] = k]
    BY <1>7
  <2> HIDE DEF k
  <2>3. /\ \A t \in Sockets : sock'[t] = IF t = s THEN k ELSE sock[t]
        /\ sock' \in [Sockets -> Socket]
    BY <1>2, <2>1, <2>2 DEF IInv, TypeInv
  <2>4. TypeInv'
    BY <1>4, <1>7, <2>3 DEF IInv, TypeInv
  <2>5. Owned' /\ World'
    BY <1>1, <1>4, <1>7 DEF IInv, Owned, World
  <2>6. Dying'
    BY <1>4, <1>7, <2>1, <2>3 DEF IInv, Dying
  <2>7. SocksInv'
    <3> SUFFICES ASSUME NEW t \in Sockets PROVE SockInv(t, sock[t])'
      BY DEF SocksInv
    <3>1. SockInv(t, sock[t])
      BY DEF IInv
    <3>2. CASE t = s
      BY <1>3, <1>4, <1>5, <1>7, <2>1, <2>3, <3>2 DEF SockInv, Serving, s
    <3>3. CASE t # s
      BY <1>1, <1>4, <1>7, <2>3, <3>1, <3>3 DEF SockInv, Serving
    <3> QED
      BY <3>2, <3>3
  <2>8. InstsInv'
    <3> SUFFICES ASSUME NEW n \in Ids PROVE InstInv(n)'
      BY DEF InstsInv
    <3> DEFINE i == <<n, "inst">>
    <3>1. i \in Sockets /\ InstInv(n)
      BY SocketFacts DEF IInv
    <3>2. CASE i = s
      BY <1>2, <1>4, <1>7, <2>1, <2>3, <3>1, <3>2 DEF InstInv, Unlinked
    <3>3. CASE i # s
      BY <1>4, <1>7, <2>3, <3>1, <3>3 DEF InstInv, Unlinked
    <3> QED
      BY <3>2, <3>3
  <2> QED
    BY <2>4, <2>5, <2>6, <2>7, <2>8 DEF IInv, SocksInv, InstsInv
<1> QED
  BY <1>4, <1>6, <1>7

LEMMA OnCloseKeeps ==
  ASSUME IInv, OnClose
  PROVE  IInv'
<1> DEFINE s == Head(closing)
           k == [sock[s] EXCEPT !.ptr = None]
<1>1. midClose /\ closing # <<>> /\ closing \in Seq(Sockets)
  BY DEF OnClose, IInv, TypeInv, World
<1>2. s \in Sockets /\ s = closing[1] /\ 1 \in 1..Len(closing)
  BY <1>1, TailFacts
<1>3. s[1] \in handedOver /\ None \notin Ids /\ s[1] \in Ids
      /\ s[2] \in {"realm", "inst"}
  BY <1>2, SocketFacts DEF IInv, World
<1>4. /\ ~Holding(s) /\ sock' = [sock EXCEPT ![s] = k] /\ midClose' = FALSE
      /\ closing' = Tail(closing)
      /\ UNCHANGED <<sess, addSessQueue, linkQueue, handedOver, current, wpc, doomed>>
  BY DEF OnClose, netVars
<1> HIDE DEF s
<1>5. /\ sock[s] \in Socket /\ SockInv(s, sock[s])
      /\ k \in Socket /\ k.pc = sock[s].pc /\ k.closed = sock[s].closed /\ k.ptr = None
  <2>1. sock[s] \in Socket /\ SockInv(s, sock[s])
    BY <1>2, SocketsFit DEF Fits
  <2>2. ASSUME NEW r \in Socket
        PROVE  LET c == [r EXCEPT !.ptr = None]
               IN  c \in Socket /\ c.pc = r.pc /\ c.closed = r.closed /\ c.ptr = None
    BY SocketRecord
  <2> QED
    BY <2>1, <2>2
<1> HIDE DEF k
<1>6. SockInv(s, k)
  BY <1>3, <1>4, <1>5 DEF SockInv, Holding, Serving
<1>7. s = Head(closing)
  BY DEF s
<1> QED
  BY <1>1, <1>2, <1>4, <1>5, <1>6, <1>7, ClosingEnds

-----------------------------------------------------------------------------
(* The world thread links, adds, updates and deletes sessions, with no socket left
   to close. *)

(* The client is sent to the instance port: socket t is expected. *)
Expected(t, k) == t[2] = "inst" /\ k.pc = "asked" /\ ~k.closed /\ k.ptr = None

(* A session that is served stays; a socket that its session gives up is to be
   closed; and no instance socket that is not linked becomes known to the World. *)
LEMMA SocketsStay ==
  ASSUME IInv, closing = <<>>, UNCHANGED <<handedOver, midClose>>,
         \A t \in Sockets : \/ sock'[t] = sock[t]
                            \/ Expected(t, sock'[t]) /\ ~In(t[1], linkQueue),
         \A t \in Sockets : Serving(sock[t]) /\ sess[t[1]].live => sess'[t[1]].live,
         \A t \in Sockets : ~sock[t].closed /\ sock[t].ptr # None /\ Has(sess[t[1]], t) =>
            Has(sess'[t[1]], t) \/ In(t, closing'),
         \A n : In(n, linkQueue') => In(n, linkQueue),
         \A t \in Sockets : t[2] = "inst" =>
            /\ sess'[t[1]].inst => sess[t[1]].inst
            /\ In(t, closing') => sess[t[1]].inst
            /\ Expected(t, sock'[t]) => ~sess[t[1]].inst
  PROVE  SocksInv' /\ InstsInv'
<1>1. ~midClose /\ \A t : ~In(t, closing)
  BY InEmpty DEF IInv, World
<1>2. ASSUME NEW t \in Sockets PROVE SockInv(t, sock[t])'
  <2>1. SockInv(t, sock[t])
    BY DEF IInv
  <2>2. CASE sock'[t] = sock[t]
    BY <1>1, <2>1, <2>2 DEF SockInv, Serving
  <2>3. CASE Expected(t, sock'[t])
    BY <2>3 DEF SockInv, Serving, Expected, InstPcs
  <2> QED
    BY <2>2, <2>3
<1>3. ASSUME NEW n \in Ids PROVE InstInv(n)'
  <2> DEFINE i == <<n, "inst">>
  <2>1. i \in Sockets /\ i[1] = n /\ i[2] = "inst"
    BY SocketFacts
  <2>2. InstInv(n)
    BY DEF IInv
  <2> HIDE DEF i
  <2>3. CASE sock'[i] = sock[i]
    <3>1. /\ In(n, linkQueue) => Unlinked(n, sock[i])
          /\ sock[i].pc = "asked" => Unlinked(n, sock[i]) /\ ~In(n, linkQueue)
      BY <2>2 DEF InstInv, i
    <3>2. /\ In(n, linkQueue') => In(n, linkQueue)
          /\ sess'[n].inst => sess[n].inst
          /\ In(i, closing') => sess[n].inst
      BY <2>1
    <3> QED
      BY <2>3, <3>1, <3>2 DEF InstInv, Unlinked, i
  <2>4. CASE Expected(i, sock'[i]) /\ ~In(i[1], linkQueue)
    <3>1. /\ In(n, linkQueue') => In(n, linkQueue)
          /\ sess'[n].inst => sess[n].inst
          /\ In(i, closing') => sess[n].inst
          /\ ~sess[n].inst
      BY <2>1, <2>4
    <3> QED
      BY <2>1, <2>4, <3>1 DEF InstInv, Unlinked, Expected, i
  <2> QED
    BY <2>1, <2>3, <2>4
<1> QED
  BY <1>2, <1>3 DEF SocksInv, InstsInv

(* A step of WorldSession::Update for the present session, which gets record r. *)
LEMMA UpdateStep ==
  ASSUME IInv, closing = <<>>, wpc \notin {"delete", "setsession"}, current # None,
         UNCHANGED <<addSessQueue, linkQueue, handedOver, current, doomed, midClose>>,
         wpc' \in {"link", "start", "packets", "readd", "callbacks", "logout", "cleanup"},
         NEW r \in Session, sess' = [sess EXCEPT ![current] = r],
         r.live <=> sess[current].live, r.realm <=> sess[current].realm,
         r.inst => sess[current].inst,
         closing' \in Seq(Sockets),
         \A t \in Sockets : In(t, closing') => t[1] = current,
         In(<<current, "inst">>, closing') => sess[current].inst,
         sess[current].inst => r.inst \/ In(<<current, "inst">>, closing'),
         sock' \in [Sockets -> Socket],
         \A t \in Sockets : \/ sock'[t] = sock[t]
                            \/ /\ Expected(t, sock'[t]) /\ t[1] = current
                               /\ ~In(current, linkQueue) /\ ~sess[current].inst
  PROVE  IInv'
<1>1. current \in Ids /\ None \notin Ids
  BY SocketFacts DEF IInv, TypeInv
<1>2. /\ sess' \in [Ids -> Session]
      /\ \A n \in Ids : sess'[n] = IF n = current THEN r ELSE sess[n]
  BY <1>1 DEF IInv, TypeInv
<1>3. TypeInv'
  BY <1>2 DEF IInv, TypeInv
<1>4. Dying'
  <2>1. doomed = None /\ wpc' # "delete"
    BY DEF IInv, Dying
  <2>2. \A t \in Sockets : t[1] # None
    BY SocketFacts
  <2> QED
    BY <2>1, <2>2 DEF Dying
<1>5. Owned'
  <2>1. handedOver \subseteq Ids /\ doomed = None
        /\ \A i \in 1..Len(addSessQueue) : addSessQueue[i] \in Ids
    BY DEF IInv, TypeInv, Dying
  <2>2. \A n \in Ids : sess'[n].live <=> sess[n].live
    BY <1>2
  <2> QED
    BY <1>1, <2>1, <2>2 DEF IInv, Owned
<1>6. World'
  <2>1. current \in handedOver
    BY <1>1 DEF IInv, Owned
  <2>2. \A i \in 1..Len(closing') : closing'[i] \in Sockets /\ In(closing'[i], closing')
    BY DEF In
  <2>3. \A i \in 1..Len(closing') : closing'[i][1] \in handedOver
    BY <2>1, <2>2
  <2>4. ~midClose
    BY DEF IInv, World
  <2> QED
    BY <2>3, <2>4 DEF IInv, World
<1>7. SocksInv' /\ InstsInv'
  <2>1. \A t \in Sockets : /\ t[1] \in Ids /\ t[2] \in {"realm", "inst"}
                           /\ (t[1] = current /\ t[2] = "inst" => t = <<current, "inst">>)
    BY SocketFacts
  <2>2. \A t \in Sockets : Serving(sock[t]) /\ sess[t[1]].live => sess'[t[1]].live
    BY <1>2, <2>1
  <2>3. \A t \in Sockets : ~sock[t].closed /\ sock[t].ptr # None /\ Has(sess[t[1]], t) =>
            Has(sess'[t[1]], t) \/ In(t, closing')
    BY <1>2, <2>1 DEF Has
  <2>4. ASSUME NEW t \in Sockets, t[2] = "inst"
        PROVE  /\ sess'[t[1]].inst => sess[t[1]].inst
               /\ In(t, closing') => sess[t[1]].inst
               /\ Expected(t, sock'[t]) => ~sess[t[1]].inst
    <3>1. sess'[t[1]].inst => sess[t[1]].inst
      BY <1>2, <2>1
    <3>2. In(t, closing') => sess[t[1]].inst
      BY <2>1, <2>4
    <3>3. ASSUME Expected(t, sock'[t]), sock'[t] = sock[t] PROVE ~sess[t[1]].inst
      <4>1. Fits(t, sock[t])
        BY SocketsFit
      <4> QED
        BY <2>4, <3>3, <4>1 DEF Fits, Unlinked, Expected
    <3> QED
      BY <3>1, <3>2, <3>3
  <2>5. \A t \in Sockets : \/ sock'[t] = sock[t]
                           \/ Expected(t, sock'[t]) /\ ~In(t[1], linkQueue)
    OBVIOUS
  <2>6. UNCHANGED <<handedOver, midClose>> /\ \A n : In(n, linkQueue') => In(n, linkQueue)
    OBVIOUS
  <2> QED
    BY <2>2, <2>3, <2>4, <2>5, <2>6, SocketsStay
<1> QED
  BY <1>3, <1>4, <1>5, <1>6, <1>7 DEF IInv, SocksInv, InstsInv

LEMMA StartUpdateKeeps ==
  ASSUME IInv, StartUpdate
  PROVE  IInv'
<1> DEFINE t == <<current, "realm">>
           r == sess[current]
<1>1. /\ wpc = "start" /\ closing = <<>> /\ closing' \in {<<>>, <<t>>} /\ wpc' = "packets"
      /\ UNCHANGED <<sess, sock, addSessQueue, linkQueue, handedOver, current, doomed, midClose>>
  BY DEF StartUpdate, At, netVars
<1>2. current # None /\ current \in Ids
  BY <1>1 DEF IInv, World, TypeInv
<1>3. t \in Sockets /\ t[1] = current /\ t # <<current, "inst">>
  BY <1>2, SocketFacts
<1> HIDE DEF t
<1>4. closing' \in Seq(Sockets) /\ \A u : In(u, closing') => u = t
  <2>1. CASE closing' = <<>>
    BY <2>1, InEmpty
  <2>2. CASE closing' = <<t>>
    BY <1>3, <2>2, InOne
  <2> QED
    BY <1>1, <2>1, <2>2
<1>5. r \in Session /\ sess' = [sess EXCEPT ![current] = r] /\ sock' \in [Sockets -> Socket]
  BY <1>1, <1>2 DEF IInv, TypeInv
<1>6. ~In(<<current, "inst">>, closing') /\ \A u \in Sockets : In(u, closing') => u[1] = current
  BY <1>3, <1>4
<1> QED
  BY <1>1, <1>2, <1>4, <1>5, <1>6, UpdateStep

(* The steps of Update that the invariant says nothing of. *)
LEMMA PacketsEndReaddKeep ==
  ASSUME IInv, PacketsEnd \/ Readd
  PROVE  IInv'
<1> DEFINE r == sess[current]
<1>1. /\ wpc \in {"packets", "readd"} /\ closing = <<>> /\ wpc' \in {"readd", "callbacks"}
      /\ closing' = <<>>
      /\ UNCHANGED <<sess, sock, addSessQueue, linkQueue, handedOver, current, doomed, midClose>>
  BY DEF PacketsEnd, Readd, At, netVars, closeVars
<1>2. current # None /\ current \in Ids
  BY <1>1 DEF IInv, World, TypeInv
<1>3. closing' \in Seq(Sockets) /\ \A u : ~In(u, closing')
  BY <1>1, InEmpty
<1>4. r \in Session /\ sess' = [sess EXCEPT ![current] = r] /\ sock' \in [Sockets -> Socket]
  BY <1>1, <1>2 DEF IInv, TypeInv
<1> QED
  BY <1>1, <1>2, <1>3, <1>4, UpdateStep

(* What a step of Update makes of the present session: its record r. *)
Updated(k, r) == r \in Session /\ (r.live <=> k.live) /\ (r.realm <=> k.realm)

LEMMA LoggedOutRecord ==
  ASSUME NEW k \in Session
  PROVE  Updated(k, LoggedOut(k)) /\ ~LoggedOut(k).inst
BY DEF Session, Updated, LoggedOut

LEMMA ThereRecord ==
  ASSUME NEW k \in Session
  PROVE  LET l == [k EXCEPT !.character = FALSE, !.loading = FALSE] IN
         /\ Updated(k, [l EXCEPT !.player = "world"])
         /\ Updated(k, [l EXCEPT !.force = TRUE])
         /\ [l EXCEPT !.player = "world"].inst <=> k.inst
         /\ [l EXCEPT !.force = TRUE].inst <=> k.inst
<1> DEFINE c == [k EXCEPT !.character = FALSE]
           l == [c EXCEPT !.loading = FALSE]
           a == [l EXCEPT !.player = "world"]
           b == [l EXCEPT !.force = TRUE]
<1>1. c \in Session /\ Same(k, c)
  BY SessionRecord
<1> HIDE DEF c
<1>2. l \in Session /\ Same(c, l)
  BY <1>1, SessionRecord
<1>3. l = [k EXCEPT !.character = FALSE, !.loading = FALSE]
  BY DEF c
<1> HIDE DEF l
<1>4. a \in Session /\ Same(l, a) /\ b \in Session /\ Same(l, b)
  BY <1>2, SessionRecord
<1> HIDE DEF a, b
<1>5. Updated(k, a) /\ Updated(k, b) /\ (a.inst <=> k.inst) /\ (b.inst <=> k.inst)
  BY <1>1, <1>2, <1>4 DEF Updated, Same
<1> QED
  BY <1>3, <1>5 DEF a, b

LEMMA ProcessQueryCallbacksKeeps ==
  ASSUME IInv, ProcessQueryCallbacks
  PROVE  IInv'
<1> DEFINE k == sess[current]
           l == [k EXCEPT !.character = FALSE, !.loading = FALSE]
           a == [l EXCEPT !.player = "world"]
           b == [l EXCEPT !.force = TRUE]
<1>1. /\ wpc = "callbacks" /\ closing = <<>> /\ wpc' \in {"link", "logout"}
      /\ UNCHANGED <<sock, addSessQueue, linkQueue, handedOver, current, doomed, midClose>>
      /\ \/ UNCHANGED <<sess, closing>>
         \/ sess' = [sess EXCEPT ![current] = a] /\ UNCHANGED closing
         \/ sess' = [sess EXCEPT ![current] = b] /\ closing' = SocketsOf(k, current)
  BY DEF ProcessQueryCallbacks, At, netVars
<1>2. current # None /\ current \in Ids
  BY <1>1 DEF IInv, World, TypeInv
<1>3. k \in Session /\ sock' \in [Sockets -> Socket] /\ sess = [sess EXCEPT ![current] = k]
  BY <1>1, <1>2 DEF IInv, TypeInv
<1>4. Updated(k, a) /\ Updated(k, b) /\ (a.inst <=> k.inst) /\ (b.inst <=> k.inst)
  BY <1>3, ThereRecord
<1> HIDE DEF a, b, l
<1>5. /\ closing' \in Seq(Sockets) /\ \A t \in Sockets : In(t, closing') => t[1] = current
      /\ In(<<current, "inst">>, closing') => k.inst
  <2>1. CASE closing' = <<>>
    BY <2>1, InEmpty
  <2>2. CASE closing' = SocketsOf(k, current)
    <3>1. /\ closing' \in Seq(Sockets)
          /\ \A s \in Sockets : In(s, closing') <=> s[1] = current /\ Has(k, s)
      BY <1>2, <2>2, SocketsOfFacts
    <3>2. <<current, "inst">> \in Sockets /\ <<current, "inst">>[2] = "inst"
      BY <1>2, SocketFacts
    <3> QED
      BY <3>1, <3>2 DEF Has
  <2> QED
    BY <1>1, <2>1, <2>2
<1>6. PICK r \in Session : /\ sess' = [sess EXCEPT ![current] = r]
                           /\ (r.live <=> k.live) /\ (r.realm <=> k.realm)
                           /\ (r.inst <=> k.inst)
  BY <1>1, <1>3, <1>4 DEF Updated
<1> QED
  BY <1>1, <1>2, <1>3, <1>5, <1>6, UpdateStep

LEMMA LogoutPlayerKeeps ==
  ASSUME IInv, LogoutPlayer
  PROVE  IInv'
<1> DEFINE k == sess[current]
           i == <<current, "inst">>
<1>1. /\ wpc = "logout" /\ closing = <<>> /\ wpc' = "cleanup"
      /\ UNCHANGED <<sock, addSessQueue, linkQueue, handedOver, current, doomed, midClose>>
      /\ \/ UNCHANGED <<sess, closing>>
         \/ /\ sess' = [sess EXCEPT ![current] = LoggedOut(k)]
            /\ closing' = IF k.inst THEN <<i>> ELSE <<>>
  BY DEF LogoutPlayer, At, netVars
<1>2. current # None /\ current \in Ids
  BY <1>1 DEF IInv, World, TypeInv
<1>3. k \in Session /\ sock' \in [Sockets -> Socket] /\ sess = [sess EXCEPT ![current] = k]
  BY <1>1, <1>2 DEF IInv, TypeInv
<1>4. i \in Sockets /\ i[1] = current
  BY <1>2, SocketFacts
<1>5. PICK r \in Session : /\ sess' = [sess EXCEPT ![current] = r]
                           /\ (r.live <=> k.live) /\ (r.realm <=> k.realm)
                           /\ r.inst => k.inst
                           /\ k.inst => r.inst \/ closing' = <<i>>
  BY <1>1, <1>3, LoggedOutRecord DEF Updated
<1>6. closing' \in {<<>>, <<i>>} /\ (closing' = <<i>> => k.inst)
  BY <1>1
<1>7. /\ closing' \in Seq(Sockets) /\ (\A u : In(u, closing') => u = i)
      /\ (closing' = <<i>> => In(i, closing')) /\ (In(i, closing') => k.inst)
  <2>1. CASE closing' = <<>>
    <3>1. closing' # <<i>>
      BY <2>1, InOne
    <3> QED
      BY <2>1, <3>1, InEmpty
  <2>2. CASE closing' = <<i>>
    BY <1>4, <1>6, <2>2, InOne
  <2> QED
    BY <1>6, <2>1, <2>2
<1> QED
  BY <1>1, <1>2, <1>3, <1>4, <1>5, <1>7, UpdateStep

(* What handling a packet may make of the session. *)
LEMMA OutcomeFacts ==
  ASSUME NEW k \in Session, NEW p, NEW o \in Outcomes(k, p)
  PROVE  /\ Updated(k, o.sess) /\ (o.sess.inst => k.inst)
         /\ o.kick => (o.sess.inst <=> k.inst)
         /\ o.connect => ~o.kick /\ (o.sess.inst <=> k.inst)
<1> DEFINE Good(r, kick, connect) ==
              /\ Updated(k, r) /\ (r.inst => k.inst)
              /\ kick => (r.inst <=> k.inst)
              /\ connect => ~kick /\ (r.inst <=> k.inst)
           to(r) == [sess |-> r, kick |-> FALSE, connect |-> FALSE]
<1>1. ASSUME NEW r, NEW a \in BOOLEAN, NEW b \in BOOLEAN, Good(r, a, b),
             o.sess = r, o.kick = a, o.connect = b
      PROVE  Good(o.sess, o.kick, o.connect)
  BY <1>1
<1>2. ASSUME NEW r \in Session, Same(k, r), NEW a \in BOOLEAN, NEW b \in BOOLEAN, ~(a /\ b)
      PROVE  Good(r, a, b)
  BY <1>2 DEF Same, Updated
<1>3. Good(LoggedOut(k), FALSE, FALSE)
  BY LoggedOutRecord
<1> HIDE DEF Good
<1>4. ASSUME NEW r, o = to(r), Good(r, FALSE, FALSE) PROVE Good(o.sess, o.kick, o.connect)
  <2>1. o.sess = r /\ o.kick = FALSE /\ o.connect = FALSE
    BY <1>4
  <2> QED
    BY <1>4, <2>1
<1>5. ASSUME NEW r \in Session, Same(k, r), o = [to(r) EXCEPT !.kick = TRUE]
      PROVE  Good(o.sess, o.kick, o.connect)
  <2>1. o.sess = r /\ o.kick = TRUE /\ o.connect = FALSE
    BY <1>5
  <2>2. Good(r, TRUE, FALSE)
    BY <1>2, <1>5
  <2> QED
    BY <2>1, <2>2
<1>6. ASSUME NEW r \in Session, Same(k, r), o = [to(r) EXCEPT !.connect = TRUE]
      PROVE  Good(o.sess, o.kick, o.connect)
  <2>1. o.sess = r /\ o.kick = FALSE /\ o.connect = TRUE
    BY <1>6
  <2>2. Good(r, FALSE, TRUE)
    BY <1>2, <1>6
  <2> QED
    BY <2>1, <2>2
<1>7. ASSUME NEW r \in Session, Same(k, r), o = to(r)
      PROVE  Good(o.sess, o.kick, o.connect)
  BY <1>2, <1>4, <1>7
<1> DEFINE l == [k EXCEPT !.loading = TRUE]
           f == [k EXCEPT !.force = TRUE]
           lf == [l EXCEPT !.force = TRUE]
           e == [k EXCEPT !.recent = FALSE]
           w == [k EXCEPT !.player = IF @ = "between" THEN "world" ELSE @]
           b == [k EXCEPT !.player = "between"]
<1>8. /\ l \in Session /\ Same(k, l) /\ f \in Session /\ Same(k, f)
      /\ e \in Session /\ Same(k, e) /\ b \in Session /\ Same(k, b)
      /\ k \in Session /\ Same(k, k)
  BY SessionRecord DEF Same
<1>9. w \in Session /\ Same(k, w)
  <2>1. (IF k.player = "between" THEN "world" ELSE k.player) \in {"none", "world", "between"}
    BY SessionRecord
  <2> QED
    BY <2>1, SessionRecord
<1>10. lf \in Session /\ Same(k, lf)
  <2> HIDE DEF l
  <2>1. lf \in Session /\ Same(l, lf)
    BY <1>8, SessionRecord
  <2> QED
    BY <1>8, <2>1 DEF Same
<1>11. \/ \E r \in {e, w, k, b} : o = to(r)
       \/ o = to(LoggedOut(k))
       \/ \E r \in {f, lf} : o = [to(r) EXCEPT !.kick = TRUE]
       \/ o = [to(l) EXCEPT !.connect = TRUE]
  BY DEF Outcomes
<1> HIDE DEF l, f, lf, e, w, b, to
<1>12. Good(o.sess, o.kick, o.connect)
  BY <1>3, <1>4, <1>5, <1>6, <1>7, <1>8, <1>9, <1>10, <1>11
<1> QED
  BY <1>12 DEF Good

LEMMA HandlePacketKeeps ==
  ASSUME IInv, HandlePacket
  PROVE  IInv'
<1> DEFINE k == sess[current]
           p == Head(recv[current])
           i == <<current, "inst">>
           free == sock[i].pc \in {"none", "closed"} /\ ~k.inst /\ ~Contains(linkQueue, current)
<1>1. /\ wpc = "packets" /\ closing = <<>> /\ wpc' = "packets"
      /\ UNCHANGED <<addSessQueue, linkQueue, handedOver, current, doomed, midClose>>
      /\ \E o \in Outcomes(k, p) :
            /\ sess' = [sess EXCEPT ![current] = o.sess]
            /\ closing' = IF o.kick THEN SocketsOf(k, current)
                          ELSE IF k.inst /\ ~o.sess.inst THEN <<i>> ELSE <<>>
            /\ sock' = IF o.connect /\ free
                       THEN [sock EXCEPT ![i] = NewSocket("asked")] ELSE sock
  BY DEF HandlePacket, At, netVars
<1>2. current # None /\ current \in Ids
  BY <1>1 DEF IInv, World, TypeInv
<1>3. k \in Session /\ sock \in [Sockets -> Socket]
  BY <1>2 DEF IInv, TypeInv
<1>4. i \in Sockets /\ i[1] = current /\ i[2] = "inst"
  BY <1>2, SocketFacts
<1>5. PICK o \in Outcomes(k, p) :
            /\ sess' = [sess EXCEPT ![current] = o.sess]
            /\ closing' = IF o.kick THEN SocketsOf(k, current)
                          ELSE IF k.inst /\ ~o.sess.inst THEN <<i>> ELSE <<>>
            /\ sock' = IF o.connect /\ free
                       THEN [sock EXCEPT ![i] = NewSocket("asked")] ELSE sock
  BY <1>1
<1> HIDE DEF i, k, p
<1>6. /\ Updated(k, o.sess) /\ (o.sess.inst => k.inst)
      /\ o.kick => (o.sess.inst <=> k.inst)
      /\ o.connect => ~o.kick /\ (o.sess.inst <=> k.inst)
  BY <1>3, OutcomeFacts
<1>7. PICK r : r = o.sess
  OBVIOUS
<1>8. /\ r \in Session /\ sess' = [sess EXCEPT ![current] = r]
      /\ (r.live <=> k.live) /\ (r.realm <=> k.realm) /\ (r.inst => k.inst)
  BY <1>5, <1>6, <1>7 DEF Updated
<1>9. /\ closing' \in Seq(Sockets) /\ \A t \in Sockets : In(t, closing') => t[1] = current
      /\ (In(i, closing') => k.inst) /\ (k.inst => r.inst \/ In(i, closing'))
  <2>1. CASE o.kick
    <3>1. closing' = SocketsOf(k, current)
      BY <1>5, <2>1
    <3>2. /\ closing' \in Seq(Sockets)
          /\ \A s \in Sockets : In(s, closing') <=> s[1] = current /\ Has(k, s)
      BY <1>2, <3>1, SocketsOfFacts
    <3> QED
      BY <1>4, <1>6, <1>7, <2>1, <3>2 DEF Has
  <2>2. CASE ~o.kick /\ k.inst /\ ~o.sess.inst
    BY <1>4, <1>5, <2>2, InOne
  <2>3. CASE ~o.kick /\ ~(k.inst /\ ~o.sess.inst)
    BY <1>5, <1>7, <2>3, InEmpty
  <2> QED
    BY <2>1, <2>2, <2>3
<1>10. /\ sock' \in [Sockets -> Socket]
       /\ \A t \in Sockets : \/ sock'[t] = sock[t]
                             \/ /\ Expected(t, sock'[t]) /\ t[1] = current
                                /\ ~In(current, linkQueue) /\ ~k.inst
  <2>1. CASE o.connect /\ free
    <3>1. PICK n \in Socket : /\ n = NewSocket("asked") /\ n.pc = "asked" /\ ~n.closed
                              /\ n.ptr = None
      <4> DEFINE m == NewSocket("asked")
      <4>1. m \in Socket /\ m.pc = "asked" /\ ~m.closed /\ m.ptr = None
        BY DEF NewSocket, Socket, InstPcs
      <4> HIDE DEF m
      <4>2. \E n \in Socket : n = m /\ n.pc = "asked" /\ ~n.closed /\ n.ptr = None
        BY <4>1
      <4> QED
        BY <4>2 DEF m
    <3>2. sock' = [sock EXCEPT ![i] = n] /\ ~k.inst /\ ~Contains(linkQueue, current)
      BY <1>5, <2>1, <3>1
    <3>3. ~In(current, linkQueue)
      BY <3>2 DEF Contains, In
    <3> QED
      BY <1>3, <1>4, <3>1, <3>2, <3>3 DEF Expected
  <2>2. CASE ~(o.connect /\ free)
    BY <1>3, <1>5, <2>2
  <2> QED
    BY <2>1, <2>2
<1> QED
  BY <1>1, <1>2, <1>8, <1>9, <1>10, UpdateStep DEF i, k

(* The steps of UpdateSessions that only go on. *)
LEMMA LinksAndEndsKeep ==
  ASSUME IInv, LinkRefused \/ LinkFound \/ LinksEnd \/ AddSessionsEnd
  PROVE  IInv'
<1>1. /\ closing = <<>> /\ wpc \in {"link", "add"}
      /\ UNCHANGED <<sess, sock, addSessQueue, handedOver, current, doomed, midClose, closing>>
      /\ \/ wpc' = "link" /\ linkQueue # <<>> /\ linkQueue' = Tail(linkQueue)
         \/ /\ wpc' = "setsession" /\ linkQueue # <<>> /\ current = Head(linkQueue)
            /\ linkQueue' = linkQueue
         \/ wpc' \in {"link", "add"} /\ linkQueue' = linkQueue
         \/ wpc' = "start" /\ current # None /\ linkQueue' = linkQueue
  BY DEF LinkRefused, LinkFound, LinksEnd, AddSessionsEnd, At, netVars, worldVars, closeVars
<1>2. /\ linkQueue' \in Seq(Ids) /\ Distinct(linkQueue')
      /\ \A x : In(x, linkQueue') => In(x, linkQueue)
  <2>1. linkQueue \in Seq(Ids) /\ Distinct(linkQueue)
    BY DEF IInv, TypeInv, World
  <2>2. CASE linkQueue' = linkQueue
    BY <2>1, <2>2
  <2>3. CASE linkQueue # <<>> /\ linkQueue' = Tail(linkQueue)
    BY <2>1, <2>3, TailFacts, InTail
  <2> QED
    BY <1>1, <2>2, <2>3
<1>3. TypeInv'
  BY <1>1, <1>2 DEF IInv, TypeInv
<1>4. Dying'
  BY <1>1 DEF IInv, Dying
<1>5. Owned'
  BY <1>1 DEF IInv, Owned
<1>6. World'
  BY <1>1, <1>2 DEF IInv, World
<1>7. SocksInv'
  <2> SUFFICES ASSUME NEW t \in Sockets PROVE SockInv(t, sock[t])'
    BY DEF SocksInv
  <2>1. SockInv(t, sock[t])
    BY DEF IInv
  <2> QED
    BY <1>1, <2>1 DEF SockInv
<1>8. InstsInv'
  <2> SUFFICES ASSUME NEW n \in Ids PROVE InstInv(n)'
    BY DEF InstsInv
  <2>1. InstInv(n)
    BY DEF IInv
  <2> QED
    BY <1>1, <1>2, <2>1 DEF InstInv, Unlinked
<1> QED
  BY <1>3, <1>4, <1>5, <1>6, <1>7, <1>8 DEF IInv, SocksInv, InstsInv

(* What linking its instance socket makes of the session. *)
LEMMA LinkedRecord ==
  ASSUME NEW k \in Session
  PROVE  LET l == [k EXCEPT !.inst = TRUE] IN
         /\ \A r \in {[l EXCEPT !.character = TRUE], [l EXCEPT !.loading = FALSE],
                      [l EXCEPT !.force = TRUE]} : Updated(k, r) /\ r.inst
<1> DEFINE l == [k EXCEPT !.inst = TRUE]
           a == [l EXCEPT !.character = TRUE]
           b == [l EXCEPT !.loading = FALSE]
           c == [l EXCEPT !.force = TRUE]
<1>1. l \in Session /\ (l.live <=> k.live) /\ (l.realm <=> k.realm) /\ l.inst
  BY DEF Session
<1> HIDE DEF l
<1>2. a \in Session /\ Same(l, a) /\ b \in Session /\ Same(l, b) /\ c \in Session /\ Same(l, c)
  BY <1>1, SessionRecord
<1> HIDE DEF a, b, c
<1>3. \A r \in {a, b, c} : Updated(k, r) /\ r.inst
  BY <1>1, <1>2 DEF Updated, Same
<1> QED
  BY <1>3 DEF a, b, c, l

LEMMA LinkInstanceSocketKeeps ==
  ASSUME IInv, LinkInstanceSocket
  PROVE  IInv'
<1> DEFINE n == Head(linkQueue)
           s == <<n, "inst">>
           k == sess[n]
           l == [k EXCEPT !.inst = TRUE]
           q == [sock[s] EXCEPT !.ptr = n]
<1>1. /\ wpc = "setsession" /\ closing = <<>> /\ ~Holding(s)
      /\ sock' = [sock EXCEPT ![s] = q]
      /\ linkQueue' = Tail(linkQueue) /\ wpc' = "link"
      /\ UNCHANGED <<addSessQueue, handedOver, current, doomed, midClose>>
      /\ \/ sess' = [sess EXCEPT ![n] = [l EXCEPT !.character = TRUE]] /\ closing' = closing
         \/ sess' = [sess EXCEPT ![n] = [l EXCEPT !.loading = FALSE]] /\ closing' = closing
         \/ sess' = [sess EXCEPT ![n] = [l EXCEPT !.force = TRUE]] /\ closing' = SocketsOf(l, n)
  BY DEF LinkInstanceSocket, At
<1>2. /\ linkQueue # <<>> /\ current = n /\ linkQueue \in Seq(Ids) /\ Distinct(linkQueue)
      /\ doomed = None /\ ~midClose
  BY <1>1 DEF IInv, World, Dying, TypeInv
<1>3. n \in Ids /\ In(n, linkQueue) /\ None \notin Ids
  BY <1>2, TailFacts, InTail, SocketFacts
<1>4. s \in Sockets /\ s[1] = n /\ s[2] = "inst" /\ sock[s] \in Socket /\ k \in Session
  BY <1>3, SocketFacts DEF IInv, TypeInv
<1>5. /\ linkQueue' \in Seq(Ids) /\ Distinct(linkQueue') /\ ~In(n, linkQueue')
      /\ \A x : In(x, linkQueue') => In(x, linkQueue)
  BY <1>1, <1>2, TailFacts, InTail
<1>6. n \in handedOver /\ k.live
  BY <1>2, <1>3 DEF IInv, Owned
<1> HIDE DEF n
<1>7. PICK r \in Session : /\ sess' = [sess EXCEPT ![n] = r] /\ (r.live <=> k.live)
                           /\ (r.realm <=> k.realm) /\ r.inst
  BY <1>1, <1>4, LinkedRecord DEF Updated
<1>8. closing' \in Seq(Sockets) /\ \A t \in Sockets : In(t, closing') => t[1] = n
  <2> HIDE DEF k, l
  <2>1. CASE closing' = <<>>
    BY <2>1, InEmpty
  <2>2. CASE closing' = SocketsOf(l, n)
    BY <1>3, <2>2, SocketsOfFacts
  <2> QED
    BY <1>1, <2>1, <2>2
<1> HIDE DEF k, l
<1>9. /\ q \in Socket /\ q.pc = sock[s].pc /\ q.closed = sock[s].closed /\ q.ptr = n
  BY <1>3, <1>4, SocketRecord
<1>10. Fits(s, sock[s]) /\ Unlinked(n, sock[s]) /\ sock[s].pc # "asked"
  <2>1. Fits(s, sock[s])
    BY <1>4, SocketsFit
  <2> QED
    BY <1>3, <1>4, <2>1 DEF Fits
<1> HIDE DEF q, s
<1>11. /\ \A t \in Sockets : sock'[t] = IF t = s THEN q ELSE sock[t]
       /\ sock' \in [Sockets -> Socket]
  BY <1>1, <1>4, <1>9 DEF IInv, TypeInv
<1>12. /\ \A m \in Ids : sess'[m] = IF m = n THEN r ELSE sess[m]
       /\ sess' \in [Ids -> Session]
  BY <1>3, <1>7 DEF IInv, TypeInv
<1>13. \A m \in Ids : sess'[m].live <=> sess[m].live
  BY <1>7, <1>12 DEF k
<1>14. TypeInv'
  BY <1>1, <1>5, <1>8, <1>11, <1>12 DEF IInv, TypeInv
<1>15. Dying'
  <2>1. \A t \in Sockets : t[1] # None
    BY SocketFacts
  <2> QED
    BY <1>1, <1>2, <2>1 DEF Dying
<1>16. Owned'
  <2>1. handedOver \subseteq Ids /\ \A i \in 1..Len(addSessQueue) : addSessQueue[i] \in Ids
    BY DEF IInv, TypeInv
  <2> QED
    BY <1>1, <1>2, <1>3, <1>13, <2>1 DEF IInv, Owned
<1>17. World'
  <2>1. \A i \in 1..Len(closing') : closing'[i] \in Sockets /\ In(closing'[i], closing')
    BY <1>8 DEF In
  <2>2. \A i \in 1..Len(closing') : closing'[i][1] \in handedOver
    BY <1>6, <1>8, <2>1
  <2> QED
    BY <1>1, <1>2, <1>5, <2>2 DEF IInv, World
<1>18. SocksInv'
  <2> SUFFICES ASSUME NEW t \in Sockets PROVE SockInv(t, sock[t])'
    BY DEF SocksInv
  <2>1. SockInv(t, sock[t]) /\ t[1] \in Ids /\ t[2] \in {"realm", "inst"} /\ ~In(t, closing)
    BY <1>1, SocketFacts, InEmpty DEF IInv
  <2>2. CASE t = s
    <3>1. sock'[s] = q /\ sess'[n] = r
      BY <1>3, <1>4, <1>11, <1>12
    <3> QED
      BY <1>1, <1>4, <1>6, <1>7, <1>9, <1>10, <2>1, <2>2, <3>1
         DEF SockInv, Serving, Unlinked, InstPcs, Has
  <2>3. CASE t # s
    <3>1. sock'[t] = sock[t]
      BY <1>11, <2>3
    <3>2. Has(sess[t[1]], t) => Has(sess'[t[1]], t)
      BY <1>7, <1>12, <2>1 DEF Has, k
    <3> QED
      BY <1>1, <1>2, <1>13, <2>1, <3>1, <3>2 DEF SockInv, Serving
  <2> QED
    BY <2>2, <2>3
<1>19. InstsInv'
  <2> SUFFICES ASSUME NEW m \in Ids PROVE InstInv(m)'
    BY DEF InstsInv
  <2> DEFINE i == <<m, "inst">>
  <2>1. i \in Sockets /\ i[1] = m /\ InstInv(m)
    BY SocketFacts DEF IInv
  <2>2. CASE m = n
    BY <1>3, <1>5, <1>9, <1>10, <1>11, <2>1, <2>2 DEF InstInv, s
  <2>3. CASE m # n
    <3>1. i # s /\ ~In(i, closing')
      BY <1>4, <1>8, <2>1, <2>3
    <3> QED
      BY <1>5, <1>11, <1>12, <2>1, <2>3, <3>1 DEF InstInv, Unlinked
  <2> QED
    BY <2>2, <2>3
<1> QED
  BY <1>14, <1>15, <1>16, <1>17, <1>18, <1>19 DEF IInv, SocksInv, InstsInv

(* AddSession_: the session that is not kept is kicked and about to be deleted. *)
LEMMA AddSessionKeeps ==
  ASSUME IInv, AddSession
  PROVE  IInv'
<1> DEFINE n == Head(addSessQueue)
           refused == Refused
           out == IF refused THEN n ELSE current
<1>1. /\ wpc = "add" /\ closing = <<>> /\ addSessQueue # <<>>
      /\ addSessQueue' = Tail(addSessQueue)
      /\ current' = (IF refused THEN current ELSE n)
      /\ UNCHANGED <<sock, linkQueue, handedOver, midClose>>
      /\ \/ out = None /\ UNCHANGED <<sess, closing, doomed, wpc>>
         \/ /\ out # None /\ sess' = [sess EXCEPT ![out].force = TRUE]
            /\ closing' = SocketsOf(sess[out], out) /\ doomed' = out /\ wpc' = "delete"
  BY DEF AddSession, At
<1>2. addSessQueue \in Seq(Ids) /\ Distinct(addSessQueue) /\ doomed = None /\ None \notin Ids
  BY <1>1, SocketFacts DEF IInv, TypeInv, Owned, Dying
<1>3. n \in Ids /\ In(n, addSessQueue)
  BY <1>1, <1>2, TailFacts, InTail
<1>4. /\ addSessQueue' \in Seq(Ids) /\ Distinct(addSessQueue') /\ ~In(n, addSessQueue')
      /\ \A x : In(x, addSessQueue) <=> x = n \/ In(x, addSessQueue')
  BY <1>1, <1>2, TailFacts, InTail
<1>5. /\ \A x : In(x, addSessQueue) => x \in handedOver /\ sess[x].live /\ x # current
      /\ \A m \in handedOver : sess[m].live => In(m, addSessQueue) \/ m = current
      /\ current # None => current \in handedOver /\ sess[current].live
      /\ current \in Ids \cup {None} /\ handedOver \subseteq Ids
  <2>1. \A x : In(x, addSessQueue) => x \in handedOver /\ sess[x].live /\ x # current
    BY DEF IInv, Owned, In
  <2>2. \A m \in handedOver : m # None
    BY <1>2 DEF IInv, TypeInv
  <2> QED
    BY <1>2, <2>1, <2>2 DEF IInv, Owned, TypeInv
<1>ref. refused => current # None
  BY DEF Refused
<1> HIDE DEF n, refused
<1>6. /\ current' \in Ids /\ current' \in handedOver /\ sess[current'].live /\ out # current'
      /\ out \in Ids \cup {None} /\ (out # None => out \in handedOver /\ sess[out].live)
      /\ {n, current} = {out, current'} /\ ~In(current', addSessQueue') /\ ~In(out, addSessQueue')
  <2>1. CASE refused
    BY <1>1, <1>3, <1>4, <1>5, <1>ref, <2>1
  <2>2. CASE ~refused
    <3>1. ~In(None, addSessQueue) /\ n # None
      BY <1>2, <1>3, <1>5
    <3> QED
      BY <1>1, <1>3, <1>4, <1>5, <2>2, <3>1
  <2> QED
    BY <2>1, <2>2
<1> HIDE DEF out
<1>7. \/ out = None /\ UNCHANGED <<sess, closing, doomed, wpc>>
      \/ /\ out # None /\ sess' = [sess EXCEPT ![out].force = TRUE]
         /\ closing' = SocketsOf(sess[out], out) /\ doomed' = out /\ wpc' = "delete"
  BY <1>1
<1>8. doomed' = out /\ doomed' # current' /\ (wpc' = "delete" <=> doomed' # None)
  BY <1>1, <1>2, <1>6, <1>7
<1>9. /\ sess' \in [Ids -> Session] /\ \A m \in Ids : Same(sess[m], sess'[m])
  <2>1. CASE out = None
    BY <1>7, <2>1 DEF IInv, TypeInv, Same
  <2>2. CASE out # None
    <3> DEFINE r == [sess[out] EXCEPT !.force = TRUE]
    <3>1. out \in Ids /\ r \in Session /\ Same(sess[out], r)
      BY <1>6, <2>2, SessionRecord DEF IInv, TypeInv
    <3>2. sess' = [sess EXCEPT ![out] = r]
      BY <1>7, <2>2
    <3> HIDE DEF r
    <3> QED
      BY <3>1, <3>2 DEF IInv, TypeInv, Same
  <2> QED
    BY <2>1, <2>2
<1>10. /\ closing' \in Seq(Sockets)
       /\ \A t \in Sockets : In(t, closing') <=> t[1] = out /\ Has(sess[out], t)
  <2>1. CASE out = None
    <3>1. \A t \in Sockets : t[1] # None
      BY SocketFacts
    <3> QED
      BY <1>1, <1>7, <2>1, <3>1, InEmpty
  <2>2. CASE out # None
    BY <1>6, <1>7, <2>2, SocketsOfFacts
  <2> QED
    BY <2>1, <2>2
<1>11. TypeInv'
  <2>1. wpc' \in {"add", "delete"} /\ doomed' \in Ids \cup {None}
    BY <1>1, <1>6, <1>7, <1>8
  <2> QED
    BY <1>1, <1>4, <1>6, <1>9, <1>10, <2>1 DEF IInv, TypeInv
<1>12. Dying'
  <2> SUFFICES ASSUME NEW t \in Sockets, t[1] = out, sock[t].ptr # None
               PROVE  sock[t].closed \/ In(t, closing')
    BY <1>1, <1>8 DEF Dying
  <2>1. SockInv(t, sock[t]) /\ ~In(t, closing)
    BY <1>1, InEmpty DEF IInv
  <2> QED
    BY <1>10, <2>1 DEF SockInv
<1>13. Owned'
  <2>1. \A m \in Ids : sess'[m].live <=> sess[m].live
    BY <1>9 DEF Same
  <2>2. ASSUME NEW i \in 1..Len(addSessQueue')
        PROVE  LET m == addSessQueue'[i] IN
               m \in handedOver /\ sess'[m].live /\ m # current' /\ m # doomed'
    <3>1. In(addSessQueue'[i], addSessQueue')
      BY DEF In
    <3> QED
      BY <1>4, <1>5, <1>6, <1>8, <2>1, <3>1
  <2>3. current' \in handedOver /\ sess'[current'].live /\ current' # doomed'
    BY <1>6, <1>8, <2>1
  <2>4. doomed' # None => doomed' \in handedOver /\ sess'[doomed'].live
    BY <1>6, <1>8, <2>1
  <2>5. ASSUME NEW m \in handedOver, sess'[m].live
        PROVE  In(m, addSessQueue') \/ m = current' \/ m = doomed'
    <3>1. In(m, addSessQueue) \/ m = current
      BY <1>5, <2>1, <2>5
    <3> QED
      BY <1>4, <1>6, <1>8, <3>1
  <2> QED
    BY <1>1, <1>4, <2>2, <2>3, <2>4, <2>5 DEF Owned
<1>14. World'
  <2>1. \A i \in 1..Len(closing') : closing'[i] \in Sockets /\ In(closing'[i], closing')
    BY <1>10 DEF In
  <2>2. \A i \in 1..Len(closing') : closing'[i][1] = out
    BY <1>10, <2>1
  <2>3. \A i \in 1..Len(closing') : closing'[i][1] \in handedOver
    BY <1>6, <1>10, <2>1, <2>2, SocketFacts
  <2>4. ~midClose /\ Distinct(linkQueue) /\ wpc' \in {"add", "delete"}
    BY <1>1, <1>7 DEF IInv, World
  <2> QED
    BY <1>1, <2>3, <2>4 DEF World
<1>15. SocksInv' /\ InstsInv'
  <2>1. \A t \in Sockets : t[1] \in Ids
    BY SocketFacts
  <2>2. \A t \in Sockets : Serving(sock[t]) /\ sess[t[1]].live => sess'[t[1]].live
    BY <1>9, <2>1 DEF Same
  <2>3. \A t \in Sockets : Has(sess[t[1]], t) <=> Has(sess'[t[1]], t)
    BY <1>9, <2>1 DEF Same, Has
  <2>4. ASSUME NEW t \in Sockets, t[2] = "inst"
        PROVE  /\ sess'[t[1]].inst => sess[t[1]].inst
               /\ In(t, closing') => sess[t[1]].inst
               /\ Expected(t, sock'[t]) => ~sess[t[1]].inst
    <3>1. sess'[t[1]].inst => sess[t[1]].inst
      BY <1>9, <2>1 DEF Same
    <3>2. In(t, closing') => sess[t[1]].inst
      BY <1>10, <2>4 DEF Has
    <3>3. Expected(t, sock'[t]) => ~sess[t[1]].inst
      <4>1. Fits(t, sock[t])
        BY SocketsFit
      <4> QED
        BY <1>1, <2>4, <4>1 DEF Fits, Unlinked, Expected
    <3> QED
      BY <3>1, <3>2, <3>3
  <2>5. /\ UNCHANGED <<handedOver, midClose>> /\ closing = <<>>
        /\ \A t \in Sockets : \/ sock'[t] = sock[t]
                              \/ Expected(t, sock'[t]) /\ ~In(t[1], linkQueue)
        /\ \A m : In(m, linkQueue') => In(m, linkQueue)
        /\ \A t \in Sockets : ~sock[t].closed /\ sock[t].ptr # None /\ Has(sess[t[1]], t) =>
              Has(sess'[t[1]], t) \/ In(t, closing')
    BY <1>1, <2>3
  <2> QED
    BY <2>2, <2>4, <2>5, SocketsStay
<1> QED
  BY <1>11, <1>12, <1>13, <1>14, <1>15 DEF IInv, SocksInv, InstsInv

(* The session that is deleted is served by no network thread. *)
LEMMA DeleteSessionKeeps ==
  ASSUME IInv, DeleteSession
  PROVE  IInv'
<1> DEFINE n == doomed
<1>1. /\ wpc = "delete" /\ closing = <<>> /\ sess' = [sess EXCEPT ![n] = NoSession]
      /\ doomed' = None /\ wpc' \in {"link", "add"}
      /\ UNCHANGED <<sock, addSessQueue, linkQueue, handedOver, current, closing, midClose>>
  <2>1. wpc = "delete"
    BY DEF DeleteSession, At
  <2>2. doomed # current
    BY <2>1 DEF IInv, Dying, Owned
  <2> QED
    BY <2>1, <2>2 DEF DeleteSession, At, netVars
<1>2. n \in Ids /\ None \notin Ids /\ ~midClose
  BY <1>1, SocketFacts DEF IInv, Dying, TypeInv, World
<1>3. NoSession \in Session /\ ~NoSession.live /\ ~NoSession.inst
  BY ConstantsAssumption DEF NoSession, NewSession, Session
<1> HIDE DEF n
<1>4. /\ sess' \in [Ids -> Session]
      /\ \A m \in Ids : sess'[m] = IF m = n THEN NoSession ELSE sess[m]
  BY <1>1, <1>2, <1>3 DEF IInv, TypeInv
<1>5. ASSUME NEW t \in Sockets, t[1] = n, sock[t].ptr # None
      PROVE  sock[t].closed /\ ~Serving(sock[t])
  <2>1. SockInv(t, sock[t])
    BY DEF IInv
  <2>2. sock[t].closed
    BY <1>1, <1>5, InEmpty DEF IInv, Dying, n
  <2> QED
    BY <1>2, <1>5, <2>1, <2>2 DEF SockInv, Serving
<1>6. TypeInv'
  BY <1>1, <1>4 DEF IInv, TypeInv
<1>7. Dying'
  <2>1. \A t \in Sockets : t[1] # None
    BY SocketFacts
  <2> QED
    BY <1>1, <2>1 DEF Dying
<1>8. Owned'
  <2>1. handedOver \subseteq Ids /\ \A i \in 1..Len(addSessQueue) : addSessQueue[i] \in Ids
    BY DEF IInv, TypeInv
  <2>2. /\ \A i \in 1..Len(addSessQueue) : addSessQueue[i] # n
        /\ current # n
    BY <1>2 DEF IInv, Owned, n
  <2>3. ASSUME NEW m \in handedOver, sess'[m].live
        PROVE  In(m, addSessQueue) \/ m = current
    BY <1>3, <1>4, <2>1, <2>3 DEF IInv, Owned, n
  <2>4. ASSUME NEW i \in 1..Len(addSessQueue)
        PROVE  LET m == addSessQueue[i] IN
               m \in handedOver /\ sess'[m].live /\ m # current /\ m # None
    BY <1>2, <1>4, <2>1, <2>2 DEF IInv, Owned
  <2>5. current # None => current \in handedOver /\ sess'[current].live
    BY <1>4, <2>1, <2>2 DEF IInv, Owned
  <2> QED
    BY <1>1, <2>3, <2>4, <2>5 DEF IInv, Owned
<1>9. World'
  BY <1>1 DEF IInv, World
<1>10. SocksInv' /\ InstsInv'
  <2>1. \A t \in Sockets : t[1] \in Ids
    BY SocketFacts
  <2>2. \A t \in Sockets : Serving(sock[t]) /\ sess[t[1]].live => sess'[t[1]].live
    BY <1>4, <1>5, <2>1 DEF Serving
  <2>3. \A t \in Sockets : ~sock[t].closed /\ sock[t].ptr # None /\ Has(sess[t[1]], t) =>
            Has(sess'[t[1]], t) \/ In(t, closing')
    BY <1>4, <1>5, <2>1
  <2>4. ASSUME NEW t \in Sockets, t[2] = "inst"
        PROVE  /\ sess'[t[1]].inst => sess[t[1]].inst
               /\ In(t, closing') => sess[t[1]].inst
               /\ Expected(t, sock'[t]) => ~sess[t[1]].inst
    <3>1. sess'[t[1]].inst => sess[t[1]].inst
      BY <1>3, <1>4, <2>1
    <3>2. ~In(t, closing')
      BY <1>1, InEmpty
    <3>3. Expected(t, sock'[t]) => ~sess[t[1]].inst
      <4>1. Fits(t, sock[t])
        BY SocketsFit
      <4> QED
        BY <1>1, <2>4, <4>1 DEF Fits, Unlinked, Expected
    <3> QED
      BY <3>1, <3>2, <3>3
  <2>5. /\ UNCHANGED <<handedOver, midClose>> /\ closing = <<>>
        /\ \A t \in Sockets : \/ sock'[t] = sock[t]
                              \/ Expected(t, sock'[t]) /\ ~In(t[1], linkQueue)
        /\ \A m : In(m, linkQueue') => In(m, linkQueue)
    BY <1>1
  <2> QED
    BY <2>2, <2>3, <2>4, <2>5, SocketsStay
<1> QED
  BY <1>6, <1>7, <1>8, <1>9, <1>10 DEF IInv, SocksInv, InstsInv

(* The session leaves and gives up its sockets, which are closed first. *)
LEMMA LeaveKeeps ==
  ASSUME IInv, wpc = "cleanup", closing = <<>>,
         sess' = [sess EXCEPT ![current].realm = FALSE, ![current].inst = FALSE],
         closing' = SocketsOf(sess[current], current),
         doomed' = current, current' = None, wpc' = "delete",
         UNCHANGED <<sock, addSessQueue, linkQueue, handedOver, midClose>>
  PROVE  IInv'
<1> DEFINE k == sess[current]
           l == [k EXCEPT !.realm = FALSE]
           r == [l EXCEPT !.inst = FALSE]
<1>1. current # None /\ current \in Ids /\ doomed = None /\ None \notin Ids
  BY SocketFacts DEF IInv, World, TypeInv, Dying
<1>2. k \in Session
  BY <1>1 DEF IInv, TypeInv
<1>3. l \in Session /\ (l.live <=> k.live)
  BY <1>2 DEF Session
<1>4. sess' = [sess EXCEPT ![current] = r]
  OBVIOUS
<1> HIDE DEF l
<1>5. r \in Session /\ (r.live <=> k.live) /\ ~r.inst
  BY <1>3 DEF Session
<1> HIDE DEF r
<1>6. /\ sess' \in [Ids -> Session]
      /\ \A m \in Ids : sess'[m] = IF m = current THEN r ELSE sess[m]
  BY <1>1, <1>4, <1>5 DEF IInv, TypeInv
<1>7. \A m \in Ids : sess'[m].live <=> sess[m].live
  BY <1>5, <1>6
<1>8. /\ closing' \in Seq(Sockets)
      /\ \A t \in Sockets : In(t, closing') <=> t[1] = current /\ Has(k, t)
  BY <1>1, SocketsOfFacts
<1> HIDE DEF k
<1>9. TypeInv'
  BY <1>1, <1>6, <1>8 DEF IInv, TypeInv
<1>10. Dying'
  <2> SUFFICES ASSUME NEW t \in Sockets, t[1] = current, sock[t].ptr # None
               PROVE  sock[t].closed \/ In(t, closing')
    BY <1>1 DEF Dying
  <2>1. SockInv(t, sock[t]) /\ ~In(t, closing)
    BY InEmpty DEF IInv
  <2> QED
    BY <1>8, <2>1 DEF SockInv, k
<1>11. Owned'
  <2>1. handedOver \subseteq Ids /\ \A i \in 1..Len(addSessQueue) : addSessQueue[i] \in Ids
    BY DEF IInv, TypeInv
  <2> QED
    BY <1>1, <1>7, <2>1 DEF IInv, Owned
<1>12. World'
  <2>1. \A i \in 1..Len(closing') : closing'[i] \in Sockets /\ In(closing'[i], closing')
    BY <1>8 DEF In
  <2>2. current \in handedOver
    BY <1>1 DEF IInv, Owned
  <2>3. \A i \in 1..Len(closing') : closing'[i][1] \in handedOver
    BY <1>8, <2>1, <2>2
  <2> QED
    BY <2>3 DEF IInv, World
<1>13. SocksInv' /\ InstsInv'
  <2>1. \A t \in Sockets : t[1] \in Ids
    BY SocketFacts
  <2>2. \A t \in Sockets : Serving(sock[t]) /\ sess[t[1]].live => sess'[t[1]].live
    BY <1>7, <2>1
  <2>3. \A t \in Sockets : ~sock[t].closed /\ sock[t].ptr # None /\ Has(sess[t[1]], t) =>
            Has(sess'[t[1]], t) \/ In(t, closing')
    BY <1>6, <1>8, <2>1 DEF k
  <2>4. ASSUME NEW t \in Sockets, t[2] = "inst"
        PROVE  /\ sess'[t[1]].inst => sess[t[1]].inst
               /\ In(t, closing') => sess[t[1]].inst
               /\ Expected(t, sock'[t]) => ~sess[t[1]].inst
    <3>1. sess'[t[1]].inst => sess[t[1]].inst
      BY <1>5, <1>6, <2>1
    <3>2. In(t, closing') => sess[t[1]].inst
      BY <1>8, <2>4 DEF Has, k
    <3>3. Expected(t, sock'[t]) => ~sess[t[1]].inst
      <4>1. Fits(t, sock[t])
        BY SocketsFit
      <4> QED
        BY <2>4, <4>1 DEF Fits, Unlinked, Expected
    <3> QED
      BY <3>1, <3>2, <3>3
  <2>5. /\ UNCHANGED <<handedOver, midClose>> /\ closing = <<>>
        /\ \A t \in Sockets : \/ sock'[t] = sock[t]
                              \/ Expected(t, sock'[t]) /\ ~In(t[1], linkQueue)
        /\ \A m : In(m, linkQueue') => In(m, linkQueue)
    OBVIOUS
  <2> QED
    BY <2>2, <2>3, <2>4, <2>5, SocketsStay
<1> QED
  BY <1>9, <1>10, <1>11, <1>12, <1>13 DEF IInv, SocksInv, InstsInv

LEMMA CleanUpKeeps ==
  ASSUME IInv, CleanUp
  PROVE  IInv'
<1> DEFINE k == sess[current]
           expire == IF k.expire > 1 THEN k.expire - 1 ELSE 0
           e == [k EXCEPT !.expire = expire]
<1>1. /\ wpc = "cleanup" /\ closing = <<>>
      /\ UNCHANGED <<sock, addSessQueue, linkQueue, handedOver, midClose>>
      /\ \/ /\ sess' = [sess EXCEPT ![current].realm = FALSE, ![current].inst = FALSE]
            /\ closing' = SocketsOf(k, current)
            /\ doomed' = current /\ current' = None /\ wpc' = "delete"
         \/ /\ sess' \in {sess, [sess EXCEPT ![current].expire = expire]}
            /\ wpc' \in {"start", "link"} /\ UNCHANGED <<closing, doomed, current>>
  BY DEF CleanUp, At, netVars
<1>2. current # None /\ current \in Ids
  BY <1>1 DEF IInv, World, TypeInv
<1>3. k \in Session /\ sock \in [Sockets -> Socket] /\ sess = [sess EXCEPT ![current] = k]
  BY <1>2 DEF IInv, TypeInv
<1>4. CASE /\ sess' = [sess EXCEPT ![current].realm = FALSE, ![current].inst = FALSE]
           /\ closing' = SocketsOf(k, current)
           /\ doomed' = current /\ current' = None /\ wpc' = "delete"
  BY <1>1, <1>4, LeaveKeeps
<1>5. CASE /\ sess' \in {sess, [sess EXCEPT ![current].expire = expire]}
           /\ wpc' \in {"start", "link"} /\ UNCHANGED <<closing, doomed, current>>
  <2>1. expire \in Nat
    <3>1. k.expire \in Nat
      BY <1>3, SessionRecord
    <3> QED
      BY <3>1
  <2>2. e \in Session /\ Same(k, e)
    <3> HIDE DEF expire
    <3> QED
      BY <1>3, <2>1, SessionRecord
  <2>3. sess' \in {[sess EXCEPT ![current] = k], [sess EXCEPT ![current] = e]}
    BY <1>3, <1>5
  <2> HIDE DEF e
  <2>4. PICK r \in Session : /\ sess' = [sess EXCEPT ![current] = r]
                             /\ (r.live <=> k.live) /\ (r.realm <=> k.realm)
                             /\ (r.inst <=> k.inst)
    BY <1>3, <2>2, <2>3 DEF Same
  <2>5. closing' \in Seq(Sockets) /\ \A t : ~In(t, closing')
    BY <1>1, <1>5, InEmpty
  <2> QED
    BY <1>1, <1>2, <1>3, <1>5, <2>4, <2>5, UpdateStep
<1> QED
  BY <1>1, <1>4, <1>5

-----------------------------------------------------------------------------
(* The theorems. *)

LEMMA InitIInv == Init => IInv
<1> SUFFICES ASSUME Init PROVE IInv
  OBVIOUS
<1>1. /\ \A n \in Ids : sess[n] = NoSession
      /\ \A s \in Sockets : sock[s] = NewSocket(IF s[2] = "realm" THEN "auth" ELSE "none")
      /\ addSessQueue = <<>> /\ linkQueue = <<>> /\ closing = <<>>
      /\ current = None /\ doomed = None /\ wpc = "link" /\ midClose = FALSE
      /\ handedOver = {}
  BY DEF Init
<1>2. NoSession \in Session /\ ~NoSession.live /\ ~NoSession.inst
  BY ConstantsAssumption DEF NoSession, NewSession, Session
<1>3. \A p \in {"auth", "none"} : LET k == NewSocket(p) IN
        k \in Socket /\ k.pc = p /\ k.closed = FALSE /\ k.ptr = None
  BY DEF NewSocket, Socket, RealmPcs, InstPcs
<1>4. ASSUME NEW s \in Sockets
      PROVE  /\ sock[s] \in Socket /\ sock[s].closed = FALSE /\ sock[s].ptr = None
             /\ sock[s].pc = IF s[2] = "realm" THEN "auth" ELSE "none"
  <2> DEFINE p == IF s[2] = "realm" THEN "auth" ELSE "none"
  <2>1. p \in {"auth", "none"} /\ sock[s] = NewSocket(p)
    BY <1>1
  <2> HIDE DEF p
  <2>2. sock[s] \in Socket /\ sock[s].pc = p /\ sock[s].closed = FALSE /\ sock[s].ptr = None
    BY <1>3, <2>1
  <2> QED
    BY <2>2 DEF p
<1>5. sess \in [Ids -> Session] /\ sock \in [Sockets -> Socket]
  <2>1. sess = [n \in Ids |-> sess[n]] /\ sock = [s \in Sockets |-> sock[s]]
    BY DEF Init
  <2>2. \A n \in Ids : sess[n] \in Session
    BY <1>1, <1>2
  <2>3. \A s \in Sockets : sock[s] \in Socket
    BY <1>4
  <2> QED
    BY <2>1, <2>2, <2>3
<1>6. /\ Len(<<>>) = 0 /\ 1..0 = {} /\ <<>> \in Seq(Ids) /\ <<>> \in Seq(Sockets)
      /\ (\A x : ~In(x, <<>>)) /\ Distinct(<<>>)
  BY InEmpty
<1>7. TypeInv
  BY <1>1, <1>5, <1>6 DEF TypeInv
<1>8. Dying /\ Owned /\ World
  BY <1>1, <1>4, <1>6 DEF Dying, Owned, World
<1>9. \A s \in Sockets : SockInv(s, sock[s])
  BY <1>1, <1>4, SocketFacts DEF SockInv, Serving, RealmPcs, InstPcs
<1>10. \A n \in Ids : InstInv(n)
  <2> SUFFICES ASSUME NEW n \in Ids PROVE InstInv(n)
    OBVIOUS
  <2>1. sock[<<n, "inst">>].pc = "none"
    BY <1>4, SocketFacts
  <2> QED
    BY <1>1, <1>6, <2>1 DEF InstInv
<1> QED
  BY <1>7, <1>8, <1>9, <1>10 DEF IInv

(* A new session in the queue is there, and none is deleted that is still listed:
   there is no fault. *)
LEMMA NoFault == IInv => ~AddSessionFault /\ ~Failed
<1> SUFFICES ASSUME IInv PROVE ~AddSessionFault /\ ~Failed
  OBVIOUS
<1>1. ASSUME AddSessionFault PROVE FALSE
  <2>1. /\ addSessQueue # <<>>
        /\ Head(addSessQueue) # None => ~sess[Head(addSessQueue)].live
    BY <1>1 DEF AddSessionFault
  <2>2. addSessQueue \in Seq(Ids)
    BY DEF IInv, TypeInv
  <2>3. Head(addSessQueue) \in Ids /\ 1 \in 1..Len(addSessQueue)
        /\ Head(addSessQueue) = addSessQueue[1]
    BY <2>1, <2>2, TailFacts
  <2> QED
    BY <2>1, <2>3, SocketFacts DEF IInv, Owned
<1> QED
  BY <1>1 DEF Failed, IInv, TypeInv

LEMMA NextKeepsIInv ==
  ASSUME IInv, strays \in Nat, UNCHANGED strays, [Next]_vars
  PROVE  IInv'
<1>1. CASE WorldThread
  BY <1>1, CloseSocketKeeps, OnCloseKeeps, LinksAndEndsKeep, LinkInstanceSocketKeeps,
     AddSessionKeeps, NoFault, DeleteSessionKeeps, StartUpdateKeeps, HandlePacketKeeps,
     PacketsEndReaddKeep, ProcessQueryCallbacksKeeps, LogoutPlayerKeeps, CleanUpKeeps
     DEF WorldThread
<1>2. ASSUME NEW n \in Ids, NetworkThread(n) PROVE IInv'
  <2>1. <<n, "realm">> \in Sockets /\ <<n, "inst">> \in Sockets
    BY SocketFacts
  <2>2. CASE Unlock(n)
    BY <2>1, <2>2, QueuePacketKeeps, AbortLoginKeeps, AbortLoginKicksKeeps DEF Unlock
  <2>3. CASE \/ HandleAuthSessionCallback(n) \/ LoadSessionPermissionsCallback(n)
             \/ HandleEnableEncryptionAck(n) \/ InstanceEncryptionAck(n)
             \/ HandleConnectToFailed(n)
    BY <2>3, HandleAuthSessionCallbackKeeps, LoadSessionPermissionsCallbackKeeps,
       HandleEnableEncryptionAckKeeps, InstanceEncryptionAckKeeps, HandleConnectToFailedKeeps
  <2>4. ASSUME NEW s \in {<<n, "realm">>, <<n, "inst">>},
               (\E k \in Kinds : ReadDataHandler(s, k)) \/ NetworkClose(s) \/ NetworkOnClose(s)
        PROVE  IInv'
    BY <2>1, <2>4, ReadDataHandlerKeeps, NetworkCloseKeeps, NetworkOnCloseKeeps
  <2> QED
    BY <1>2, <2>2, <2>3, <2>4 DEF NetworkThread
<1>3. CASE UNCHANGED vars
  <2>1. /\ Others /\ sess' = sess /\ sock' = sock
    BY <1>3 DEF vars, Others, netVars, worldVars, closeVars
  <2>2. /\ sess' \in [Ids -> Session] /\ \A n \in Ids : Same(sess[n], sess'[n])
        /\ sock' \in [Sockets -> Socket]
    BY <2>1 DEF IInv, TypeInv, Same
  <2>3. \A s \in Sockets : Fits(s, sock'[s])
    BY <2>1, SocketsFit
  <2> QED
    BY <2>1, <2>2, <2>3, SocketStep
<1> QED
  BY <1>1, <1>2, <1>3, NoFault DEF Next

(* What is out of turn stays so. *)
LEMMA StraysCounted ==
  ASSUME strays \in Nat, [Next]_vars
  PROVE  strays' \in Nat /\ (strays' = 0 => UNCHANGED strays)
<1>1. CASE WorldThread
  BY <1>1 DEF WorldThread, CloseSocket, OnClose, LinkRefused, LinkFound, LinkInstanceSocket,
     LinksEnd, AddSession, AddSessionFault, DeleteSession, AddSessionsEnd, StartUpdate,
     HandlePacket, PacketsEnd, Readd, ProcessQueryCallbacks, LogoutPlayer, CleanUp, netVars
<1>2. ASSUME NEW n \in Ids, NetworkThread(n)
      PROVE  strays' \in Nat /\ (strays' = 0 => UNCHANGED strays)
  <2>1. CASE HandleEnableEncryptionAck(n) \/ InstanceEncryptionAck(n)
    <3>1. strays' = strays \/ strays' = strays + 1
      BY <2>1 DEF HandleEnableEncryptionAck, InstanceEncryptionAck, Ack
    <3> QED
      BY <3>1
  <2>2. CASE \/ Unlock(n) \/ HandleAuthSessionCallback(n)
             \/ LoadSessionPermissionsCallback(n) \/ HandleConnectToFailed(n)
    BY <2>2 DEF Unlock, QueuePacket, AbortLogin, AbortLoginKicks, HandleAuthSessionCallback,
       LoadSessionPermissionsCallback, HandleConnectToFailed, netVars
  <2>3. ASSUME NEW s, (\E k \in Kinds : ReadDataHandler(s, k)) \/ NetworkClose(s)
                      \/ NetworkOnClose(s)
        PROVE  UNCHANGED strays
    BY <2>3 DEF ReadDataHandler, NetworkClose, NetworkOnClose, netVars
  <2> QED
    BY <1>2, <2>1, <2>2, <2>3 DEF NetworkThread
<1> QED
  BY <1>1, <1>2 DEF Next, Failed, vars, netVars

(* The inductive invariant of sessions, sockets and their threads, which holds
   until a connection acknowledges out of turn. *)
InTurn == strays \in Nat /\ (strays = 0 => IInv)

THEOREM Invariance == Spec => []InTurn
<1>1. Init => InTurn
  BY InitIInv DEF Init, InTurn
<1>2. InTurn /\ [Next]_vars => InTurn'
  <2> SUFFICES ASSUME InTurn, [Next]_vars PROVE InTurn'
    OBVIOUS
  <2>1. strays' \in Nat /\ (strays' = 0 => UNCHANGED strays)
    BY StraysCounted DEF InTurn
  <2>2. ASSUME strays' = 0 PROVE IInv'
    BY <2>1, <2>2, NextKeepsIInv DEF InTurn
  <2> QED
    BY <2>1, <2>2 DEF InTurn
<1> QED
  BY <1>1, <1>2, PTL DEF Spec

(* While each connection acknowledges its encryption once, when it is asked to: a
   network thread that has found its session and works on it finds it alive to the
   end, although the world thread deletes sessions at any time, and the world thread
   adds no null and no deleted session. *)
THEOREM NoUseAfterFreeCorrect == Spec => []NoUseAfterFree
<1>1. InTurn => NoUseAfterFree
  <2> SUFFICES ASSUME IInv
               PROVE  /\ wpc # "fault"
                      /\ \A s \in Sockets :
                            sock[s].pc \in {"perm", "encrypt", "locked", "abort"} =>
                                sock[s].ptr # None /\ sess[sock[s].ptr].live
    BY DEF InTurn, NoUseAfterFree
  <2>1. ASSUME NEW s \in Sockets, sock[s].pc \in {"perm", "encrypt", "locked", "abort"}
        PROVE  sock[s].ptr # None /\ sess[sock[s].ptr].live
    <3>1. SockInv(s, sock[s])
      BY DEF IInv
    <3> QED
      BY <2>1, <3>1 DEF SockInv, Serving
  <2>2. wpc # "fault"
    BY DEF IInv, TypeInv
  <2> QED
    BY <2>1, <2>2
<1> QED
  BY <1>1, Invariance, PTL

(* Under the same condition, a session that was handed to the World has one owner
   until it is deleted, and none before or afterwards. *)
THEOREM OneOwnerCorrect == Spec => []OneOwner
<1>1. InTurn => OneOwner
  <2> SUFFICES ASSUME IInv, NEW n \in Ids
               PROVE  LET owners == {i \in DOMAIN addSessQueue : addSessQueue[i] = n}
                                    \cup {x \in {-1} : current = n}
                                    \cup {x \in {-2} : doomed = n}
                      IN  Cardinality(owners) =
                              IF n \in handedOver /\ sess[n].live THEN 1 ELSE 0
    BY DEF InTurn, OneOwner
  <2> DEFINE owners == {i \in DOMAIN addSessQueue : addSessQueue[i] = n}
                       \cup {x \in {-1} : current = n} \cup {x \in {-2} : doomed = n}
  <2>1. /\ DOMAIN addSessQueue = 1..Len(addSessQueue) /\ Len(addSessQueue) \in Nat
        /\ n # None
    BY LenProperties, SocketFacts DEF IInv, TypeInv
  <2>2. ASSUME ~(n \in handedOver /\ sess[n].live) PROVE owners = {}
    BY <2>1, <2>2 DEF IInv, Owned
  <2>3. ASSUME n \in handedOver, sess[n].live PROVE \E x : owners = {x}
    <3>1. CASE n = current
      <4>1. owners = {-1}
        BY <2>1, <3>1 DEF IInv, Owned
      <4> QED
        BY <4>1
    <3>2. CASE n = doomed
      <4>1. owners = {-2}
        BY <2>1, <3>2 DEF IInv, Owned
      <4> QED
        BY <4>1
    <3>3. CASE n # current /\ n # doomed
      <4>1. PICK i \in 1..Len(addSessQueue) : addSessQueue[i] = n
        BY <2>3, <3>3 DEF IInv, Owned, In
      <4>2. \A j \in 1..Len(addSessQueue) : addSessQueue[j] = n => j = i
        BY <4>1 DEF IInv, Owned, Distinct
      <4>3. owners = {i}
        BY <2>1, <3>3, <4>1, <4>2
      <4> QED
        BY <4>3
    <3> QED
      BY <3>1, <3>2, <3>3
  <2> HIDE DEF owners
  <2>4. Cardinality(owners) = IF n \in handedOver /\ sess[n].live THEN 1 ELSE 0
    <3>1. CASE n \in handedOver /\ sess[n].live
      <4>1. PICK x : owners = {x}
        BY <2>3, <3>1
      <4>2. Cardinality({x}) = 1
        BY FS_Singleton
      <4> QED
        BY <3>1, <4>1, <4>2
    <3>2. CASE ~(n \in handedOver /\ sess[n].live)
      BY <2>2, <3>2, FS_EmptySet
    <3> QED
      BY <3>1, <3>2
  <2> QED
    BY <2>4 DEF owners
<1> QED
  BY <1>1, Invariance, PTL
-----------------------------------------------------------------------------
(* The packets for the player are handled in their order. *)

Packet == [kind: Kinds \cup {NoPacket}, seq: Nat]

ForPlayer(p) == p.kind \in LoggedIn

Sorted(w) ==
    \A i, j \in 1..Len(w) :
        i < j /\ ForPlayer(w[i]) /\ ForPlayer(w[j]) => w[i].seq < w[j].seq

(* The packets of w were received after packet lo, and hi were received. *)
Within(w, lo, hi) ==
    \A i \in 1..Len(w) : ForPlayer(w[i]) => lo < w[i].seq /\ w[i].seq <= hi

(* The packets of v come before those of w. *)
Before(v, w) ==
    \A i \in 1..Len(v), j \in 1..Len(w) :
        ForPlayer(v[i]) /\ ForPlayer(w[j]) => v[i].seq < w[j].seq

(* Packets are put aside while there is no player, who cannot come before they are
   put back: so no packet is handled that was received after one of them. *)
OrderInv ==
    /\ recv \in [Ids -> Seq(Packet)] /\ requeue \in Seq(Packet)
    /\ received \in Nat /\ lastHandled \in [Ids -> Nat]
    /\ \A n \in Ids : /\ Sorted(recv[n]) /\ Within(recv[n], lastHandled[n], received)
                      /\ lastHandled[n] <= received
    /\ requeue # <<>> =>
        /\ wpc \in {"packets", "readd"} /\ current # None /\ sess[current].player = "none"
        /\ Sorted(requeue) /\ Within(requeue, lastHandled[current], received)
        /\ Before(requeue, recv[current])

(* A step that handles, receives and moves no packet; the player does not come
   while packets are put aside. *)
LEMMA OrderStays ==
  ASSUME OrderInv, UNCHANGED <<recv, requeue, received, lastHandled>>,
         requeue # <<>> => /\ current' = current /\ wpc' \in {"packets", "readd"}
                           /\ sess'[current].player = sess[current].player
  PROVE  OrderInv'
<1>1. CASE requeue = <<>>
  BY <1>1 DEF OrderInv
<1>2. CASE requeue # <<>>
  BY <1>2 DEF OrderInv
<1> QED
  BY <1>1, <1>2

(* The steps of network threads but QueuePacket. *)
LEMMA NetworkOrder ==
  ASSUME IInv, OrderInv, NEW n \in Ids, NetworkThread(n),
         ~QueuePacket(<<n, "realm">>), ~QueuePacket(<<n, "inst">>)
  PROVE  OrderInv'
<1>1. /\ UNCHANGED <<recv, requeue, received, lastHandled, current, wpc>>
      /\ \/ UNCHANGED sess
         \/ HandleAuthSessionCallback(n)
         \/ \E m : \/ sess' = [sess EXCEPT ![m].loading = FALSE]
                   \/ sess' = [sess EXCEPT ![m].force = TRUE]
  <2>1. CASE AbortLogin(n) \/ AbortLoginKicks(n)
    BY <2>1 DEF AbortLogin, AbortLoginKicks, netVars, worldVars, updateVars
  <2>2. CASE \/ HandleAuthSessionCallback(n) \/ LoadSessionPermissionsCallback(n)
             \/ HandleEnableEncryptionAck(n) \/ InstanceEncryptionAck(n)
             \/ HandleConnectToFailed(n)
    BY <2>2 DEF HandleAuthSessionCallback, LoadSessionPermissionsCallback,
       HandleEnableEncryptionAck, InstanceEncryptionAck, HandleConnectToFailed,
       netVars, worldVars, updateVars
  <2>3. ASSUME NEW s, (\E k \in Kinds : ReadDataHandler(s, k)) \/ NetworkClose(s)
                      \/ NetworkOnClose(s)
        PROVE  UNCHANGED <<recv, requeue, received, lastHandled, current, wpc, sess>>
    BY <2>3 DEF ReadDataHandler, NetworkClose, NetworkOnClose, netVars, worldVars, updateVars
  <2> QED
    BY <2>1, <2>2, <2>3 DEF NetworkThread, Unlock
<1>2. ASSUME requeue # <<>> PROVE sess'[current].player = sess[current].player
  <2>1. current \in Ids /\ sess \in [Ids -> Session] /\ sess[current] \in Session
    BY <1>2 DEF IInv, OrderInv, TypeInv
  <2>2. CASE UNCHANGED sess
    BY <2>2
  <2>3. CASE HandleAuthSessionCallback(n)
    <3>1. NewSession.player = "none" /\ sess' = [sess EXCEPT ![n] = NewSession]
      BY <2>3 DEF HandleAuthSessionCallback, NewSession
    <3> QED
      BY <1>2, <2>1, <3>1 DEF OrderInv
  <2>4. CASE \E m : \/ sess' = [sess EXCEPT ![m].loading = FALSE]
                    \/ sess' = [sess EXCEPT ![m].force = TRUE]
    BY <2>1, <2>4 DEF Session
  <2> QED
    BY <1>1, <2>2, <2>3, <2>4
<1>3. requeue # <<>> => current' = current /\ wpc' \in {"packets", "readd"}
  BY <1>1 DEF OrderInv
<1> QED
  BY <1>1, <1>2, <1>3, OrderStays

(* A packet that is received comes after all others. *)
LEMMA QueuePacketOrder ==
  ASSUME IInv, OrderInv, NEW s \in Sockets, QueuePacket(s)
  PROVE  OrderInv'
<1> DEFINE n == sock[s].ptr
           p == [kind |-> sock[s].packet, seq |-> received + 1]
           q == recv[n]
<1>1. /\ sock[s].pc = "locked" /\ recv' = [recv EXCEPT ![n] = Append(q, p)]
      /\ received' = received + 1
      /\ UNCHANGED <<requeue, lastHandled, current, wpc, sess>>
  BY DEF QueuePacket, worldVars, updateVars
<1>2. /\ n \in Ids /\ p \in Packet /\ p.seq = received + 1 /\ q \in Seq(Packet)
      /\ received \in Nat
  <2>1. sock[s] \in Socket /\ SockInv(s, sock[s])
    BY SocketsFit DEF Fits
  <2>2. n \in Ids /\ sock[s].packet \in Kinds \cup {NoPacket} /\ received \in Nat
    BY <1>1, <2>1 DEF SockInv, Socket, OrderInv
  <2>3. p \in Packet /\ p.seq = received + 1
    BY <2>2 DEF Packet
  <2>4. q \in Seq(Packet)
    BY <2>2 DEF OrderInv
  <2> QED
    BY <2>2, <2>3, <2>4
<1> HIDE DEF n, p
<1>3. PICK w \in Seq(Packet) : w = Append(q, p)
  BY <1>2, InAppend
<1> HIDE DEF q
<1>4. /\ Len(w) = Len(q) + 1 /\ (\A i \in 1..Len(q) : w[i] = q[i]) /\ w[Len(q) + 1] = p
      /\ Len(q) \in Nat
  BY <1>2, <1>3
<1>5. \A i \in 1..Len(w) : i \in 1..Len(q) \/ i = Len(q) + 1
  BY <1>4
<1>6. /\ recv' \in [Ids -> Seq(Packet)]
      /\ \A m \in Ids : recv'[m] = IF m = n THEN w ELSE recv[m]
  BY <1>1, <1>2, <1>3 DEF OrderInv
<1>7. \A m \in Ids : lastHandled[m] \in Nat
  BY DEF OrderInv
<1>8. Sorted(q) /\ Within(q, lastHandled[n], received) /\ lastHandled[n] <= received
  BY <1>2 DEF OrderInv, q
<1>9. \A i \in 1..Len(q) : q[i] \in Packet /\ q[i].seq \in Nat
  <2>1. \A i \in 1..Len(q) : q[i] \in Packet
    BY <1>2, ElementOfSeq
  <2> QED
    BY <2>1 DEF Packet
<1>10. Sorted(w)
  <2> SUFFICES ASSUME NEW i \in 1..Len(w), NEW j \in 1..Len(w), i < j,
                      ForPlayer(w[i]), ForPlayer(w[j])
               PROVE  w[i].seq < w[j].seq
    BY DEF Sorted
  <2>1. i \in 1..Len(q)
    BY <1>4, <1>5
  <2>2. CASE j \in 1..Len(q)
    BY <1>4, <1>8, <2>1, <2>2 DEF Sorted
  <2>3. CASE j = Len(q) + 1
    <3>1. w[i] = q[i] /\ q[i].seq <= received /\ w[j].seq = received + 1
      BY <1>2, <1>4, <1>8, <2>1, <2>3 DEF Within
    <3> QED
      BY <1>2, <1>9, <2>1, <3>1
  <2> QED
    BY <1>5, <2>2, <2>3
<1>11. ASSUME NEW v \in Seq(Packet), NEW lo \in Nat, Within(v, lo, received)
       PROVE  Within(v, lo, received + 1)
  <2>1. \A i \in 1..Len(v) : v[i].seq \in Nat
    <3>1. \A i \in 1..Len(v) : v[i] \in Packet
      BY ElementOfSeq
    <3> QED
      BY <3>1 DEF Packet
  <2> QED
    BY <1>2, <1>11, <2>1 DEF Within
<1>12. Within(w, lastHandled[n], received + 1)
  <2> SUFFICES ASSUME NEW i \in 1..Len(w), ForPlayer(w[i])
               PROVE  lastHandled[n] < w[i].seq /\ w[i].seq <= received + 1
    BY DEF Within
  <2>1. CASE i \in 1..Len(q)
    <3>1. w[i] = q[i] /\ lastHandled[n] < q[i].seq /\ q[i].seq <= received
      BY <1>4, <1>8, <2>1 DEF Within
    <3> QED
      BY <1>2, <1>9, <2>1, <3>1
  <2>2. CASE i = Len(q) + 1
    BY <1>2, <1>4, <1>7, <1>8, <2>2
  <2> QED
    BY <1>5, <2>1, <2>2
<1>13. ASSUME NEW m \in Ids
       PROVE  /\ Sorted(recv'[m]) /\ Within(recv'[m], lastHandled[m], received + 1)
              /\ lastHandled[m] <= received + 1
  <2>1. CASE m = n
    BY <1>2, <1>6, <1>7, <1>8, <1>10, <1>12, <2>1
  <2>2. CASE m # n
    <3>1. recv[m] \in Seq(Packet) /\ Sorted(recv[m]) /\ lastHandled[m] <= received
          /\ Within(recv[m], lastHandled[m], received)
      BY DEF OrderInv
    <3> QED
      BY <1>2, <1>6, <1>7, <1>11, <2>2, <3>1
  <2> QED
    BY <2>1, <2>2
<1>14. ASSUME requeue # <<>>
       PROVE  /\ wpc \in {"packets", "readd"} /\ current # None
              /\ sess[current].player = "none"
              /\ Sorted(requeue) /\ Within(requeue, lastHandled[current], received + 1)
              /\ Before(requeue, recv'[current])
  <2>1. /\ wpc \in {"packets", "readd"} /\ current # None /\ sess[current].player = "none"
        /\ Sorted(requeue) /\ Within(requeue, lastHandled[current], received)
        /\ Before(requeue, recv[current]) /\ current \in Ids /\ requeue \in Seq(Packet)
    BY <1>14 DEF OrderInv, IInv, TypeInv
  <2>2. Within(requeue, lastHandled[current], received + 1)
    BY <1>7, <1>11, <2>1
  <2>3. CASE current # n
    BY <1>6, <2>1, <2>2, <2>3
  <2>4. CASE current = n
    <3>1. Before(requeue, w)
      <4> SUFFICES ASSUME NEW i \in 1..Len(requeue), NEW j \in 1..Len(w),
                          ForPlayer(requeue[i]), ForPlayer(w[j])
                   PROVE  requeue[i].seq < w[j].seq
        BY DEF Before
      <4>1. CASE j \in 1..Len(q)
        BY <1>4, <2>1, <2>4, <4>1 DEF Before, q
      <4>2. CASE j = Len(q) + 1
        <5>1. requeue[i].seq <= received /\ w[j].seq = received + 1 /\ requeue[i] \in Packet
          BY <1>2, <1>4, <2>1, <4>2 DEF Within
        <5>2. requeue[i].seq \in Nat
          BY <5>1 DEF Packet
        <5> QED
          BY <1>2, <5>1, <5>2
      <4> QED
        BY <1>5, <4>1, <4>2
    <3> QED
      BY <1>6, <2>1, <2>2, <2>4, <3>1
  <2> QED
    BY <2>3, <2>4
<1>15. /\ requeue \in Seq(Packet) /\ received + 1 \in Nat /\ lastHandled \in [Ids -> Nat]
  BY <1>2 DEF OrderInv
<1> QED
  BY <1>1, <1>6, <1>13, <1>14, <1>15 DEF OrderInv

LEMMA EmptyOrder ==
  /\ Sorted(<<>>) /\ \A lo, hi : Within(<<>>, lo, hi)
  /\ \A w : Before(<<>>, w)
<1>1. Len(<<>>) = 0 /\ 1..0 = {}
  OBVIOUS
<1> QED
  BY <1>1 DEF Sorted, Within, Before

(* The head of a queue comes before the rest. *)
LEMMA TailOrder ==
  ASSUME NEW q \in Seq(Packet), q # <<>>, NEW lo \in Nat, NEW hi \in Nat,
         Sorted(q), Within(q, lo, hi)
  PROVE  /\ Sorted(Tail(q)) /\ Within(Tail(q), lo, hi)
         /\ ForPlayer(Head(q)) => /\ Within(Tail(q), Head(q).seq, hi)
                                  /\ lo < Head(q).seq /\ Head(q).seq <= hi
         /\ \A v : Before(v, q) => Before(v, Tail(q))
<1>1. /\ Len(q) \in Nat \ {0} /\ Head(q) = q[1] /\ 1 \in 1..Len(q)
      /\ Tail(q) \in Seq(Packet) /\ Len(Tail(q)) = Len(q) - 1
      /\ \A i \in 1..Len(Tail(q)) : Tail(q)[i] = q[i + 1] /\ i + 1 \in 1..Len(q)
  BY TailFacts
<1>2. PICK t \in Seq(Packet) : t = Tail(q)
  BY <1>1
<1>3. /\ Len(t) = Len(q) - 1
      /\ \A i \in 1..Len(t) : t[i] = q[i + 1] /\ i + 1 \in 1..Len(q) /\ 1 < i + 1
  BY <1>1, <1>2
<1>4. Sorted(t)
  <2> SUFFICES ASSUME NEW i \in 1..Len(t), NEW j \in 1..Len(t), i < j,
                      ForPlayer(t[i]), ForPlayer(t[j])
               PROVE  t[i].seq < t[j].seq
    BY DEF Sorted
  <2>1. i + 1 < j + 1
    OBVIOUS
  <2> QED
    BY <1>3, <2>1 DEF Sorted
<1>5. Within(t, lo, hi)
  BY <1>3 DEF Within
<1>6. ForPlayer(Head(q)) => Within(t, Head(q).seq, hi) /\ lo < Head(q).seq /\ Head(q).seq <= hi
  BY <1>1, <1>3 DEF Within, Sorted
<1>7. \A v : Before(v, q) => Before(v, t)
  BY <1>3 DEF Before
<1> QED
  BY <1>2, <1>4, <1>5, <1>6, <1>7

(* A packet of q that is put aside after those of v, which come before it. *)
LEMMA AppendOrder ==
  ASSUME NEW v \in Seq(Packet), NEW q \in Seq(Packet), q # <<>>,
         NEW lo \in Nat, NEW hi \in Nat, Sorted(v), Within(v, lo, hi), Before(v, q),
         Sorted(q), Within(q, lo, hi)
  PROVE  LET w == Append(v, Head(q)) IN
         w \in Seq(Packet) /\ Sorted(w) /\ Within(w, lo, hi) /\ Before(w, Tail(q))
<1>1. /\ Head(q) = q[1] /\ 1 \in 1..Len(q) /\ Head(q) \in Packet
      /\ \A i \in 1..Len(Tail(q)) : Tail(q)[i] = q[i + 1] /\ i + 1 \in 1..Len(q)
  BY TailFacts
<1>2. PICK p \in Packet : p = Head(q) /\ p = q[1]
  BY <1>1
<1>3. PICK w \in Seq(Packet) : w = Append(v, p)
  BY InAppend
<1>4. /\ Len(w) = Len(v) + 1 /\ (\A i \in 1..Len(v) : w[i] = v[i]) /\ w[Len(v) + 1] = p
      /\ Len(v) \in Nat
  BY <1>3
<1>5. \A i \in 1..Len(w) : i \in 1..Len(v) \/ i = Len(v) + 1
  BY <1>4
<1>6. Sorted(w)
  <2> SUFFICES ASSUME NEW i \in 1..Len(w), NEW j \in 1..Len(w), i < j,
                      ForPlayer(w[i]), ForPlayer(w[j])
               PROVE  w[i].seq < w[j].seq
    BY DEF Sorted
  <2>1. i \in 1..Len(v)
    BY <1>4, <1>5
  <2>2. CASE j \in 1..Len(v)
    BY <1>4, <2>1, <2>2 DEF Sorted
  <2>3. CASE j = Len(v) + 1
    BY <1>1, <1>2, <1>4, <2>1, <2>3 DEF Before
  <2> QED
    BY <1>5, <2>2, <2>3
<1>7. Within(w, lo, hi)
  BY <1>1, <1>2, <1>4, <1>5 DEF Within
<1>8. Before(w, Tail(q))
  <2> SUFFICES ASSUME NEW i \in 1..Len(w), NEW j \in 1..Len(Tail(q)),
                      ForPlayer(w[i]), ForPlayer(Tail(q)[j])
               PROVE  w[i].seq < Tail(q)[j].seq
    BY DEF Before
  <2>1. Tail(q)[j] = q[j + 1] /\ j + 1 \in 1..Len(q) /\ 1 < j + 1
    BY <1>1
  <2>2. CASE i \in 1..Len(v)
    BY <1>4, <2>1, <2>2 DEF Before
  <2>3. CASE i = Len(v) + 1
    BY <1>1, <1>2, <1>4, <2>1, <2>3 DEF Sorted
  <2> QED
    BY <1>5, <2>2, <2>3
<1> QED
  BY <1>2, <1>3, <1>6, <1>7, <1>8

(* LockedQueue::readd: the packets of v in front of those of q. *)
LEMMA ConcatOrder ==
  ASSUME NEW v \in Seq(Packet), NEW q \in Seq(Packet), NEW lo, NEW hi,
         Sorted(v), Within(v, lo, hi), Before(v, q), Sorted(q), Within(q, lo, hi)
  PROVE  v \o q \in Seq(Packet) /\ Sorted(v \o q) /\ Within(v \o q, lo, hi)
<1>1. /\ v \o q \in Seq(Packet) /\ Len(v \o q) = Len(v) + Len(q)
      /\ Len(v) \in Nat /\ Len(q) \in Nat
      /\ \A i \in 1..(Len(v) + Len(q)) :
            (v \o q)[i] = IF i <= Len(v) THEN v[i] ELSE q[i - Len(v)]
  BY ConcatProperties, LenProperties
<1>2. PICK w \in Seq(Packet) : w = v \o q
  BY <1>1
<1>3. \A i \in 1..Len(w) : \/ i \in 1..Len(v) /\ w[i] = v[i]
                           \/ /\ i > Len(v) /\ i - Len(v) \in 1..Len(q)
                              /\ w[i] = q[i - Len(v)]
  BY <1>1, <1>2
<1>4. Sorted(w)
  <2> SUFFICES ASSUME NEW i \in 1..Len(w), NEW j \in 1..Len(w), i < j,
                      ForPlayer(w[i]), ForPlayer(w[j])
               PROVE  w[i].seq < w[j].seq
    BY DEF Sorted
  <2>1. CASE j \in 1..Len(v) /\ w[j] = v[j]
    <3>1. i \in 1..Len(v) /\ w[i] = v[i]
      BY <1>1, <1>3, <2>1
    <3> QED
      BY <2>1, <3>1 DEF Sorted
  <2>2. CASE j > Len(v) /\ j - Len(v) \in 1..Len(q) /\ w[j] = q[j - Len(v)]
    <3>1. CASE i \in 1..Len(v) /\ w[i] = v[i]
      BY <2>2, <3>1 DEF Before
    <3>2. CASE i > Len(v) /\ i - Len(v) \in 1..Len(q) /\ w[i] = q[i - Len(v)]
      <4>1. i - Len(v) < j - Len(v)
        BY <1>1
      <4> QED
        BY <2>2, <3>2, <4>1 DEF Sorted
    <3> QED
      BY <1>3, <3>1, <3>2
  <2> QED
    BY <1>3, <2>1, <2>2
<1>5. Within(w, lo, hi)
  BY <1>3 DEF Within
<1> QED
  BY <1>1, <1>2, <1>4, <1>5

(* What is put aside, if anything, comes before the packets in the queue. *)
LEMMA PutAside ==
  ASSUME IInv, OrderInv, current # None
  PROVE  /\ current \in Ids /\ recv[current] \in Seq(Packet) /\ requeue \in Seq(Packet)
         /\ lastHandled[current] \in Nat /\ received \in Nat
         /\ lastHandled[current] <= received
         /\ Sorted(requeue) /\ Within(requeue, lastHandled[current], received)
         /\ Before(requeue, recv[current])
         /\ Sorted(recv[current]) /\ Within(recv[current], lastHandled[current], received)
<1>1. current \in Ids
  BY DEF IInv, TypeInv
<1>2. /\ Sorted(requeue) /\ Within(requeue, lastHandled[current], received)
      /\ Before(requeue, recv[current])
  <2>1. CASE requeue = <<>>
    BY <2>1, EmptyOrder
  <2>2. CASE requeue # <<>>
    BY <2>2 DEF OrderInv
  <2> QED
    BY <2>1, <2>2
<1> QED
  BY <1>1, <1>2 DEF OrderInv

(* No packet brings the player: those of a login and of a change of maps do. *)
LEMMA NoPlayerOutcome ==
  ASSUME NEW k \in Session, k.player = "none", NEW p, NEW o \in Outcomes(k, p)
  PROVE  o.sess.player = "none"
<1> DEFINE to(r) == [sess |-> r, kick |-> FALSE, connect |-> FALSE]
           l == [k EXCEPT !.loading = TRUE]
           f == [k EXCEPT !.force = TRUE]
           lf == [l EXCEPT !.force = TRUE]
           e == [k EXCEPT !.recent = FALSE]
           w == [k EXCEPT !.player = IF @ = "between" THEN "world" ELSE @]
<1>1. \E r \in {l, f, lf, e, w, k} :
        \/ o = to(r)
        \/ o = [to(r) EXCEPT !.kick = TRUE]
        \/ o = [to(r) EXCEPT !.connect = TRUE]
  BY DEF Outcomes
<1>2. /\ l.player = "none" /\ f.player = "none" /\ e.player = "none" /\ w.player = "none"
  BY DEF Session
<1>3. lf.player = "none"
  <2>1. l \in Session
    BY SessionRecord
  <2> QED
    BY <1>2, <2>1 DEF Session
<1> HIDE DEF l, f, lf, e, w
<1>4. ASSUME NEW r, o = to(r) \/ o = [to(r) EXCEPT !.kick = TRUE]
                               \/ o = [to(r) EXCEPT !.connect = TRUE]
      PROVE  o.sess = r
  BY <1>4
<1> QED
  BY <1>1, <1>2, <1>3, <1>4

LEMMA HandlePacketOrder ==
  ASSUME IInv, OrderInv, HandlePacket
  PROVE  OrderInv'
<1> DEFINE k == sess[current]
           q == recv[current]
           p == Head(q)
           early == ForPlayer(p) /\ k.player = "none" /\ ~k.recent
           handled == ForPlayer(p) /\ k.player = "world"
           lo == lastHandled[current]
           hi == received
<1>1. /\ wpc = "packets" /\ wpc' = "packets" /\ q # <<>>
      /\ recv' = [recv EXCEPT ![current] = Tail(q)]
      /\ requeue' = (IF early THEN Append(requeue, p) ELSE requeue)
      /\ lastHandled' = IF handled THEN [lastHandled EXCEPT ![current] = p.seq] ELSE lastHandled
      /\ UNCHANGED <<received, current>>
      /\ \E o \in Outcomes(k, p) : sess' = [sess EXCEPT ![current] = o.sess]
  BY DEF HandlePacket, At, More, netVars, ForPlayer
<1>2. current # None
  BY <1>1 DEF IInv, World
<1>3. /\ current \in Ids /\ q \in Seq(Packet) /\ requeue \in Seq(Packet)
      /\ lo \in Nat /\ hi \in Nat /\ lo <= hi
      /\ Sorted(requeue) /\ Within(requeue, lo, hi) /\ Before(requeue, q)
      /\ Sorted(q) /\ Within(q, lo, hi)
  BY <1>2, PutAside
<1>4. k \in Session
  BY <1>3 DEF IInv, TypeInv
<1>5. k.player = "none" => sess'[current].player = "none"
  <2>1. PICK o \in Outcomes(k, p) : sess' = [sess EXCEPT ![current] = o.sess]
    BY <1>1
  <2>2. sess'[current] = o.sess
    BY <1>3, <2>1 DEF IInv, TypeInv
  <2> QED
    BY <1>4, <2>2, NoPlayerOutcome
<1> HIDE DEF k, q, lo, hi
<1>6. Tail(q) \in Seq(Packet) /\ p \in Packet
  BY <1>1, <1>3, TailFacts
<1>7. /\ Sorted(Tail(q)) /\ Within(Tail(q), lo, hi)
      /\ ForPlayer(p) => Within(Tail(q), p.seq, hi) /\ lo < p.seq /\ p.seq <= hi
      /\ Before(requeue, Tail(q))
  BY <1>1, <1>3, TailOrder
<1>8. p.seq \in Nat
  BY <1>6 DEF Packet
<1>9. /\ recv' \in [Ids -> Seq(Packet)]
      /\ \A m \in Ids : recv'[m] = IF m = current THEN Tail(q) ELSE recv[m]
  BY <1>1, <1>3, <1>6 DEF OrderInv
<1>10. /\ lastHandled' \in [Ids -> Nat]
       /\ \A m \in Ids : m # current => lastHandled'[m] = lastHandled[m]
       /\ lastHandled'[current] = IF handled THEN p.seq ELSE lo
  BY <1>1, <1>3, <1>8 DEF OrderInv, lo
<1> HIDE DEF p
<1>11. Within(Tail(q), lastHandled'[current], hi) /\ lastHandled'[current] <= hi
  BY <1>3, <1>7, <1>10
<1>12. ASSUME NEW m \in Ids
       PROVE  /\ Sorted(recv'[m]) /\ Within(recv'[m], lastHandled'[m], received')
              /\ lastHandled'[m] <= received'
  <2>1. CASE m = current
    BY <1>1, <1>7, <1>9, <1>11, <2>1 DEF hi
  <2>2. CASE m # current
    BY <1>1, <1>9, <1>10, <2>2 DEF OrderInv
  <2> QED
    BY <2>1, <2>2
<1>13. /\ requeue' \in Seq(Packet)
       /\ requeue' # <<>> =>
            /\ sess'[current].player = "none"
            /\ Sorted(requeue') /\ Within(requeue', lastHandled'[current], received')
            /\ Before(requeue', recv'[current])
  <2>1. CASE early
    <3>1. lastHandled'[current] = lo /\ requeue' = Append(requeue, p) /\ received' = hi
          /\ recv'[current] = Tail(q) /\ sess'[current].player = "none"
      BY <1>1, <1>3, <1>5, <1>9, <1>10, <2>1 DEF hi
    <3>2. LET w == Append(requeue, Head(q)) IN
          w \in Seq(Packet) /\ Sorted(w) /\ Within(w, lo, hi) /\ Before(w, Tail(q))
      BY <1>1, <1>3, AppendOrder
    <3> QED
      BY <3>1, <3>2 DEF p
  <2>2. CASE ~early /\ requeue # <<>>
    <3>1. k.player = "none"
      BY <2>2 DEF OrderInv, k
    <3>2. lastHandled'[current] = lo /\ requeue' = requeue /\ received' = hi
          /\ recv'[current] = Tail(q) /\ sess'[current].player = "none"
      BY <1>1, <1>3, <1>5, <1>9, <1>10, <2>2, <3>1 DEF hi
    <3> QED
      BY <1>3, <1>7, <3>2
  <2>3. CASE ~early /\ requeue = <<>>
    BY <1>1, <1>3, <2>3
  <2> QED
    BY <2>1, <2>2, <2>3
<1>14. received' \in Nat /\ current' = current /\ wpc' \in {"packets", "readd"}
  BY <1>1, <1>3 DEF hi
<1> QED
  BY <1>2, <1>9, <1>10, <1>12, <1>13, <1>14 DEF OrderInv

LEMMA ReaddOrder ==
  ASSUME IInv, OrderInv, Readd
  PROVE  OrderInv'
<1> DEFINE w == requeue \o recv[current]
<1>1. /\ wpc = "readd" /\ recv' = [recv EXCEPT ![current] = w] /\ requeue' = <<>>
      /\ UNCHANGED <<received, lastHandled>>
  BY DEF Readd, At, netVars
<1>2. current # None
  BY <1>1 DEF IInv, World
<1>3. /\ current \in Ids /\ recv[current] \in Seq(Packet) /\ requeue \in Seq(Packet)
      /\ Sorted(requeue) /\ Within(requeue, lastHandled[current], received)
      /\ Before(requeue, recv[current])
      /\ Sorted(recv[current]) /\ Within(recv[current], lastHandled[current], received)
  BY <1>2, PutAside
<1>4. w \in Seq(Packet) /\ Sorted(w) /\ Within(w, lastHandled[current], received)
  BY <1>3, ConcatOrder
<1> HIDE DEF w
<1>5. /\ recv' \in [Ids -> Seq(Packet)]
      /\ \A m \in Ids : recv'[m] = IF m = current THEN w ELSE recv[m]
  BY <1>1, <1>3, <1>4 DEF OrderInv
<1>6. <<>> \in Seq(Packet)
  OBVIOUS
<1> QED
  BY <1>1, <1>4, <1>5, <1>6 DEF OrderInv

LEMMA DeleteSessionOrder ==
  ASSUME IInv, OrderInv, DeleteSession
  PROVE  OrderInv'
<1>1. /\ wpc = "delete" /\ recv' = [recv EXCEPT ![doomed] = <<>>]
      /\ lastHandled' = [lastHandled EXCEPT ![doomed] = 0]
      /\ UNCHANGED <<requeue, received>>
  BY DEF DeleteSession, At, netVars
<1>2. requeue = <<>> /\ doomed \in Ids
  BY <1>1 DEF OrderInv, IInv, Dying, TypeInv
<1>3. <<>> \in Seq(Packet)
  OBVIOUS
<1>4. /\ recv' \in [Ids -> Seq(Packet)] /\ lastHandled' \in [Ids -> Nat]
      /\ \A m \in Ids : m # doomed => recv'[m] = recv[m] /\ lastHandled'[m] = lastHandled[m]
      /\ recv'[doomed] = <<>> /\ lastHandled'[doomed] = 0
  BY <1>1, <1>2, <1>3 DEF OrderInv
<1>5. ASSUME NEW m \in Ids
      PROVE  /\ Sorted(recv'[m]) /\ Within(recv'[m], lastHandled'[m], received)
             /\ lastHandled'[m] <= received
  <2>1. CASE m = doomed
    BY <1>4, <2>1, EmptyOrder DEF OrderInv
  <2>2. CASE m # doomed
    BY <1>4, <2>2 DEF OrderInv
  <2> QED
    BY <2>1, <2>2
<1> QED
  BY <1>1, <1>2, <1>4, <1>5 DEF OrderInv

(* The other steps of the world thread. *)
LEMMA WorldOrder ==
  ASSUME IInv, OrderInv,
         \/ CloseSocket \/ OnClose \/ LinkRefused \/ LinkFound \/ LinkInstanceSocket
         \/ LinksEnd \/ AddSession \/ AddSessionsEnd \/ StartUpdate \/ PacketsEnd
         \/ ProcessQueryCallbacks \/ LogoutPlayer \/ CleanUp
  PROVE  OrderInv'
<1>1. CASE CloseSocket \/ OnClose \/ PacketsEnd
  <2>1. /\ UNCHANGED <<recv, requeue, received, lastHandled, sess, current>>
        /\ wpc' = wpc \/ wpc' = "readd"
    BY <1>1 DEF CloseSocket, OnClose, PacketsEnd, netVars, updateVars
  <2>2. requeue # <<>> => wpc' \in {"packets", "readd"}
    BY <2>1 DEF OrderInv
  <2> QED
    BY <2>1, <2>2, OrderStays
<1>2. CASE \/ LinkRefused \/ LinkFound \/ LinkInstanceSocket
           \/ LinksEnd \/ AddSession \/ AddSessionsEnd \/ StartUpdate
           \/ ProcessQueryCallbacks \/ LogoutPlayer \/ CleanUp
  <2>1. /\ UNCHANGED <<recv, requeue, received, lastHandled>>
        /\ wpc \notin {"packets", "readd"}
    BY <1>2 DEF LinkRefused, LinkFound, LinkInstanceSocket, LinksEnd, AddSession,
       AddSessionsEnd, StartUpdate, ProcessQueryCallbacks, LogoutPlayer, CleanUp, At,
       netVars, worldVars, updateVars
  <2>2. requeue = <<>>
    BY <2>1 DEF OrderInv
  <2> QED
    BY <2>1, <2>2, OrderStays
<1> QED
  BY <1>1, <1>2

LEMMA NextKeepsOrder == IInv /\ OrderInv /\ [Next]_vars => OrderInv'
<1> SUFFICES ASSUME IInv, OrderInv, [Next]_vars PROVE OrderInv'
  OBVIOUS
<1>1. CASE WorldThread
  BY <1>1, NoFault, WorldOrder, DeleteSessionOrder, HandlePacketOrder, ReaddOrder DEF WorldThread
<1>2. ASSUME NEW n \in Ids, NetworkThread(n) PROVE OrderInv'
  <2>1. <<n, "realm">> \in Sockets /\ <<n, "inst">> \in Sockets
    BY SocketFacts
  <2> QED
    BY <1>2, <2>1, NetworkOrder, QueuePacketOrder
<1>3. CASE UNCHANGED vars
  <2>1. UNCHANGED <<recv, requeue, received, lastHandled, current, wpc, sess>>
    BY <1>3 DEF vars, netVars, worldVars, updateVars
  <2>2. requeue # <<>> => wpc' \in {"packets", "readd"}
    BY <2>1 DEF OrderInv
  <2> QED
    BY <2>1, <2>2, OrderStays
<1> QED
  BY <1>1, <1>2, <1>3, NoFault DEF Next

LEMMA InitOrder == Init => OrderInv
<1> SUFFICES ASSUME Init PROVE OrderInv
  OBVIOUS
<1>1. /\ recv = [n \in Ids |-> <<>>] /\ requeue = <<>> /\ received = 0
      /\ lastHandled = [n \in Ids |-> 0]
  BY DEF Init
<1>2. <<>> \in Seq(Packet)
  OBVIOUS
<1>3. \A n \in Ids : recv[n] = <<>> /\ lastHandled[n] = 0
  BY <1>1
<1> QED
  BY <1>1, <1>2, <1>3, EmptyOrder DEF OrderInv

(* The packets for the player are handled in the order in which they were
   received, although two threads take them and some are put aside and put back:
   proved while each connection acknowledges its encryption once, when asked. *)
THEOREM HandledInOrderCorrect == Spec => [](strays = 0 => HandledInOrder)
<1>1. IInv /\ OrderInv => HandledInOrder
  <2> SUFFICES ASSUME IInv, OrderInv, NEW n \in Ids
               PROVE  LET w == Waiting(n) IN
                      \A i \in DOMAIN w : w[i].kind \in LoggedIn =>
                        /\ w[i].seq > lastHandled[n]
                        /\ \A j \in DOMAIN w :
                              i < j /\ w[j].kind \in LoggedIn => w[i].seq < w[j].seq
    BY DEF HandledInOrder
  <2>1. PICK w : w = Waiting(n)
    OBVIOUS
  <2>2. w \in Seq(Packet) /\ Sorted(w) /\ Within(w, lastHandled[n], received)
    <3>1. CASE n = current
      <4>1. current # None
        BY <3>1, SocketFacts
      <4>2. /\ recv[current] \in Seq(Packet) /\ requeue \in Seq(Packet)
            /\ Sorted(requeue) /\ Within(requeue, lastHandled[current], received)
            /\ Before(requeue, recv[current])
            /\ Sorted(recv[current]) /\ Within(recv[current], lastHandled[current], received)
        BY <4>1, PutAside
      <4>3. LET v == requeue \o recv[current] IN
            v \in Seq(Packet) /\ Sorted(v) /\ Within(v, lastHandled[current], received)
        BY <4>2, ConcatOrder
      <4> QED
        BY <2>1, <3>1, <4>3 DEF Waiting
    <3>2. CASE n # current
      BY <2>1, <3>2 DEF Waiting, OrderInv
    <3> QED
      BY <3>1, <3>2
  <2>3. DOMAIN w = 1..Len(w) /\ lastHandled[n] \in Nat
    BY <2>2, LenProperties DEF OrderInv
  <2>4. \A i \in 1..Len(w) : w[i].seq \in Nat
    <3>1. \A i \in 1..Len(w) : w[i] \in Packet
      BY <2>2, ElementOfSeq
    <3> QED
      BY <3>1 DEF Packet
  <2>5. ASSUME NEW i \in DOMAIN w, w[i].kind \in LoggedIn
        PROVE  /\ w[i].seq > lastHandled[n]
               /\ \A j \in DOMAIN w : i < j /\ w[j].kind \in LoggedIn => w[i].seq < w[j].seq
    BY <2>2, <2>3, <2>4, <2>5 DEF Sorted, Within, ForPlayer
  <2> QED
    BY <2>1, <2>5
<1> DEFINE Ordered == strays = 0 => OrderInv
<1>2. Init => Ordered
  BY InitOrder
<1>3. InTurn /\ Ordered /\ [Next]_vars => Ordered'
  <2> SUFFICES ASSUME InTurn, Ordered, [Next]_vars, strays' = 0 PROVE OrderInv'
    OBVIOUS
  <2>1. strays = 0
    BY StraysCounted DEF InTurn
  <2> QED
    BY <2>1, NextKeepsOrder DEF InTurn
<1>4. InTurn /\ Ordered => (strays = 0 => HandledInOrder)
  BY <1>1 DEF InTurn
<1> QED
  BY <1>2, <1>3, <1>4, Invariance, PTL DEF Spec
=============================================================================
