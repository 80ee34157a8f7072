------------------------- MODULE WorldSessionsProofs -------------------------
(***************************************************************************)
(* Proofs about WorldSessions, for any accounts, limit, tolerance and      *)
(* number of sessions: the login queue holds no dangling session and its   *)
(* length never exceeds that of m_sessions, every client in it knows its   *)
(* position, nobody waits while there is room, the limit is kept, and who  *)
(* waits longer is served first.                                           *)
(*                                                                         *)
(* The numbers are proved from a count of accounts: those admitted, those  *)
(* in the queue and the one that is being removed are all in m_sessions,   *)
(* and none of them is two of these.                                       *)
(***************************************************************************)
EXTENDS WorldSessions, SequenceTheorems, FiniteSetTheorems,
        FunctionTheorems, TLAPS

Session == [account: Accounts \cup {NoAccount}, alive: BOOLEAN, open: BOOLEAN,
            forceExit: BOOLEAN, inQueue: BOOLEAN, init: {"no", "asked", "done"},
            player: {"none", "loading", "world"}, told: Int, age: Int]

Objects == [Ids -> Session]
Tables  == [Accounts -> Ids \cup {None}]

(* Every variable has its type; m_disconnects holds times that have passed. *)
TypeInv ==
    /\ obj \in Objects
    /\ made \in 0..MaxSessions
    /\ addSessQueue \in Seq(Ids)
    /\ sessions \in Tables
    /\ queued \in Seq(Ids)
    /\ disconnects \in [Accounts -> Int]
    /\ now \in Nat
    /\ pc \in {"idle", "add", "update"}
    /\ todo \subseteq Accounts
    /\ \A a \in Accounts : disconnects[a] = Never \/ disconnects[a] \in 0..now

Distinct(s) == \A i, j \in 1..Len(s) : s[i] = s[j] => i = j

In(x, s) == \E i \in 1..Len(s) : s[i] = x

(* m_sessions m has live sessions o, each under its account. *)
Registered(o, m) ==
    \A a \in Accounts : m[a] # None => o[m[a]].alive /\ o[m[a]].account = a

(* The queue q has, once, sessions of m that were not admitted and that know
   their position. *)
Queue(o, q, m) ==
    /\ Distinct(q)
    /\ \A i \in 1..Len(q) :
        /\ o[q[i]].alive /\ o[q[i]].inQueue /\ o[q[i]].init = "no" /\ o[q[i]].told = i
        /\ o[q[i]].account \in Accounts /\ m[o[q[i]].account] = q[i]

(* The sessions s that were handed over exist, and are in nothing else yet. *)
HandedOver(o, s, m) ==
    /\ Distinct(s)
    /\ \A i \in 1..Len(s) : /\ o[s[i]].alive /\ o[s[i]].init = "no"
                            /\ o[s[i]].account \in Accounts /\ m[o[s[i]].account] # s[i]

(* Sessions that were not made do not exist. *)
NotMade(o, c) == \A n \in Ids : o[n].alive => n <= c

(* UpdateSessions updates the sessions of m_sessions. *)
Loop == pc = "update" => \A a \in todo : sessions[a] # None

(* With a limit, a queue means that it is reached; without one nobody waits. *)
Room == queued # <<>> => Limit > 0 /\ SessionCount(sessions) - Len(queued) >= Limit

IInv ==
    /\ TypeInv /\ Loop /\ NotMade(obj, made) /\ HandedOver(obj, addSessQueue, sessions)
    /\ Registered(obj, sessions) /\ Queue(obj, queued, sessions)
    /\ Room /\ LimitRespected

-----------------------------------------------------------------------------
(* Sequences. *)

LEMMA RemoveAtFacts ==
  ASSUME NEW S, NEW q \in Seq(S), NEW at \in 1..Len(q)
  PROVE  LET t == RemoveAt(q, at) IN
         /\ t \in Seq(S) /\ Len(t) = Len(q) - 1
         /\ \A i \in 1..Len(t) : t[i] = IF i < at THEN q[i] ELSE q[i + 1]
<1> DEFINE u == SubSeq(q, 1, at - 1)
           v == SubSeq(q, at + 1, Len(q))
<1>1. Len(q) \in Nat /\ at \in Nat \ {0} /\ at <= Len(q)
  OBVIOUS
<1>2. u \in Seq(S) /\ Len(u) = at - 1 /\ \A i \in 1..(at - 1) : u[i] = q[i]
  <2>1. \A i \in 1..(at - 1) : q[i] \in S
    BY <1>1
  <2>2. /\ u \in Seq(S) /\ Len(u) = IF 1 <= at - 1 THEN at - 1 - 1 + 1 ELSE 0
        /\ \A i \in 1..(at - 1 - 1 + 1) : u[i] = q[1 + i - 1]
    BY <1>1, <2>1, SubSeqProperties
  <2> QED
    BY <1>1, <2>2
<1>3. v \in Seq(S) /\ Len(v) = Len(q) - at /\ \A i \in 1..(Len(q) - at) : v[i] = q[at + i]
  <2>1. \A i \in (at + 1)..Len(q) : q[i] \in S
    BY <1>1
  <2>2. /\ v \in Seq(S) /\ Len(v) = IF at + 1 <= Len(q) THEN Len(q) - (at + 1) + 1 ELSE 0
        /\ \A i \in 1..(Len(q) - (at + 1) + 1) : v[i] = q[(at + 1) + i - 1]
    BY <1>1, <2>1, SubSeqProperties
  <2> QED
    BY <1>1, <2>2
<1> HIDE DEF u, v
<1>4. /\ u \o v \in Seq(S) /\ Len(u \o v) = Len(q) - 1
      /\ \A i \in 1..(Len(q) - 1) :
            (u \o v)[i] = IF i <= at - 1 THEN u[i] ELSE v[i - (at - 1)]
  <2>1. Len(u) + Len(v) = Len(q) - 1
    BY <1>1, <1>2, <1>3
  <2>2. /\ u \o v \in Seq(S) /\ Len(u \o v) = Len(u) + Len(v)
        /\ \A i \in 1..(Len(u) + Len(v)) :
              (u \o v)[i] = IF i <= Len(u) THEN u[i] ELSE v[i - Len(u)]
    BY <1>2, <1>3, ConcatProperties
  <2> QED
    BY <1>2, <2>1, <2>2
<1>5. ASSUME NEW i \in 1..(Len(q) - 1)
      PROVE  (u \o v)[i] = IF i < at THEN q[i] ELSE q[i + 1]
  <2>1. CASE i < at
    BY <1>1, <1>2, <1>4, <2>1
  <2>2. CASE ~(i < at)
    <3>1. i - (at - 1) \in 1..(Len(q) - at) /\ at + (i - (at - 1)) = i + 1 /\ ~(i <= at - 1)
      BY <1>1, <2>2
    <3> QED
      BY <1>3, <1>4, <2>2, <3>1
  <2> QED
    BY <2>1, <2>2
<1> QED
  BY <1>4, <1>5 DEF RemoveAt, u, v

LEMMA TailFacts ==
  ASSUME NEW S, NEW q \in Seq(S), q # <<>>
  PROVE  /\ Len(q) \in Nat \ {0} /\ Head(q) = q[1] /\ Head(q) \in S /\ 1 \in 1..Len(q)
         /\ Tail(q) \in Seq(S) /\ Len(Tail(q)) = Len(q) - 1
         /\ \A i \in 1..Len(Tail(q)) : Tail(q)[i] = q[i + 1] /\ i + 1 \in 1..Len(q)
<1>1. /\ Len(q) \in Nat \ {0} /\ Head(q) = q[1] /\ q[1] \in S
      /\ Tail(q) \in Seq(S) /\ Len(Tail(q)) = Len(q) - 1
      /\ \A i \in 1..Len(Tail(q)) : Tail(q)[i] = q[i + 1]
  BY HeadTailProperties
<1> QED
  BY <1>1

LEMMA AppendFacts ==
  ASSUME NEW S, NEW q \in Seq(S), NEW x \in S
  PROVE  /\ Append(q, x) \in Seq(S) /\ Len(Append(q, x)) = Len(q) + 1
         /\ \A i \in 1..Len(q) : Append(q, x)[i] = q[i]
         /\ Append(q, x)[Len(q) + 1] = x /\ Len(q) \in Nat
OBVIOUS

-----------------------------------------------------------------------------
(* What the operations of the World do to the sessions and the queue. *)

(* All of a session that TellPositions leaves alone. *)
SameButTold(k, l) ==
    /\ l.account = k.account /\ l.alive = k.alive /\ l.age = k.age
    /\ l.init = k.init /\ l.inQueue = k.inQueue

LEMMA TellFacts ==
  ASSUME NEW o \in Objects, NEW q \in Seq(Ids), Distinct(q), NEW i \in Nat \ {0}
  PROVE  /\ TellPositions(o, q, i) \in Objects
         /\ \A x \in Ids : SameButTold(o[x], TellPositions(o, q, i)[x])
         /\ \A j \in 1..Len(q) : TellPositions(o, q, i)[q[j]].told =
                                    IF j >= i THEN j ELSE o[q[j]].told
         /\ \A x \in Ids : ~In(x, q) => TellPositions(o, q, i)[x] = o[x]
<1> DEFINE t == TellPositions(o, q, i)
           pos(x) == CHOOSE j \in i..Len(q) : q[j] = x
<1>1. t = [x \in Ids |-> IF \E j \in i..Len(q) : q[j] = x
                         THEN [o[x] EXCEPT !.told = pos(x)] ELSE o[x]]
  BY DEF TellPositions
<1>2. Len(q) \in Nat
  OBVIOUS
<1>3. ASSUME NEW x \in Ids, \E j \in i..Len(q) : q[j] = x
      PROVE  pos(x) \in i..Len(q) /\ q[pos(x)] = x /\ pos(x) \in Int
  BY <1>2, <1>3
<1>4. ASSUME NEW j \in 1..Len(q), j >= i PROVE pos(q[j]) = j
  <2>1. q[j] \in Ids /\ j \in i..Len(q)
    BY <1>2, <1>4
  <2>2. pos(q[j]) \in i..Len(q) /\ q[pos(q[j])] = q[j]
    BY <1>3, <2>1
  <2> QED
    BY <1>2, <2>2 DEF Distinct
<1> HIDE DEF pos
<1>5. ASSUME NEW x \in Ids PROVE o[x] \in Session
  BY DEF Objects
<1>6. ASSUME NEW x \in Ids PROVE t[x] \in Session /\ SameButTold(o[x], t[x])
  <2>1. CASE \E j \in i..Len(q) : q[j] = x
    <3>1. t[x] = [o[x] EXCEPT !.told = pos(x)] /\ pos(x) \in Int
      BY <1>1, <1>3, <2>1
    <3>2. t[x] \in Session
      BY <1>5, <3>1 DEF Session
    <3> QED
      BY <1>5, <3>1, <3>2 DEF Session, SameButTold
  <2>2. CASE ~\E j \in i..Len(q) : q[j] = x
    BY <1>1, <1>5, <2>2 DEF SameButTold
  <2> QED
    BY <2>1, <2>2
<1>7. t \in Objects
  BY <1>1, <1>6 DEF Objects
<1>8. ASSUME NEW j \in 1..Len(q)
      PROVE  t[q[j]].told = IF j >= i THEN j ELSE o[q[j]].told
  <2>1. q[j] \in Ids
    BY <1>2
  <2>2. CASE j >= i
    <3>1. \E k \in i..Len(q) : q[k] = q[j]
      BY <1>2, <2>2
    <3>2. t[q[j]] = [o[q[j]] EXCEPT !.told = j]
      BY <1>1, <1>4, <2>1, <2>2, <3>1
    <3> QED
      BY <1>5, <2>1, <2>2, <3>2 DEF Session
  <2>3. CASE ~(j >= i)
    <3>1. ~\E k \in i..Len(q) : q[k] = q[j]
      BY <1>2, <2>3 DEF Distinct
    <3> QED
      BY <1>1, <2>1, <2>3, <3>1
  <2> QED
    BY <2>2, <2>3
<1>9. ASSUME NEW x \in Ids, ~In(x, q) PROVE t[x] = o[x]
  <2>1. ~\E j \in i..Len(q) : q[j] = x
    BY <1>2, <1>9 DEF In
  <2> QED
    BY <1>1, <2>1
<1> QED
  BY <1>6, <1>7, <1>8, <1>9

(* The sessions that are not in the queue, as RemoveQueuedPlayer counts them:
   without the one that it removes. *)
ActiveBut(q, n) ==
    LET active == SessionCount(sessions) - Len(q)
    IN  IF ~In(n, q) /\ active > 0 THEN active - 1 ELSE active

(* Nobody is admitted: there is nobody or no room. *)
NobodyIn(o, q, n, r) ==
    /\ Len(r.queued) = IF In(n, q) THEN Len(q) - 1 ELSE Len(q)
    /\ \A x \in Ids : r.obj[x].init = o[x].init
    /\ r.queued = <<>> \/ (Limit # 0 /\ ~(ActiveBut(q, n) < Limit))

(* Session h, which is another of the queue, is admitted: there is room. *)
OneIn(o, q, n, r, h) ==
    /\ In(h, q) /\ h # n
    /\ Len(r.queued) = (IF In(n, q) THEN Len(q) - 1 ELSE Len(q)) - 1
    /\ \A x \in Ids \ {h} : r.obj[x].init = o[x].init
    /\ Limit = 0 \/ ActiveBut(q, n) < Limit

(* What RemoveQueuedPlayer makes of sessions o and queue q: session n is in the
   queue no longer, the first that is left was admitted if there was room, and
   the positions of the others are known to them. *)
Removed(o, q, n, r) ==
    /\ r.obj \in Objects /\ r.queued \in Seq(Ids) /\ Queue(r.obj, r.queued, sessions)
    /\ ~In(n, r.queued)
    /\ \A x \in Ids : In(x, r.queued) => In(x, q)
    /\ \A x \in Ids : /\ r.obj[x].account = o[x].account /\ r.obj[x].alive = o[x].alive
                      /\ r.obj[x].age = o[x].age
    /\ \A x \in Ids : ~In(x, q) => r.obj[x] = o[x]
    /\ NobodyIn(o, q, n, r) \/ \E h \in Ids : OneIn(o, q, n, r, h)

(* The queue without session n, which it has at most once, and from where on
   the positions change. *)
LEMMA RestFacts ==
  ASSUME NEW q \in Seq(Ids), Distinct(q), NEW n, NEW at,
         In(n, q) => at \in 1..Len(q) /\ q[at] = n, ~In(n, q) => at = Len(q) + 1,
         NEW rest, In(n, q) => rest = RemoveAt(q, at), ~In(n, q) => rest = q
  PROVE  /\ at \in Nat \ {0}
         /\ rest \in Seq(Ids) /\ Len(rest) = IF In(n, q) THEN Len(q) - 1 ELSE Len(q)
         /\ Distinct(rest)
         /\ \A j \in 1..Len(rest) : rest[j] \in Ids /\ rest[j] # n /\ In(rest[j], q)
         /\ \A j \in 1..Len(rest) : j < at => rest[j] = q[j]
<1>1. /\ Len(q) \in Nat /\ \A i \in 1..Len(q) : q[i] \in Ids
      /\ DOMAIN q = 1..Len(q)
  BY LenProperties
<1>3. CASE ~In(n, q)
  <2>1. rest = q /\ at = Len(q) + 1
    BY <1>3
  <2>2. \A j \in 1..Len(q) : q[j] # n /\ In(q[j], q)
    BY <1>3 DEF In
  <2> QED
    BY <1>1, <1>3, <2>1, <2>2
<1>4. CASE In(n, q)
  <2>1. at \in 1..Len(q) /\ q[at] = n
    BY <1>4
  <2>2. rest = RemoveAt(q, at)
    BY <1>4
  <2>3. /\ rest \in Seq(Ids) /\ Len(rest) = Len(q) - 1
        /\ \A j \in 1..Len(rest) : rest[j] = IF j < at THEN q[j] ELSE q[j + 1]
    BY <2>1, <2>2, RemoveAtFacts
  <2>4. ASSUME NEW j \in 1..Len(rest)
        PROVE  \/ j < at /\ j \in 1..Len(q) /\ rest[j] = q[j]
               \/ ~(j < at) /\ j + 1 \in 1..Len(q) /\ j + 1 # at /\ rest[j] = q[j + 1]
    <3>1. CASE j < at
      BY <1>1, <2>1, <2>3, <3>1
    <3>2. CASE ~(j < at)
      BY <1>1, <2>1, <2>3, <3>2
    <3> QED
      BY <3>1, <3>2
  <2>5. \A i, k \in 1..Len(q) : q[i] = q[k] => i = k
    BY DEF Distinct
  <2>6. Distinct(rest)
    <3> SUFFICES ASSUME NEW j \in 1..Len(rest), NEW k \in 1..Len(rest), rest[j] = rest[k]
                 PROVE  j = k
      BY DEF Distinct
    <3>1. j \in Int /\ k \in Int /\ at \in Int
      BY <1>1, <2>1, <2>3
    <3>2. CASE j < at /\ k < at
      BY <2>4, <2>5, <3>2
    <3>3. CASE ~(j < at) /\ ~(k < at)
      <4>1. j + 1 = k + 1
        BY <2>4, <2>5, <3>3
      <4> QED
        BY <3>1, <4>1
    <3>4. CASE j < at /\ ~(k < at)
      <4>1. j = k + 1
        BY <2>4, <2>5, <3>4
      <4> QED
        BY <3>1, <3>4, <4>1
    <3>5. CASE ~(j < at) /\ k < at
      <4>1. j + 1 = k
        BY <2>4, <2>5, <3>5
      <4> QED
        BY <3>1, <3>5, <4>1
    <3> QED
      BY <3>2, <3>3, <3>4, <3>5
  <2>7. \A j \in 1..Len(rest) : rest[j] \in Ids /\ rest[j] # n /\ In(rest[j], q)
    <3> SUFFICES ASSUME NEW j \in 1..Len(rest)
                 PROVE  rest[j] \in Ids /\ rest[j] # n /\ In(rest[j], q)
      OBVIOUS
    <3>1. PICK i \in 1..Len(q) : i # at /\ rest[j] = q[i]
      BY <1>1, <2>1, <2>4
    <3> QED
      BY <1>1, <2>1, <2>5, <3>1 DEF In
  <2>8. \A j \in 1..Len(rest) : j < at => rest[j] = q[j]
    BY <2>3
  <2> QED
    BY <1>4, <2>1, <2>3, <2>6, <2>7, <2>8
<1> QED
  BY <1>3, <1>4

(* Of every session nothing changes but what the queue has to do with. *)
SameIdentity(k, l) == l.account = k.account /\ l.alive = k.alive /\ l.age = k.age

(* The session that leaves the queue. *)
LEMMA LeaveFacts ==
  ASSUME NEW o \in Objects, NEW n \in Ids, NEW one, one = [o EXCEPT ![n].inQueue = FALSE]
  PROVE  /\ one \in Objects
         /\ \A x \in Ids : SameIdentity(o[x], one[x]) /\ one[x].init = o[x].init
         /\ \A x \in Ids \ {n} : one[x] = o[x]
<1>1. o[n] \in Session /\ \A x \in Ids : o[x] \in Session
  BY DEF Objects
<1>2. [o[n] EXCEPT !.inQueue = FALSE] \in Session
  BY <1>1 DEF Session
<1>3. one[n] = [o[n] EXCEPT !.inQueue = FALSE] /\ \A x \in Ids \ {n} : one[x] = o[x]
  BY DEF Objects
<1>4. one \in Objects
  BY <1>1, <1>2 DEF Objects
<1>5. SameIdentity(o[n], one[n]) /\ one[n].init = o[n].init
  BY <1>1, <1>3 DEF Session, SameIdentity
<1>6. \A x \in Ids : SameIdentity(o[x], one[x]) /\ one[x].init = o[x].init
  BY <1>3, <1>5 DEF SameIdentity
<1> QED
  BY <1>3, <1>4, <1>6

(* The session that is admitted. *)
LEMMA AdmitFacts ==
  ASSUME NEW o \in Objects, NEW h \in Ids
  PROVE  /\ InitializeSession(o, h) \in Objects
         /\ \A x \in Ids : SameIdentity(o[x], InitializeSession(o, h)[x])
         /\ \A x \in Ids \ {h} : InitializeSession(o, h)[x] = o[x]
         /\ InitializeSession(o, h)[h].init = "asked"
<1> DEFINE two == InitializeSession(o, h)
<1>1. o[h] \in Session /\ \A x \in Ids : o[x] \in Session
  BY DEF Objects
<1>2. [o[h] EXCEPT !.init = "asked"] \in Session
  BY <1>1 DEF Session
<1>3. two = [o EXCEPT ![h].init = "asked"]
  BY DEF InitializeSession
<1>4. two[h] = [o[h] EXCEPT !.init = "asked"] /\ \A x \in Ids \ {h} : two[x] = o[x]
  BY <1>3 DEF Objects
<1> HIDE DEF two
<1>5. two \in Objects
  BY <1>1, <1>2, <1>3 DEF Objects
<1>6. SameIdentity(o[h], two[h]) /\ two[h].init = "asked"
  BY <1>1, <1>4 DEF Session, SameIdentity
<1>7. \A x \in Ids : SameIdentity(o[x], two[x])
  BY <1>4, <1>6 DEF SameIdentity
<1> QED
  BY <1>4, <1>5, <1>6, <1>7 DEF two

(* Once session n is out of the queue: what is left is right but for the
   positions from at on. *)
LeftQueue(o, q, n, one, rest, at) ==
    /\ one \in Objects /\ rest \in Seq(Ids) /\ Distinct(rest) /\ at \in Nat \ {0}
    /\ Len(rest) = IF In(n, q) THEN Len(q) - 1 ELSE Len(q)
    /\ \A j \in 1..Len(rest) :
        LET x == rest[j] IN
        /\ x \in Ids /\ x # n /\ In(x, q)
        /\ one[x].alive /\ one[x].inQueue /\ one[x].init = "no"
        /\ one[x].account \in Accounts /\ sessions[one[x].account] = x
        /\ j < at => one[x].told = j
    /\ \A x \in Ids : SameIdentity(o[x], one[x]) /\ one[x].init = o[x].init
    /\ \A x \in Ids : ~In(x, q) => one[x] = o[x]

LEMMA LeftQueueFacts ==
  ASSUME NEW o \in Objects, NEW q \in Seq(Ids), Queue(o, q, sessions), NEW n \in Ids, NEW at,
         In(n, q) => at \in 1..Len(q) /\ q[at] = n, ~In(n, q) => at = Len(q) + 1,
         NEW rest, In(n, q) => rest = RemoveAt(q, at), ~In(n, q) => rest = q,
         NEW one, In(n, q) => one = [o EXCEPT ![n].inQueue = FALSE], ~In(n, q) => one = o
  PROVE  LeftQueue(o, q, n, one, rest, at)
<1>1. /\ rest \in Seq(Ids) /\ Distinct(rest) /\ at \in Nat \ {0}
      /\ Len(rest) = IF In(n, q) THEN Len(q) - 1 ELSE Len(q)
      /\ \A j \in 1..Len(rest) : rest[j] \in Ids /\ rest[j] # n /\ In(rest[j], q)
      /\ \A j \in 1..Len(rest) : j < at => rest[j] = q[j]
  <2>1. Distinct(q)
    BY DEF Queue
  <2> QED
    BY <2>1, RestFacts
<1>2. /\ one \in Objects
      /\ \A x \in Ids : SameIdentity(o[x], one[x]) /\ one[x].init = o[x].init
      /\ \A x \in Ids \ {n} : one[x] = o[x]
      /\ ~In(n, q) => one[n] = o[n]
  <2>1. CASE In(n, q)
    BY <2>1, LeaveFacts
  <2>2. CASE ~In(n, q)
    BY <2>2 DEF SameIdentity
  <2> QED
    BY <2>1, <2>2
<1>3. \A x \in Ids : ~In(x, q) => one[x] = o[x]
  BY <1>2
<1>4. ASSUME NEW j \in 1..Len(rest)
      PROVE  LET x == rest[j] IN
             /\ x \in Ids /\ x # n /\ In(x, q)
             /\ one[x].alive /\ one[x].inQueue /\ one[x].init = "no"
             /\ one[x].account \in Accounts /\ sessions[one[x].account] = x
             /\ j < at => one[x].told = j
  <2>1. rest[j] \in Ids /\ rest[j] # n /\ In(rest[j], q) /\ one[rest[j]] = o[rest[j]]
    BY <1>1, <1>2
  <2>2. PICK i \in 1..Len(q) : q[i] = rest[j]
    BY <2>1 DEF In
  <2>3. /\ o[q[i]].alive /\ o[q[i]].inQueue /\ o[q[i]].init = "no"
        /\ o[q[i]].account \in Accounts /\ sessions[o[q[i]].account] = q[i]
    BY DEF Queue
  <2>4. j < at => j \in 1..Len(q) /\ q[j] = rest[j] /\ o[q[j]].told = j
    <3>1. Len(rest) <= Len(q) /\ Len(q) \in Nat
      BY <1>1
    <3> QED
      BY <1>1, <3>1 DEF Queue
  <2> QED
    BY <2>1, <2>2, <2>3, <2>4
<1> QED
  BY <1>1, <1>2, <1>3, <1>4 DEF LeftQueue

(* Nobody is admitted: those behind the one that left have moved up. *)
LEMMA NobodyAdmitted ==
  ASSUME NEW o \in Objects, NEW q \in Seq(Ids), NEW n \in Ids, NEW at, NEW rest, NEW one,
         LeftQueue(o, q, n, one, rest, at), NEW t, t = TellPositions(one, rest, at)
  PROVE  /\ t \in Objects /\ Queue(t, rest, sessions) /\ ~In(n, rest)
         /\ \A x \in Ids : In(x, rest) => In(x, q)
         /\ \A x \in Ids : SameIdentity(o[x], t[x]) /\ t[x].init = o[x].init
         /\ \A x \in Ids : ~In(x, q) => t[x] = o[x]
<1>1. /\ one \in Objects /\ rest \in Seq(Ids) /\ Distinct(rest) /\ at \in Nat \ {0}
      /\ \A x \in Ids : SameIdentity(o[x], one[x]) /\ one[x].init = o[x].init
      /\ \A x \in Ids : ~In(x, q) => one[x] = o[x]
  BY DEF LeftQueue
<1>2. /\ t \in Objects
      /\ \A x \in Ids : SameButTold(one[x], t[x])
      /\ \A j \in 1..Len(rest) : t[rest[j]].told = IF j >= at THEN j ELSE one[rest[j]].told
      /\ \A x \in Ids : ~In(x, rest) => t[x] = one[x]
  BY <1>1, TellFacts, ZenonT(20)
<1>3. ~In(n, rest) /\ \A x \in Ids : In(x, rest) => In(x, q)
  <2>1. \A j \in 1..Len(rest) : rest[j] # n /\ In(rest[j], q)
    BY DEF LeftQueue
  <2>2. ~In(n, rest)
    BY <2>1 DEF In
  <2>3. ASSUME NEW x \in Ids, In(x, rest) PROVE In(x, q)
    <3>1. PICK j \in 1..Len(rest) : rest[j] = x
      BY <2>3 DEF In
    <3> QED
      BY <2>1, <3>1
  <2> QED
    BY <2>2, <2>3
<1>4. \A x \in Ids : SameIdentity(o[x], t[x]) /\ t[x].init = o[x].init
  BY <1>1, <1>2 DEF SameButTold, SameIdentity
<1>5. \A x \in Ids : ~In(x, q) => t[x] = o[x]
  BY <1>1, <1>2, <1>3
<1>6. ASSUME NEW j \in 1..Len(rest)
      PROVE  /\ t[rest[j]].alive /\ t[rest[j]].inQueue /\ t[rest[j]].init = "no"
             /\ t[rest[j]].told = j
             /\ t[rest[j]].account \in Accounts /\ sessions[t[rest[j]].account] = rest[j]
  <2>1. /\ rest[j] \in Ids
        /\ one[rest[j]].alive /\ one[rest[j]].inQueue /\ one[rest[j]].init = "no"
        /\ one[rest[j]].account \in Accounts /\ sessions[one[rest[j]].account] = rest[j]
        /\ j < at => one[rest[j]].told = j
    BY DEF LeftQueue
  <2>2. j < at \/ j >= at
    BY <1>1
  <2>3. t[rest[j]].told = j
    BY <1>2, <2>1, <2>2
  <2> QED
    BY <1>2, <2>1, <2>3 DEF SameButTold
<1>7. Queue(t, rest, sessions)
  BY <1>1, <1>6 DEF Queue
<1> QED
  BY <1>2, <1>3, <1>4, <1>5, <1>7

(* The first is admitted: all the others have moved up. *)
LEMMA FirstAdmitted ==
  ASSUME NEW o \in Objects, NEW q \in Seq(Ids), NEW n \in Ids, NEW at, NEW rest, NEW one,
         LeftQueue(o, q, n, one, rest, at), rest # <<>>,
         NEW two, two = InitializeSession(one, Head(rest)),
         NEW t, t = TellPositions(two, Tail(rest), 1)
  PROVE  /\ t \in Objects /\ Tail(rest) \in Seq(Ids)
         /\ Queue(t, Tail(rest), sessions) /\ ~In(n, Tail(rest))
         /\ Len(Tail(rest)) = Len(rest) - 1
         /\ \A x \in Ids : In(x, Tail(rest)) => In(x, q)
         /\ \A x \in Ids : SameIdentity(o[x], t[x])
         /\ Head(rest) \in Ids /\ In(Head(rest), q) /\ Head(rest) # n
         /\ \A x \in Ids \ {Head(rest)} : t[x].init = o[x].init
         /\ \A x \in Ids : ~In(x, q) => t[x] = o[x]
<1>1. /\ one \in Objects /\ rest \in Seq(Ids) /\ Distinct(rest)
      /\ \A x \in Ids : SameIdentity(o[x], one[x]) /\ one[x].init = o[x].init
      /\ \A x \in Ids : ~In(x, q) => one[x] = o[x]
      /\ \A j \in 1..Len(rest) : rest[j] \in Ids /\ rest[j] # n /\ In(rest[j], q)
  BY DEF LeftQueue
<1>2. PICK left : left = Tail(rest)
  OBVIOUS
<1>3. PICK h : h = Head(rest)
  OBVIOUS
<1>4. /\ Len(rest) \in Nat \ {0} /\ h = rest[1] /\ h \in Ids /\ 1 \in 1..Len(rest)
      /\ left \in Seq(Ids) /\ Len(left) = Len(rest) - 1
      /\ \A i \in 1..Len(left) : left[i] = rest[i + 1] /\ i + 1 \in 1..Len(rest)
  BY <1>1, <1>2, <1>3, TailFacts
<1>5. h # n /\ In(h, q)
  BY <1>1, <1>4
<1>6. \A i \in 1..Len(left) : left[i] \in Ids /\ left[i] # n /\ left[i] # h /\ In(left[i], q)
  <2> SUFFICES ASSUME NEW i \in 1..Len(left)
               PROVE  left[i] \in Ids /\ left[i] # n /\ left[i] # h /\ In(left[i], q)
    OBVIOUS
  <2>1. i + 1 # 1 /\ left[i] = rest[i + 1] /\ i + 1 \in 1..Len(rest)
    BY <1>4
  <2> QED
    BY <1>1, <1>4, <2>1 DEF Distinct
<1>7. Distinct(left)
  <2> SUFFICES ASSUME NEW i \in 1..Len(left), NEW j \in 1..Len(left), left[i] = left[j]
               PROVE  i = j
    BY DEF Distinct
  <2>1. i + 1 = j + 1
    BY <1>1, <1>4 DEF Distinct
  <2> QED
    BY <1>4, <2>1
<1>8. /\ two \in Objects
      /\ \A x \in Ids : SameIdentity(one[x], two[x])
      /\ \A x \in Ids \ {h} : two[x] = one[x]
  <2>1. two = InitializeSession(one, h)
    BY <1>3
  <2>2. one \in Objects /\ h \in Ids
    BY <1>1, <1>4
  <2>3. /\ InitializeSession(one, h) \in Objects
        /\ \A x \in Ids : SameIdentity(one[x], InitializeSession(one, h)[x])
        /\ \A x \in Ids \ {h} : InitializeSession(one, h)[x] = one[x]
    BY <2>2, AdmitFacts, Zenon
  <2> QED
    BY <2>1, <2>3
<1>9. /\ t \in Objects
      /\ \A x \in Ids : SameButTold(two[x], t[x])
      /\ \A j \in 1..Len(left) : t[left[j]].told = IF j >= 1 THEN j ELSE two[left[j]].told
      /\ \A x \in Ids : ~In(x, left) => t[x] = two[x]
  <2>1. t = TellPositions(two, left, 1) /\ 1 \in Nat \ {0}
    BY <1>2
  <2>2. left \in Seq(Ids) /\ Distinct(left) /\ two \in Objects
    BY <1>4, <1>7, <1>8
  <2> QED
    BY <2>1, <2>2, TellFacts
<1>10. ~In(n, left) /\ \A x \in Ids : In(x, left) => In(x, q)
  BY <1>6 DEF In
<1>11. \A x \in Ids : SameIdentity(o[x], t[x])
  BY <1>1, <1>8, <1>9 DEF SameButTold, SameIdentity
<1>12. \A x \in Ids \ {h} : t[x].init = o[x].init
  BY <1>1, <1>8, <1>9 DEF SameButTold
<1>13. \A x \in Ids : ~In(x, q) => t[x] = o[x]
  BY <1>1, <1>5, <1>8, <1>9, <1>10
<1>14. ASSUME NEW j \in 1..Len(left)
       PROVE  /\ t[left[j]].alive /\ t[left[j]].inQueue /\ t[left[j]].init = "no"
              /\ t[left[j]].told = j
              /\ t[left[j]].account \in Accounts /\ sessions[t[left[j]].account] = left[j]
  <2>1. left[j] = rest[j + 1] /\ j + 1 \in 1..Len(rest) /\ left[j] \in Ids /\ left[j] # h
    BY <1>4, <1>6
  <2>2. /\ one[left[j]].alive /\ one[left[j]].inQueue /\ one[left[j]].init = "no"
        /\ one[left[j]].account \in Accounts /\ sessions[one[left[j]].account] = left[j]
    BY <2>1 DEF LeftQueue
  <2>3. j >= 1
    BY <1>4
  <2>4. t[left[j]].told = j
    BY <1>9, <2>3
  <2> QED
    BY <1>8, <1>9, <2>1, <2>2, <2>4 DEF SameButTold
<1>15. Queue(t, left, sessions)
  BY <1>7, <1>14 DEF Queue
<1> QED
  BY <1>2, <1>3, <1>4, <1>5, <1>9, <1>10, <1>11, <1>12, <1>13, <1>15

(* The queue q without session n, and from where on the positions change. *)
Without(q, n, rest, at) ==
    /\ In(n, q) => at \in 1..Len(q) /\ q[at] = n /\ rest = RemoveAt(q, at)
    /\ ~In(n, q) => at = Len(q) + 1 /\ rest = q

Admitting(q, n, one, rest, r) ==
    /\ rest # <<>> /\ (Limit = 0 \/ ActiveBut(q, n) < Limit)
    /\ r.queued = Tail(rest)
    /\ r.obj = TellPositions(InitializeSession(one, Head(rest)), Tail(rest), 1)

NotAdmitting(q, n, one, rest, at, r) ==
    /\ rest = <<>> \/ (Limit # 0 /\ ~(ActiveBut(q, n) < Limit))
    /\ r.queued = rest /\ r.obj = TellPositions(one, rest, at)

(* RemoveQueuedPlayer in two steps: session n leaves, and the first that is
   left is admitted or not. *)
LEMMA RemoveSteps ==
  ASSUME NEW o \in Objects, NEW q \in Seq(Ids), Queue(o, q, sessions), NEW n \in Ids
  PROVE  LET r == RemoveQueuedPlayer(o, q, n) IN
         /\ r.found = In(n, q)
         /\ \E one, rest, at :
                /\ LeftQueue(o, q, n, one, rest, at) /\ Without(q, n, rest, at)
                /\ Admitting(q, n, one, rest, r) \/ NotAdmitting(q, n, one, rest, at, r)
<1> DEFINE found == Contains(q, n)
           at == IF found THEN CHOOSE i \in DOMAIN q : q[i] = n ELSE Len(q) + 1
           rest == IF found THEN RemoveAt(q, at) ELSE q
           active == GetActiveSessionCount(q)
           count == IF ~found /\ active > 0 THEN active - 1 ELSE active
           admit == rest # <<>> /\ (Limit = 0 \/ count < Limit)
           left == IF admit THEN Tail(rest) ELSE rest
           one == IF found THEN [o EXCEPT ![n].inQueue = FALSE] ELSE o
           two == IF admit THEN InitializeSession(one, Head(rest)) ELSE one
           from == IF admit THEN 1 ELSE at
           r == RemoveQueuedPlayer(o, q, n)
<1>1. r.found = found /\ r.queued = left /\ r.obj = TellPositions(two, left, from)
  BY DEF RemoveQueuedPlayer
<1>2. found = In(n, q)
  BY DEF Contains, In
<1>3. (In(n, q) => at \in 1..Len(q) /\ q[at] = n) /\ (~In(n, q) => at = Len(q) + 1)
  <2>1. found => \E i \in DOMAIN q : q[i] = n
    BY LenProperties DEF Contains
  <2>2. found => at \in DOMAIN q /\ q[at] = n
    BY <2>1
  <2>3. DOMAIN q = 1..Len(q)
    BY LenProperties
  <2> HIDE DEF found
  <2>4. ~found => at = Len(q) + 1
    OBVIOUS
  <2> HIDE DEF at
  <2> QED
    BY <1>2, <2>2, <2>3, <2>4
<1>4. count = ActiveBut(q, n)
  BY <1>2 DEF ActiveBut, GetActiveSessionCount
<1> HIDE DEF found, at
<1>5. /\ In(n, q) => rest = RemoveAt(q, at) /\ one = [o EXCEPT ![n].inQueue = FALSE]
      /\ ~In(n, q) => rest = q /\ one = o
  BY <1>2
<1> HIDE DEF rest, one, count, r, active
<1>6. LeftQueue(o, q, n, one, rest, at)
  BY <1>3, <1>5, LeftQueueFacts
<1>7. Without(q, n, rest, at)
  BY <1>3, <1>5 DEF Without
<1>8. ASSUME admit PROVE Admitting(q, n, one, rest, r)
  BY <1>1, <1>4, <1>8 DEF Admitting
<1>9. ASSUME ~admit PROVE NotAdmitting(q, n, one, rest, at, r)
  BY <1>1, <1>4, <1>9 DEF NotAdmitting
<1>10. Admitting(q, n, one, rest, r) \/ NotAdmitting(q, n, one, rest, at, r)
  BY <1>8, <1>9
<1>11. r.found = In(n, q)
  BY <1>1, <1>2
<1> HIDE DEF admit, left, two, from
<1> QED
  BY <1>6, <1>7, <1>10, <1>11 DEF r

LEMMA RemoveFacts ==
  ASSUME NEW o \in Objects, NEW q \in Seq(Ids), Queue(o, q, sessions), NEW n \in Ids
  PROVE  /\ Removed(o, q, n, RemoveQueuedPlayer(o, q, n))
         /\ RemoveQueuedPlayer(o, q, n).found = In(n, q)
<1>1. PICK r : r = RemoveQueuedPlayer(o, q, n)
  OBVIOUS
<1>2. PICK one, rest, at :
        /\ LeftQueue(o, q, n, one, rest, at)
        /\ Admitting(q, n, one, rest, r) \/ NotAdmitting(q, n, one, rest, at, r)
  BY <1>1, RemoveSteps
<1>6. LeftQueue(o, q, n, one, rest, at)
  BY <1>2
<1>7. ASSUME Admitting(q, n, one, rest, r) PROVE Removed(o, q, n, r)
  <2>1. rest # <<>> /\ (Limit = 0 \/ ActiveBut(q, n) < Limit)
    BY <1>7 DEF Admitting
  <2>2. r.queued = Tail(rest) /\ r.obj = TellPositions(InitializeSession(one, Head(rest)), Tail(rest), 1)
    BY <1>7 DEF Admitting
  <2>3. Len(rest) = IF In(n, q) THEN Len(q) - 1 ELSE Len(q)
    BY <1>6 DEF LeftQueue
  <2>4. PICK h : h = Head(rest)
    OBVIOUS
  <2>5. /\ r.obj \in Objects /\ r.queued \in Seq(Ids)
        /\ Queue(r.obj, r.queued, sessions) /\ ~In(n, r.queued)
        /\ Len(r.queued) = Len(rest) - 1
        /\ \A x \in Ids : In(x, r.queued) => In(x, q)
        /\ \A x \in Ids : SameIdentity(o[x], r.obj[x])
        /\ h \in Ids /\ In(h, q) /\ h # n
        /\ \A x \in Ids \ {h} : r.obj[x].init = o[x].init
        /\ \A x \in Ids : ~In(x, q) => r.obj[x] = o[x]
    BY <1>6, <2>1, <2>2, <2>4, FirstAdmitted
  <2>6. Len(r.queued) = (IF In(n, q) THEN Len(q) - 1 ELSE Len(q)) - 1
    BY <2>3, <2>5
  <2>7. OneIn(o, q, n, r, h)
    BY <2>1, <2>5, <2>6 DEF OneIn
  <2>8. h \in Ids
    BY <2>5
  <2>9. \A x \in Ids : /\ r.obj[x].account = o[x].account /\ r.obj[x].alive = o[x].alive
                        /\ r.obj[x].age = o[x].age
    BY <2>5 DEF SameIdentity
  <2>10. r.obj \in Objects /\ r.queued \in Seq(Ids)
    BY <2>5
  <2>11. Queue(r.obj, r.queued, sessions) /\ ~In(n, r.queued)
    BY <2>5
  <2>12. \A x \in Ids : In(x, r.queued) => In(x, q)
    BY <2>5
  <2>13. \A x \in Ids : ~In(x, q) => r.obj[x] = o[x]
    BY <2>5
  <2>14. NobodyIn(o, q, n, r) \/ \E k \in Ids : OneIn(o, q, n, r, k)
    BY <2>7, <2>8
  <2>15. /\ r.obj \in Objects /\ r.queued \in Seq(Ids) /\ Queue(r.obj, r.queued, sessions)
         /\ ~In(n, r.queued)
         /\ \A x \in Ids : In(x, r.queued) => In(x, q)
    BY <2>10, <2>11, <2>12
  <2> QED
    BY <2>9, <2>13, <2>14, <2>15 DEF Removed
<1>8. ASSUME NotAdmitting(q, n, one, rest, at, r) PROVE Removed(o, q, n, r)
  <2>1. rest = <<>> \/ (Limit # 0 /\ ~(ActiveBut(q, n) < Limit))
    BY <1>8 DEF NotAdmitting
  <2>2. r.queued = rest /\ r.obj = TellPositions(one, rest, at)
    BY <1>8 DEF NotAdmitting
  <2>3. rest \in Seq(Ids) /\ Len(rest) = IF In(n, q) THEN Len(q) - 1 ELSE Len(q)
    BY <1>6 DEF LeftQueue
  <2>4. /\ r.obj \in Objects /\ Queue(r.obj, r.queued, sessions) /\ ~In(n, r.queued)
        /\ \A x \in Ids : In(x, r.queued) => In(x, q)
        /\ \A x \in Ids : SameIdentity(o[x], r.obj[x]) /\ r.obj[x].init = o[x].init
        /\ \A x \in Ids : ~In(x, q) => r.obj[x] = o[x]
    BY <1>6, <2>2, NobodyAdmitted
  <2>5. /\ Len(r.queued) = IF In(n, q) THEN Len(q) - 1 ELSE Len(q)
        /\ r.queued = <<>> \/ (Limit # 0 /\ ~(ActiveBut(q, n) < Limit))
    BY <2>1, <2>2, <2>3
  <2>6. r.queued \in Seq(Ids)
    BY <2>2, <2>3
  <2>7. \A x \in Ids : /\ r.obj[x].account = o[x].account /\ r.obj[x].alive = o[x].alive
                        /\ r.obj[x].age = o[x].age
    BY <2>4 DEF SameIdentity
  <2>8. NobodyIn(o, q, n, r)
    BY <2>4, <2>5 DEF NobodyIn
  <2>9. /\ r.obj \in Objects /\ r.queued \in Seq(Ids) /\ Queue(r.obj, r.queued, sessions)
        /\ ~In(n, r.queued)
        /\ \A x \in Ids : In(x, r.queued) => In(x, q)
    BY <2>4, <2>6
  <2>10. \A x \in Ids : ~In(x, q) => r.obj[x] = o[x]
    BY <2>4
  <2> QED
    BY <2>7, <2>8, <2>9, <2>10 DEF Removed
<1>9. r.found = In(n, q)
  BY <1>1, RemoveSteps
<1>10. Removed(o, q, n, r)
  BY <1>2, <1>7, <1>8
<1> QED
  BY <1>1, <1>9, <1>10

-----------------------------------------------------------------------------
(* Who waits longer is served first. *)

(* Session x waits before session y. *)
Before(q, x, y) == \E i, j \in 1..Len(q) : i < j /\ q[i] = x /\ q[j] = y

(* Sessions o and queue q become p and r: nobody comes to the queue, those that
   are left wait in the order in which they did, and the sessions that were
   admitted are those that waited before all of them. *)
Shrinks(o, q, p, r) ==
    /\ \A x \in Ids : In(x, r) => In(x, q)
    /\ \A x, y \in Ids : Before(r, x, y) => Before(q, x, y)
    /\ \A x, y \in Ids : In(y, q) /\ p[y].init # "no" /\ In(x, r) => Before(q, y, x)
    /\ \A x \in Ids : ~In(x, q) /\ p[x].init # "no" => o[x].init # "no"

LEMMA ShrinksComposed ==
  ASSUME NEW o, NEW q, NEW p, NEW r, NEW s, NEW t, Shrinks(o, q, p, r), Shrinks(p, r, s, t)
  PROVE  Shrinks(o, q, s, t)
<1>1. \A x \in Ids : (In(x, r) => In(x, q)) /\ (In(x, t) => In(x, r))
  BY DEF Shrinks
<1>2. \A x, y \in Ids : /\ Before(r, x, y) => Before(q, x, y)
                        /\ Before(t, x, y) => Before(r, x, y)
  BY DEF Shrinks
<1>3. ASSUME NEW x \in Ids, NEW y \in Ids, In(y, q), s[y].init # "no", In(x, t)
      PROVE  Before(q, y, x)
  <2>1. In(x, r)
    BY <1>1, <1>3
  <2>2. CASE In(y, r)
    BY <1>2, <1>3, <2>2 DEF Shrinks
  <2>3. CASE ~In(y, r)
    <3>1. p[y].init # "no"
      BY <1>3, <2>3 DEF Shrinks
    <3> QED
      BY <1>3, <2>1, <3>1 DEF Shrinks
  <2> QED
    BY <2>2, <2>3
<1>4. ASSUME NEW x \in Ids, ~In(x, q), s[x].init # "no"
      PROVE  o[x].init # "no"
  <2>1. p[x].init # "no"
    BY <1>1, <1>4 DEF Shrinks
  <2> QED
    BY <1>4, <2>1 DEF Shrinks
<1> QED
  BY <1>1, <1>2, <1>3, <1>4 DEF Shrinks

LEMMA QueueWaits ==
  ASSUME NEW o, NEW q, NEW m, Queue(o, q, m)
  PROVE  \A x \in Ids : In(x, q) => o[x].init = "no"
BY DEF Queue, In

(* The queue stays, and nobody is admitted. *)
LEMMA ShrinksCalm ==
  ASSUME NEW o, NEW q, NEW m, Queue(o, q, m), NEW p,
         \A x \in Ids : p[x].init # "no" => o[x].init # "no"
  PROVE  Shrinks(o, q, p, q)
<1>1. \A x \in Ids : In(x, q) => p[x].init = "no"
  BY QueueWaits
<1> QED
  BY <1>1 DEF Shrinks

(* One session is deleted. *)
LEMMA ShrinksDelete ==
  ASSUME NEW o \in Objects, NEW q, NEW m, Queue(o, q, m), NEW n \in Ids
  PROVE  Shrinks(o, q, Delete(o, n), q)
<1>1. PICK p : p = Delete(o, n)
  OBVIOUS
<1>2. p[n].init = "no" /\ \A x \in Ids \ {n} : p[x] = o[x]
  BY <1>1 DEF Delete, Objects, NoSession, NewSession
<1>3. \A x \in Ids : p[x].init # "no" => o[x].init # "no"
  BY <1>2
<1>4. Shrinks(o, q, p, q)
  BY <1>3, ShrinksCalm
<1> QED
  BY <1>1, <1>4

(* Those behind the one that leaves move up. *)
LEMMA WithoutOrder ==
  ASSUME NEW q \in Seq(Ids), NEW n, NEW rest, NEW at, Without(q, n, rest, at)
  PROVE  \A x, y : Before(rest, x, y) => Before(q, x, y)
<1>1. CASE ~In(n, q)
  BY <1>1 DEF Without
<1>2. CASE In(n, q)
  <2>1. at \in 1..Len(q) /\ rest = RemoveAt(q, at) /\ Len(q) \in Nat
    BY <1>2 DEF Without
  <2>2. /\ Len(rest) = Len(q) - 1
        /\ \A i \in 1..Len(rest) : rest[i] = IF i < at THEN q[i] ELSE q[i + 1]
    BY <2>1, RemoveAtFacts
  <2> SUFFICES ASSUME NEW x, NEW y, Before(rest, x, y) PROVE Before(q, x, y)
    OBVIOUS
  <2>3. PICK i, j \in 1..Len(rest) : i < j /\ rest[i] = x /\ rest[j] = y
    BY DEF Before
  <2>4. PICK k : k = IF i < at THEN i ELSE i + 1
    OBVIOUS
  <2>5. PICK l : l = IF j < at THEN j ELSE j + 1
    OBVIOUS
  <2>6. k \in 1..Len(q) /\ q[k] = x
    BY <2>1, <2>2, <2>3, <2>4
  <2>7. l \in 1..Len(q) /\ q[l] = y
    BY <2>1, <2>2, <2>3, <2>5
  <2>8. k < l
    BY <2>1, <2>2, <2>3, <2>4, <2>5
  <2> QED
    BY <2>6, <2>7, <2>8 DEF Before
<1> QED
  BY <1>1, <1>2

(* The first of a queue waits before all others, who keep their order. *)
LEMMA TailOrder ==
  ASSUME NEW q \in Seq(Ids), q # <<>>
  PROVE  /\ \A x, y : Before(Tail(q), x, y) => Before(q, x, y)
         /\ \A x : In(x, Tail(q)) => Before(q, Head(q), x)
<1>1. PICK h, t : h = Head(q) /\ t = Tail(q)
  OBVIOUS
<1>2. /\ h = q[1] /\ 1 \in 1..Len(q) /\ Len(t) \in Nat
      /\ \A i \in 1..Len(t) : t[i] = q[i + 1] /\ i + 1 \in 1..Len(q)
  BY <1>1, TailFacts
<1>3. ASSUME NEW x, NEW y, Before(t, x, y) PROVE Before(q, x, y)
  <2>1. PICK i, j \in 1..Len(t) : i < j /\ t[i] = x /\ t[j] = y
    BY <1>3 DEF Before
  <2>2. /\ i + 1 \in 1..Len(q) /\ j + 1 \in 1..Len(q) /\ i + 1 < j + 1
        /\ q[i + 1] = x /\ q[j + 1] = y
    BY <1>2, <2>1
  <2> QED
    BY <2>2 DEF Before
<1>4. ASSUME NEW x, In(x, t) PROVE Before(q, h, x)
  <2>1. PICK i \in 1..Len(t) : t[i] = x
    BY <1>4 DEF In
  <2>2. i + 1 \in 1..Len(q) /\ 1 < i + 1 /\ q[i + 1] = x
    BY <1>2, <2>1
  <2> QED
    BY <1>2, <2>2 DEF Before
<1> QED
  BY <1>1, <1>3, <1>4

LEMMA RemoveShrinks ==
  ASSUME NEW o \in Objects, NEW q \in Seq(Ids), Queue(o, q, sessions), NEW n \in Ids,
         NEW r, r = RemoveQueuedPlayer(o, q, n)
  PROVE  Shrinks(o, q, r.obj, r.queued)
<1>1. PICK one, rest, at :
        /\ LeftQueue(o, q, n, one, rest, at) /\ Without(q, n, rest, at)
        /\ Admitting(q, n, one, rest, r) \/ NotAdmitting(q, n, one, rest, at, r)
  BY RemoveSteps
<1>2. \A x \in Ids : In(x, q) => o[x].init = "no"
  BY QueueWaits
<1>3. \A x, y : Before(rest, x, y) => Before(q, x, y)
  BY <1>1, WithoutOrder
<1>4. CASE NotAdmitting(q, n, one, rest, at, r)
  <2>1. r.queued = rest /\ r.obj = TellPositions(one, rest, at)
    BY <1>4 DEF NotAdmitting
  <2>2. /\ \A x \in Ids : In(x, rest) => In(x, q)
        /\ \A x \in Ids : r.obj[x].init = o[x].init
    BY <1>1, <2>1, NobodyAdmitted
  <2> QED
    BY <1>2, <1>3, <2>1, <2>2 DEF Shrinks
<1>5. CASE Admitting(q, n, one, rest, r)
  <2>1. PICK h, left : h = Head(rest) /\ left = Tail(rest)
    OBVIOUS
  <2>2. /\ rest # <<>> /\ r.queued = left
        /\ r.obj = TellPositions(InitializeSession(one, Head(rest)), Tail(rest), 1)
    BY <1>5, <2>1 DEF Admitting
  <2>3. /\ \A x \in Ids : In(x, left) => In(x, q)
        /\ h \in Ids /\ In(h, q)
        /\ \A x \in Ids \ {h} : r.obj[x].init = o[x].init
    BY <1>1, <2>1, <2>2, FirstAdmitted
  <2>4. rest \in Seq(Ids)
    BY <1>1 DEF LeftQueue
  <2>5. /\ \A x, y : Before(left, x, y) => Before(rest, x, y)
        /\ \A x : In(x, left) => Before(rest, h, x)
    BY <2>1, <2>2, <2>4, TailOrder
  <2>6. \A x, y \in Ids : In(y, q) /\ r.obj[y].init # "no" /\ In(x, left) => Before(q, y, x)
    BY <1>2, <1>3, <2>3, <2>5
  <2>7. \A x \in Ids : ~In(x, q) /\ r.obj[x].init # "no" => o[x].init # "no"
    BY <2>3
  <2>8. \A x, y \in Ids : Before(left, x, y) => Before(q, x, y)
    BY <1>3, <2>5
  <2> QED
    BY <2>2, <2>3, <2>6, <2>7, <2>8 DEF Shrinks
<1> QED
  BY <1>1, <1>4, <1>5

-----------------------------------------------------------------------------
(* The numbers. *)

With(m) == {a \in Accounts : m[a] # None}

(* The accounts that were admitted and count for the limit, without a. *)
Others(o, m, a) ==
    {b \in Accounts \ Privileged :
        b # a /\ m[b] # None /\ o[m[b]].init # "no" /\ o[m[b]].age = Never}

LEMMA WithFacts ==
  ASSUME NEW m \in Tables
  PROVE  /\ IsFiniteSet(With(m)) /\ SessionCount(m) = Cardinality(With(m))
         /\ SessionCount(m) \in Nat
         /\ \A T \in SUBSET With(m) : /\ IsFiniteSet(T) /\ Cardinality(T) \in Nat
                                      /\ Cardinality(T) <= SessionCount(m)
<1>1. With(m) \in SUBSET Accounts /\ SessionCount(m) = Cardinality(With(m))
  BY DEF With, SessionCount
<1>2. IsFiniteSet(With(m))
  BY <1>1, ConstantsAssumption, FS_Subset
<1>3. Cardinality(With(m)) \in Nat
  BY <1>2, FS_CardinalityType
<1>4. ASSUME NEW T \in SUBSET With(m)
      PROVE  IsFiniteSet(T) /\ Cardinality(T) \in Nat /\ Cardinality(T) <= SessionCount(m)
  <2>1. IsFiniteSet(T) /\ Cardinality(T) <= Cardinality(With(m))
    BY <1>2, FS_Subset
  <2> QED
    BY <1>1, <2>1, FS_CardinalityType
<1> QED
  BY <1>1, <1>2, <1>3, <1>4

(* The queue has as many accounts as it has sessions. *)
LEMMA QueueAccounts ==
  ASSUME NEW o \in Objects, NEW q \in Seq(Ids), NEW m \in Tables, Queue(o, q, m)
  PROVE  \E A \in SUBSET With(m) :
            /\ Cardinality(A) = Len(q)
            /\ \A b \in A : In(m[b], q) /\ o[m[b]].init = "no"
<1> DEFINE f == [i \in 1..Len(q) |-> o[q[i]].account]
           A == {b \in Accounts : \E i \in 1..Len(q) : b = o[q[i]].account}
<1>1. Len(q) \in Nat /\ \A i \in 1..Len(q) : q[i] \in Ids /\ q[i] # None
  BY ConstantsAssumption DEF Ids, None
<1>2. /\ \A i, j \in 1..Len(q) : q[i] = q[j] => i = j
      /\ \A i \in 1..Len(q) : /\ o[q[i]].init = "no" /\ o[q[i]].account \in Accounts
                              /\ m[o[q[i]].account] = q[i]
  BY DEF Queue, Distinct
<1>3. f \in [1..Len(q) -> A]
  BY <1>2
<1>4. \A i, j \in 1..Len(q) : f[i] = f[j] => i = j
  BY <1>2
<1>5. \A b \in A : \E i \in 1..Len(q) : f[i] = b
  OBVIOUS
<1>6. f \in Injection(1..Len(q), A)
  BY <1>3, <1>4, Fun_IsInj
<1>7. f \in Surjection(1..Len(q), A)
  BY <1>3, <1>5, Fun_IsSurj
<1>8. ExistsBijection(1..Len(q), A)
  BY <1>6, <1>7 DEF Bijection, ExistsBijection
<1>9. Cardinality(A) = Len(q)
  BY <1>1, <1>8, FS_CountingElements
<1>10. \A b \in A : m[b] # None /\ In(m[b], q) /\ o[m[b]].init = "no"
  BY <1>1, <1>2 DEF In
<1>11. A \in SUBSET With(m)
  BY <1>10 DEF With
<1> QED
  BY <1>9, <1>10, <1>11

(* Who was admitted, who waits and account a itself are all in m. *)
LEMMA CountFacts ==
  ASSUME NEW o \in Objects, NEW q \in Seq(Ids), NEW m \in Tables, Queue(o, q, m),
         NEW a \in Accounts, m[a] # None
  PROVE  /\ SessionCount(m) \in Nat /\ Len(q) \in Nat
         /\ Cardinality(Others(o, m, a)) \in Nat
         /\ In(m[a], q) => Cardinality(Others(o, m, a)) + Len(q) <= SessionCount(m)
         /\ ~In(m[a], q) => Cardinality(Others(o, m, a)) + Len(q) + 1 <= SessionCount(m)
<1>1. PICK A \in SUBSET With(m) :
            /\ Cardinality(A) = Len(q)
            /\ \A b \in A : In(m[b], q) /\ o[m[b]].init = "no"
  BY QueueAccounts
<1>2. PICK B : B = Others(o, m, a)
  OBVIOUS
<1>3. B \in SUBSET With(m) /\ a \notin B /\ A \cap B = {}
  BY <1>1, <1>2 DEF With, Others
<1>4. IsFiniteSet(A) /\ IsFiniteSet(B) /\ Cardinality(B) \in Nat /\ SessionCount(m) \in Nat
  BY <1>3, WithFacts
<1>5. /\ IsFiniteSet(A \cup B)
      /\ Cardinality(A \cup B) = Cardinality(A) + Cardinality(B) - Cardinality(A \cap B)
  BY <1>4, FS_Union
<1>6. Cardinality(A \cap B) = 0
  BY <1>3, FS_EmptySet
<1>7. Len(q) \in Nat /\ Cardinality(A \cup B) = Cardinality(B) + Len(q)
  BY <1>1, <1>4, <1>5, <1>6
<1>8. Cardinality(B) + Len(q) <= SessionCount(m)
  <2>1. A \cup B \in SUBSET With(m)
    BY <1>3
  <2> QED
    BY <1>7, <2>1, WithFacts
<1>9. ASSUME ~In(m[a], q)
      PROVE  Cardinality(B) + Len(q) + 1 <= SessionCount(m)
  <2>1. a \notin A \cup B
    BY <1>1, <1>3, <1>9
  <2>2. Cardinality((A \cup B) \cup {a}) = Cardinality(A \cup B) + 1
    BY <1>5, <2>1, FS_AddElement
  <2>3. (A \cup B) \cup {a} \in SUBSET With(m)
    BY <1>3 DEF With
  <2>4. Cardinality((A \cup B) \cup {a}) <= SessionCount(m)
    BY <2>3, WithFacts
  <2> QED
    BY <1>4, <1>7, <2>2, <2>4
<1> QED
  BY <1>2, <1>4, <1>7, <1>8, <1>9

LEMMA AtMostOneMore ==
  ASSUME NEW S, IsFiniteSet(S), NEW x
  PROVE  /\ IsFiniteSet(S \cup {x}) /\ Cardinality(S \cup {x}) \in Nat
         /\ Cardinality(S) \in Nat /\ Cardinality(S \cup {x}) <= Cardinality(S) + 1
<1>1. /\ IsFiniteSet(S \cup {x})
      /\ Cardinality(S \cup {x}) = IF x \in S THEN Cardinality(S) ELSE Cardinality(S) + 1
  BY FS_AddElement
<1>2. Cardinality(S) \in Nat /\ Cardinality(S \cup {x}) \in Nat
  BY <1>1, FS_CardinalityType
<1> QED
  BY <1>1, <1>2

(* Room without session n, when n is not in the queue q. *)
RoomBut(q) == q # <<>> => Limit > 0 /\ SessionCount(sessions) - 1 - Len(q) >= Limit

LEMMA ActiveFacts ==
  ASSUME NEW o \in Objects, NEW q \in Seq(Ids), sessions \in Tables, Queue(o, q, sessions),
         NEW a \in Accounts, sessions[a] # None
  PROVE  /\ In(sessions[a], q) => ActiveBut(q, sessions[a]) = SessionCount(sessions) - Len(q)
         /\ ~In(sessions[a], q) => ActiveBut(q, sessions[a]) = SessionCount(sessions) - Len(q) - 1
         /\ Cardinality(Others(o, sessions, a)) <= ActiveBut(q, sessions[a])
         /\ Cardinality(Others(o, sessions, a)) \in Nat
         /\ SessionCount(sessions) \in Nat /\ Len(q) \in Nat /\ Limit \in Nat
<1> DEFINE n == sessions[a]
           c == SessionCount(sessions)
           d == Cardinality(Others(o, sessions, a))
<1>1. /\ c \in Nat /\ Len(q) \in Nat /\ d \in Nat
      /\ In(n, q) => d + Len(q) <= c
      /\ ~In(n, q) => d + Len(q) + 1 <= c
  BY CountFacts
<1>2. In(n, q) => ActiveBut(q, n) = c - Len(q)
  BY DEF ActiveBut
<1>3. ~In(n, q) => ActiveBut(q, n) = IF c - Len(q) > 0 THEN c - Len(q) - 1 ELSE c - Len(q)
  BY DEF ActiveBut
<1>4. Limit \in Nat
  BY ConstantsAssumption
<1> HIDE DEF n, c, d
<1>5. ~In(n, q) => ActiveBut(q, n) = c - Len(q) - 1
  BY <1>1, <1>3
<1>6. d <= ActiveBut(q, n)
  BY <1>1, <1>2, <1>5
<1> QED
  BY <1>1, <1>2, <1>4, <1>5, <1>6 DEF n, c, d

(* RemoveQueuedPlayer admits nobody beyond the limit, and lets nobody wait
   while there is room. *)
LEMMA RemoveNumbers ==
  ASSUME NEW o \in Objects, NEW q \in Seq(Ids), sessions \in Tables,
         Queue(o, q, sessions), Registered(o, sessions),
         NEW a \in Accounts, sessions[a] # None,
         NEW r, Removed(o, q, sessions[a], r),
         q # <<>> => Limit > 0 /\ SessionCount(sessions) - Len(q) >= Limit,
         Limit > 0 => Cardinality(Others(o, sessions, a)) <= Limit
  PROVE  /\ RoomBut(r.queued)
         /\ Limit > 0 => Cardinality(Others(r.obj, sessions, a)) <= Limit
<1>1. PICK n \in Ids : n = sessions[a]
  BY DEF Tables
<1>2. PICK c \in Nat : c = SessionCount(sessions)
  BY ActiveFacts
<1>3. PICK D : D = Others(o, sessions, a)
  OBVIOUS
<1>4. PICK e : e = ActiveBut(q, n)
  OBVIOUS
<1>5. /\ In(n, q) => e = c - Len(q)
      /\ ~In(n, q) => e = c - Len(q) - 1
      /\ Cardinality(D) <= e /\ Cardinality(D) \in Nat /\ Len(q) \in Nat /\ Limit \in Nat
  BY <1>1, <1>2, <1>3, <1>4, ActiveFacts
<1>6. \A b \in Accounts : sessions[b] # None => sessions[b] \in Ids
  BY DEF Tables
<1>7. /\ r.queued \in Seq(Ids) /\ \A x \in Ids : r.obj[x].age = o[x].age
      /\ NobodyIn(o, q, n, r) \/ \E h \in Ids : OneIn(o, q, n, r, h)
  BY <1>1 DEF Removed
<1>8. ASSUME NobodyIn(o, q, n, r)
      PROVE  /\ RoomBut(r.queued)
             /\ Limit > 0 => Cardinality(Others(r.obj, sessions, a)) <= Limit
  <2>1. Others(r.obj, sessions, a) = D
    BY <1>3, <1>6, <1>7, <1>8 DEF Others, NobodyIn
  <2>2. Len(r.queued) = IF In(n, q) THEN Len(q) - 1 ELSE Len(q)
    BY <1>8 DEF NobodyIn
  <2>3. e = c - 1 - Len(r.queued)
    <3>1. CASE In(n, q)
      BY <1>2, <1>5, <2>2, <3>1
    <3>2. CASE ~In(n, q)
      BY <1>2, <1>5, <2>2, <3>2
    <3> QED
      BY <3>1, <3>2
  <2>4. r.queued # <<>> => Limit # 0 /\ ~(e < Limit)
    BY <1>4, <1>8 DEF NobodyIn
  <2>5. r.queued # <<>> => Limit > 0 /\ e >= Limit
    BY <1>2, <1>5, <2>4
  <2>6. RoomBut(r.queued)
    BY <1>2, <2>3, <2>5 DEF RoomBut
  <2> QED
    BY <1>3, <2>1, <2>6
<1>9. ASSUME NEW h \in Ids, OneIn(o, q, n, r, h)
      PROVE  /\ RoomBut(r.queued)
             /\ Limit > 0 => Cardinality(Others(r.obj, sessions, a)) <= Limit
  <2>1. /\ In(h, q) /\ (Limit = 0 \/ e < Limit)
        /\ Len(r.queued) = (IF In(n, q) THEN Len(q) - 1 ELSE Len(q)) - 1
        /\ \A x \in Ids \ {h} : r.obj[x].init = o[x].init
    BY <1>4, <1>9 DEF OneIn
  <2>2. Others(r.obj, sessions, a) \in SUBSET (D \cup {o[h].account})
    BY <1>3, <1>6, <1>7, <2>1 DEF Others, Registered
  <2>3. IsFiniteSet(D)
    <3>1. D \in SUBSET With(sessions)
      BY <1>3 DEF Others, With
    <3> QED
      BY <3>1, WithFacts
  <2>4. /\ IsFiniteSet(D \cup {o[h].account}) /\ Cardinality(D \cup {o[h].account}) \in Nat
        /\ Cardinality(D \cup {o[h].account}) <= Cardinality(D) + 1
    BY <2>3, AtMostOneMore
  <2>5. /\ Cardinality(Others(r.obj, sessions, a)) <= Cardinality(D \cup {o[h].account})
        /\ Cardinality(Others(r.obj, sessions, a)) \in Nat
    BY <2>2, <2>4, FS_Subset, FS_CardinalityType
  <2>6. Limit > 0 => Cardinality(Others(r.obj, sessions, a)) <= Limit
    BY <1>2, <1>5, <2>1, <2>4, <2>5
  <2>7. q # <<>>
    BY <2>1 DEF In
  <2>8. Limit > 0 /\ c - Len(q) >= Limit /\ e < Limit
    BY <1>2, <1>5, <2>1, <2>7
  <2>9. c - 1 - Len(r.queued) >= Limit
    BY <1>2, <1>5, <2>1, <2>8
  <2>10. RoomBut(r.queued)
    BY <1>2, <2>8, <2>9 DEF RoomBut
  <2> QED
    BY <2>6, <2>10
<1> QED
  BY <1>7, <1>8, <1>9

-----------------------------------------------------------------------------
(* Most of what happens to a session does not concern the World's tables. *)

Calm(k, l) ==
    /\ l.account = k.account /\ l.alive = k.alive /\ l.age = k.age
    /\ l.init = "no" <=> k.init = "no"
    /\ k.init = "no" => l.inQueue = k.inQueue /\ l.told = k.told

CalmStep(k, l) == l \in Session /\ Calm(k, l)

LEMMA CalmComposed ==
  ASSUME NEW k, NEW l, NEW c, CalmStep(k, l), CalmStep(l, c)
  PROVE  CalmStep(k, c)
BY DEF CalmStep, Calm

LEMMA CloseIdleFacts ==
  ASSUME NEW k \in Session, NEW l \in CloseIdle(k)
  PROVE  CalmStep(k, l)
<1>1. l = k \/ l = [k EXCEPT !.open = FALSE]
  BY DEF CloseIdle
<1>2. l \in Session
  BY <1>1 DEF Session
<1> QED
  BY <1>1, <1>2 DEF CalmStep, Calm, Session

LEMMA HandleFacts ==
  ASSUME NEW k \in Session, NEW l \in Handle(k)
  PROVE  CalmStep(k, l)
<1>1. l = k \/ l = [k EXCEPT !.player = "loading"]
  BY DEF Handle
<1>2. l \in Session
  BY <1>1 DEF Session
<1> QED
  BY <1>1, <1>2 DEF CalmStep, Calm, Session

LEMMA InitializeFacts ==
  ASSUME NEW k \in Session, NEW l \in InitializeSessionCallback(k)
  PROVE  CalmStep(k, l)
<1>1. \/ l = k
      \/ k.init = "asked" /\ l = [k EXCEPT !.init = "done", !.inQueue = FALSE, !.told = 0]
  BY DEF InitializeSessionCallback
<1>2. l \in Session
  <2>1. [k EXCEPT !.init = "done", !.inQueue = FALSE, !.told = 0] \in Session
    <3>1. PICK k1 : k1 = [k EXCEPT !.init = "done"]
      OBVIOUS
    <3>2. k1 \in Session
      BY <3>1 DEF Session
    <3>3. PICK k2 : k2 = [k1 EXCEPT !.inQueue = FALSE]
      OBVIOUS
    <3>4. k2 \in Session
      BY <3>2, <3>3 DEF Session
    <3>5. [k2 EXCEPT !.told = 0] \in Session
      BY <3>4 DEF Session
    <3>6. [k EXCEPT !.init = "done", !.inQueue = FALSE, !.told = 0] = [k2 EXCEPT !.told = 0]
      BY <3>1, <3>3 DEF Session
    <3> QED
      BY <3>5, <3>6
  <2> QED
    BY <1>1, <2>1
<1> QED
  BY <1>1, <1>2 DEF CalmStep, Calm, Session

LEMMA LoginFacts ==
  ASSUME NEW k \in Session, NEW l \in HandlePlayerLogin(k)
  PROVE  CalmStep(k, l)
<1>1. \/ l = k
      \/ l = [k EXCEPT !.player = "world"]
      \/ l = [[k EXCEPT !.open = FALSE, !.forceExit = TRUE] EXCEPT !.player = "none"]
  BY DEF HandlePlayerLogin, Kicked
<1>2. l \in Session
  BY <1>1 DEF Session
<1> QED
  BY <1>1, <1>2 DEF CalmStep, Calm, Session

LEMMA LogoutFacts ==
  ASSUME NEW k \in Session, NEW l \in LogoutPlayer(k)
  PROVE  CalmStep(k, l)
<1>1. l = k \/ l = [k EXCEPT !.player = "none"]
  BY DEF LogoutPlayer
<1>2. l \in Session
  BY <1>1 DEF Session
<1> QED
  BY <1>1, <1>2 DEF CalmStep, Calm, Session

(* The whole of WorldSession::Update. *)
LEMMA UpdatedFacts ==
  ASSUME NEW k \in Session, NEW l \in Updated(k)
  PROVE  CalmStep(k, l)
<1>1. PICK c1, c2, c3, c4 :
        /\ c1 \in CloseIdle(k) /\ c2 \in Handle(c1) /\ c3 \in InitializeSessionCallback(c2)
        /\ c4 \in HandlePlayerLogin(c3) /\ l \in LogoutPlayer(c4)
  BY DEF Updated
<1>2. CalmStep(k, c1) /\ c1 \in Session
  BY <1>1, CloseIdleFacts DEF CalmStep
<1>3. CalmStep(c1, c2) /\ c2 \in Session
  BY <1>1, <1>2, HandleFacts DEF CalmStep
<1>4. CalmStep(c2, c3) /\ c3 \in Session
  BY <1>1, <1>3, InitializeFacts DEF CalmStep
<1>5. CalmStep(c3, c4) /\ c4 \in Session
  BY <1>1, <1>4, LoginFacts DEF CalmStep
<1>6. CalmStep(c4, l)
  BY <1>1, <1>5, LogoutFacts
<1> QED
  BY <1>2, <1>3, <1>4, <1>5, <1>6, CalmComposed

(* A step that changes session n alone, and that calmly. *)
LEMMA CalmOne ==
  ASSUME NEW o \in Objects, NEW n \in Ids, NEW k, CalmStep(o[n], k),
         NEW p, p = [o EXCEPT ![n] = k]
  PROVE  p \in Objects /\ \A x \in Ids : Calm(o[x], p[x])
BY DEF Objects, CalmStep, Calm

(* Tables do not notice what happens to sessions that do not exist, or calmly
   to those that do. *)
LEMMA CalmTables ==
  ASSUME NEW o \in Objects, NEW p \in Objects,
         \A x \in Ids : o[x].alive => Calm(o[x], p[x]),
         NEW m \in Tables, NEW q \in Seq(Ids)
  PROVE  /\ Queue(o, q, m) => Queue(p, q, m)
         /\ Registered(o, m) => Registered(p, m)
         /\ HandedOver(o, q, m) => HandedOver(p, q, m)
         /\ Registered(o, m) => \A a : Others(p, m, a) = Others(o, m, a)
<1>1. \A i \in 1..Len(q) : q[i] \in Ids /\ (o[q[i]].alive => Calm(o[q[i]], p[q[i]]))
  OBVIOUS
<1>2. \A a \in Accounts : m[a] # None =>
        m[a] \in Ids /\ (o[m[a]].alive => Calm(o[m[a]], p[m[a]]))
  BY DEF Tables
<1>3. Queue(o, q, m) => Queue(p, q, m)
  BY <1>1 DEF Queue, Calm
<1>4. Registered(o, m) => Registered(p, m)
  BY <1>2 DEF Registered, Calm
<1>5. HandedOver(o, q, m) => HandedOver(p, q, m)
  BY <1>1 DEF HandedOver, Calm
<1>6. ASSUME Registered(o, m) PROVE \A a : Others(p, m, a) = Others(o, m, a)
  BY <1>2, <1>6 DEF Others, Calm, Registered
<1> QED
  BY <1>3, <1>4, <1>5, <1>6

(* Nor do they notice what happens to a session that they do not have. *)
LEMMA GoneTables ==
  ASSUME NEW o \in Objects, NEW p \in Objects, NEW n, \A x \in Ids \ {n} : p[x] = o[x],
         NEW m \in Tables, NEW q \in Seq(Ids)
  PROVE  /\ Queue(o, q, m) /\ ~In(n, q) => Queue(p, q, m)
         /\ HandedOver(o, q, m) /\ ~In(n, q) => HandedOver(p, q, m)
         /\ Registered(o, m) /\ (\A a \in Accounts : m[a] # n) => Registered(p, m)
         /\ (\A a \in Accounts : m[a] # n) => \A a : Others(p, m, a) = Others(o, m, a)
<1>1. ~In(n, q) => \A i \in 1..Len(q) : q[i] \in Ids /\ p[q[i]] = o[q[i]]
  BY DEF In
<1>2. (\A a \in Accounts : m[a] # n) =>
        \A a \in Accounts : m[a] # None => m[a] \in Ids /\ p[m[a]] = o[m[a]]
  BY DEF Tables
<1>3. Queue(o, q, m) /\ ~In(n, q) => Queue(p, q, m)
  BY <1>1 DEF Queue
<1>4. HandedOver(o, q, m) /\ ~In(n, q) => HandedOver(p, q, m)
  BY <1>1 DEF HandedOver
<1>5. Registered(o, m) /\ (\A a \in Accounts : m[a] # n) => Registered(p, m)
  BY <1>2 DEF Registered
<1>6. (\A a \in Accounts : m[a] # n) => \A a : Others(p, m, a) = Others(o, m, a)
  BY <1>2 DEF Others
<1> QED
  BY <1>3, <1>4, <1>5, <1>6

(* The limit, as a number of Others. *)
LEMMA LimitFacts ==
  ASSUME TypeInv, LimitRespected
  PROVE  /\ \A a \in Accounts : Limit > 0 => Cardinality(Others(obj, sessions, a)) <= Limit
         /\ Limit \in Nat
<1>1. Admitted \in SUBSET With(sessions) /\ sessions \in Tables
  BY DEF Admitted, With, TypeInv
<1>2. IsFiniteSet(Admitted) /\ Cardinality(Admitted) \in Nat
  BY <1>1, WithFacts
<1>3. Limit \in Nat /\ (Limit > 0 => Cardinality(Admitted) <= Limit)
  BY ConstantsAssumption DEF LimitRespected
<1>4. ASSUME NEW a \in Accounts, Limit > 0
      PROVE  Cardinality(Others(obj, sessions, a)) <= Limit
  <2>1. Others(obj, sessions, a) \in SUBSET Admitted
    BY DEF Others, Admitted
  <2>2. /\ Cardinality(Others(obj, sessions, a)) <= Cardinality(Admitted)
        /\ Cardinality(Others(obj, sessions, a)) \in Nat
    BY <1>2, <2>1, FS_Subset, FS_CardinalityType
  <2> QED
    BY <1>2, <1>3, <1>4, <2>2
<1> QED
  BY <1>3, <1>4

-----------------------------------------------------------------------------
(* The steps that leave the tables alone. *)

LEMMA NewSessionFacts ==
  ASSUME NEW a \in Accounts \cup {NoAccount}
  PROVE  /\ NewSession(a) \in Session
         /\ NewSession(a).alive /\ NewSession(a).init = "no" /\ NewSession(a).account = a
BY DEF NewSession, Session, Never

LEMMA NoSessionFacts == NoSession \in Session /\ ~NoSession.alive
<1>1. PICK k \in Session : k = NewSession(NoAccount)
  BY NewSessionFacts
<1>2. PICK l : l = [k EXCEPT !.alive = FALSE]
  OBVIOUS
<1>3. l \in Session
  BY <1>2 DEF Session
<1>4. [l EXCEPT !.open = FALSE] \in Session
  BY <1>3 DEF Session
<1>5. NoSession = [l EXCEPT !.open = FALSE]
  BY <1>1, <1>2 DEF NoSession, Session
<1> QED
  BY <1>2, <1>4, <1>5 DEF Session

LEMMA IInvInit == Init => IInv
<1> SUFFICES ASSUME Init PROVE IInv
  OBVIOUS
<1>2. obj \in Objects /\ \A n \in Ids : ~obj[n].alive
  BY NoSessionFacts DEF Init, Objects
<1>3. TypeInv
  BY <1>2, ConstantsAssumption DEF Init, TypeInv, Tables, None, Never
<1>4. Loop /\ NotMade(obj, made) /\ Registered(obj, sessions) /\ Room
  BY <1>2 DEF Init, Loop, NotMade, Registered, Room
<1>5. HandedOver(obj, addSessQueue, sessions) /\ Queue(obj, queued, sessions)
  BY DEF Init, HandedOver, Queue, Distinct
<1>6. LimitRespected
  <2>1. Admitted = {}
    BY DEF Init, Admitted
  <2>2. Cardinality(Admitted) = 0
    BY <2>1, FS_EmptySet
  <2> QED
    BY <2>2, ConstantsAssumption DEF LimitRespected
<1> QED
  BY <1>3, <1>4, <1>5, <1>6 DEF IInv

(* Sessions change calmly and the loop advances, or the clock. *)
LEMMA CalmAction ==
  ASSUME IInv, obj' \in Objects, \A x \in Ids : Calm(obj[x], obj'[x]),
         UNCHANGED <<made, addSessQueue, sessions, queued, disconnects>>,
         now' \in Nat, now' >= now, pc' \in {"idle", "add", "update"},
         todo' \subseteq Accounts, pc' = "update" => \A a \in todo' : sessions[a] # None
  PROVE  IInv'
<1>1. /\ TypeInv /\ Loop /\ NotMade(obj, made) /\ HandedOver(obj, addSessQueue, sessions)
      /\ Registered(obj, sessions) /\ Queue(obj, queued, sessions) /\ Room /\ LimitRespected
  BY DEF IInv
<1>2. obj \in Objects /\ sessions \in Tables /\ queued \in Seq(Ids) /\ addSessQueue \in Seq(Ids)
  BY <1>1 DEF TypeInv
<1>3. TypeInv'
  <2>1. \A a \in Accounts : disconnects[a] = Never \/ disconnects[a] \in 0..now'
    BY <1>1 DEF TypeInv
  <2> QED
    BY <1>1, <2>1 DEF TypeInv
<1>4. Loop'
  BY DEF Loop
<1>5. NotMade(obj, made)'
  BY <1>1 DEF NotMade, Calm
<1>6. Queue(obj', queued, sessions) /\ Registered(obj', sessions)
  BY <1>1, <1>2, CalmTables
<1>7. HandedOver(obj', addSessQueue, sessions)
  BY <1>1, <1>2, CalmTables
<1>8. Room'
  BY <1>1 DEF Room
<1>9. LimitRespected'
  <2>1. \A a \in Accounts : sessions[a] # None => sessions[a] \in Ids
    BY <1>2 DEF Tables
  <2>2. Admitted' = Admitted
    BY <2>1 DEF Admitted, Calm
  <2> QED
    BY <1>1, <2>2 DEF LimitRespected
<1> QED
  BY <1>3, <1>4, <1>5, <1>6, <1>7, <1>8, <1>9 DEF IInv

LEMMA CalmSame == ASSUME NEW k \in Session PROVE CalmStep(k, k)
BY DEF CalmStep, Calm

LEMMA CalmUnchanged ==
  ASSUME obj \in Objects, UNCHANGED obj
  PROVE  obj' \in Objects /\ \A x \in Ids : Calm(obj[x], obj'[x])
BY DEF Calm

(* A step that changes session n alone, and that calmly. *)
LEMMA CalmOneAction ==
  ASSUME IInv, NEW n \in Ids, NEW k, CalmStep(obj[n], k), obj' = [obj EXCEPT ![n] = k],
         UNCHANGED <<made, addSessQueue, worldVars, pc>>, todo' \subseteq todo
  PROVE  IInv'
<1>1. TypeInv /\ Loop
  BY DEF IInv
<1>2. obj \in Objects /\ now \in Nat /\ pc \in {"idle", "add", "update"} /\ todo \subseteq Accounts
  BY <1>1 DEF TypeInv
<1>3. obj' \in Objects /\ \A x \in Ids : Calm(obj[x], obj'[x])
  BY <1>2, CalmOne
<1>4. pc' = "update" => \A a \in todo' : sessions[a] # None
  BY <1>1 DEF Loop
<1> QED
  BY <1>2, <1>3, <1>4, CalmAction DEF worldVars

LEMMA ObjFacts ==
  ASSUME IInv
  PROVE  /\ obj \in Objects /\ \A n \in Ids : obj[n] \in Session
         /\ sessions \in Tables
         /\ \A a \in Accounts : sessions[a] # None => sessions[a] \in Ids
BY DEF IInv, TypeInv, Objects, Tables

LEMMA KickedFacts ==
  ASSUME NEW k \in Session
  PROVE  CalmStep(k, Kicked(k))
<1>1. Kicked(k) \in Session
  BY DEF Kicked, Session
<1> QED
  BY <1>1 DEF Kicked, CalmStep, Calm, Session

LEMMA SocketClosesInv ==
  ASSUME IInv, NEW n \in Ids, SocketCloses(n)
  PROVE  IInv'
<1>1. obj[n] \in Session
  BY ObjFacts
<1>2. PICK k : k = [obj[n] EXCEPT !.open = FALSE]
  OBVIOUS
<1>3. k \in Session
  BY <1>1, <1>2 DEF Session
<1>4. CalmStep(obj[n], k)
  BY <1>1, <1>2, <1>3 DEF CalmStep, Calm, Session
<1>5. obj' = [obj EXCEPT ![n] = k]
  BY <1>2 DEF SocketCloses
<1> QED
  BY <1>4, <1>5, CalmOneAction DEF SocketCloses, loopVars

LEMMA AbortLoginInv ==
  ASSUME IInv, NEW n \in Ids, AbortLogin(n)
  PROVE  IInv'
<1>1. obj[n] \in Session
  BY ObjFacts
<1>2. PICK k : k = [obj[n] EXCEPT !.player = "none"]
  OBVIOUS
<1>3. k \in Session
  BY <1>1, <1>2 DEF Session
<1>4. CalmStep(obj[n], k)
  BY <1>1, <1>2, <1>3 DEF CalmStep, Calm, Session
<1>5. obj' = [obj EXCEPT ![n] = k]
  BY <1>2 DEF AbortLogin
<1> QED
  BY <1>4, <1>5, CalmOneAction DEF AbortLogin, loopVars

LEMMA KickInv ==
  ASSUME IInv, NEW a \in Accounts, Kick(a)
  PROVE  IInv'
<1>1. PICK n \in Ids : n = sessions[a]
  BY ObjFacts DEF Kick
<1>2. CalmStep(obj[n], Kicked(obj[n]))
  BY ObjFacts, KickedFacts
<1>3. obj' = [obj EXCEPT ![n] = Kicked(obj[n])]
  BY <1>1 DEF Kick, KickPlayer
<1> QED
  BY <1>2, <1>3, CalmOneAction DEF Kick, loopVars

LEMMA UpdateSessionInv ==
  ASSUME IInv, NEW a \in Accounts, UpdateSession(a)
  PROVE  IInv'
<1>1. sessions[a] # None
  BY DEF IInv, Loop, UpdateSession
<1>2. PICK n \in Ids : n = sessions[a]
  BY <1>1, ObjFacts
<1>3. PICK k \in Updated(obj[n]) : obj' = [obj EXCEPT ![n] = k]
  BY <1>2 DEF UpdateSession
<1>4. CalmStep(obj[n], k)
  BY ObjFacts, UpdatedFacts
<1> QED
  BY <1>3, <1>4, CalmOneAction DEF UpdateSession

LEMMA LoopInv ==
  ASSUME IInv, UpdateSessions \/ AddSessionsEnds \/ UpdateSessionsEnds
  PROVE  IInv'
<1>1. TypeInv /\ obj \in Objects /\ now \in Nat /\ todo \subseteq Accounts
  BY DEF IInv, TypeInv
<1>2. UNCHANGED <<obj, made, addSessQueue, sessions, queued, disconnects>>
  BY DEF UpdateSessions, AddSessionsEnds, UpdateSessionsEnds, worldVars
<1>3. obj' \in Objects /\ \A x \in Ids : Calm(obj[x], obj'[x])
  BY <1>1, <1>2, CalmUnchanged
<1>4. now' \in Nat /\ now' >= now
  <2>1. now' = now \/ now' = now + 1
    BY DEF UpdateSessions, AddSessionsEnds, UpdateSessionsEnds, worldVars
  <2> QED
    BY <1>1, <2>1
<1>5. pc' \in {"idle", "add", "update"} /\ todo' \subseteq Accounts
  BY <1>1 DEF UpdateSessions, AddSessionsEnds, UpdateSessionsEnds
<1>6. pc' = "update" => \A a \in todo' : sessions[a] # None
  BY DEF UpdateSessions, AddSessionsEnds, UpdateSessionsEnds
<1> QED
  BY <1>2, <1>3, <1>4, <1>5, <1>6, CalmAction

LEMMA KickAllInv ==
  ASSUME IInv, KickAll
  PROVE  IInv'
<1>1. /\ TypeInv /\ Loop /\ NotMade(obj, made) /\ HandedOver(obj, addSessQueue, sessions)
      /\ Registered(obj, sessions) /\ LimitRespected
      /\ obj \in Objects /\ sessions \in Tables /\ addSessQueue \in Seq(Ids)
  BY DEF IInv, TypeInv
<1>2. /\ queued' = <<>> /\ pc = "idle"
      /\ UNCHANGED <<made, addSessQueue, sessions, disconnects, now, pc, todo>>
  BY DEF KickAll
<1>3. ASSUME NEW x \in Ids
      PROVE  obj'[x] \in Session /\ Calm(obj[x], obj'[x])
  <2>1. obj[x] \in Session
    BY ObjFacts
  <2>2. obj'[x] = obj[x] \/ obj'[x] = KickPlayer(obj, x)[x]
    BY DEF KickAll
  <2>3. KickPlayer(obj, x)[x] = Kicked(obj[x])
    BY <1>1 DEF KickPlayer, Objects
  <2> QED
    BY <2>1, <2>2, <2>3, KickedFacts, CalmSame DEF CalmStep
<1>4. obj' \in Objects
  <2>1. obj' = [x \in Ids |-> obj'[x]]
    BY DEF KickAll
  <2> QED
    BY <1>3, <2>1 DEF Objects
<1>5. TypeInv'
  BY <1>1, <1>2, <1>4 DEF TypeInv
<1>6. Loop' /\ NotMade(obj, made)'
  BY <1>1, <1>2, <1>3 DEF Loop, NotMade, Calm
<1>7. Registered(obj', sessions) /\ HandedOver(obj', addSessQueue, sessions)
  BY <1>1, <1>3, <1>4, CalmTables
<1>8. Queue(obj', queued', sessions) /\ Room'
  BY <1>2 DEF Queue, Distinct, Room
<1>9. LimitRespected'
  <2>1. \A a \in Accounts : sessions[a] # None => sessions[a] \in Ids
    BY ObjFacts
  <2>2. Admitted' = Admitted
    BY <1>2, <1>3, <2>1 DEF Admitted, Calm
  <2> QED
    BY <1>1, <2>2 DEF LimitRespected
<1> QED
  BY <1>2, <1>5, <1>6, <1>7, <1>8, <1>9 DEF IInv

(* A new session is number made + 1, which did not exist. *)
LEMMA AddSessionInv ==
  ASSUME IInv, NEW a \in Accounts, AddSession(a)
  PROVE  IInv'
<1>1. /\ TypeInv /\ Loop /\ NotMade(obj, made) /\ HandedOver(obj, addSessQueue, sessions)
      /\ Registered(obj, sessions) /\ Queue(obj, queued, sessions) /\ Room /\ LimitRespected
  BY DEF IInv
<1>2. /\ obj \in Objects /\ sessions \in Tables /\ queued \in Seq(Ids)
      /\ addSessQueue \in Seq(Ids) /\ made \in 0..MaxSessions /\ MaxSessions \in Nat
  BY <1>1, ConstantsAssumption DEF TypeInv
<1>3. PICK n : n = made + 1
  OBVIOUS
<1>4. n \in Ids /\ ~(n <= made) /\ ~obj[n].alive
  <2>1. n \in Ids /\ ~(n <= made)
    BY <1>2, <1>3 DEF AddSession, Ids
  <2> QED
    BY <1>1, <2>1 DEF NotMade
<1>5. /\ made' = n /\ obj' = [obj EXCEPT ![n] = NewSession(a)]
      /\ addSessQueue' = Append(addSessQueue, n)
      /\ UNCHANGED <<sessions, queued, disconnects, now, pc, todo>>
  BY <1>3 DEF AddSession, worldVars, loopVars
<1>6. /\ NewSession(a) \in Session /\ NewSession(a).alive
      /\ NewSession(a).init = "no" /\ NewSession(a).account = a
  BY NewSessionFacts
<1>7. obj' \in Objects /\ obj'[n] = NewSession(a) /\ \A x \in Ids \ {n} : obj'[x] = obj[x]
  BY <1>2, <1>4, <1>5, <1>6 DEF Objects
<1>8. \A x \in Ids : obj[x].alive => Calm(obj[x], obj'[x])
  BY <1>4, <1>7 DEF Calm
<1>9. /\ Registered(obj', sessions) /\ Queue(obj', queued, sessions)
      /\ HandedOver(obj', addSessQueue, sessions)
  BY <1>1, <1>2, <1>7, <1>8, CalmTables
<1>10. TypeInv'
  <2>1. addSessQueue' \in Seq(Ids)
    BY <1>2, <1>4, <1>5
  <2>2. made' \in 0..MaxSessions
    BY <1>2, <1>4, <1>5 DEF Ids
  <2> QED
    BY <1>1, <1>5, <1>7, <2>1, <2>2 DEF TypeInv
<1>11. Loop' /\ Room'
  BY <1>1, <1>5 DEF Loop, Room
<1>12. NotMade(obj, made)'
  <2> SUFFICES ASSUME NEW x \in Ids, obj'[x].alive PROVE x <= n
    BY <1>5 DEF NotMade
  <2>1. CASE x = n
    BY <1>4, <2>1 DEF Ids
  <2>2. CASE x # n
    <3>1. x <= made
      BY <1>1, <1>7, <2>2 DEF NotMade
    <3> QED
      BY <1>2, <1>3, <3>1 DEF Ids
  <2> QED
    BY <2>1, <2>2
<1>13. ~In(n, addSessQueue)
  BY <1>1, <1>4 DEF In, HandedOver
<1>14. sessions[a] # n
  BY <1>1, <1>4 DEF Registered, None, Ids
<1>15. HandedOver(obj', addSessQueue', sessions)
  <2>1. /\ Len(addSessQueue') = Len(addSessQueue) + 1 /\ Len(addSessQueue) \in Nat
        /\ \A i \in 1..Len(addSessQueue) : addSessQueue'[i] = addSessQueue[i]
        /\ addSessQueue'[Len(addSessQueue) + 1] = n
    BY <1>2, <1>4, <1>5, AppendFacts
  <2>2. \A i \in 1..Len(addSessQueue) : addSessQueue[i] # n
    BY <1>13 DEF In
  <2>3. Distinct(addSessQueue')
    BY <1>1, <2>1, <2>2 DEF HandedOver, Distinct
  <2>4. ASSUME NEW i \in 1..Len(addSessQueue')
        PROVE  LET x == addSessQueue'[i] IN
               /\ obj'[x].alive /\ obj'[x].init = "no" /\ obj'[x].account \in Accounts
               /\ sessions[obj'[x].account] # x
    <3>1. CASE i \in 1..Len(addSessQueue)
      BY <1>9, <2>1, <3>1 DEF HandedOver
    <3>2. CASE i = Len(addSessQueue) + 1
      BY <1>6, <1>7, <1>14, <2>1, <3>2
    <3> QED
      BY <2>1, <3>1, <3>2
  <2> QED
    BY <2>3, <2>4 DEF HandedOver
<1>16. LimitRespected'
  <2>1. Admitted' = Admitted
    BY <1>1, <1>5, <1>8, <1>2 DEF Admitted, Registered, Calm, Tables
  <2> QED
    BY <1>1, <2>1 DEF LimitRespected
<1> QED
  BY <1>5, <1>9, <1>10, <1>11, <1>12, <1>15, <1>16 DEF IInv

(* The session that is handled next is in no table. *)
LEMMA HeadFacts ==
  ASSUME IInv, addSessQueue # <<>>, NEW n, n = Head(addSessQueue)
  PROVE  /\ n \in Ids /\ obj[n].alive /\ obj[n].init = "no" /\ obj[n].account \in Accounts
         /\ \A a \in Accounts : sessions[a] # n
         /\ ~In(n, queued) /\ ~In(n, Tail(addSessQueue))
         /\ Tail(addSessQueue) \in Seq(Ids) /\ Distinct(Tail(addSessQueue))
         /\ \A i \in 1..Len(Tail(addSessQueue)) :
              \E j \in 1..Len(addSessQueue) : Tail(addSessQueue)[i] = addSessQueue[j]
<1> DEFINE s == addSessQueue
           t == Tail(s)
<1>1. /\ HandedOver(obj, s, sessions) /\ s \in Seq(Ids)
      /\ Registered(obj, sessions) /\ Queue(obj, queued, sessions)
  BY DEF IInv, TypeInv
<1>2. /\ Len(s) \in Nat \ {0} /\ n = s[1] /\ n \in Ids /\ 1 \in 1..Len(s)
      /\ t \in Seq(Ids) /\ Len(t) = Len(s) - 1
      /\ \A i \in 1..Len(t) : t[i] = s[i + 1] /\ i + 1 \in 1..Len(s)
  BY <1>1, TailFacts
<1>3. /\ \A i, j \in 1..Len(s) : s[i] = s[j] => i = j
      /\ obj[n].alive /\ obj[n].init = "no" /\ obj[n].account \in Accounts
      /\ sessions[obj[n].account] # n
  BY <1>1, <1>2 DEF HandedOver, Distinct
<1>4. \A a \in Accounts : sessions[a] # n
  <2> SUFFICES ASSUME NEW a \in Accounts, sessions[a] = n PROVE FALSE
    OBVIOUS
  <2>1. n # None
    BY <1>2, ConstantsAssumption DEF Ids, None
  <2>2. obj[n].account = a
    BY <1>1, <2>1 DEF Registered
  <2> QED
    BY <1>3, <2>2
<1>5. ~In(n, queued)
  <2> SUFFICES ASSUME NEW i \in 1..Len(queued), queued[i] = n PROVE FALSE
    BY DEF In
  <2>1. obj[n].account \in Accounts /\ sessions[obj[n].account] = n
    BY <1>1 DEF Queue
  <2> QED
    BY <1>3, <2>1
<1>6. ~In(n, t)
  <2> SUFFICES ASSUME NEW i \in 1..Len(t), t[i] = n PROVE FALSE
    BY DEF In
  <2>1. i + 1 \in 1..Len(s) /\ s[i + 1] = s[1]
    BY <1>2
  <2>2. i + 1 = 1
    BY <1>2, <1>3, <2>1
  <2> QED
    BY <1>2, <2>2
<1>7. Distinct(t)
  <2> SUFFICES ASSUME NEW i \in 1..Len(t), NEW j \in 1..Len(t), t[i] = t[j] PROVE i = j
    BY DEF Distinct
  <2>1. i + 1 = j + 1
    BY <1>2, <1>3
  <2> QED
    BY <1>2, <2>1
<1>8. \A i \in 1..Len(t) : \E j \in 1..Len(s) : t[i] = s[j]
  BY <1>2
<1> QED
  BY <1>2, <1>3, <1>4, <1>5, <1>6, <1>7, <1>8

LEMMA AddSessionRefusedInv ==
  ASSUME IInv, AddSessionRefused
  PROVE  IInv'
<1>1. /\ TypeInv /\ Loop /\ NotMade(obj, made) /\ HandedOver(obj, addSessQueue, sessions)
      /\ Registered(obj, sessions) /\ Queue(obj, queued, sessions) /\ Room /\ LimitRespected
      /\ obj \in Objects /\ sessions \in Tables /\ queued \in Seq(Ids)
  BY DEF IInv, TypeInv
<1>2. PICK n : n = Head(addSessQueue)
  OBVIOUS
<1>3. /\ addSessQueue # <<>> /\ obj' = Delete(KickPlayer(obj, n), n)
      /\ addSessQueue' = Tail(addSessQueue)
      /\ UNCHANGED <<made, sessions, queued, disconnects, now, pc, todo>>
  BY <1>2 DEF AddSessionRefused, worldVars, loopVars
<1>4. /\ n \in Ids /\ \A a \in Accounts : sessions[a] # n
      /\ ~In(n, queued) /\ ~In(n, Tail(addSessQueue))
      /\ Tail(addSessQueue) \in Seq(Ids) /\ Distinct(Tail(addSessQueue))
      /\ \A i \in 1..Len(Tail(addSessQueue)) :
           \E j \in 1..Len(addSessQueue) : Tail(addSessQueue)[i] = addSessQueue[j]
  BY <1>2, <1>3, HeadFacts
<1>5. obj' = [obj EXCEPT ![n] = NoSession]
  BY <1>1, <1>3, <1>4 DEF Delete, KickPlayer, Objects
<1>6. /\ obj' \in Objects /\ obj'[n] = NoSession /\ ~obj'[n].alive
      /\ \A x \in Ids \ {n} : obj'[x] = obj[x]
  BY <1>1, <1>4, <1>5, NoSessionFacts DEF Objects
<1>7. /\ Queue(obj', queued, sessions) /\ Registered(obj', sessions)
  BY <1>1, <1>4, <1>6, GoneTables
<1>8. HandedOver(obj, Tail(addSessQueue), sessions)
  BY <1>1, <1>4 DEF HandedOver
<1>9. HandedOver(obj', addSessQueue', sessions)
  BY <1>1, <1>3, <1>4, <1>6, <1>8, GoneTables
<1>10. TypeInv'
  BY <1>1, <1>3, <1>4, <1>6 DEF TypeInv
<1>11. Loop' /\ Room' /\ NotMade(obj, made)'
  BY <1>1, <1>3, <1>6 DEF Loop, Room, NotMade
<1>12. LimitRespected'
  <2>1. Admitted' = Admitted
    BY <1>1, <1>3, <1>4, <1>6 DEF Admitted, Tables
  <2> QED
    BY <1>1, <2>1 DEF LimitRespected
<1> QED
  BY <1>3, <1>7, <1>9, <1>10, <1>11, <1>12 DEF IInv

-----------------------------------------------------------------------------
(* The steps that take a session out of m_sessions. *)

(* Sessions o and queue q agree with the other tables. *)
Good(o, q) ==
    /\ o \in Objects /\ q \in Seq(Ids)
    /\ Queue(o, q, sessions) /\ Registered(o, sessions)
    /\ HandedOver(o, addSessQueue, sessions) /\ NotMade(o, made)

LEMMA RemoveGood ==
  ASSUME TypeInv, NEW o, NEW q, Good(o, q), NEW a \in Accounts, sessions[a] # None,
         q # <<>> => Limit > 0 /\ SessionCount(sessions) - Len(q) >= Limit,
         Limit > 0 => Cardinality(Others(o, sessions, a)) <= Limit,
         NEW r, r = RemoveQueuedPlayer(o, q, sessions[a])
  PROVE  /\ Good(r.obj, r.queued) /\ ~In(sessions[a], r.queued)
         /\ RoomBut(r.queued) /\ r.found = In(sessions[a], q)
         /\ Limit > 0 => Cardinality(Others(r.obj, sessions, a)) <= Limit
         /\ \A x \in Ids : ~In(x, q) => r.obj[x] = o[x] /\ ~In(x, r.queued)
<1>1. /\ sessions \in Tables /\ addSessQueue \in Seq(Ids) /\ sessions[a] \in Ids
      /\ o \in Objects /\ q \in Seq(Ids)
      /\ Queue(o, q, sessions) /\ Registered(o, sessions)
      /\ HandedOver(o, addSessQueue, sessions) /\ NotMade(o, made)
  BY DEF TypeInv, Good, Tables
<1>2. Removed(o, q, sessions[a], r) /\ r.found = In(sessions[a], q)
  BY <1>1, RemoveFacts
<1>3. /\ r.obj \in Objects /\ r.queued \in Seq(Ids) /\ Queue(r.obj, r.queued, sessions)
      /\ ~In(sessions[a], r.queued)
      /\ \A x \in Ids : In(x, r.queued) => In(x, q)
      /\ \A x \in Ids : r.obj[x].account = o[x].account /\ r.obj[x].alive = o[x].alive
      /\ \A x \in Ids : ~In(x, q) => r.obj[x] = o[x]
  BY <1>2 DEF Removed
<1>4. /\ RoomBut(r.queued)
      /\ Limit > 0 => Cardinality(Others(r.obj, sessions, a)) <= Limit
  BY <1>1, <1>2, RemoveNumbers
<1>5. Registered(r.obj, sessions) /\ NotMade(r.obj, made)
  BY <1>1, <1>3 DEF Registered, NotMade, Tables
<1>6. HandedOver(r.obj, addSessQueue, sessions)
  <2>1. ASSUME NEW i \in 1..Len(addSessQueue)
        PROVE  r.obj[addSessQueue[i]] = o[addSessQueue[i]]
    <3>1. addSessQueue[i] \in Ids /\ sessions[o[addSessQueue[i]].account] # addSessQueue[i]
      BY <1>1 DEF HandedOver
    <3>2. ~In(addSessQueue[i], q)
      BY <1>1, <3>1 DEF In, Queue
    <3> QED
      BY <1>3, <3>1, <3>2
  <2> QED
    BY <1>1, <2>1 DEF HandedOver
<1> QED
  BY <1>2, <1>3, <1>4, <1>5, <1>6 DEF Good

(* Session n leaves m_sessions and is deleted. *)
LEMMA DeleteGood ==
  ASSUME TypeInv, NEW o, NEW q, Good(o, q), NEW a \in Accounts, sessions[a] # None,
         NEW n, n = sessions[a], ~In(n, q), NEW p, p = [o EXCEPT ![n] = NoSession],
         NEW m \in Tables, m[a] = None,
         \A b \in Accounts \ {a} : m[b] = sessions[b]
  PROVE  /\ p \in Objects /\ Queue(p, q, m) /\ Registered(p, m)
         /\ HandedOver(p, addSessQueue, m) /\ NotMade(p, made)
         /\ SessionCount(m) = SessionCount(sessions) - 1 /\ SessionCount(sessions) \in Nat
         /\ \A b \in Accounts : m[b] # None => b # a /\ m[b] = sessions[b] /\ m[b] # n
         /\ \A x \in Ids \ {n} : p[x] = o[x]
<1>1. /\ sessions \in Tables /\ addSessQueue \in Seq(Ids) /\ n \in Ids
      /\ o \in Objects /\ q \in Seq(Ids)
      /\ Queue(o, q, sessions) /\ Registered(o, sessions)
      /\ HandedOver(o, addSessQueue, sessions) /\ NotMade(o, made)
  BY DEF TypeInv, Good, Tables
<1>2. /\ p \in Objects /\ p[n] = NoSession /\ ~p[n].alive
      /\ \A x \in Ids \ {n} : p[x] = o[x]
  BY <1>1, NoSessionFacts DEF Objects
<1>3. m[a] = None /\ \A b \in Accounts \ {a} : m[b] = sessions[b]
  OBVIOUS
<1>4. o[n].account = a
  BY <1>1 DEF Registered
<1>5. \A b \in Accounts : m[b] # None => b # a /\ m[b] = sessions[b] /\ m[b] # n
  BY <1>1, <1>3, <1>4 DEF Registered
<1>6. ASSUME NEW x \in Ids, o[x].account \in Accounts, sessions[o[x].account] = x, x # n
      PROVE  m[o[x].account] = x
  <2>1. o[x].account # a
    BY <1>6
  <2> QED
    BY <1>3, <1>6, <2>1
<1>7. Queue(p, q, m)
  <2>1. ASSUME NEW i \in 1..Len(q)
        PROVE  q[i] \in Ids /\ p[q[i]] = o[q[i]] /\ m[o[q[i]].account] = q[i]
    <3>1. q[i] \in Ids /\ q[i] # n
      BY <1>1 DEF In
    <3>2. o[q[i]].account \in Accounts /\ sessions[o[q[i]].account] = q[i]
      BY <1>1 DEF Queue
    <3> QED
      BY <1>2, <1>6, <3>1, <3>2
  <2> QED
    BY <1>1, <2>1 DEF Queue
<1>8. Registered(p, m)
  <2>1. \A b \in Accounts : m[b] # None => m[b] \in Ids /\ p[m[b]] = o[m[b]]
    BY <1>2, <1>5 DEF Tables
  <2> QED
    BY <1>1, <1>5, <2>1 DEF Registered
<1>9. HandedOver(p, addSessQueue, m)
  <2>1. ASSUME NEW i \in 1..Len(addSessQueue)
        PROVE  /\ p[addSessQueue[i]] = o[addSessQueue[i]]
               /\ m[o[addSessQueue[i]].account] # addSessQueue[i]
    <3>1. /\ addSessQueue[i] \in Ids /\ o[addSessQueue[i]].account \in Accounts
          /\ sessions[o[addSessQueue[i]].account] # addSessQueue[i]
      BY <1>1 DEF HandedOver
    <3>2. addSessQueue[i] # n
      BY <1>4, <3>1
    <3>3. addSessQueue[i] # None
      BY <3>1, ConstantsAssumption DEF Ids, None
    <3> QED
      BY <1>2, <1>3, <3>1, <3>2, <3>3
  <2> QED
    BY <1>1, <2>1 DEF HandedOver
<1>10. NotMade(p, made)
  BY <1>1, <1>2 DEF NotMade
<1>11. SessionCount(m) = SessionCount(sessions) - 1 /\ SessionCount(sessions) \in Nat
  <2>1. With(m) = With(sessions) \ {a} /\ a \in With(sessions)
    BY <1>3 DEF With
  <2>2. IsFiniteSet(With(sessions)) /\ SessionCount(sessions) \in Nat
        /\ SessionCount(sessions) = Cardinality(With(sessions))
        /\ SessionCount(m) = Cardinality(With(m))
    BY <1>1, WithFacts
  <2>3. Cardinality(With(sessions) \ {a}) = Cardinality(With(sessions)) - 1
    BY <2>1, <2>2, FS_RemoveElement
  <2> QED
    BY <2>1, <2>2, <2>3
<1> QED
  BY <1>2, <1>3, <1>5, <1>7, <1>8, <1>9, <1>10, <1>11

LEMMA CalmGood ==
  ASSUME IInv, NEW n \in Ids, NEW k, CalmStep(obj[n], k), NEW o, o = [obj EXCEPT ![n] = k]
  PROVE  /\ Good(o, queued) /\ Good(obj, queued)
         /\ \A a \in Accounts : Limit > 0 => Cardinality(Others(o, sessions, a)) <= Limit
         /\ queued # <<>> => Limit > 0 /\ SessionCount(sessions) - Len(queued) >= Limit
         /\ \A x \in Ids \ {n} : o[x] = obj[x]
<1>1. /\ TypeInv /\ NotMade(obj, made) /\ HandedOver(obj, addSessQueue, sessions)
      /\ Registered(obj, sessions) /\ Queue(obj, queued, sessions) /\ Room /\ LimitRespected
      /\ obj \in Objects /\ sessions \in Tables /\ queued \in Seq(Ids)
      /\ addSessQueue \in Seq(Ids) /\ made \in Nat
  BY DEF IInv, TypeInv
<1>2. o \in Objects /\ \A x \in Ids : Calm(obj[x], o[x])
  BY <1>1, CalmOne
<1>3. /\ Queue(o, queued, sessions) /\ Registered(o, sessions)
      /\ \A a : Others(o, sessions, a) = Others(obj, sessions, a)
  BY <1>1, <1>2, CalmTables
<1>4. HandedOver(o, addSessQueue, sessions)
  BY <1>1, <1>2, CalmTables
<1>5. NotMade(o, made)
  BY <1>1, <1>2 DEF NotMade, Calm
<1>6. \A a \in Accounts : Limit > 0 => Cardinality(Others(o, sessions, a)) <= Limit
  BY <1>1, <1>3, LimitFacts
<1>7. \A x \in Ids \ {n} : o[x] = obj[x]
  BY <1>1 DEF Objects
<1>8. queued # <<>> => Limit > 0 /\ SessionCount(sessions) - Len(queued) >= Limit
  BY <1>1 DEF Room
<1> QED
  BY <1>1, <1>2, <1>3, <1>4, <1>5, <1>6, <1>7, <1>8 DEF Good

LEMMA RemoveSessionInv ==
  ASSUME IInv, NEW a \in Accounts, RemoveSession(a)
  PROVE  IInv'
<1>1. /\ TypeInv /\ Loop /\ obj \in Objects /\ sessions \in Tables
      /\ Limit \in Nat /\ a \in todo /\ pc = "update" /\ todo \subseteq Accounts
      /\ sessions[a] # None
  BY ConstantsAssumption DEF IInv, TypeInv, RemoveSession, Loop
<1>2. PICK n \in Ids : n = sessions[a]
  BY <1>1, ObjFacts
<1>3. PICK k, once, twice :
        /\ k \in Updated(obj[n])
        /\ once = RemoveQueuedPlayer([obj EXCEPT ![n] = k], queued, n)
        /\ twice = RemoveQueuedPlayer(once.obj, once.queued, n)
        /\ disconnects' = IF ~once.found /\ Tolerance > 0
                          THEN [disconnects EXCEPT ![a] = now] ELSE disconnects
        /\ queued' = twice.queued
        /\ obj' = Delete(twice.obj, n)
  BY <1>2 DEF RemoveSession
<1>4. /\ sessions' = [sessions EXCEPT ![a] = None] /\ todo' = todo \ {a}
      /\ UNCHANGED <<made, addSessQueue, now, pc>>
  BY DEF RemoveSession
<1>5. PICK o : o = [obj EXCEPT ![n] = k]
  OBVIOUS
<1>6. /\ Good(o, queued)
      /\ Limit > 0 => Cardinality(Others(o, sessions, a)) <= Limit
      /\ queued # <<>> => Limit > 0 /\ SessionCount(sessions) - Len(queued) >= Limit
  <2>1. CalmStep(obj[n], k)
    BY <1>3, ObjFacts, UpdatedFacts
  <2> QED
    BY <1>5, <2>1, CalmGood
<1>7. /\ Good(once.obj, once.queued) /\ RoomBut(once.queued)
      /\ Limit > 0 => Cardinality(Others(once.obj, sessions, a)) <= Limit
  BY <1>1, <1>2, <1>3, <1>5, <1>6, RemoveGood
<1>8. SessionCount(sessions) \in Nat /\ Len(once.queued) \in Nat /\ Len(twice.queued) \in Nat
  <2>1. SessionCount(sessions) \in Nat /\ Len(once.queued) \in Nat
    BY <1>1, <1>7, WithFacts DEF Good
  <2>2. once.queued # <<>> =>
            Limit > 0 /\ SessionCount(sessions) - Len(once.queued) >= Limit
    BY <1>1, <1>7, <2>1 DEF RoomBut
  <2>3. Good(twice.obj, twice.queued)
    BY <1>1, <1>2, <1>3, <1>7, <2>2, RemoveGood
  <2> QED
    BY <2>1, <2>3 DEF Good
<1>9. once.queued # <<>> => Limit > 0 /\ SessionCount(sessions) - Len(once.queued) >= Limit
  BY <1>1, <1>7, <1>8 DEF RoomBut
<1>10. /\ Good(twice.obj, twice.queued) /\ ~In(n, twice.queued) /\ RoomBut(twice.queued)
       /\ Limit > 0 => Cardinality(Others(twice.obj, sessions, a)) <= Limit
  BY <1>1, <1>2, <1>3, <1>7, <1>9, RemoveGood
<1>11. /\ obj' \in Objects /\ sessions' \in Tables
       /\ Queue(obj', queued', sessions') /\ Registered(obj', sessions')
       /\ HandedOver(obj', addSessQueue, sessions') /\ NotMade(obj', made)
       /\ SessionCount(sessions') = SessionCount(sessions) - 1
       /\ \A b \in Accounts : sessions'[b] # None =>
            b # a /\ sessions'[b] = sessions[b] /\ sessions'[b] # n
       /\ \A x \in Ids \ {n} : obj'[x] = twice.obj[x]
  <2>1. /\ TypeInv /\ Good(twice.obj, queued') /\ sessions[a] # None /\ n = sessions[a]
        /\ ~In(n, queued') /\ obj' = [twice.obj EXCEPT ![n] = NoSession]
        /\ sessions' \in Tables /\ sessions'[a] = None
        /\ \A b \in Accounts \ {a} : sessions'[b] = sessions[b]
    BY <1>1, <1>2, <1>3, <1>4, <1>10 DEF Delete, Tables
  <2> QED
    BY <2>1, DeleteGood
<1>12. TypeInv'
  <2>1. queued' \in Seq(Ids)
    BY <1>3, <1>10 DEF Good
  <2>2. /\ disconnects' \in [Accounts -> Int]
        /\ \A b \in Accounts : disconnects'[b] = Never \/ disconnects'[b] \in 0..now
    BY <1>1, <1>3 DEF TypeInv
  <2> QED
    BY <1>1, <1>4, <1>11, <2>1, <2>2 DEF TypeInv
<1>13. Loop'
  BY <1>1, <1>4 DEF Loop, Tables
<1>14. Room'
  <2>1. queued' # <<>> => Limit > 0 /\ SessionCount(sessions') - Len(queued') >= Limit
    BY <1>3, <1>10, <1>11 DEF RoomBut
  <2> QED
    BY <2>1 DEF Room, SessionCount
<1>15. LimitRespected'
  <2>1. Admitted' = Others(twice.obj, sessions, a)
    <3>1. \A b \in Accounts : sessions'[b] # None => sessions'[b] \in Ids \ {n}
      BY <1>11 DEF Tables
    <3>2. \A b \in Accounts \ {a} : sessions'[b] = sessions[b]
      BY <1>1, <1>4 DEF Tables
    <3> QED
      BY <1>11, <3>1, <3>2 DEF Admitted, Others
  <2> QED
    BY <1>10, <2>1 DEF LimitRespected
<1> QED
  BY <1>4, <1>11, <1>12, <1>13, <1>14, <1>15 DEF IInv

-----------------------------------------------------------------------------
(* AddSession_. *)

(* The session that is handled next enters table m0, which has none of its
   account; m is the table then. *)
LEMMA InsertFacts ==
  ASSUME IInv, addSessQueue # <<>>, NEW n, n = Head(addSessQueue),
         NEW o \in Objects, NEW q \in Seq(Ids), NEW m0 \in Tables,
         Queue(o, q, m0), Registered(o, m0), HandedOver(o, addSessQueue, m0),
         NEW a \in Accounts, o[n].account = a, m0[a] = None,
         NEW m \in Tables, m[a] = n, \A b \in Accounts \ {a} : m[b] = m0[b]
  PROVE  /\ Queue(o, q, m) /\ Registered(o, m) /\ HandedOver(o, Tail(addSessQueue), m)
         /\ n \in Ids /\ ~In(n, q) /\ ~In(n, Tail(addSessQueue)) /\ o[n].init = "no"
         /\ SessionCount(m) = SessionCount(m0) + 1 /\ SessionCount(m0) \in Nat
         /\ Others(o, m, a) = Others(o, m0, a)
         /\ Cardinality(Others(o, m, a)) <= SessionCount(m0)
         /\ Cardinality(Others(o, m, a)) \in Nat
<1> DEFINE s == addSessQueue
           t == Tail(s)
<1>1. /\ n \in Ids /\ n # None /\ ~In(n, t) /\ t \in Seq(Ids) /\ Distinct(t)
      /\ \A i \in 1..Len(t) : \E j \in 1..Len(s) : t[i] = s[j]
      /\ s \in Seq(Ids)
  <2>1. s \in Seq(Ids)
    BY DEF IInv, TypeInv
  <2>2. \A x \in Ids : x # None
    BY ConstantsAssumption DEF Ids, None
  <2> QED
    BY <2>1, <2>2, HeadFacts
<1>2. /\ o[n].alive /\ o[n].init = "no"
      /\ \A i \in 1..Len(s) : /\ o[s[i]].alive /\ o[s[i]].init = "no"
                              /\ o[s[i]].account \in Accounts /\ m0[o[s[i]].account] # s[i]
  <2>1. n = s[1] /\ 1 \in 1..Len(s)
    BY <1>1, TailFacts
  <2> QED
    BY <2>1 DEF HandedOver
<1>3. ~In(n, q)
  <2>1. m0[o[n].account] # n
    BY <1>1
  <2> QED
    BY <2>1 DEF In, Queue
<1>4. Queue(o, q, m)
  <2>1. ASSUME NEW i \in 1..Len(q)
        PROVE  m[o[q[i]].account] = q[i]
    <3>1. o[q[i]].account \in Accounts /\ m0[o[q[i]].account] = q[i] /\ q[i] \in Ids
      BY DEF Queue
    <3>2. q[i] # None
      BY <3>1, ConstantsAssumption DEF Ids, None
    <3> QED
      BY <3>1, <3>2
  <2> QED
    BY <2>1 DEF Queue
<1>5. Registered(o, m)
  BY <1>2 DEF Registered
<1>6. HandedOver(o, t, m)
  <2>1. ASSUME NEW i \in 1..Len(t)
        PROVE  /\ o[t[i]].alive /\ o[t[i]].init = "no"
               /\ o[t[i]].account \in Accounts /\ m[o[t[i]].account] # t[i]
    <3>1. t[i] # n
      BY <1>1 DEF In
    <3>2. /\ o[t[i]].alive /\ o[t[i]].init = "no"
          /\ o[t[i]].account \in Accounts /\ m0[o[t[i]].account] # t[i]
      BY <1>1, <1>2
    <3> QED
      BY <3>1, <3>2
  <2> QED
    BY <1>1, <2>1 DEF HandedOver
<1>7. SessionCount(m) = SessionCount(m0) + 1 /\ SessionCount(m0) \in Nat
  <2>1. With(m) = With(m0) \cup {a} /\ a \notin With(m0)
    BY <1>1 DEF With
  <2>2. /\ IsFiniteSet(With(m0)) /\ SessionCount(m0) \in Nat
        /\ SessionCount(m0) = Cardinality(With(m0)) /\ SessionCount(m) = Cardinality(With(m))
    BY WithFacts
  <2>3. Cardinality(With(m0) \cup {a}) = Cardinality(With(m0)) + 1
    BY <2>1, <2>2, FS_AddElement
  <2> QED
    BY <2>1, <2>2, <2>3
<1>8. Others(o, m, a) = Others(o, m0, a)
  BY DEF Others
<1>9. Others(o, m, a) \in SUBSET With(m0)
  BY <1>8 DEF Others, With
<1>10. Cardinality(Others(o, m, a)) <= SessionCount(m0) /\ Cardinality(Others(o, m, a)) \in Nat
  BY <1>9, WithFacts
<1> QED
  BY <1>1, <1>2, <1>3, <1>4, <1>5, <1>6, <1>7, <1>8, <1>10

(* Session n of account a is in table m in place of the old one, which is gone,
   and not yet admitted nor in queue q; the sessions o agree with that.  count
   is what AddSession_ compares with the limit. *)
Placed(o, q, m, n, a, count) ==
    /\ o \in Objects /\ q \in Seq(Ids) /\ m \in Tables
    /\ Queue(o, q, m) /\ Registered(o, m) /\ HandedOver(o, Tail(addSessQueue), m)
    /\ NotMade(o, made)
    /\ n \in Ids /\ ~In(n, q) /\ ~In(n, Tail(addSessQueue)) /\ o[n].init = "no"
    /\ m[a] = n /\ o[n].account = a
    /\ SessionCount(m) \in Nat /\ Cardinality(Others(o, m, a)) \in Nat
    /\ Limit > 0 => Cardinality(Others(o, m, a)) <= Limit
    /\ Cardinality(Others(o, m, a)) <= SessionCount(m) - 1
    /\ q # <<>> => Limit > 0 /\ SessionCount(m) - 1 - Len(q) >= Limit
    /\ Limit > 0 /\ count >= Limit => SessionCount(m) - 1 >= Limit
    /\ count \in Int /\ count >= SessionCount(m) - 1

(* The account has no session yet. *)
LEMMA PlacedFirst ==
  ASSUME IInv, addSessQueue # <<>>, NEW n, n = Head(addSessQueue),
         NEW a \in Accounts, obj[n].account = a, sessions[a] = None,
         NEW m \in Tables, m[a] = n, \A b \in Accounts \ {a} : m[b] = sessions[b],
         NEW count, count = SessionCount(m) - 1
  PROVE  Placed(obj, queued, m, n, a, count)
<1>1. /\ TypeInv /\ obj \in Objects /\ queued \in Seq(Ids) /\ sessions \in Tables
      /\ Queue(obj, queued, sessions) /\ Registered(obj, sessions) /\ LimitRespected
      /\ HandedOver(obj, addSessQueue, sessions) /\ NotMade(obj, made) /\ Room
  BY DEF IInv, TypeInv
<1>2. /\ Queue(obj, queued, m) /\ Registered(obj, m)
      /\ HandedOver(obj, Tail(addSessQueue), m)
      /\ n \in Ids /\ ~In(n, queued) /\ ~In(n, Tail(addSessQueue)) /\ obj[n].init = "no"
      /\ SessionCount(m) = SessionCount(sessions) + 1 /\ SessionCount(sessions) \in Nat
      /\ Others(obj, m, a) = Others(obj, sessions, a)
      /\ Cardinality(Others(obj, m, a)) <= SessionCount(sessions)
      /\ Cardinality(Others(obj, m, a)) \in Nat
  BY <1>1, InsertFacts
<1>3. (Limit > 0 => Cardinality(Others(obj, m, a)) <= Limit) /\ Limit \in Nat
  BY <1>1, <1>2, LimitFacts
<1>4. queued # <<>> => Limit > 0 /\ SessionCount(m) - 1 - Len(queued) >= Limit
  <2>1. queued # <<>> => Limit > 0 /\ SessionCount(sessions) - Len(queued) >= Limit
    BY <1>1 DEF Room
  <2>2. SessionCount(m) - 1 = SessionCount(sessions)
    BY <1>2
  <2> QED
    BY <2>1, <2>2
<1>5. /\ SessionCount(m) \in Nat /\ Cardinality(Others(obj, m, a)) <= SessionCount(m) - 1
      /\ count \in Int /\ count >= SessionCount(m) - 1
      /\ Limit > 0 /\ count >= Limit => SessionCount(m) - 1 >= Limit
  BY <1>2, <1>3
<1> QED
  BY <1>1, <1>2, <1>3, <1>4, <1>5 DEF Placed

(* The old session is kicked, taken out of the queue and deleted. *)
LEMMA PlacedAgain ==
  ASSUME IInv, addSessQueue # <<>>, NEW n, n = Head(addSessQueue),
         NEW a \in Accounts, obj[n].account = a, NEW old \in Ids, old = sessions[a], old # None,
         NEW r, r = RemoveQueuedPlayer(KickPlayer(obj, old), queued, old),
         NEW o, o = Delete(r.obj, old),
         NEW m \in Tables, m[a] = n, \A b \in Accounts \ {a} : m[b] = sessions[b],
         NEW count, In(old, queued) => count = SessionCount(m),
         ~In(old, queued) => count = SessionCount(m) - 1
  PROVE  Placed(o, r.queued, m, n, a, count) /\ r.found = In(old, queued)
<1>1. /\ TypeInv /\ obj \in Objects /\ queued \in Seq(Ids) /\ sessions \in Tables
      /\ Limit \in Nat /\ Len(queued) \in Nat
  BY ConstantsAssumption DEF IInv, TypeInv
<1>2. PICK k, o0 : k = Kicked(obj[old]) /\ o0 = [obj EXCEPT ![old] = k]
  OBVIOUS
<1>3. CalmStep(obj[old], k)
  BY <1>2, ObjFacts, KickedFacts
<1>4. /\ Good(o0, queued)
      /\ Limit > 0 => Cardinality(Others(o0, sessions, a)) <= Limit
      /\ queued # <<>> => Limit > 0 /\ SessionCount(sessions) - Len(queued) >= Limit
      /\ \A x \in Ids \ {old} : o0[x] = obj[x]
  <2>1. o0 = [obj EXCEPT ![old] = k]
    BY <1>2
  <2>2. /\ Good(o0, queued)
        /\ Limit > 0 => Cardinality(Others(o0, sessions, a)) <= Limit
        /\ queued # <<>> => Limit > 0 /\ SessionCount(sessions) - Len(queued) >= Limit
    BY <1>3, <2>1, CalmGood
  <2>3. \A x \in Ids \ {old} : o0[x] = obj[x]
    BY <1>1, <2>1 DEF Objects
  <2> QED
    BY <2>2, <2>3
<1>5. r = RemoveQueuedPlayer(o0, queued, sessions[a])
  BY <1>2 DEF KickPlayer
<1>6. /\ Good(r.obj, r.queued) /\ ~In(old, r.queued) /\ RoomBut(r.queued)
      /\ r.found = In(old, queued)
      /\ Limit > 0 => Cardinality(Others(r.obj, sessions, a)) <= Limit
      /\ \A x \in Ids : ~In(x, queued) => r.obj[x] = o0[x] /\ ~In(x, r.queued)
  BY <1>1, <1>4, <1>5, RemoveGood
<1>7. PICK m0 \in Tables : m0[a] = None /\ \A b \in Accounts \ {a} : m0[b] = sessions[b]
  <2>1. [sessions EXCEPT ![a] = None] \in Tables
    BY <1>1 DEF Tables
  <2> QED
    BY <1>1, <2>1 DEF Tables
<1>8. o = [r.obj EXCEPT ![old] = NoSession]
  BY DEF Delete
<1>9. /\ o \in Objects /\ Queue(o, r.queued, m0) /\ Registered(o, m0)
      /\ HandedOver(o, addSessQueue, m0) /\ NotMade(o, made)
      /\ SessionCount(m0) = SessionCount(sessions) - 1 /\ SessionCount(sessions) \in Nat
      /\ \A b \in Accounts : m0[b] # None => b # a /\ m0[b] = sessions[b] /\ m0[b] # old
      /\ \A x \in Ids \ {old} : o[x] = r.obj[x]
  BY <1>1, <1>6, <1>7, <1>8, DeleteGood
<1>10. /\ n \in Ids /\ n # old /\ ~In(n, queued)
  BY HeadFacts
<1>11. o[n] = obj[n] /\ r.queued \in Seq(Ids) /\ Len(r.queued) \in Nat
  BY <1>4, <1>6, <1>9, <1>10 DEF Good
<1>12. /\ Queue(o, r.queued, m) /\ Registered(o, m)
       /\ HandedOver(o, Tail(addSessQueue), m)
       /\ ~In(n, r.queued) /\ ~In(n, Tail(addSessQueue)) /\ o[n].init = "no"
       /\ SessionCount(m) = SessionCount(m0) + 1 /\ SessionCount(m0) \in Nat
       /\ Others(o, m, a) = Others(o, m0, a)
       /\ Cardinality(Others(o, m, a)) <= SessionCount(m0)
       /\ Cardinality(Others(o, m, a)) \in Nat
  <2>1. \A b \in Accounts \ {a} : m[b] = m0[b]
    BY <1>7
  <2>2. o[n].account = a
    BY <1>11
  <2> QED
    BY <1>7, <1>9, <1>11, <2>1, <2>2, InsertFacts
<1>13. Limit > 0 => Cardinality(Others(o, m, a)) <= Limit
  <2>1. Others(o, m0, a) = Others(r.obj, sessions, a)
    <3>1. \A b \in Accounts : b # a => m0[b] = sessions[b]
      BY <1>7
    <3>2. \A b \in Accounts : b # a /\ m0[b] # None => m0[b] \in Ids \ {old}
      BY <1>9 DEF Tables
    <3>3. \A b \in Accounts : b # a /\ m0[b] # None => o[m0[b]] = r.obj[m0[b]]
      BY <1>9, <3>2
    <3> QED
      BY <3>1, <3>3 DEF Others
  <2> QED
    BY <1>6, <1>12, <2>1
<1>14. SessionCount(m) = SessionCount(sessions) /\ SessionCount(m) \in Nat
  BY <1>9, <1>12
<1>15. r.queued # <<>> => Limit > 0 /\ SessionCount(m) - 1 - Len(r.queued) >= Limit
  BY <1>6, <1>14 DEF RoomBut
<1>16. Limit > 0 /\ count >= Limit => SessionCount(m) - 1 >= Limit
  <2>1. CASE In(old, queued)
    <3>1. queued # <<>> /\ Len(queued) >= 1
      BY <1>1, <2>1 DEF In
    <3> QED
      BY <1>1, <1>4, <1>14, <3>1
  <2>2. CASE ~In(old, queued)
    BY <2>2
  <2> QED
    BY <2>1, <2>2
<1>17. /\ Cardinality(Others(o, m, a)) <= SessionCount(m) - 1
       /\ count \in Int /\ count >= SessionCount(m) - 1
  BY <1>9, <1>12, <1>14
<1>18. Placed(o, r.queued, m, n, a, count)
  BY <1>9, <1>10, <1>11, <1>12, <1>13, <1>14, <1>15, <1>16, <1>17 DEF Placed
<1> QED
  BY <1>6, <1>18

(* What session n becomes when it has been placed does not concern the others. *)
LEMMA EnterFacts ==
  ASSUME NEW o, NEW q, NEW m, NEW n, NEW a \in Accounts, NEW count,
         Placed(o, q, m, n, a, count), Tail(addSessQueue) \in Seq(Ids), made \in Nat,
         NEW k \in Session, k.alive, k.account = a,
         NEW p \in Objects, p[n] = k, \A x \in Ids \ {n} : p[x] = o[x]
  PROVE  /\ Registered(p, m) /\ Queue(p, q, m)
         /\ HandedOver(p, Tail(addSessQueue), m) /\ NotMade(p, made)
<1>1. /\ o \in Objects /\ q \in Seq(Ids) /\ m \in Tables
      /\ Queue(o, q, m) /\ Registered(o, m) /\ HandedOver(o, Tail(addSessQueue), m)
      /\ NotMade(o, made)
      /\ n \in Ids /\ ~In(n, q) /\ ~In(n, Tail(addSessQueue))
      /\ m[a] = n /\ o[n].account = a
  BY DEF Placed
<1>2. p \in Objects /\ p[n] = k /\ \A x \in Ids \ {n} : p[x] = o[x]
  OBVIOUS
<1>3. Queue(p, q, m) /\ HandedOver(p, Tail(addSessQueue), m)
  BY <1>1, <1>2, GoneTables
<1>4. \A b \in Accounts : b # a /\ m[b] # None => m[b] \in Ids \ {n}
  BY <1>1 DEF Registered, Tables
<1>5. Registered(p, m)
  <2>1. ASSUME NEW b \in Accounts, m[b] # None
        PROVE  p[m[b]].alive /\ p[m[b]].account = b
    <3>1. o[m[b]].alive /\ o[m[b]].account = b
      BY <1>1, <2>1 DEF Registered
    <3>2. CASE b = a
      BY <1>1, <1>2, <3>1, <3>2
    <3>3. CASE b # a
      BY <1>2, <1>4, <2>1, <3>1, <3>3
    <3> QED
      BY <3>2, <3>3
  <2> QED
    BY <2>1 DEF Registered
<1>6. NotMade(p, made)
  <2>1. ASSUME NEW x \in Ids, p[x].alive PROVE x <= made
    <3>1. CASE x = n
      <4>1. o[n].alive
        BY <1>1 DEF Registered, None, Ids
      <4> QED
        BY <1>1, <3>1, <4>1 DEF NotMade
    <3>2. CASE x # n
      BY <1>1, <1>2, <2>1, <3>2 DEF NotMade
    <3> QED
      BY <3>1, <3>2
  <2> QED
    BY <2>1 DEF NotMade
<1> QED
  BY <1>3, <1>5, <1>6

(* AddSessionTaken leaves these alone. *)
LEMMA EnterType ==
  ASSUME IInv, pc = "add", addSessQueue # <<>>, obj' \in Objects, sessions' \in Tables,
         queued' \in Seq(Ids), addSessQueue' = Tail(addSessQueue),
         UNCHANGED <<made, disconnects, now, pc, todo>>
  PROVE  TypeInv' /\ Loop'
<1>1. Tail(addSessQueue) \in Seq(Ids)
  BY HeadFacts
<1> QED
  BY <1>1 DEF IInv, TypeInv, Loop

(* Session n is admitted. *)
LEMMA AdmitInv ==
  ASSUME IInv, pc = "add", addSessQueue # <<>>,
         NEW o, NEW q, NEW m, NEW n, NEW a \in Accounts, NEW count,
         Placed(o, q, m, n, a, count),
         NEW k \in Session, k.alive, k.account = a,
         k.age # Never \/ a \in Privileged \/ Limit = 0 \/ count < Limit,
         obj' = [o EXCEPT ![n] = k], sessions' = m, queued' = q,
         addSessQueue' = Tail(addSessQueue), UNCHANGED <<made, disconnects, now, pc, todo>>
  PROVE  IInv'
<1>1. /\ q \in Seq(Ids) /\ m \in Tables /\ m[a] = n /\ n \in Ids /\ Limit \in Nat
      /\ SessionCount(m) \in Nat /\ Cardinality(Others(o, m, a)) \in Nat
      /\ Limit > 0 => Cardinality(Others(o, m, a)) <= Limit
      /\ Cardinality(Others(o, m, a)) <= SessionCount(m) - 1
      /\ q # <<>> => Limit > 0 /\ SessionCount(m) - 1 - Len(q) >= Limit
      /\ count \in Int /\ count >= SessionCount(m) - 1 /\ Len(q) \in Nat
  BY ConstantsAssumption DEF Placed
<1>2. Tail(addSessQueue) \in Seq(Ids) /\ made \in Nat
  BY HeadFacts DEF IInv, TypeInv
<1>3. /\ obj' \in Objects /\ obj'[n] = k
      /\ Registered(obj', m) /\ Queue(obj', q, m)
      /\ HandedOver(obj', Tail(addSessQueue), m) /\ NotMade(obj', made)
      /\ \A b \in Accounts : b # a /\ m[b] # None => m[b] \in Ids /\ obj'[m[b]] = o[m[b]]
  <2>1. obj' \in Objects /\ obj'[n] = k /\ \A x \in Ids \ {n} : obj'[x] = o[x]
    BY <1>1 DEF Placed, Objects
  <2>2. /\ Registered(obj', m) /\ Queue(obj', q, m)
        /\ HandedOver(obj', Tail(addSessQueue), m) /\ NotMade(obj', made)
    <3>1. PICK p \in Objects : p = obj'
      BY <2>1
    <3>2. p[n] = k /\ \A x \in Ids \ {n} : p[x] = o[x]
      BY <2>1, <3>1
    <3>3. /\ Registered(p, m) /\ Queue(p, q, m)
          /\ HandedOver(p, Tail(addSessQueue), m) /\ NotMade(p, made)
      BY <1>2, <3>2, EnterFacts
    <3> QED
      BY <3>1, <3>3
  <2>3. \A b \in Accounts : b # a /\ m[b] # None => m[b] \in Ids \ {n}
    BY DEF Placed, Registered, Tables
  <2> QED
    BY <2>1, <2>2, <2>3
<1>4. TypeInv' /\ Loop'
  BY <1>1, <1>3, EnterType
<1>5. Room'
  <2>1. queued' # <<>> => Limit > 0 /\ SessionCount(sessions') - Len(queued') >= Limit
    BY <1>1
  <2> QED
    BY <2>1 DEF Room, SessionCount
<1>6. LimitRespected'
  <2> SUFFICES ASSUME Limit > 0 PROVE Cardinality(Admitted') <= Limit
    BY DEF LimitRespected
  <2>1. /\ Admitted' \in SUBSET (Others(o, m, a) \cup {a})
        /\ k.age # Never \/ a \in Privileged => Admitted' \in SUBSET Others(o, m, a)
    BY <1>1, <1>3 DEF Admitted, Others
  <2>2. IsFiniteSet(Others(o, m, a))
    <3>1. Others(o, m, a) \in SUBSET With(m)
      BY DEF Others, With
    <3> QED
      BY <1>1, <3>1, WithFacts
  <2>3. CASE k.age # Never \/ a \in Privileged
    <3>1. /\ Cardinality(Admitted') <= Cardinality(Others(o, m, a))
          /\ Cardinality(Admitted') \in Nat
      BY <2>1, <2>2, <2>3, FS_Subset, FS_CardinalityType
    <3> QED
      BY <1>1, <3>1
  <2>4. CASE count < Limit
    <3>1. /\ IsFiniteSet(Others(o, m, a) \cup {a})
          /\ Cardinality(Others(o, m, a) \cup {a}) \in Nat
          /\ Cardinality(Others(o, m, a) \cup {a}) <= Cardinality(Others(o, m, a)) + 1
      BY <2>2, AtMostOneMore
    <3>2. /\ Cardinality(Admitted') <= Cardinality(Others(o, m, a) \cup {a})
          /\ Cardinality(Admitted') \in Nat
      BY <2>1, <3>1, FS_Subset, FS_CardinalityType
    <3> QED
      BY <1>1, <2>4, <3>1, <3>2
  <2> QED
    BY <1>1, <2>3, <2>4
<1> QED
  BY <1>3, <1>4, <1>5, <1>6 DEF IInv

(* Session n goes to the end of the queue. *)
LEMMA WaitInv ==
  ASSUME IInv, pc = "add", addSessQueue # <<>>,
         NEW o, NEW q, NEW m, NEW n, NEW a \in Accounts, NEW count,
         Placed(o, q, m, n, a, count), Limit > 0, count >= Limit,
         NEW k \in Session, k.alive, k.account = a,
         k.init = "no", k.inQueue, k.told = Len(q) + 1,
         obj' = [o EXCEPT ![n] = k], sessions' = m, queued' = Append(q, n),
         addSessQueue' = Tail(addSessQueue), UNCHANGED <<made, disconnects, now, pc, todo>>
  PROVE  IInv'
<1>1. /\ q \in Seq(Ids) /\ m \in Tables /\ m[a] = n /\ n \in Ids /\ Limit \in Nat
      /\ ~In(n, q)
      /\ SessionCount(m) \in Nat /\ Cardinality(Others(o, m, a)) \in Nat
      /\ Limit > 0 => Cardinality(Others(o, m, a)) <= Limit
      /\ q # <<>> => Limit > 0 /\ SessionCount(m) - 1 - Len(q) >= Limit
      /\ SessionCount(m) - 1 >= Limit /\ Len(q) \in Nat
  BY ConstantsAssumption DEF Placed
<1>2. Tail(addSessQueue) \in Seq(Ids) /\ made \in Nat
  BY HeadFacts DEF IInv, TypeInv
<1>3. /\ obj' \in Objects /\ obj'[n] = k
      /\ Registered(obj', m) /\ Queue(obj', q, m)
      /\ HandedOver(obj', Tail(addSessQueue), m) /\ NotMade(obj', made)
      /\ \A b \in Accounts : b # a /\ m[b] # None => m[b] \in Ids /\ obj'[m[b]] = o[m[b]]
  <2>1. obj' \in Objects /\ obj'[n] = k /\ \A x \in Ids \ {n} : obj'[x] = o[x]
    BY <1>1 DEF Placed, Objects
  <2>2. /\ Registered(obj', m) /\ Queue(obj', q, m)
        /\ HandedOver(obj', Tail(addSessQueue), m) /\ NotMade(obj', made)
    <3>1. PICK p \in Objects : p = obj'
      BY <2>1
    <3>2. p[n] = k /\ \A x \in Ids \ {n} : p[x] = o[x]
      BY <2>1, <3>1
    <3>3. /\ Registered(p, m) /\ Queue(p, q, m)
          /\ HandedOver(p, Tail(addSessQueue), m) /\ NotMade(p, made)
      BY <1>2, <3>2, EnterFacts
    <3> QED
      BY <3>1, <3>3
  <2>3. \A b \in Accounts : b # a /\ m[b] # None => m[b] \in Ids \ {n}
    BY DEF Placed, Registered, Tables
  <2> QED
    BY <2>1, <2>2, <2>3
<1>4. /\ queued' \in Seq(Ids) /\ Len(queued') = Len(q) + 1
      /\ \A i \in 1..Len(q) : queued'[i] = q[i]
      /\ queued'[Len(q) + 1] = n
  BY <1>1, AppendFacts
<1>5. TypeInv' /\ Loop'
  BY <1>1, <1>3, <1>4, EnterType
<1>6. Queue(obj', queued', m)
  <2>1. \A i \in 1..Len(q) : q[i] # n
    BY <1>1 DEF In
  <2>2. Distinct(queued')
    BY <1>1, <1>3, <1>4, <2>1 DEF Queue, Distinct
  <2>3. ASSUME NEW i \in 1..Len(queued')
        PROVE  LET x == queued'[i] IN
               /\ obj'[x].alive /\ obj'[x].inQueue /\ obj'[x].init = "no" /\ obj'[x].told = i
               /\ obj'[x].account \in Accounts /\ m[obj'[x].account] = x
    <3>1. CASE i \in 1..Len(q)
      BY <1>3, <1>4, <3>1 DEF Queue
    <3>2. CASE i = Len(q) + 1
      <4>1. obj'[n].alive
        BY <1>1, <1>3 DEF Registered, None, Ids
      <4> QED
        BY <1>1, <1>3, <1>4, <3>2, <4>1
    <3> QED
      BY <1>1, <1>4, <3>1, <3>2
  <2> QED
    BY <2>2, <2>3 DEF Queue
<1>7. Room'
  <2>1. SessionCount(m) - 1 - Len(q) >= Limit
    BY <1>1
  <2>2. SessionCount(sessions') - Len(queued') >= Limit
    BY <1>1, <1>4, <2>1
  <2> QED
    BY <1>1, <2>2 DEF Room, SessionCount
<1>8. LimitRespected'
  <2>1. Admitted' \in SUBSET Others(o, m, a)
    BY <1>1, <1>3 DEF Admitted, Others
  <2>2. IsFiniteSet(Others(o, m, a))
    <3>1. Others(o, m, a) \in SUBSET With(m)
      BY DEF Others, With
    <3> QED
      BY <1>1, <3>1, WithFacts
  <2>3. /\ Cardinality(Admitted') <= Cardinality(Others(o, m, a))
        /\ Cardinality(Admitted') \in Nat
    BY <2>1, <2>2, FS_Subset, FS_CardinalityType
  <2> QED
    BY <1>1, <2>3 DEF LimitRespected
<1> QED
  BY <1>3, <1>5, <1>6, <1>7, <1>8 DEF IInv

(* What AddSession_ does with session n once it has been placed. *)
Entered(o, q, n, a, count) ==
    \/ /\ Limit > 0 /\ count >= Limit
       /\ obj' = [o EXCEPT ![n].inQueue = TRUE, ![n].told = Len(q) + 1]
       /\ queued' = Append(q, n)
    \/ /\ Tolerated(a) /\ queued' = q
       /\ obj' = [InitializeSession(o, n) EXCEPT ![n].age = now - disconnects[a]]
    \/ /\ ~(Limit > 0 /\ count >= Limit /\ a \notin Privileged)
       /\ obj' = InitializeSession(o, n) /\ queued' = q

(* The old session leaves without anybody overtaking. *)
LEMMA ReplacedShrinks ==
  ASSUME IInv, NEW old \in Ids,
         NEW r, r = RemoveQueuedPlayer(KickPlayer(obj, old), queued, old),
         NEW o, o = Delete(r.obj, old)
  PROVE  Shrinks(obj, queued, o, r.queued)
<1>1. obj \in Objects /\ queued \in Seq(Ids) /\ Queue(obj, queued, sessions)
  BY DEF IInv, TypeInv
<1>2. PICK k, o0 : k = Kicked(obj[old]) /\ o0 = [obj EXCEPT ![old] = k]
  OBVIOUS
<1>3. CalmStep(obj[old], k)
  BY <1>2, ObjFacts, KickedFacts
<1>4. o0 \in Objects /\ Queue(o0, queued, sessions)
  BY <1>2, <1>3, CalmGood DEF Good
<1>5. Shrinks(obj, queued, o0, queued)
  <2>1. \A x \in Ids : o0[x].init # "no" => obj[x].init # "no"
    BY <1>1, <1>2, <1>3 DEF Objects, CalmStep, Calm
  <2> QED
    BY <1>1, <2>1, ShrinksCalm
<1>6. r = RemoveQueuedPlayer(o0, queued, old)
  BY <1>2 DEF KickPlayer
<1>7. Shrinks(o0, queued, r.obj, r.queued)
  BY <1>1, <1>4, <1>6, RemoveShrinks
<1>8. r.obj \in Objects /\ Queue(r.obj, r.queued, sessions)
  BY <1>1, <1>4, <1>6, RemoveFacts DEF Removed
<1>9. Shrinks(r.obj, r.queued, o, r.queued)
  BY <1>8, ShrinksDelete
<1>10. Shrinks(obj, queued, r.obj, r.queued)
  BY <1>5, <1>7, ShrinksComposed
<1> QED
  BY <1>9, <1>10, ShrinksComposed

LEMMA TakenFacts ==
  ASSUME IInv, AddSessionTaken
  PROVE  \E o, q, m, n, count : \E a \in Accounts :
            /\ Placed(o, q, m, n, a, count) /\ sessions' = m /\ Entered(o, q, n, a, count)
            /\ Shrinks(obj, queued, o, q) /\ ~In(n, queued)
<1>1. PICK n : n = Head(addSessQueue)
  OBVIOUS
<1>2. PICK a : a = obj[n].account
  OBVIOUS
<1>3. PICK old : old = sessions[a]
  OBVIOUS
<1>4. PICK r : r = IF old = None
                   THEN [found |-> FALSE, obj |-> obj, queued |-> queued]
                   ELSE RemoveQueuedPlayer(KickPlayer(obj, old), queued, old)
  OBVIOUS
<1>5. PICK o : o = IF old = None THEN obj ELSE Delete(r.obj, old)
  OBVIOUS
<1>6. PICK m : m = [sessions EXCEPT ![a] = n]
  OBVIOUS
<1>7. PICK count : count = SessionCount(m) - (IF r.found THEN 0 ELSE 1)
  OBVIOUS
<1>8. addSessQueue # <<>> /\ sessions' = m /\ Entered(o, r.queued, n, a, count)
  BY <1>1, <1>2, <1>3, <1>4, <1>5, <1>6, <1>7
     DEF AddSessionTaken, Entered, AddQueuedPlayer
<1>9. n \in Ids /\ a \in Accounts /\ sessions \in Tables
  BY <1>1, <1>2, <1>8, HeadFacts, ObjFacts
<1>10. m \in Tables /\ m[a] = n /\ \A b \in Accounts \ {a} : m[b] = sessions[b]
  BY <1>6, <1>9 DEF Tables
<1>11. Placed(o, r.queued, m, n, a, count)
  <2>1. CASE old = None
    <3>1. r = [found |-> FALSE, obj |-> obj, queued |-> queued] /\ o = obj
      BY <1>4, <1>5, <2>1
    <3>2. r.queued = queued /\ count = SessionCount(m) - 1
      BY <1>7, <3>1
    <3>3. Placed(obj, queued, m, n, a, count)
      BY <1>1, <1>2, <1>3, <1>8, <1>9, <1>10, <2>1, <3>2, PlacedFirst
    <3> QED
      BY <3>1, <3>2, <3>3
  <2>2. CASE old # None
    <3>1. old \in Ids
      BY <1>3, <1>9, <2>2, ObjFacts
    <3>2. r = RemoveQueuedPlayer(KickPlayer(obj, old), queued, old) /\ o = Delete(r.obj, old)
      BY <1>4, <1>5, <2>2
    <3>3. PICK c : c = IF In(old, queued) THEN SessionCount(m) ELSE SessionCount(m) - 1
      OBVIOUS
    <3>4. /\ In(old, queued) => c = SessionCount(m)
          /\ ~In(old, queued) => c = SessionCount(m) - 1
      BY <3>3
    <3>5. addSessQueue # <<>> /\ n = Head(addSessQueue) /\ obj[n].account = a
      BY <1>1, <1>2, <1>8
    <3>6. Placed(o, r.queued, m, n, a, c) /\ r.found = In(old, queued)
      BY <1>3, <1>9, <1>10, <2>2, <3>1, <3>2, <3>4, <3>5, PlacedAgain
    <3>7. SessionCount(m) \in Nat
      BY <3>6 DEF Placed
    <3>8. count = c
      BY <1>7, <3>3, <3>6, <3>7
    <3> QED
      BY <3>6, <3>8
  <2> QED
    BY <2>1, <2>2
<1>12. Shrinks(obj, queued, o, r.queued)
  <2>1. CASE old = None
    <3>1. o = obj /\ r.queued = queued
      BY <1>4, <1>5, <2>1
    <3>2. Queue(obj, queued, sessions)
      BY DEF IInv
    <3> QED
      BY <3>1, <3>2, ShrinksCalm
  <2>2. CASE old # None
    BY <1>3, <1>4, <1>5, <1>9, <2>2, ObjFacts, ReplacedShrinks
  <2> QED
    BY <2>1, <2>2
<1>13. ~In(n, queued)
  BY <1>1, <1>8, HeadFacts
<1> QED
  BY <1>8, <1>9, <1>11, <1>12, <1>13

LEMMA AddSessionTakenInv ==
  ASSUME IInv, AddSessionTaken
  PROVE  IInv'
<1>1. PICK o, q, m, n, count : \E a \in Accounts :
            /\ Placed(o, q, m, n, a, count) /\ sessions' = m /\ Entered(o, q, n, a, count)
  BY TakenFacts, Zenon
<1>2. PICK a \in Accounts :
            /\ Placed(o, q, m, n, a, count) /\ sessions' = m /\ Entered(o, q, n, a, count)
  BY <1>1
<1>3. /\ pc = "add" /\ addSessQueue # <<>> /\ addSessQueue' = Tail(addSessQueue)
      /\ UNCHANGED <<made, disconnects, now, pc, todo>>
  BY DEF AddSessionTaken
<1>4. /\ o \in Objects /\ n \in Ids /\ o[n].account = a /\ o[n].init = "no"
      /\ m[a] = n /\ Registered(o, m) /\ count \in Int /\ Limit \in Nat /\ q \in Seq(Ids)
  BY <1>2, ConstantsAssumption DEF Placed
<1>5. o[n] \in Session /\ o[n].alive
  BY <1>4 DEF Objects, Registered, None, Ids
<1>6. CASE /\ Limit > 0 /\ count >= Limit
           /\ obj' = [o EXCEPT ![n].inQueue = TRUE, ![n].told = Len(q) + 1]
           /\ queued' = Append(q, n)
  <2>1. PICK k1 : k1 = [o[n] EXCEPT !.inQueue = TRUE]
    OBVIOUS
  <2>2. k1 \in Session
    BY <1>5, <2>1 DEF Session
  <2>3. PICK k : k = [k1 EXCEPT !.told = Len(q) + 1]
    OBVIOUS
  <2>4. k \in Session
    BY <1>4, <2>2, <2>3 DEF Session
  <2>5. k.alive /\ k.account = a /\ k.init = "no" /\ k.inQueue /\ k.told = Len(q) + 1
    BY <1>4, <1>5, <2>1, <2>3 DEF Session
  <2>6. obj' = [o EXCEPT ![n] = k]
    BY <1>4, <1>5, <1>6, <2>1, <2>3 DEF Objects, Session
  <2> QED
    BY <1>2, <1>3, <1>6, <2>4, <2>5, <2>6, WaitInv
<1>7. PICK k1 : k1 = [o[n] EXCEPT !.init = "asked"]
  OBVIOUS
<1>8. k1 \in Session /\ k1.alive /\ k1.account = a
  <2>1. k1 \in Session
    BY <1>5, <1>7 DEF Session
  <2> QED
    BY <1>4, <1>5, <1>7, <2>1 DEF Session
<1>9. InitializeSession(o, n) = [o EXCEPT ![n] = k1]
  BY <1>4, <1>7 DEF InitializeSession, Objects
<1>10. CASE /\ Tolerated(a) /\ queued' = q
            /\ obj' = [InitializeSession(o, n) EXCEPT ![n].age = now - disconnects[a]]
  <2>1. PICK age : age = now - disconnects[a]
    OBVIOUS
  <2>2. age \in Nat /\ age # Never
    <3>1. disconnects[a] \in 0..now /\ now \in Nat
      BY <1>10 DEF Tolerated, IInv, TypeInv
    <3> QED
      BY <2>1, <3>1 DEF Never
  <2>3. PICK k : k = [k1 EXCEPT !.age = age]
    OBVIOUS
  <2>4. k \in Session
    BY <1>8, <2>2, <2>3 DEF Session
  <2>5. k.alive /\ k.account = a /\ k.age # Never
    BY <1>8, <2>2, <2>3 DEF Session
  <2>6. obj' = [o EXCEPT ![n] = k]
    <3>1. obj' = [[o EXCEPT ![n] = k1] EXCEPT ![n].age = age]
      BY <1>9, <1>10, <2>1
    <3> QED
      BY <1>4, <2>3, <3>1 DEF Objects
  <2>7. /\ k.age # Never \/ a \in Privileged \/ Limit = 0 \/ count < Limit
        /\ queued' = q /\ sessions' = m
    BY <1>2, <1>10, <2>5
  <2> QED
    BY <1>2, <1>3, <2>4, <2>5, <2>6, <2>7, AdmitInv
<1>11. CASE /\ ~(Limit > 0 /\ count >= Limit /\ a \notin Privileged)
            /\ obj' = InitializeSession(o, n) /\ queued' = q
  <2>1. a \in Privileged \/ Limit = 0 \/ count < Limit
    BY <1>4, <1>11
  <2>2. obj' = [o EXCEPT ![n] = k1]
    BY <1>9, <1>11
  <2>3. /\ k1.age # Never \/ a \in Privileged \/ Limit = 0 \/ count < Limit
        /\ queued' = q /\ sessions' = m
    BY <1>2, <1>11, <2>1
  <2> QED
    BY <1>2, <1>3, <1>8, <2>2, <2>3, AdmitInv
<1> QED
  BY <1>2, <1>6, <1>10, <1>11 DEF Entered

-----------------------------------------------------------------------------
(* No step lets anybody overtake. *)

(* Those that waited wait in the same order, behind nobody that is new, and
   nobody that waited was admitted before one that waited longer. *)
LEMMA InOrder ==
  ASSUME queued \in Seq(Ids), queued' \in Seq(Ids), Distinct(queued),
         \A x, y \in Ids : Before(queued', x, y) /\ In(y, queued) => Before(queued, x, y),
         \A x, y \in Ids : In(x, queued) /\ In(y, queued) /\ obj'[y].init # "no"
                           /\ In(x, queued') => Before(queued, y, x),
         queued' # <<>> => \A n \in Ids :
            obj[n].init = "no" /\ obj'[n].init # "no" /\ ~In(n, queued) =>
                obj'[n].account \in Privileged \/ obj'[n].age # Never
  PROVE  ServedInOrder
<1>1. /\ DOMAIN queued = 1..Len(queued) /\ DOMAIN queued' = 1..Len(queued')
      /\ Len(queued) \in Nat /\ Len(queued') \in Nat
      /\ \A i \in 1..Len(queued) : queued[i] \in Ids
      /\ \A i \in 1..Len(queued') : queued'[i] \in Ids
  BY LenProperties
<1>2. \A x : Contains(queued, x) <=> In(x, queued)
  BY DEF Contains, In
<1>3. \A x : Contains(queued', x) <=> In(x, queued')
  BY DEF Contains, In
<1>4. ASSUME NEW x, NEW y, Before(queued, x, y), Before(queued, y, x) PROVE FALSE
  <2>1. PICK i, j \in 1..Len(queued) : i < j /\ queued[i] = x /\ queued[j] = y
    BY <1>4 DEF Before
  <2>2. PICK k, l \in 1..Len(queued) : k < l /\ queued[k] = y /\ queued[l] = x
    BY <1>4 DEF Before
  <2>3. i = l /\ j = k
    BY <2>1, <2>2 DEF Distinct
  <2> QED
    BY <1>1, <2>1, <2>2, <2>3
<1>5. ASSUME NEW i \in DOMAIN queued, NEW j \in DOMAIN queued, i < j,
             Contains(queued', queued[i])
      PROVE  /\ obj'[queued[j]].init = "no"
             /\ ~Ahead(queued', queued[j], queued[i])
  <2>1. PICK x, y \in Ids : x = queued[i] /\ y = queued[j]
    BY <1>1
  <2>2. Before(queued, x, y) /\ In(x, queued) /\ In(y, queued) /\ In(x, queued')
    BY <1>1, <1>3, <1>5, <2>1 DEF Before, In
  <2>3. ~Before(queued, y, x)
    BY <1>4, <2>2
  <2>4. obj'[y].init = "no"
    BY <2>2, <2>3
  <2>5. ~Before(queued', y, x)
    BY <2>2, <2>3
  <2>6. ~Ahead(queued', y, x)
    BY <1>1, <2>5 DEF Ahead, Before
  <2> QED
    BY <2>1, <2>4, <2>6
<1>6. ASSUME NEW i \in DOMAIN queued', NEW j \in DOMAIN queued', i < j,
             Contains(queued, queued'[j])
      PROVE  Contains(queued, queued'[i])
  <2>1. PICK x, y \in Ids : x = queued'[i] /\ y = queued'[j]
    BY <1>1
  <2>2. Before(queued', x, y) /\ In(y, queued)
    BY <1>1, <1>2, <1>6, <2>1 DEF Before
  <2>3. Before(queued, x, y)
    BY <2>2
  <2>4. In(x, queued)
    BY <2>3 DEF Before, In
  <2> QED
    BY <1>2, <2>1, <2>4
<1>7. ASSUME queued' # <<>>, NEW n \in Ids, AdmittedAtOnce(n)
      PROVE  obj'[n].account \in Privileged \/ obj'[n].age # Never
  BY <1>2, <1>7 DEF AdmittedAtOnce
<1> QED
  BY <1>5, <1>6, <1>7 DEF ServedInOrder

LEMMA ShrinksServes ==
  ASSUME IInv, queued' \in Seq(Ids), Shrinks(obj, queued, obj', queued')
  PROVE  ServedInOrder
<1>1. queued \in Seq(Ids) /\ Distinct(queued)
  BY DEF IInv, TypeInv, Queue
<1>2. /\ \A x, y \in Ids : Before(queued', x, y) /\ In(y, queued) => Before(queued, x, y)
      /\ \A x, y \in Ids : In(x, queued) /\ In(y, queued) /\ obj'[y].init # "no"
                           /\ In(x, queued') => Before(queued, y, x)
      /\ \A n \in Ids : ~(obj[n].init = "no" /\ obj'[n].init # "no" /\ ~In(n, queued))
  BY DEF Shrinks
<1> QED
  BY <1>1, <1>2, InOrder

(* One session changes, and is not admitted. *)
LEMMA OneServes ==
  ASSUME IInv, NEW n \in Ids, NEW k, k.init # "no" => obj[n].init # "no",
         obj' = [obj EXCEPT ![n] = k], UNCHANGED queued
  PROVE  ServedInOrder
<1>1. obj \in Objects /\ queued \in Seq(Ids) /\ Queue(obj, queued, sessions)
  BY DEF IInv, TypeInv
<1>2. \A x \in Ids : obj'[x].init # "no" => obj[x].init # "no"
  BY <1>1 DEF Objects
<1>3. Shrinks(obj, queued, obj', queued)
  BY <1>1, <1>2, ShrinksCalm
<1> QED
  BY <1>1, <1>3, ShrinksServes

LEMMA LoopServes ==
  ASSUME IInv, UNCHANGED <<obj, queued>>
  PROVE  ServedInOrder
<1>1. queued \in Seq(Ids) /\ Queue(obj, queued, sessions)
  BY DEF IInv, TypeInv
<1>2. Shrinks(obj, queued, obj', queued)
  BY <1>1, ShrinksCalm
<1> QED
  BY <1>1, <1>2, ShrinksServes

LEMMA AddSessionServes ==
  ASSUME IInv, NEW a \in Accounts, AddSession(a)
  PROVE  ServedInOrder
<1>1. made + 1 \in Ids
  BY ConstantsAssumption DEF IInv, TypeInv, AddSession, Ids
<1>2. NewSession(a).init = "no"
  BY DEF NewSession
<1> QED
  BY <1>1, <1>2, OneServes DEF AddSession, worldVars

LEMMA SocketClosesServes ==
  ASSUME IInv, NEW n \in Ids, SocketCloses(n) \/ AbortLogin(n)
  PROVE  ServedInOrder
<1>1. obj \in Objects /\ obj[n] \in Session
  BY ObjFacts
<1>2. PICK k : /\ k = [obj[n] EXCEPT !.open = FALSE] \/ k = [obj[n] EXCEPT !.player = "none"]
               /\ obj' = [obj EXCEPT ![n] = k]
  BY DEF SocketCloses, AbortLogin
<1>3. k.init = obj[n].init
  BY <1>1, <1>2 DEF Session
<1>4. UNCHANGED queued
  BY DEF SocketCloses, AbortLogin, worldVars
<1> QED
  BY <1>2, <1>3, <1>4, OneServes

LEMMA KickServes ==
  ASSUME IInv, NEW a \in Accounts, Kick(a)
  PROVE  ServedInOrder
<1>1. PICK n \in Ids : n = sessions[a]
  BY ObjFacts DEF Kick
<1>2. obj' = [obj EXCEPT ![n] = Kicked(obj[n])] /\ UNCHANGED queued
  BY <1>1 DEF Kick, KickPlayer, worldVars
<1>3. Kicked(obj[n]).init # "no" => obj[n].init # "no"
  BY ObjFacts, KickedFacts DEF CalmStep, Calm
<1> QED
  BY <1>2, <1>3, OneServes

LEMMA UpdateSessionServes ==
  ASSUME IInv, NEW a \in Accounts, UpdateSession(a)
  PROVE  ServedInOrder
<1>1. sessions[a] # None
  BY DEF IInv, Loop, UpdateSession
<1>2. PICK n \in Ids : n = sessions[a]
  BY <1>1, ObjFacts
<1>3. PICK k \in Updated(obj[n]) : obj' = [obj EXCEPT ![n] = k]
  BY <1>2 DEF UpdateSession
<1>4. k.init # "no" => obj[n].init # "no"
  BY ObjFacts, UpdatedFacts DEF CalmStep, Calm
<1>5. UNCHANGED queued
  BY DEF UpdateSession, worldVars
<1> QED
  BY <1>3, <1>4, <1>5, OneServes

LEMMA AddSessionRefusedServes ==
  ASSUME IInv, AddSessionRefused
  PROVE  ServedInOrder
<1>1. PICK n : n = Head(addSessQueue)
  OBVIOUS
<1>2. n \in Ids /\ obj \in Objects
  BY <1>1, HeadFacts, ObjFacts DEF AddSessionRefused
<1>3. PICK o : o = KickPlayer(obj, n)
  OBVIOUS
<1>4. obj' = [o EXCEPT ![n] = NoSession] /\ UNCHANGED queued
  BY <1>1, <1>3 DEF AddSessionRefused, Delete, worldVars
<1>5. obj' = [obj EXCEPT ![n] = NoSession]
  BY <1>2, <1>3, <1>4 DEF KickPlayer, Objects
<1>6. NoSession.init = "no"
  BY DEF NoSession, NewSession
<1> QED
  BY <1>2, <1>4, <1>5, <1>6, OneServes

LEMMA RemoveSessionServes ==
  ASSUME IInv, NEW a \in Accounts, RemoveSession(a)
  PROVE  ServedInOrder
<1>1. /\ obj \in Objects /\ sessions \in Tables /\ sessions[a] # None
      /\ queued \in Seq(Ids) /\ Queue(obj, queued, sessions)
  BY DEF IInv, TypeInv, RemoveSession, Loop
<1>2. PICK n \in Ids : n = sessions[a]
  BY <1>1, ObjFacts
<1>3. PICK k, once, twice :
        /\ k \in Updated(obj[n])
        /\ once = RemoveQueuedPlayer([obj EXCEPT ![n] = k], queued, n)
        /\ twice = RemoveQueuedPlayer(once.obj, once.queued, n)
        /\ queued' = twice.queued
        /\ obj' = Delete(twice.obj, n)
  BY <1>2 DEF RemoveSession
<1>4. PICK o : o = [obj EXCEPT ![n] = k]
  OBVIOUS
<1>5. CalmStep(obj[n], k)
  BY <1>3, ObjFacts, UpdatedFacts
<1>6. o \in Objects /\ Queue(o, queued, sessions)
  BY <1>4, <1>5, CalmGood DEF Good
<1>7. Shrinks(obj, queued, o, queued)
  <2>1. \A x \in Ids : o[x].init # "no" => obj[x].init # "no"
    BY <1>1, <1>4, <1>5 DEF Objects, CalmStep, Calm
  <2> QED
    BY <1>1, <2>1, ShrinksCalm
<1>8. once = RemoveQueuedPlayer(o, queued, n)
  BY <1>3, <1>4
<1>9. Shrinks(o, queued, once.obj, once.queued)
  BY <1>1, <1>6, <1>8, RemoveShrinks
<1>10. once.obj \in Objects /\ once.queued \in Seq(Ids) /\ Queue(once.obj, once.queued, sessions)
  BY <1>1, <1>6, <1>8, RemoveFacts DEF Removed
<1>11. Shrinks(once.obj, once.queued, twice.obj, twice.queued)
  BY <1>3, <1>10, RemoveShrinks
<1>12. /\ twice.obj \in Objects /\ twice.queued \in Seq(Ids)
       /\ Queue(twice.obj, twice.queued, sessions)
  BY <1>3, <1>10, RemoveFacts DEF Removed
<1>13. Shrinks(twice.obj, twice.queued, obj', queued')
  BY <1>3, <1>12, ShrinksDelete
<1>14. Shrinks(obj, queued, once.obj, once.queued)
  BY <1>7, <1>9, ShrinksComposed
<1>15. Shrinks(obj, queued, twice.obj, twice.queued)
  BY <1>11, <1>14, ShrinksComposed
<1>16. Shrinks(obj, queued, obj', queued')
  BY <1>13, <1>15, ShrinksComposed
<1>17. queued' \in Seq(Ids)
  BY <1>3, <1>12
<1> QED
  BY <1>16, <1>17, ShrinksServes

(* The end of the queue is behind all that wait. *)
LEMMA AppendOrder ==
  ASSUME NEW q \in Seq(Ids), NEW n \in Ids
  PROVE  /\ \A x, y : Before(Append(q, n), x, y) /\ y # n => Before(q, x, y)
         /\ \A x : In(x, Append(q, n)) /\ x # n => In(x, q)
<1>1. PICK r : r = Append(q, n)
  OBVIOUS
<1>2. /\ Len(r) = Len(q) + 1 /\ Len(q) \in Nat
      /\ \A i \in 1..Len(q) : r[i] = q[i]
      /\ r[Len(q) + 1] = n
  BY <1>1, AppendFacts
<1>3. ASSUME NEW x, NEW y, Before(r, x, y), y # n PROVE Before(q, x, y)
  <2>1. PICK i, j \in 1..Len(r) : i < j /\ r[i] = x /\ r[j] = y
    BY <1>3 DEF Before
  <2>2. j # Len(q) + 1
    BY <1>2, <1>3, <2>1
  <2>3. i \in 1..Len(q) /\ j \in 1..Len(q)
    BY <1>2, <2>1, <2>2
  <2> QED
    BY <1>2, <2>1, <2>3 DEF Before
<1>4. ASSUME NEW x, In(x, r), x # n PROVE In(x, q)
  <2>1. PICK i \in 1..Len(r) : r[i] = x
    BY <1>4 DEF In
  <2>2. i \in 1..Len(q)
    BY <1>2, <1>4, <2>1
  <2> QED
    BY <1>2, <2>1, <2>2 DEF In
<1> QED
  BY <1>1, <1>3, <1>4

(* Who comes goes to the end, is let in because there is room and nobody waits,
   or need not wait. *)
LEMMA AddSessionTakenServes ==
  ASSUME IInv, AddSessionTaken
  PROVE  ServedInOrder
<1>1. PICK o, q, m, n, count : \E a \in Accounts :
            /\ Placed(o, q, m, n, a, count) /\ sessions' = m /\ Entered(o, q, n, a, count)
            /\ Shrinks(obj, queued, o, q) /\ ~In(n, queued)
  BY TakenFacts
<1>2. PICK a \in Accounts :
            /\ Placed(o, q, m, n, a, count) /\ Entered(o, q, n, a, count)
            /\ Shrinks(obj, queued, o, q) /\ ~In(n, queued)
  BY <1>1
<1>3. /\ o \in Objects /\ n \in Ids /\ o[n].account = a /\ o[n].init = "no"
      /\ count \in Int /\ Limit \in Nat /\ q \in Seq(Ids) /\ Len(q) \in Nat
      /\ SessionCount(m) \in Nat /\ count >= SessionCount(m) - 1
      /\ q # <<>> => Limit > 0 /\ SessionCount(m) - 1 - Len(q) >= Limit
  BY <1>2, ConstantsAssumption DEF Placed
<1>4. queued \in Seq(Ids) /\ Distinct(queued) /\ o[n] \in Session
  BY <1>3 DEF IInv, TypeInv, Queue, Objects
<1>5. ASSUME NEW k, obj' = [o EXCEPT ![n] = k],
             queued' = q \/ (queued' = Append(q, n) /\ k.init = "no"),
             queued' = q /\ q # <<>> => k.account \in Privileged \/ k.age # Never
      PROVE  ServedInOrder
  <2>1. obj'[n] = k /\ \A x \in Ids \ {n} : obj'[x] = o[x]
    BY <1>3, <1>5 DEF Objects
  <2>2. queued' \in Seq(Ids)
    BY <1>3, <1>5, AppendFacts
  <2>3. /\ \A x, y : Before(queued', x, y) /\ y # n => Before(q, x, y)
        /\ \A x : In(x, queued') /\ x # n => In(x, q)
    BY <1>3, <1>5, AppendOrder
  <2>4. \A x, y \in Ids : Before(queued', x, y) /\ In(y, queued) => Before(queued, x, y)
    BY <1>2, <2>3 DEF Shrinks
  <2>5. \A x, y \in Ids : In(x, queued) /\ In(y, queued) /\ obj'[y].init # "no"
                          /\ In(x, queued') => Before(queued, y, x)
    BY <1>2, <2>1, <2>3 DEF Shrinks
  <2>6. ASSUME queued' # <<>>, NEW x \in Ids,
               obj[x].init = "no", obj'[x].init # "no", ~In(x, queued)
        PROVE  obj'[x].account \in Privileged \/ obj'[x].age # Never
    <3>1. CASE x # n
      BY <1>2, <2>1, <2>6, <3>1 DEF Shrinks
    <3>2. CASE x = n
      <4>1. k.init # "no" /\ queued' = q
        BY <1>5, <2>1, <2>6, <3>2
      <4> QED
        BY <1>5, <2>1, <2>6, <3>2, <4>1
    <3> QED
      BY <3>1, <3>2
  <2> QED
    BY <1>4, <2>2, <2>4, <2>5, <2>6, InOrder
<1>6. CASE /\ Limit > 0 /\ count >= Limit
           /\ obj' = [o EXCEPT ![n].inQueue = TRUE, ![n].told = Len(q) + 1]
           /\ queued' = Append(q, n)
  <2>1. PICK k : k = [o[n] EXCEPT !.inQueue = TRUE, !.told = Len(q) + 1]
    OBVIOUS
  <2>2. obj' = [o EXCEPT ![n] = k]
    BY <1>3, <1>4, <1>6, <2>1 DEF Objects, Session
  <2>3. k.init = "no"
    BY <1>3, <1>4, <2>1 DEF Session
  <2>4. Len(Append(q, n)) = Len(q) + 1
    BY <1>3, AppendFacts
  <2>5. queued' # q
    BY <1>3, <1>6, <2>4
  <2> QED
    BY <1>5, <1>6, <2>2, <2>3, <2>5
<1>7. PICK k1 : k1 = [o[n] EXCEPT !.init = "asked"]
  OBVIOUS
<1>8. k1.account = a /\ k1 \in Session
  <2>1. k1 \in Session
    BY <1>4, <1>7 DEF Session
  <2> QED
    BY <1>3, <1>4, <1>7, <2>1 DEF Session
<1>9. InitializeSession(o, n) = [o EXCEPT ![n] = k1]
  BY <1>3, <1>7 DEF InitializeSession, Objects
<1>10. CASE /\ Tolerated(a) /\ queued' = q
            /\ obj' = [InitializeSession(o, n) EXCEPT ![n].age = now - disconnects[a]]
  <2>1. PICK age : age = now - disconnects[a]
    OBVIOUS
  <2>2. age # Never
    <3>1. disconnects[a] \in 0..now /\ now \in Nat
      BY <1>10 DEF Tolerated, IInv, TypeInv
    <3> QED
      BY <2>1, <3>1 DEF Never
  <2>3. PICK k : k = [k1 EXCEPT !.age = age]
    OBVIOUS
  <2>4. k.age # Never
    BY <1>8, <2>2, <2>3 DEF Session
  <2>5. obj' = [o EXCEPT ![n] = k]
    <3>1. obj' = [[o EXCEPT ![n] = k1] EXCEPT ![n].age = age]
      BY <1>9, <1>10, <2>1
    <3> QED
      BY <1>3, <2>3, <3>1 DEF Objects
  <2> QED
    BY <1>5, <1>10, <2>4, <2>5
<1>11. CASE /\ ~(Limit > 0 /\ count >= Limit /\ a \notin Privileged)
            /\ obj' = InitializeSession(o, n) /\ queued' = q
  <2>1. q # <<>> => Limit > 0 /\ count >= Limit
    BY <1>3
  <2>2. q # <<>> => k1.account \in Privileged
    BY <1>8, <1>11, <2>1
  <2>3. obj' = [o EXCEPT ![n] = k1]
    BY <1>9, <1>11
  <2> QED
    BY <1>5, <1>11, <2>2, <2>3
<1> QED
  BY <1>2, <1>6, <1>10, <1>11 DEF Entered

LEMMA NextServes == IInv /\ [Next]_vars => ServedInOrder
<1> SUFFICES ASSUME IInv, [Next]_vars PROVE ServedInOrder
  OBVIOUS
<1>1. CASE UpdateSessions \/ AddSessionsEnds \/ UpdateSessionsEnds \/ UNCHANGED vars
  BY <1>1, LoopServes
     DEF UpdateSessions, AddSessionsEnds, UpdateSessionsEnds, vars, worldVars
<1>2. CASE AddSessionRefused
  BY <1>2, AddSessionRefusedServes
<1>3. CASE AddSessionTaken
  BY <1>3, AddSessionTakenServes
<1>4. ASSUME NEW a \in Accounts, UpdateSession(a) PROVE ServedInOrder
  BY <1>4, UpdateSessionServes
<1>5. ASSUME NEW a \in Accounts, RemoveSession(a) PROVE ServedInOrder
  BY <1>5, RemoveSessionServes
<1>6. CASE KickAll
  BY <1>6 DEF KickAll, ServedInOrder
<1>7. ASSUME NEW a \in Accounts, AddSession(a) PROVE ServedInOrder
  BY <1>7, AddSessionServes
<1>8. ASSUME NEW a \in Accounts, Kick(a) PROVE ServedInOrder
  BY <1>8, KickServes
<1>9. ASSUME NEW n \in Ids, SocketCloses(n) \/ AbortLogin(n) PROVE ServedInOrder
  BY <1>9, SocketClosesServes
<1> QED
  BY <1>1, <1>2, <1>3, <1>4, <1>5, <1>6, <1>7, <1>8, <1>9
     DEF Next, WorldThread

-----------------------------------------------------------------------------
(* The results. *)

LEMMA IInvNext == IInv /\ [Next]_vars => IInv'
<1> SUFFICES ASSUME IInv, [Next]_vars PROVE IInv'
  OBVIOUS
<1>1. CASE UpdateSessions \/ AddSessionsEnds \/ UpdateSessionsEnds
  BY <1>1, LoopInv
<1>2. CASE AddSessionRefused
  BY <1>2, AddSessionRefusedInv
<1>3. CASE AddSessionTaken
  BY <1>3, AddSessionTakenInv
<1>4. ASSUME NEW a \in Accounts, UpdateSession(a) PROVE IInv'
  BY <1>4, UpdateSessionInv
<1>5. ASSUME NEW a \in Accounts, RemoveSession(a) PROVE IInv'
  BY <1>5, RemoveSessionInv
<1>6. CASE KickAll
  BY <1>6, KickAllInv
<1>7. ASSUME NEW a \in Accounts, AddSession(a) PROVE IInv'
  BY <1>7, AddSessionInv
<1>8. ASSUME NEW a \in Accounts, Kick(a) PROVE IInv'
  BY <1>8, KickInv
<1>9. ASSUME NEW n \in Ids, SocketCloses(n) PROVE IInv'
  BY <1>9, SocketClosesInv
<1>10. ASSUME NEW n \in Ids, AbortLogin(n) PROVE IInv'
  BY <1>10, AbortLoginInv
<1>11. CASE UNCHANGED vars
  BY <1>11 DEF vars, worldVars, loopVars, IInv, TypeInv, Loop, NotMade, HandedOver,
               Registered, Queue, Room, SessionCount, LimitRespected, Admitted
<1> QED
  BY <1>1, <1>2, <1>3, <1>4, <1>5, <1>6, <1>7, <1>8, <1>9, <1>10, <1>11
     DEF Next, WorldThread

(* Whatever the accounts, the limit, the tolerance and the sessions made, the
   queue, m_sessions and the sessions agree after every step. *)
THEOREM Invariance == Spec => []IInv
<1>1. Init => IInv
  BY IInvInit
<1>2. IInv /\ [Next]_vars => IInv'
  BY IInvNext
<1> QED
  BY <1>1, <1>2, PTL DEF Spec

(* Replacing, kicking and disconnecting a session leave no dangling pointer in
   the login queue, and nobody twice or already admitted. *)
THEOREM QueueSoundCorrect == Spec => []QueueSound
<1>1. IInv => QueueSound
  <2> SUFFICES ASSUME IInv PROVE QueueSound
    OBVIOUS
  <2>1. DOMAIN queued = 1..Len(queued)
    BY LenProperties DEF IInv, TypeInv
  <2>2. Queue(obj, queued, sessions) /\ Registered(obj, sessions)
    BY DEF IInv
  <2> QED
    BY <2>1, <2>2 DEF QueueSound, Queue, Registered, Distinct, IsInjective
<1> QED
  BY <1>1, Invariance, PTL

(* Every client in the queue was last told its present position. *)
THEOREM PositionsToldCorrect == Spec => []PositionsTold
<1>1. IInv => PositionsTold
  <2> SUFFICES ASSUME IInv PROVE PositionsTold
    OBVIOUS
  <2>1. DOMAIN queued = 1..Len(queued)
    BY LenProperties DEF IInv, TypeInv
  <2> QED
    BY <2>1 DEF PositionsTold, IInv, Queue
<1> QED
  BY <1>1, Invariance, PTL

(* Nobody waits in the queue while fewer than Limit sessions are out of it. *)
THEOREM NoIdleSlotCorrect == Spec => []NoIdleSlot
<1>1. IInv => NoIdleSlot
  BY DEF IInv, Room, NoIdleSlot, GetActiveSessionCount
<1> QED
  BY <1>1, Invariance, PTL

(* No more sessions than the player limit allows are admitted, but for those
   that skip the queue or that the disconnect tolerance spares it. *)
THEOREM LimitRespectedCorrect == Spec => []LimitRespected
<1>1. IInv => LimitRespected
  BY DEF IInv
<1> QED
  BY <1>1, Invariance, PTL

(* In the login queue who waits longer is served first, whatever is replaced,
   kicked, removed or closed meanwhile; and nobody but the privileged and those
   who were just disconnected is let in while others wait. *)
THEOREM NobodyOvertakesCorrect == Spec => NobodyOvertakes
<1>1. IInv /\ [Next]_vars => [ServedInOrder]_vars
  BY NextServes
<1> QED
  BY <1>1, Invariance, PTL DEF Spec, NobodyOvertakes

=============================================================================
