---------------------------- MODULE WorldSessions ----------------------------
(***************************************************************************)
(* server/game: the sessions of the World and its login queue (World.cpp,  *)
(* WorldSession.cpp).  A network thread makes a WorldSession when a client *)
(* has authenticated and hands it over through addSessQueue; the world     *)
(* thread adds it to m_sessions in UpdateSessions, at the end of the login *)
(* queue if the realm is full, and removes it some update after its        *)
(* connection was closed.  A second login of an account replaces the first *)
(* session.  Sockets are closed by network threads at any time.            *)
(*                                                                         *)
(* A WorldSession is a number, in the order in which they are made.  Each  *)
(* is handed over once: SessionPackets is about the connections that       *)
(* acknowledge their encryption more often.                                *)
(***************************************************************************)
EXTENDS Integers, Sequences, FiniteSets, SequencesExt

CONSTANTS
    Accounts,     \* the accounts
    Privileged,   \* those with RBAC_PERM_SKIP_QUEUE
    Limit,        \* m_playerLimit, 0 for none
    Tolerance,    \* CONFIG_INTERVAL_DISCONNECT_TOLERANCE, 0 if disabled
    MaxSessions,  \* bound: sessions made
    MaxNow,       \* bound: the clock
    NoAccount     \* the account of a session that was not made

ASSUME ConstantsAssumption ==
    /\ IsFiniteSet(Accounts) /\ NoAccount \notin Accounts
    /\ Privileged \subseteq Accounts
    /\ {Limit, Tolerance, MaxSessions, MaxNow} \subseteq Nat

Ids  == 1..MaxSessions
None == 0       \* no session of an account
Never == -1     \* no entry in m_disconnects, no position told

VARIABLES
    obj,           \* the WorldSession objects
    made,          \* how many were made
    addSessQueue,  \* World::addSessQueue
    sessions,      \* World::m_sessions
    queued,        \* World::m_QueuedPlayer
    disconnects,   \* World::m_disconnects
    now,           \* time(NULL)
    pc,            \* what the world thread does in UpdateSessions
    todo           \* the accounts whose session it has still to update

worldVars == <<sessions, queued, disconnects, now>>
loopVars  == <<pc, todo>>
vars == <<obj, made, addSessQueue, worldVars, loopVars>>

(* alive: the object exists.  open: IsOpen of its realm socket.  init: its
   account data was not asked for, asked for, or has arrived.  player: none,
   loading (m_playerLoading) or in the world.  told: the queue position last
   sent to the client.  age: how long ago the account had disconnected when the
   disconnect tolerance spared it the queue. *)
NewSession(a) ==
    [account |-> a, alive |-> TRUE, open |-> TRUE, forceExit |-> FALSE,
     inQueue |-> FALSE, init |-> "no", player |-> "none", told |-> Never,
     age |-> Never]

NoSession == [NewSession(NoAccount) EXCEPT !.alive = FALSE, !.open = FALSE]

Init ==
    /\ obj = [n \in Ids |-> NoSession]
    /\ made = 0
    /\ addSessQueue = <<>>
    /\ sessions = [a \in Accounts |-> None]
    /\ queued = <<>>
    /\ disconnects = [a \in Accounts |-> Never]
    /\ now = 0
    /\ pc = "idle"
    /\ todo = {}

-----------------------------------------------------------------------------
(* What the operations of the World do to the sessions o and the queue q. *)

SessionCount(m) == Cardinality({a \in Accounts : m[a] # None})

GetActiveSessionCount(q) == SessionCount(sessions) - Len(q)

InitializeSession(o, n) == [o EXCEPT ![n].init = "asked"]

Kicked(k) == [k EXCEPT !.open = FALSE, !.forceExit = TRUE]

KickPlayer(o, n) == [o EXCEPT ![n] = Kicked(@)]

(* ~WorldSession closes the socket that is still open. *)
Delete(o, n) == [o EXCEPT ![n] = NoSession]

AddQueuedPlayer_NotTold(o, q, n) ==
    [obj |-> [o EXCEPT ![n].inQueue = TRUE], queued |-> Append(q, n)]

AddQueuedPlayer(o, q, n) ==
    [obj |-> [o EXCEPT ![n].inQueue = TRUE, ![n].told = Len(q) + 1],
     queued |-> Append(q, n)]

(* SendAuthWaitQue for the positions of q from i to the end. *)
TellPositions(o, q, i) ==
    [n \in Ids |-> IF \E j \in i..Len(q) : q[j] = n
                   THEN [o[n] EXCEPT !.told = CHOOSE j \in i..Len(q) : q[j] = n]
                   ELSE o[n]]

RemoveQueuedPlayer_OneTooMany(o, q, n) ==
    LET found == Contains(q, n)
        at == IF found THEN CHOOSE i \in DOMAIN q : q[i] = n ELSE Len(q) + 1
        rest == IF found THEN RemoveAt(q, at) ELSE q
        active == GetActiveSessionCount(q)
        count == IF ~found /\ active > 0 THEN active - 1 ELSE active
        admit == rest # <<>> /\ (Limit = 0 \/ count <= Limit)
        left == IF admit THEN Tail(rest) ELSE rest
        o1 == IF found THEN [o EXCEPT ![n].inQueue = FALSE] ELSE o
        o2 == IF admit THEN InitializeSession(o1, Head(rest)) ELSE o1
    IN  [found |-> found, queued |-> left,
         obj |-> TellPositions(o2, left, IF admit THEN 1 ELSE at)]

RemoveQueuedPlayer_NobodyAdmitted(o, q, n) ==
    LET found == Contains(q, n)
        at == IF found THEN CHOOSE i \in DOMAIN q : q[i] = n ELSE Len(q) + 1
        rest == IF found THEN RemoveAt(q, at) ELSE q
        o1 == IF found THEN [o EXCEPT ![n].inQueue = FALSE] ELSE o
    IN  [found |-> found, queued |-> rest, obj |-> TellPositions(o1, rest, at)]

RemoveQueuedPlayer_LastFirst(o, q, n) ==
    LET found == Contains(q, n)
        at == IF found THEN CHOOSE i \in DOMAIN q : q[i] = n ELSE Len(q) + 1
        rest == IF found THEN RemoveAt(q, at) ELSE q
        active == GetActiveSessionCount(q)
        count == IF ~found /\ active > 0 THEN active - 1 ELSE active
        admit == rest # <<>> /\ (Limit = 0 \/ count < Limit)
        left == IF admit THEN Front(rest) ELSE rest
        o1 == IF found THEN [o EXCEPT ![n].inQueue = FALSE] ELSE o
        o2 == IF admit THEN InitializeSession(o1, Last(rest)) ELSE o1
    IN  [found |-> found, queued |-> left,
         obj |-> TellPositions(o2, left, IF admit THEN 1 ELSE at)]

(* RemoveQueuedPlayer: takes session n, which is still in m_sessions, out of
   the queue if it is there, admits the first in the queue if there is room now,
   and tells those whose position has changed. *)
RemoveQueuedPlayer(o, q, n) ==
    LET found == Contains(q, n)
        at == IF found THEN CHOOSE i \in DOMAIN q : q[i] = n ELSE Len(q) + 1
        rest == IF found THEN RemoveAt(q, at) ELSE q
        active == GetActiveSessionCount(q)
        count == IF ~found /\ active > 0 THEN active - 1 ELSE active
        admit == rest # <<>> /\ (Limit = 0 \/ count < Limit)
        left == IF admit THEN Tail(rest) ELSE rest
        o1 == IF found THEN [o EXCEPT ![n].inQueue = FALSE] ELSE o
        o2 == IF admit THEN InitializeSession(o1, Head(rest)) ELSE o1
    IN  [found |-> found, queued |-> left,
         obj |-> TellPositions(o2, left, IF admit THEN 1 ELSE at)]

(* HasRecentlyDisconnected compares difftime(then, now), which is never
   positive, with the tolerance. *)
Tolerated(a) ==
    Tolerance > 0 /\ disconnects[a] # Never /\ disconnects[a] - now < Tolerance

-----------------------------------------------------------------------------
(* The network threads. *)

(* A client has authenticated: a session is made and handed over. *)
AddSession(a) ==
    /\ made < MaxSessions
    /\ made' = made + 1
    /\ obj' = [obj EXCEPT ![made + 1] = NewSession(a)]
    /\ addSessQueue' = Append(addSessQueue, made + 1)
    /\ UNCHANGED <<worldVars, loopVars>>

(* The client leaves, or its connection is closed. *)
SocketCloses(n) ==
    /\ obj[n].alive /\ obj[n].open
    /\ obj' = [obj EXCEPT ![n].open = FALSE]
    /\ UNCHANGED <<made, addSessQueue, worldVars, loopVars>>

(* AbortLogin: the client has failed five times to connect to the instance
   server, and the network thread ends the loading of its character. *)
AbortLogin(n) ==
    /\ obj[n].alive /\ obj[n].open /\ obj[n].player = "loading"
    /\ obj' = [obj EXCEPT ![n].player = "none"]
    /\ UNCHANGED <<made, addSessQueue, worldVars, loopVars>>

-----------------------------------------------------------------------------
(* UpdateSessions, first loop: AddSession_. *)

(* World::Update calls UpdateSessions; the clock may have moved on. *)
UpdateSessions ==
    /\ pc = "idle"
    /\ pc' = "add"
    /\ now' \in {now, now + 1} \cap (0..MaxNow)
    /\ UNCHANGED <<obj, made, addSessQueue, sessions, queued, disconnects, todo>>

(* The player of the account's present session is being loaded: RemoveSession
   refuses and the new session is deleted. *)
AddSessionRefused ==
    LET n == Head(addSessQueue)
        old == sessions[obj[n].account]
    IN  /\ pc = "add" /\ addSessQueue # <<>>
        /\ old # None /\ obj[old].player = "loading"
        /\ obj' = Delete(KickPlayer(obj, n), n)
        /\ addSessQueue' = Tail(addSessQueue)
        /\ UNCHANGED <<made, worldVars, loopVars>>

(* Session n enters m_sessions in place of the old one, which is kicked, taken
   out of the queue and deleted.  It waits if the realm is full. *)
AddSessionTaken ==
    LET n == Head(addSessQueue)
        a == obj[n].account
        old == sessions[a]
        removed == IF old = None
                   THEN [found |-> FALSE, obj |-> obj, queued |-> queued]
                   ELSE RemoveQueuedPlayer(KickPlayer(obj, old), queued, old)
        o == IF old = None THEN obj ELSE Delete(removed.obj, old)
        m == [sessions EXCEPT ![a] = n]
        count == SessionCount(m) - (IF removed.found THEN 0 ELSE 1)
        full == Limit > 0 /\ count >= Limit /\ a \notin Privileged
        waiting == AddQueuedPlayer(o, removed.queued, n)
    IN  /\ pc = "add" /\ addSessQueue # <<>>
        /\ old # None => obj[old].player # "loading"
        /\ sessions' = m
        /\ addSessQueue' = Tail(addSessQueue)
        /\ \/ /\ full /\ ~Tolerated(a)
              /\ obj' = waiting.obj
              /\ queued' = waiting.queued
           \/ /\ full /\ Tolerated(a)
              /\ obj' = [InitializeSession(o, n) EXCEPT
                              ![n].age = now - disconnects[a]]
              /\ queued' = removed.queued
           \/ /\ ~full
              /\ obj' = InitializeSession(o, n)
              /\ queued' = removed.queued
        /\ UNCHANGED <<made, disconnects, now, pc, todo>>

AddSessionsEnds ==
    /\ pc = "add" /\ addSessQueue = <<>>
    /\ pc' = "update"
    /\ todo' = {a \in Accounts : sessions[a] # None}
    /\ UNCHANGED <<obj, made, addSessQueue, worldVars>>

-----------------------------------------------------------------------------
(* UpdateSessions, second loop: WorldSession::Update of every session. *)

(* An idle session that is not in the queue is closed first. *)
CloseIdle(k) == IF k.inQueue THEN {k} ELSE {k, [k EXCEPT !.open = FALSE]}

(* The packet handlers: a character is chosen, but not by a session that waits
   in the queue. *)
Handle(k) ==
    IF k.player = "none" /\ ~k.inQueue
    THEN {k, [k EXCEPT !.player = "loading"]}
    ELSE {k}

(* InitializeSessionCallback, once the account data is there: the client is
   told that it no longer waits. *)
InitializeSessionCallback(k) ==
    IF k.init = "asked"
    THEN {k, [k EXCEPT !.init = "done", !.inQueue = FALSE, !.told = 0]}
    ELSE {k}

(* HandlePlayerLogin, once the character's data is there: the player enters the
   world, or is kicked if it cannot be loaded. *)
HandlePlayerLogin(k) ==
    IF k.player = "loading"
    THEN {k, [k EXCEPT !.player = "world"], [Kicked(k) EXCEPT !.player = "none"]}
    ELSE {k}

(* LogoutPlayer, when the player asked for it long enough ago. *)
LogoutPlayer(k) ==
    IF k.player = "world" THEN {k, [k EXCEPT !.player = "none"]} ELSE {k}

(* WorldSession::Update up to its clean-up. *)
Updated(k) ==
    LET handled == UNION {Handle(c) : c \in CloseIdle(k)}
        initialized == UNION {InitializeSessionCallback(c) : c \in handled}
        loaded == UNION {HandlePlayerLogin(c) : c \in initialized}
    IN  UNION {LogoutPlayer(c) : c \in loaded}

(* A closed session without a player, or kicked, goes at once; one with a
   player goes when expireTime has run out. *)
MayLeave(k) == ~k.open
MustLeave(k) == ~k.open /\ (k.player # "world" \/ k.forceExit)

UpdateSession(a) ==
    /\ pc = "update" /\ a \in todo
    /\ \E k \in Updated(obj[sessions[a]]) :
        /\ ~MustLeave(k)
        /\ obj' = [obj EXCEPT ![sessions[a]] = k]
    /\ todo' = todo \ {a}
    /\ UNCHANGED <<made, addSessQueue, worldVars, pc>>

RemoveSession_KeepsQueue(a) ==
    LET n == sessions[a]
    IN  /\ pc = "update" /\ a \in todo
        /\ \E k \in Updated(obj[n]) :
            /\ MayLeave(k)
            /\ obj' = Delete([obj EXCEPT ![n] = k], n)
        /\ disconnects' = IF Tolerance > 0 THEN [disconnects EXCEPT ![a] = now]
                                           ELSE disconnects
        /\ sessions' = [sessions EXCEPT ![a] = None]
        /\ todo' = todo \ {a}
        /\ UNCHANGED <<made, addSessQueue, queued, now, pc>>

(* Update returned false: the session is removed from the queue, twice, from
   m_sessions, and deleted. *)
RemoveSession(a) ==
    LET n == sessions[a]
    IN  /\ pc = "update" /\ a \in todo
        /\ \E k \in Updated(obj[n]) :
            LET once == RemoveQueuedPlayer([obj EXCEPT ![n] = k], queued, n)
                twice == RemoveQueuedPlayer(once.obj, once.queued, n)
            IN  /\ MayLeave(k)
                /\ disconnects' = IF ~once.found /\ Tolerance > 0
                                  THEN [disconnects EXCEPT ![a] = now]
                                  ELSE disconnects
                /\ queued' = twice.queued
                /\ obj' = Delete(twice.obj, n)
        /\ sessions' = [sessions EXCEPT ![a] = None]
        /\ todo' = todo \ {a}
        /\ UNCHANGED <<made, addSessQueue, now, pc>>

UpdateSessionsEnds ==
    /\ pc = "update" /\ todo = {}
    /\ pc' = "idle"
    /\ UNCHANGED <<obj, made, addSessQueue, worldVars, todo>>

(* KickAll, before a shutdown: the queue is dropped and everybody is kicked. *)
KickAll ==
    LET all == {sessions[a] : a \in Accounts} \ {None}
    IN  /\ pc = "idle" /\ all # {}
        /\ queued' = <<>>
        /\ obj' = [n \in Ids |-> (IF n \in all THEN KickPlayer(obj, n) ELSE obj)[n]]
        /\ UNCHANGED <<made, addSessQueue, sessions, disconnects, now, pc, todo>>

(* KickAllLess, a ban, the kick command: typed at a console between two updates
   or by another player, whose session is being updated. *)
Kick(a) ==
    /\ pc # "add" /\ sessions[a] # None /\ ~obj[sessions[a]].forceExit
    /\ obj' = KickPlayer(obj, sessions[a])
    /\ UNCHANGED <<made, addSessQueue, worldVars, loopVars>>

-----------------------------------------------------------------------------
WorldThread ==
    \/ UpdateSessions
    \/ AddSessionRefused
    \/ AddSessionTaken
    \/ AddSessionsEnds
    \/ \E a \in Accounts : UpdateSession(a) \/ RemoveSession(a)
    \/ UpdateSessionsEnds

Next ==
    \/ WorldThread
    \/ KickAll
    \/ \E a \in Accounts : AddSession(a) \/ Kick(a)
    \/ \E n \in Ids : SocketCloses(n) \/ AbortLogin(n)

Spec == Init /\ [][Next]_vars

-----------------------------------------------------------------------------
(* Properties. *)

(* Whoever is in the login queue is, once, a session of m_sessions that exists
   and was not admitted: replacing, kicking and disconnecting leave no dangling
   WorldSession pointer in the queue, and m_sessions.size() minus the length of
   the queue, an unsigned number, cannot wrap around. *)
QueueSound ==
    /\ IsInjective(queued)
    /\ \A i \in DOMAIN queued : LET k == obj[queued[i]] IN
        k.alive /\ k.inQueue /\ k.init = "no" /\ sessions[k.account] = queued[i]
    /\ \A a \in Accounts : sessions[a] # None =>
        obj[sessions[a]].alive /\ obj[sessions[a]].account = a

(* Every client in the queue was last told its present position. *)
PositionsTold == \A i \in DOMAIN queued : obj[queued[i]].told = i

Admitted == {a \in Accounts \ Privileged :
                /\ sessions[a] # None
                /\ obj[sessions[a]].init # "no"
                /\ obj[sessions[a]].age = Never}

(* The player limit is kept: at most Limit sessions that neither skip the queue
   by permission nor are spared it by the disconnect tolerance are admitted. *)
LimitRespected == Limit > 0 => Cardinality(Admitted) <= Limit

(* Nobody waits while there is room: with a queue, at least Limit sessions of
   m_sessions are not in it. *)
NoIdleSlot == queued # <<>> => GetActiveSessionCount(queued) >= Limit

(* x waits before y in the queue q. *)
Ahead(q, x, y) == \E i, j \in DOMAIN q : i < j /\ q[i] = x /\ q[j] = y

(* The step admits session n, which has not waited. *)
AdmittedAtOnce(n) ==
    obj[n].init = "no" /\ obj'[n].init # "no" /\ ~Contains(queued, n)

ServedInOrder ==
    queued' # <<>> =>
        /\ \A i, j \in DOMAIN queued :
            (i < j /\ Contains(queued', queued[i])) =>
                /\ obj'[queued[j]].init = "no"
                /\ ~Ahead(queued', queued[j], queued[i])
        /\ \A i, j \in DOMAIN queued' :
            (i < j /\ Contains(queued, queued'[j])) => Contains(queued, queued'[i])
        /\ \A n \in Ids : AdmittedAtOnce(n) =>
                obj'[n].account \in Privileged \/ obj'[n].age # Never

(* Who waits longer is served first.  Nobody is admitted, or gets ahead in the
   queue, while one who was ahead of them still waits; who comes to the queue
   comes behind all that wait; and who is let in without waiting, while others
   wait, may skip the queue or has just been disconnected. *)
NobodyOvertakes == [][ServedInOrder]_vars

=============================================================================
