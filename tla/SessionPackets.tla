---------------------------- MODULE SessionPackets ----------------------------
(***************************************************************************)
(* server/game: the packets of a client on their way to its WorldSession   *)
(* (WorldSocket.cpp, LockedQueue.h, WorldSession.cpp, World.cpp).          *)
(*                                                                         *)
(* Network threads make the session, hand it to the World, and put the     *)
(* packets they read in its queue through WorldSocket::_worldSession, a    *)
(* raw pointer guarded by _worldSessionLock.  The world thread, and the    *)
(* thread that updates the player's map, take packets out of the queue,    *)
(* each only those its filter lets through.  The world thread replaces,    *)
(* kicks and deletes sessions meanwhile.                                   *)
(*                                                                         *)
(* The sessions are those of one account, numbered in the order in which   *)
(* they are made.  Session n has the sockets <<n, "realm">> and, once its  *)
(* client was sent to the instance port, <<n, "inst">>.  The map threads   *)
(* work while the world thread waits for them (MapUpdater), so that one    *)
(* program counter stands for both.                                        *)
(*                                                                         *)
(* Left out, since nothing below depends on them: handlers that either     *)
(* thread may run (PROCESS_INPLACE), those allowed a while after the       *)
(* logout, and packets dropped while the session waits in the login queue. *)
(***************************************************************************)
EXTENDS Integers, Sequences, FiniteSets, SequencesExt

CONSTANTS
    MaxSessions,  \* bound: sessions made
    MaxPackets,   \* bound: packets received, in all
    MaxShared,    \* bound: the same, once a second session was made or an
                  \* acknowledgement came out of turn
    MaxStrays,    \* bound: acknowledgements of the encryption out of turn
    Limit,        \* MAX_PROCESSED_PACKETS_IN_SAME_WORLDSESSION_UPDATE
    ExpireTime    \* expireTime, in updates of the session

ASSUME ConstantsAssumption ==
    /\ {MaxSessions, MaxPackets, MaxShared, Limit, ExpireTime} \subseteq Nat \ {0}
    /\ MaxStrays \in Nat

Ids     == 1..MaxSessions
None    == 0
Sockets == Ids \X {"realm", "inst"}

(* Opcodes, by what Update and the filters tell apart: two of STATUS_AUTHED,
   PROCESS_THREADUNSAFE; STATUS_LOGGEDIN, PROCESS_THREADSAFE and THREADUNSAFE;
   STATUS_TRANSFER, PROCESS_THREADUNSAFE. *)
LoggedIn == {"safe", "unsafe"}
Kinds == {"enum", "login", "transfer"} \cup LoggedIn
Packets == [kind: Kinds, seq: 1..MaxPackets]
NoPacket == "none"

VARIABLES
    sess,          \* the WorldSession objects
    recv,          \* their _recvQueue
    sock,          \* the WorldSockets and what their network threads do
    addSessQueue,  \* World::addSessQueue
    linkQueue,     \* World::_linkSocketQueue
    current,       \* m_sessions of the account
    wpc,           \* what the world thread, or the map's thread, does
    filter,        \* the PacketFilter of the Update that is running
    requeue,       \* its requeuePackets
    processed,     \* its processedPackets
    closing,       \* the sockets on which CloseSocket is still to be called
    midClose,      \* CloseSocket of the first of them waits for the lock
    doomed,        \* the session to delete after that
    received,      \* how many packets were queued
    strays,        \* how many acknowledgements came out of turn
    handedOver,    \* history: the sessions passed to AddSession
    lastHandled    \* history: the last STATUS_LOGGEDIN packet handled

netVars    == <<addSessQueue, linkQueue, received, strays, handedOver>>
updateVars == <<filter, requeue, processed>>
closeVars  == <<closing, midClose, doomed>>
worldVars  == <<current, wpc, updateVars, closeVars, lastHandled>>
vars == <<sess, recv, sock, netVars, worldVars>>

(* realm, inst: m_Socket[i] is not null.  loading: m_playerLoading is set.
   character: _charLoginCallback is pending.  player: none, in the world, or
   between two maps.  recent: m_playerRecentlyLogout. *)
NewSession ==
    [live |-> TRUE, realm |-> TRUE, inst |-> FALSE, loading |-> FALSE,
     character |-> FALSE, player |-> "none", recent |-> FALSE, force |-> FALSE,
     expire |-> ExpireTime]

NoSession == [NewSession EXCEPT !.live = FALSE, !.realm = FALSE]

(* ptr: _worldSession.  closed: _closed.  packet: the one in hand.  A network
   thread in "locked", "abort" or "stuck" holds _worldSessionLock. *)
NewSocket(pc) == [pc |-> pc, closed |-> FALSE, ptr |-> None, packet |-> NoPacket]

Holding(s) == sock[s].pc \in {"locked", "abort", "stuck"}

Init ==
    /\ sess = [n \in Ids |-> NoSession]
    /\ recv = [n \in Ids |-> <<>>]
    /\ sock = [s \in Sockets |-> NewSocket(IF s[2] = "realm" THEN "auth" ELSE "none")]
    /\ addSessQueue = <<>> /\ linkQueue = <<>>
    /\ current = None
    /\ wpc = "link"
    /\ filter = "world" /\ requeue = <<>> /\ processed = 0
    /\ closing = <<>> /\ midClose = FALSE /\ doomed = None
    /\ received = 0 /\ strays = 0
    /\ handedOver = {}
    /\ lastHandled = [n \in Ids |-> 0]

-----------------------------------------------------------------------------
(* The network thread of a socket. *)

(* For the bounds: the sessions made, and the packets received or in hand. *)
Made  == Cardinality({n \in Ids : sock[<<n, "realm">>].pc # "auth"})
Taken == received + Cardinality({s \in Sockets : sock[s].pc = "locked"})

(* HandleAuthSessionCallback, the account was accepted: the session is made.
   It is known to this thread only. *)
HandleAuthSessionCallback(n) ==
    LET s == <<n, "realm">>
    IN  /\ sock[s].pc = "auth"
        /\ \A m \in 1..(n - 1) : sock[<<m, "realm">>].pc # "auth"
        /\ n > 1 => Taken <= MaxShared
        /\ sess' = [sess EXCEPT ![n] = NewSession]
        /\ sock' = [sock EXCEPT ![s].pc = "perm", ![s].ptr = n]
        /\ UNCHANGED <<recv, netVars, worldVars>>

(* LoadSessionPermissionsCallback: the permissions go into the session and the
   client is asked to encrypt. *)
LoadSessionPermissionsCallback(n) ==
    LET s == <<n, "realm">>
    IN  /\ sock[s].pc = "perm" /\ ~sock[s].closed
        /\ sock' = [sock EXCEPT ![s].pc = "encrypt"]
        /\ UNCHANGED <<sess, recv, netVars, worldVars>>

(* An acknowledgement nobody asked for, or the same again, is handled like the
   one that was: here it is counted. *)
Ack(expected) ==
    \/ expected /\ UNCHANGED strays
    \/ ~expected /\ strays < MaxStrays /\ Taken <= MaxShared /\ strays' = strays + 1

(* HandleEnableEncryptionAck of a realm connection, which a connection is until
   it is authenticated: _worldSession, whatever it is, goes to the World.  It is
   read once, without the lock. *)
HandleEnableEncryptionAck(n) ==
    LET s == <<n, "realm">>
        expected == sock[s].pc = "encrypt"
    IN  /\ sock[s].pc \in {"auth", "perm", "encrypt", "read"}
        /\ Ack(expected)
        /\ addSessQueue' = Append(addSessQueue, sock[s].ptr)
        /\ handedOver' = handedOver \cup ({sock[s].ptr} \ {None})
        /\ sock' = IF expected THEN [sock EXCEPT ![s].pc = "read"] ELSE sock
        /\ UNCHANGED <<sess, recv, linkQueue, received, worldVars>>

(* The client connects to the instance port with the key of session n, is
   authenticated and acknowledges, or it acknowledges again: AddInstanceSocket. *)
InstanceEncryptionAck(n) ==
    LET s == <<n, "inst">>
    IN  /\ sock[s].pc \in {"asked", "read"}
        /\ Ack(sock[s].pc = "asked")
        /\ sock' = [sock EXCEPT ![s].pc = "read"]
        /\ linkQueue' = Append(linkQueue, n)
        /\ UNCHANGED <<sess, recv, addSessQueue, received, handedOver, worldVars>>

(* ReadDataHandler of a packet for the session: it takes the lock and finds the
   session.  The loop of ReadHandler does not look whether the socket was closed
   meanwhile. *)
ReadDataHandler(s, k) ==
    LET n == sock[s].ptr
    IN  /\ sock[s].pc = "read" /\ n # None
        /\ Taken < IF Made > 1 \/ strays > 0 THEN MaxShared ELSE MaxPackets
        /\ sock' = [sock EXCEPT ![s].pc = "locked", ![s].packet = k]
        /\ UNCHANGED <<sess, recv, netVars, worldVars>>

(* QueuePacket; the lock is released. *)
QueuePacket(s) ==
    LET n == sock[s].ptr
    IN  /\ sock[s].pc = "locked"
        /\ recv' = [recv EXCEPT ![n] =
                       Append(@, [kind |-> sock[s].packet, seq |-> received + 1])]
        /\ received' = received + 1
        /\ sock' = [sock EXCEPT ![s].pc = "read", ![s].packet = NoPacket]
        /\ UNCHANGED <<sess, addSessQueue, linkQueue, strays, handedOver, worldVars>>

(* HandleConnectToFailed after the fifth attempt, under the lock: the player is
   still being loaded. *)
HandleConnectToFailed(n) ==
    LET s == <<n, "realm">>
    IN  /\ sock[s].pc = "read" /\ sock[s].ptr # None
        /\ sess[sock[s].ptr].loading
        /\ sock' = [sock EXCEPT ![s].pc = "abort"]
        /\ UNCHANGED <<sess, recv, netVars, worldVars>>

(* AbortLogin, which looks again. *)
AbortLogin(n) ==
    LET s == <<n, "realm">>
        m == sock[s].ptr
    IN  /\ sock[s].pc = "abort"
        /\ sess[m].loading /\ sess[m].player = "none"
        /\ sess' = [sess EXCEPT ![m].loading = FALSE]
        /\ sock' = [sock EXCEPT ![s].pc = "read"]
        /\ UNCHANGED <<recv, netVars, worldVars>>

(* The loading has ended between the two looks: KickPlayer.  OnClose of this
   socket waits for the lock that this thread holds; a socket that another
   thread is closing is left alone.  (The instance socket is closed at once.) *)
AbortLoginKicks(n) ==
    LET s == <<n, "realm">>
        i == <<n, "inst">>
        m == sock[s].ptr
        shut == [sock EXCEPT ![i].closed = sess[m].inst \/ @,
                             ![i].ptr = IF sess[m].inst THEN None ELSE @]
    IN  /\ sock[s].pc = "abort"
        /\ ~sess[m].loading \/ sess[m].player # "none"
        /\ \/ /\ ~sock[s].closed
              /\ sock' = [sock EXCEPT ![s].closed = TRUE, ![s].pc = "stuck"]
              /\ UNCHANGED sess
           \/ /\ sock[s].closed /\ ~Holding(i)
              /\ sock' = [shut EXCEPT ![s].pc = "read"]
              /\ sess' = [sess EXCEPT ![m].force = TRUE]
        /\ UNCHANGED <<recv, netVars, worldVars>>

(* The connection ends, the client sends what is not allowed, or the network
   thread drops a socket that was closed by another: CloseSocket. *)
NetworkClose(s) ==
    /\ sock[s].pc \in {"perm", "encrypt", "read"}
    /\ sock' = [sock EXCEPT ![s].pc = IF sock[s].closed THEN "closed" ELSE "closing",
                            ![s].closed = TRUE]
    /\ UNCHANGED <<sess, recv, netVars, worldVars>>

NetworkOnClose(s) ==
    /\ sock[s].pc = "closing"
    /\ sock' = [sock EXCEPT ![s].pc = "closed", ![s].ptr = None]
    /\ UNCHANGED <<sess, recv, netVars, worldVars>>
-----------------------------------------------------------------------------
(* CloseSocket on the world thread or on a map's thread: the exchange of _closed,
   then OnClose under the lock.  The thread does nothing else meanwhile. *)

CloseSocket ==
    LET s == Head(closing)
    IN  /\ closing # <<>> /\ ~midClose
        /\ \/ /\ sock[s].closed
              /\ closing' = Tail(closing)
              /\ UNCHANGED <<sock, midClose>>
           \/ /\ ~sock[s].closed
              /\ sock' = [sock EXCEPT ![s].closed = TRUE]
              /\ midClose' = TRUE
              /\ UNCHANGED closing
        /\ UNCHANGED <<sess, recv, netVars, current, wpc, updateVars, doomed,
                       lastHandled>>

\* Mutant: OnClose does not take _worldSessionLock.
OnClose_NoLock ==
    LET s == Head(closing)
    IN  /\ midClose
        /\ sock' = [sock EXCEPT ![s].ptr = None]
        /\ midClose' = FALSE
        /\ closing' = Tail(closing)
        /\ UNCHANGED <<sess, recv, netVars, current, wpc, updateVars, doomed,
                       lastHandled>>

OnClose ==
    LET s == Head(closing)
    IN  /\ midClose /\ ~Holding(s)
        /\ sock' = [sock EXCEPT ![s].ptr = None]
        /\ midClose' = FALSE
        /\ closing' = Tail(closing)
        /\ UNCHANGED <<sess, recv, netVars, current, wpc, updateVars, doomed,
                       lastHandled>>

At(p) == wpc = p /\ closing = <<>>

(* The sockets of session n, as its record k has them. *)
SocketsOf(k, n) == (IF k.realm THEN <<<<n, "realm">>>> ELSE <<>>)
                   \o (IF k.inst THEN <<<<n, "inst">>>> ELSE <<>>)

-----------------------------------------------------------------------------
(* World::UpdateSessions: link the instance sockets, add the new sessions. *)

(* ProcessLinkInstanceSocket: the socket is closed, or its key is not that of
   the account's present session.  (It keeps its null _worldSession: the next
   packet for a session closes it.) *)
LinkRefused ==
    LET n == Head(linkQueue)
    IN  /\ At("link") /\ linkQueue # <<>>
        /\ sock[<<n, "inst">>].closed \/ current # n
        /\ linkQueue' = Tail(linkQueue)
        /\ UNCHANGED <<sess, recv, sock, addSessQueue, received, strays, handedOver,
                       worldVars>>

LinkFound ==
    LET n == Head(linkQueue)
    IN  /\ At("link") /\ linkQueue # <<>>
        /\ ~sock[<<n, "inst">>].closed /\ current = n
        /\ wpc' = "setsession"
        /\ UNCHANGED <<sess, recv, sock, netVars, current, updateVars, closeVars,
                       lastHandled>>

(* SetWorldSession, AddInstanceConnection, HandleContinuePlayerLogin: the
   character is asked for, or the query cannot be made, or the player is kicked
   because no character is being loaded. *)
LinkInstanceSocket ==
    LET n == Head(linkQueue)
        s == <<n, "inst">>
        k == [sess[n] EXCEPT !.inst = TRUE]
    IN  /\ At("setsession") /\ ~Holding(s)
        /\ sock' = [sock EXCEPT ![s].ptr = n]
        /\ linkQueue' = Tail(linkQueue)
        /\ wpc' = "link"
        /\ \/ /\ k.loading /\ k.player = "none"
              /\ \/ sess' = [sess EXCEPT ![n] = [k EXCEPT !.character = TRUE]]
                 \/ sess' = [sess EXCEPT ![n] = [k EXCEPT !.loading = FALSE]]
              /\ UNCHANGED closing
           \/ /\ ~k.loading \/ k.player # "none"
              /\ sess' = [sess EXCEPT ![n] = [k EXCEPT !.force = TRUE]]
              /\ closing' = SocketsOf(k, n)
        /\ UNCHANGED <<recv, addSessQueue, received, strays, handedOver, current,
                       updateVars, midClose, doomed, lastHandled>>

LinksEnd ==
    /\ At("link") /\ linkQueue = <<>>
    /\ wpc' = "add"
    /\ UNCHANGED <<sess, recv, sock, netVars, current, updateVars, closeVars,
                   lastHandled>>

(* AddSession_ of session n keeps the present one while its player is loaded. *)
Refused == current # None /\ sess[current].loading

\* Mutant: the refused session is kicked and not deleted.
AddSession_Refused ==
    LET n == Head(addSessQueue)
        out == IF Refused THEN n ELSE current
    IN  /\ At("add") /\ addSessQueue # <<>> /\ n # None /\ sess[n].live
        /\ addSessQueue' = Tail(addSessQueue)
        /\ current' = IF Refused THEN current ELSE n
        /\ \/ /\ out = None
              /\ UNCHANGED <<sess, closing, doomed, wpc>>
           \/ /\ out # None
              /\ sess' = [sess EXCEPT ![out].force = TRUE]
              /\ closing' = SocketsOf(sess[out], out)
              /\ doomed' = IF Refused THEN None ELSE out
              /\ wpc' = IF Refused THEN "add" ELSE "delete"
        /\ UNCHANGED <<recv, sock, linkQueue, received, strays, handedOver,
                       updateVars, midClose, lastHandled>>

(* AddSession_: the new session is kicked and deleted while the player of the
   present one is being loaded; otherwise it takes the place of the present one,
   which is kicked and deleted.  Nothing looks whether they are the same. *)
AddSession ==
    LET n == Head(addSessQueue)
        out == IF Refused THEN n ELSE current
    IN  /\ At("add") /\ addSessQueue # <<>> /\ n # None /\ sess[n].live
        /\ addSessQueue' = Tail(addSessQueue)
        /\ current' = IF Refused THEN current ELSE n
        /\ \/ /\ out = None
              /\ UNCHANGED <<sess, closing, doomed, wpc>>
           \/ /\ out # None
              /\ sess' = [sess EXCEPT ![out].force = TRUE]
              /\ closing' = SocketsOf(sess[out], out)
              /\ doomed' = out
              /\ wpc' = "delete"
        /\ UNCHANGED <<recv, sock, linkQueue, received, strays, handedOver,
                       updateVars, midClose, lastHandled>>

(* ASSERT(s) fails, or the session was deleted since it was handed over.  What
   the world thread does after a fault is not modelled. *)
AddSessionFault ==
    /\ At("add") /\ addSessQueue # <<>>
    /\ Head(addSessQueue) # None => ~sess[Head(addSessQueue)].live
    /\ wpc' = "fault"
    /\ UNCHANGED <<sess, recv, sock, netVars, current, updateVars, closeVars,
                   lastHandled>>

(* delete of a session whose sockets are closed; the packets still in its queue
   go with it.  The session that left had been the last to be updated, the others
   are deleted while sessions are added.  One that is still in m_sessions is used
   next. *)
DeleteSession ==
    /\ At("delete")
    /\ sess' = [sess EXCEPT ![doomed] = NoSession]
    /\ recv' = [recv EXCEPT ![doomed] = <<>>]
    /\ lastHandled' = [lastHandled EXCEPT ![doomed] = 0]
    /\ doomed' = None
    /\ wpc' = IF doomed = current THEN "fault"
              ELSE IF filter = "leaving" THEN "link" ELSE "add"
    /\ filter' = "world"
    /\ UNCHANGED <<sock, netVars, current, requeue, processed, closing, midClose>>

AddSessionsEnd ==
    /\ At("add") /\ addSessQueue = <<>>
    /\ wpc' = IF current = None THEN "link" ELSE "start"
    /\ UNCHANGED <<sess, recv, sock, netVars, current, updateVars, closeVars,
                   lastHandled>>

-----------------------------------------------------------------------------
(* WorldSession::Update, called by UpdateSessions with a WorldSessionFilter and
   then by Map::Update with a MapSessionFilter. *)

MapSessionFilter(k, p) == p.kind = "safe" /\ k.player = "world"

WorldSessionFilter(k, p) == p.kind # "safe" \/ k.player # "world"

Process(k, p) == IF filter = "map" THEN MapSessionFilter(k, p)
                                   ELSE WorldSessionFilter(k, p)

(* The connection is closed first if it has been idle for too long. *)
StartUpdate ==
    /\ At("start")
    /\ closing' \in {<<>>, <<<<current, "realm">>>>}
    /\ wpc' = "packets"
    /\ UNCHANGED <<sess, recv, sock, netVars, current, updateVars, midClose,
                   doomed, lastHandled>>

LoggedOut(k) == [k EXCEPT !.player = "none", !.inst = FALSE, !.recent = TRUE]

(* What handling packet p makes of session record k: its new record, whether it
   is kicked, and whether the client is sent to the instance port.  A handler of
   a player in the world may teleport it far or log it out. *)
Outcomes(k, p) ==
    LET to(r) == [sess |-> r, kick |-> FALSE, connect |-> FALSE]
    IN  CASE p.kind = "enum" -> {to([k EXCEPT !.recent = FALSE])}
          [] p.kind = "login" ->
                IF k.loading \/ k.player # "none"
                THEN {[to([k EXCEPT !.force = TRUE]) EXCEPT !.kick = TRUE]}
                ELSE LET l == [k EXCEPT !.loading = TRUE]
                     IN  {[to(l) EXCEPT !.connect = TRUE],
                          [to([l EXCEPT !.force = TRUE]) EXCEPT !.kick = TRUE]}
          [] p.kind = "transfer" ->
                {to([k EXCEPT !.player = IF @ = "between" THEN "world" ELSE @])}
          [] p.kind = "unsafe" /\ k.player = "world" ->
                {to(k), to([k EXCEPT !.player = "between"]), to(LoggedOut(k))}
          [] OTHER -> {to(k)}

(* Update goes on: the next packet is there, the filter lets it through, and
   the limit is not passed. *)
\* Mutant: the loop stops one packet earlier.
More_Early(n) == /\ recv[n] # <<>> /\ Process(sess[n], Head(recv[n]))
                 /\ processed < Limit

More(n) == /\ recv[n] # <<>> /\ Process(sess[n], Head(recv[n]))
           /\ processed <= Limit

(* The next packet the filter lets through.  A packet for a player who is not
   there yet is put aside; one for a player who has just logged out, or is
   between two maps, is dropped. *)
HandlePacket ==
    LET n == current
        k == sess[n]
        p == Head(recv[n])
        early == p.kind \in LoggedIn /\ k.player = "none" /\ ~k.recent
        i == <<n, "inst">>
        free == sock[i].pc \in {"none", "closed"} /\ ~k.inst /\ ~Contains(linkQueue, n)
    IN  /\ At("packets") /\ More(n)
        /\ recv' = [recv EXCEPT ![n] = Tail(@)]
        /\ processed' = processed + 1
        /\ requeue' = IF early THEN Append(requeue, p) ELSE requeue
        /\ lastHandled' = IF p.kind \in LoggedIn /\ k.player = "world"
                          THEN [lastHandled EXCEPT ![n] = p.seq] ELSE lastHandled
        /\ \E o \in Outcomes(k, p) :
            /\ sess' = [sess EXCEPT ![n] = o.sess]
            /\ closing' = IF o.kick THEN SocketsOf(k, n)
                          ELSE IF k.inst /\ ~o.sess.inst THEN <<i>> ELSE <<>>
            /\ sock' = IF o.connect /\ free
                       THEN [sock EXCEPT ![i] = NewSocket("asked")] ELSE sock
        /\ UNCHANGED <<netVars, current, filter, wpc, midClose, doomed>>

PacketsEnd ==
    /\ At("packets") /\ ~More(current)
    /\ wpc' = "readd"
    /\ UNCHANGED <<sess, recv, sock, netVars, current, updateVars, closeVars,
                   lastHandled>>

\* Mutant: the packets that were put aside go to the end of the queue.
Readd_Back ==
    /\ At("readd")
    /\ recv' = [recv EXCEPT ![current] = @ \o requeue]
    /\ requeue' = <<>> /\ processed' = 0
    /\ wpc' = "callbacks"
    /\ UNCHANGED <<sess, sock, netVars, current, filter, closeVars,
                   lastHandled>>

(* LockedQueue::readd: to the front of the queue. *)
Readd ==
    /\ At("readd")
    /\ recv' = [recv EXCEPT ![current] = requeue \o @]
    /\ requeue' = <<>> /\ processed' = 0
    /\ wpc' = "callbacks"
    /\ UNCHANGED <<sess, sock, netVars, current, filter, closeVars,
                   lastHandled>>

(* ProcessQueryCallbacks: the character's data is not there, or the player enters
   the world, or it cannot be loaded and is kicked. *)
ProcessQueryCallbacks ==
    LET n == current
        k == sess[n]
        there == [k EXCEPT !.character = FALSE, !.loading = FALSE]
    IN  /\ At("callbacks")
        /\ wpc' = IF filter = "map" THEN "link" ELSE "logout"
        /\ filter' = "world"
        /\ \/ UNCHANGED <<sess, closing>>
           \/ /\ k.character
              /\ sess' = [sess EXCEPT ![n] = [there EXCEPT !.player = "world"]]
              /\ UNCHANGED closing
           \/ /\ k.character
              /\ sess' = [sess EXCEPT ![n] = [there EXCEPT !.force = TRUE]]
              /\ closing' = SocketsOf(k, n)
        /\ UNCHANGED <<recv, sock, netVars, current, requeue, processed, midClose,
                       doomed, lastHandled>>

(* The player asked to leave long enough ago: LogoutPlayer. *)
LogoutPlayer ==
    LET k == sess[current]
    IN  /\ At("logout")
        /\ \/ UNCHANGED <<sess, closing>>
           \/ /\ k.player # "none" /\ ~k.loading
              /\ sess' = [sess EXCEPT ![current] = LoggedOut(k)]
              /\ closing' = IF k.inst THEN <<<<current, "inst">>>> ELSE <<>>
        /\ wpc' = "cleanup"
        /\ UNCHANGED <<recv, sock, netVars, current, updateVars, midClose, doomed,
                       lastHandled>>

\* Mutant: the time of a session whose connection is lost does not run.
CleanUp_NoExpire ==
    LET n == current
        k == sess[n]
        lost == \E i \in DOMAIN SocketsOf(k, n) : sock[SocketsOf(k, n)[i]].closed
        leave == lost /\ (k.force \/ k.player = "none")
    IN  /\ At("cleanup")
        /\ \/ /\ leave
              /\ sess' = [sess EXCEPT ![n].realm = FALSE, ![n].inst = FALSE]
              /\ closing' = SocketsOf(k, n)
              /\ doomed' = n
              /\ current' = None
              /\ filter' = "leaving"
              /\ wpc' = "delete"
           \/ /\ ~leave
              /\ filter' = IF k.player = "world" THEN "map" ELSE filter
              /\ wpc' = IF k.player = "world" THEN "start" ELSE "link"
              /\ UNCHANGED <<sess, closing, doomed, current>>
        /\ UNCHANGED <<recv, sock, netVars, requeue, processed, midClose,
                       lastHandled>>

(* A socket was closed.  The session leaves at once if it was kicked or has no
   player, otherwise when expireTime has run out: both sockets are closed and
   given up, and UpdateSessions deletes it.  Then the maps are updated. *)
CleanUp ==
    LET n == current
        k == sess[n]
        lost == \E i \in DOMAIN SocketsOf(k, n) : sock[SocketsOf(k, n)[i]].closed
        expire == IF k.expire > 1 THEN k.expire - 1 ELSE 0
        leave == lost /\ (expire < 1 \/ k.force \/ k.player = "none")
    IN  /\ At("cleanup")
        /\ \/ /\ leave
              /\ sess' = [sess EXCEPT ![n].realm = FALSE, ![n].inst = FALSE]
              /\ closing' = SocketsOf(k, n)
              /\ doomed' = n
              /\ current' = None
              /\ filter' = "leaving"
              /\ wpc' = "delete"
           \/ /\ ~leave
              /\ sess' = IF lost THEN [sess EXCEPT ![n].expire = expire] ELSE sess
              /\ filter' = IF k.player = "world" THEN "map" ELSE filter
              /\ wpc' = IF k.player = "world" THEN "start" ELSE "link"
              /\ UNCHANGED <<closing, doomed, current>>
        /\ UNCHANGED <<recv, sock, netVars, requeue, processed, midClose,
                       lastHandled>>

-----------------------------------------------------------------------------
WorldThread ==
    \/ CloseSocket \/ OnClose
    \/ LinkRefused \/ LinkFound \/ LinkInstanceSocket \/ LinksEnd
    \/ AddSession \/ AddSessionFault \/ DeleteSession \/ AddSessionsEnd
    \/ StartUpdate \/ HandlePacket \/ PacketsEnd \/ Readd
    \/ ProcessQueryCallbacks \/ LogoutPlayer \/ CleanUp

(* What a network thread does while it holds a lock. *)
Unlock(n) ==
    \/ QueuePacket(<<n, "realm">>) \/ QueuePacket(<<n, "inst">>)
    \/ AbortLogin(n) \/ AbortLoginKicks(n)

NetworkThread(n) ==
    \/ Unlock(n)
    \/ HandleAuthSessionCallback(n)
    \/ LoadSessionPermissionsCallback(n)
    \/ HandleEnableEncryptionAck(n)
    \/ InstanceEncryptionAck(n)
    \/ HandleConnectToFailed(n)
    \/ \E s \in {<<n, "realm">>, <<n, "inst">>} :
        \/ \E k \in Kinds : ReadDataHandler(s, k)
        \/ NetworkClose(s)
        \/ NetworkOnClose(s)

(* The program has failed. *)
Failed == wpc = "fault" /\ UNCHANGED vars

Next == WorldThread \/ (\E n \in Ids : NetworkThread(n)) \/ Failed

Spec == Init /\ [][Next]_vars

(* The world thread runs its loop for ever, and a network thread returns from
   its handlers.  Nothing obliges a client to send, to answer or to leave. *)
FairSpec ==
    /\ Spec
    /\ WF_vars(WorldThread)
    /\ \A n \in Ids : WF_vars(Unlock(n))

-----------------------------------------------------------------------------
(* Properties. *)

(* While each connection acknowledges its encryption once, when it is asked to: a
   network thread that has found its session and works on it finds it alive to
   the end, although the world thread deletes sessions at any time, and the world
   thread adds no null and no deleted session. *)
NoUseAfterFree ==
    strays = 0 =>
        /\ wpc # "fault"
        /\ \A s \in Sockets : sock[s].pc \in {"perm", "encrypt", "locked", "abort"} =>
              sock[s].ptr # None /\ sess[sock[s].ptr].live

(* Under the same condition, a session that was handed to the World has one owner,
   the queue of new sessions, the session map or the statement that deletes it,
   until it is deleted, and none afterwards: none is deleted twice, and none is
   lost but those whose connection ended before they were handed over. *)
OneOwner ==
    strays = 0 =>
    \A n \in Ids :
        LET owners == {i \in DOMAIN addSessQueue : addSessQueue[i] = n}
                      \cup {x \in {-1} : current = n} \cup {x \in {-2} : doomed = n}
        IN  Cardinality(owners) =
                IF n \in handedOver /\ sess[n].live THEN 1 ELSE 0

(* The packets that session n still has to handle, in their order. *)
Waiting(n) == IF n = current THEN requeue \o recv[n] ELSE recv[n]

(* The packets for the player are handled in the order in which they were
   received, although two threads take them and some are put aside and put
   back. *)
HandledInOrder ==
    \A n \in Ids : LET w == Waiting(n) IN
        \A i \in DOMAIN w : w[i].kind \in LoggedIn =>
            /\ w[i].seq > lastHandled[n]
            /\ \A j \in DOMAIN w : i < j /\ w[j].kind \in LoggedIn => w[i].seq < w[j].seq

(* What AddSession_ says of the session it refuses and deletes: "session not added
   yet in session list, so not listed in queue" (World.cpp:276).  The code does not keep
   this: a session that was handed over twice is refused while it is listed. *)
RefusedNotListed ==
    [][wpc = "add" /\ wpc' = "delete" /\ sess[current].loading
        => doomed' # current']_vars

(* AbortLogin of a login that cannot reach the instance port ends: the network
   thread gives back the lock it holds. *)
AbortReturns == \A s \in Sockets : sock[s].pc # "stuck"

(* A request to log a character in is handled although packets that have to wait
   for the player are ahead of it, up to as many as one Update passes over.  (One
   more would hold it up for ever: they are put back in front of it.)  An
   acknowledgement out of turn may end the program, here and below. *)
LoginNear(n) == \E i \in DOMAIN Waiting(n) :
                    i <= Limit + 1 /\ Waiting(n)[i].kind = "login"
LoginHandled ==
    \A n \in Ids : LoginNear(n) /\ n \in handedOver ~> ~LoginNear(n) \/ strays > 0

(* A session whose connection is closed is deleted in the end, whatever it was
   doing, so that its account can log in again. *)
SessionsLeave ==
    \A n \in Ids : n \in handedOver /\ sock[<<n, "realm">>].closed
                    ~> ~sess[n].live \/ strays > 0
=============================================================================
