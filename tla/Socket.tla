------------------------------- MODULE Socket -------------------------------
(***************************************************************************)
(* The write side and the life of a client connection of the world server: *)
(* Socket<T> (shared/Networking/Socket.h, the build without IOCP), the     *)
(* NetworkThread that owns the sockets and updates them every 10 ms, and   *)
(* the parts of WorldSocket that queue packets and close the connection.   *)
(*                                                                         *)
(* Three threads touch a socket.  The acceptor adds it to the network      *)
(* thread.  The network thread runs its Update and the asio handlers, one  *)
(* after the other.  The world thread, once it knows the session, sends    *)
(* packets through the lock-free _bufferQueue and may close the socket at  *)
(* any time, in the middle of an Update too.                               *)
(*                                                                         *)
(* A packet is a run of bytes that all carry the packet's number, so the   *)
(* bytes on the wire can be compared with the packets that were accepted.  *)
(* The kernel's send buffer has room for SendRoom bytes and the peer       *)
(* empties it.                                                             *)
(***************************************************************************)
EXTENDS Integers, Sequences, FiniteSets, SequencesExt

CONSTANTS
    Sockets,        \* the connections clients open
    Sizes,          \* the sizes of packets, in bytes
    BufferSize,     \* _sendBufferSize: what one batch of packets may hold
    SendRoom,       \* the kernel's send buffer
    MaxPackets,     \* bound: packets accepted on one socket
    NoSocket        \* no socket is being updated

ASSUME SocketsAssumption == IsFiniteSet(Sockets) /\ NoSocket \notin Sockets
ASSUME SizesAssumption ==
    /\ Sizes \subseteq Nat \ {0} /\ Sizes # {}
    /\ BufferSize \in Nat \ {0}
    /\ SendRoom \in Nat \ {0}
    /\ MaxPackets \in Nat

VARIABLES
    sock,           \* the members of every Socket and its end of the connection
    where,          \* in no container, in _newSockets, in _sockets, or dropped
    connections,    \* NetworkThread::_connections
    stopped,        \* NetworkThread::_stopped
    pc,             \* what the network thread does
    cur,            \* the socket NetworkThread::Update is at
    buffer,         \* the message WorldSocket::Update is filling
    todo            \* the sockets it has still to visit

vars == <<sock, where, connections, stopped, pc, cur, buffer, todo>>

-----------------------------------------------------------------------------
(* The socket. *)

(* closed, closing: the two atomic flags.  shut: shutdown_send was called.
   closes: calls of OnClose.  writing: _isWritingAsync.  reading: an
   async_read_some is outstanding.  query: the database query whose callback
   the socket waits for, or "greeted" before the client has greeted back.
   instance: _type is CONNECTION_TYPE_INSTANCE.  known: the World has been given
   it.  sending: the size of a packet the world thread has checked IsOpen for
   and not yet enqueued, 0 if none.  finishing: the world thread is inside
   CloseSocket, past the exchange.  up, room: the connection and the free space
   of the send buffer.  accepted, wire: the bytes of all queued packets, and
   those that left. *)
NewSocket ==
    [closed |-> FALSE, closing |-> FALSE, shut |-> FALSE, closes |-> 0,
     bufferQueue |-> <<>>, writeQueue |-> <<>>, writing |-> FALSE,
     reading |-> FALSE, query |-> "none", instance |-> FALSE,
     known |-> FALSE,
     sending |-> 0, finishing |-> FALSE, up |-> TRUE, room |-> SendRoom,
     count |-> 0, accepted |-> <<>>, wire |-> <<>>]

IsOpen(k) == ~k.closed /\ ~k.closing

CloseSocket_NoExchange(k) ==
    [k EXCEPT !.closed = TRUE, !.shut = TRUE, !.closes = @ + 1]

(* CloseSocket as the network thread runs it: only the thread whose exchange
   found _closed false shuts the connection down and calls OnClose. *)
CloseSocket(k) ==
    IF k.closed
    THEN k
    ELSE [k EXCEPT !.closed = TRUE, !.shut = TRUE, !.closes = @ + 1]

DelayedCloseSocket(k) == [k EXCEPT !.closing = TRUE]

AsyncRead(k) == [k EXCEPT !.reading = IsOpen(k)]

(* The bytes of the next packet of socket k, when it is n bytes long. *)
PacketBytes(k, n) == [i \in 1..n |-> k.count + 1]

(* QueuePacket: a message goes straight to _writeQueue. *)
QueuePacket(k, n) ==
    [k EXCEPT !.writeQueue = Append(@, PacketBytes(k, n)),
              !.accepted = @ \o PacketBytes(k, n),
              !.count = @ + 1]

(* The second half of WorldSocket::SendPacket. *)
Enqueue(k, n) ==
    [k EXCEPT !.bufferQueue = Append(@, PacketBytes(k, n)),
              !.accepted = @ \o PacketBytes(k, n),
              !.count = @ + 1]

SendPacket(k, n) == IF IsOpen(k) THEN Enqueue(k, n) ELSE k

-----------------------------------------------------------------------------
(* Writing. *)

AsyncProcessQueue(k) == [k EXCEPT !.writing = TRUE]

Pop_NeverCloses(k) == [k EXCEPT !.writeQueue = Tail(@)]

(* _writeQueue.pop() and the test for a delayed close that follows it. *)
Pop(k) ==
    LET popped == [k EXCEPT !.writeQueue = Tail(@)]
    IN  IF popped.closing /\ popped.writeQueue = <<>>
        THEN CloseSocket(popped)
        ELSE popped

(* write_some took the first n bytes of the front message. *)
Sent(k, n) ==
    [k EXCEPT !.wire = @ \o SubSeq(Head(k.writeQueue), 1, n),
              !.room = @ - n,
              !.writeQueue[1] = SubSeq(@, n + 1, Len(@))]

Writable(k) == k.up /\ ~k.shut

\* Mutant: the message is offered to a socket that was shut down, too.
HandleQueue_NotShut(k) ==
    LET message == Head(k.writeQueue)
        n == IF k.room < Len(message) THEN k.room ELSE Len(message)
        sent == Sent(k, n)
    IN  CASE k.writeQueue = <<>> -> [socket |-> k, more |-> FALSE]
          [] k.writeQueue # <<>> /\ n = Len(message) ->
                [socket |-> Pop(sent), more |-> Pop(sent).writeQueue # <<>>]
          [] OTHER -> [socket |-> AsyncProcessQueue(sent), more |-> FALSE]

HandleQueue_PartialIsAll(k) ==
    LET message == Head(k.writeQueue)
        n == IF k.room < Len(message) THEN k.room ELSE Len(message)
        popped == Pop(IF Writable(k) /\ n > 0 THEN Sent(k, n) ELSE k)
    IN  IF k.writeQueue = <<>>
        THEN [socket |-> k, more |-> FALSE]
        ELSE [socket |-> popped, more |-> popped.writeQueue # <<>>]

(* HandleQueue: one message is offered to the kernel; more says whether the
   caller's loop goes on. *)
HandleQueue(k) ==
    LET message == Head(k.writeQueue)
        stop(s) == [socket |-> s, more |-> FALSE]
    IN  CASE k.writeQueue = <<>> -> stop(k)
          [] k.writeQueue # <<>> /\ message = <<>> -> stop(Pop(k))
          [] k.writeQueue # <<>> /\ message # <<>> /\ ~Writable(k) -> stop(Pop(k))
          [] k.writeQueue # <<>> /\ message # <<>> /\ Writable(k)
                /\ k.room < Len(message) ->
                IF k.room = 0
                THEN stop(AsyncProcessQueue(k))
                ELSE stop(AsyncProcessQueue(Sent(k, k.room)))
          [] OTHER ->
                LET popped == Pop(Sent(k, Len(message)))
                IN  [socket |-> popped, more |-> popped.writeQueue # <<>>]

(* The first packet of _bufferQueue is added to the open message, which is
   queued when the packet does not fit, even if it is empty; a packet that is
   larger than a whole buffer is a message of its own. *)
Batch(k, open) ==
    LET packet == Head(k.bufferQueue)
        big == Len(packet) > BufferSize
        fits == Len(open) + Len(packet) <= BufferSize
        full == IF fits THEN k.writeQueue ELSE Append(k.writeQueue, open)
        rest == IF fits THEN open ELSE <<>>
    IN  [socket |-> [k EXCEPT !.bufferQueue = Tail(@),
                              !.writeQueue = IF big THEN Append(full, packet) ELSE full],
         open |-> IF big THEN rest ELSE rest \o packet]

-----------------------------------------------------------------------------
Init ==
    /\ sock = [s \in Sockets |-> NewSocket]
    /\ where = [s \in Sockets |-> "none"]
    /\ connections = 0
    /\ stopped = FALSE
    /\ pc = "idle"
    /\ cur = NoSocket
    /\ buffer = <<>>
    /\ todo = {}

(* One socket changes and nothing else does. *)
Changes(s, k) ==
    /\ sock' = [sock EXCEPT ![s] = k]
    /\ UNCHANGED <<where, connections, stopped, pc, cur, buffer, todo>>

(* WorldSocket::Start asks the database about the address. *)
Start(k) == [k EXCEPT !.query = "ip"]

(* The acceptor: the socket is started and handed to the network thread. *)
AddSocket(s) ==
    /\ where[s] = "none" /\ ~stopped
    /\ where' = [where EXCEPT ![s] = "new"]
    /\ connections' = connections + 1
    /\ sock' = [sock EXCEPT ![s] = Start(@)]
    /\ UNCHANGED <<stopped, pc, cur, buffer, todo>>

(* NetworkThread::Update begins: the new sockets that are still open join the
   others, the rest are forgotten. *)
UpdateBegins ==
    LET new == {s \in Sockets : where[s] = "new"}
        dropped == {s \in new : ~IsOpen(sock[s])}
        live == {s \in Sockets : where[s] = "live"} \cup (new \ dropped)
    IN  /\ pc = "idle" /\ ~stopped
        /\ where' = [s \in Sockets |-> IF s \in dropped THEN "gone"
                                       ELSE IF s \in new THEN "live"
                                       ELSE where[s]]
        /\ connections' = connections - Cardinality(dropped)
        /\ todo' = live
        /\ pc' = "next"
        /\ UNCHANGED <<sock, stopped, cur, buffer>>

(* The next socket of _sockets: WorldSocket::Update makes an empty message. *)
UpdateSocket(s) ==
    /\ pc = "next" /\ s \in todo
    /\ todo' = todo \ {s}
    /\ cur' = s
    /\ buffer' = <<>>
    /\ pc' = "drain"
    /\ UNCHANGED <<sock, where, connections, stopped>>

(* One turn of its loop over _bufferQueue. *)
DrainPacket ==
    LET result == Batch(sock[cur], buffer)
    IN  /\ pc = "drain" /\ sock[cur].bufferQueue # <<>>
        /\ sock' = [sock EXCEPT ![cur] = result.socket]
        /\ buffer' = result.open
        /\ UNCHANGED <<where, connections, stopped, pc, cur, todo>>

(* Nothing is left in _bufferQueue: a message that is not empty is queued. *)
DrainEnds ==
    /\ pc = "drain" /\ sock[cur].bufferQueue = <<>>
    /\ sock' = [sock EXCEPT ![cur].writeQueue =
                    IF buffer = <<>> THEN @ ELSE Append(@, buffer)]
    /\ buffer' = <<>>
    /\ pc' = "base"
    /\ UNCHANGED <<where, connections, stopped, cur, todo>>

UpdateEnds ==
    /\ pc = "next" /\ todo = {}
    /\ pc' = "idle"
    /\ UNCHANGED <<sock, where, connections, stopped, cur, buffer, todo>>

(* Socket::Update returns false for a closed socket, and the network thread
   drops it.  It is not open, so it is not closed again. *)
RemoveClosed ==
    /\ pc = "base" /\ sock[cur].closed
    /\ where' = [where EXCEPT ![cur] = "gone"]
    /\ connections' = connections - 1
    /\ cur' = NoSocket
    /\ pc' = "next"
    /\ UNCHANGED <<sock, stopped, buffer, todo>>

(* Socket::Update: is there something to write? *)
BaseUpdate ==
    LET k == sock[cur]
    IN  /\ pc = "base" /\ ~k.closed
        /\ pc' = IF k.writing \/ (k.writeQueue = <<>> /\ ~k.closing)
                 THEN "queries" ELSE "handle"
        /\ UNCHANGED <<sock, where, connections, stopped, cur, buffer, todo>>

(* One turn of the loop over HandleQueue. *)
HandleStep ==
    LET result == HandleQueue(sock[cur])
    IN  /\ pc = "handle"
        /\ sock' = [sock EXCEPT ![cur] = result.socket]
        /\ pc' = IF result.more THEN "handle" ELSE "queries"
        /\ UNCHANGED <<where, connections, stopped, cur, buffer, todo>>

-----------------------------------------------------------------------------
(* ProcessReadyQueries, the last part of WorldSocket::Update: at most one query
   of the socket is outstanding, and it may not be ready.  The packets its
   callbacks send are short: one byte each. *)

QueriesDone(k) ==
    /\ pc = "queries"
    /\ sock' = [sock EXCEPT ![cur] = k]
    /\ cur' = NoSocket
    /\ pc' = "next"
    /\ UNCHANGED <<where, connections, stopped, buffer, todo>>

NotReady == QueriesDone(sock[cur])

(* CheckIpCallback: a banned address is disconnected, any other is greeted. *)
CheckIpBanned ==
    /\ pc = "queries" /\ sock[cur].query = "ip"
    /\ QueriesDone(DelayedCloseSocket([sock[cur] EXCEPT !.query = "none"]))

CheckIpPassed ==
    /\ pc = "queries" /\ sock[cur].query = "ip" /\ sock[cur].count < MaxPackets
    /\ QueriesDone(QueuePacket(AsyncRead([sock[cur] EXCEPT !.query = "greeted"]), 1))

(* HandleAuthSessionCallback: no account, or a wrong key, is refused without a
   word; a ban or a lock is refused with an error packet; otherwise the session
   is made and its permissions are queried. *)
AuthRefusedSilently ==
    /\ pc = "queries" /\ sock[cur].query = "auth"
    /\ QueriesDone(DelayedCloseSocket([sock[cur] EXCEPT !.query = "none"]))

AuthRefused ==
    /\ pc = "queries" /\ sock[cur].query = "auth" /\ sock[cur].count < MaxPackets
    /\ QueriesDone(DelayedCloseSocket(SendPacket([sock[cur] EXCEPT !.query = "none"], 1)))

AuthAccepted ==
    /\ pc = "queries" /\ sock[cur].query = "auth"
    /\ QueriesDone(AsyncRead([sock[cur] EXCEPT !.query = "permissions"]))

(* HandleAuthContinuedSessionCallback, of a connection to the instance server:
   the same without a session of its own. *)
ContinuedRefusedSilently ==
    /\ pc = "queries" /\ sock[cur].query = "continued"
    /\ QueriesDone(DelayedCloseSocket([sock[cur] EXCEPT !.query = "none"]))

ContinuedRefused ==
    /\ pc = "queries" /\ sock[cur].query = "continued" /\ sock[cur].count < MaxPackets
    /\ QueriesDone(DelayedCloseSocket(SendPacket([sock[cur] EXCEPT !.query = "none"], 1)))

ContinuedAccepted ==
    /\ pc = "queries" /\ sock[cur].query = "continued" /\ sock[cur].count < MaxPackets
    /\ QueriesDone(AsyncRead(SendPacket([sock[cur] EXCEPT !.query = "done",
                                                         !.instance = TRUE], 1)))

(* LoadSessionPermissionsCallback asks the client to enable encryption. *)
PermissionsLoaded ==
    /\ pc = "queries" /\ sock[cur].query = "permissions" /\ sock[cur].count < MaxPackets
    /\ QueriesDone(SendPacket([sock[cur] EXCEPT !.query = "done"], 1))

Queries ==
    \/ NotReady
    \/ CheckIpBanned
    \/ CheckIpPassed
    \/ AuthRefusedSilently
    \/ AuthRefused
    \/ AuthAccepted
    \/ PermissionsLoaded
    \/ ContinuedRefusedSilently
    \/ ContinuedRefused
    \/ ContinuedAccepted

-----------------------------------------------------------------------------
(* The asio handlers, run by the network thread between two Updates. *)

Running == pc = "idle" /\ ~stopped

(* WriteHandlerWrapper: the socket can be written to again, or has failed. *)
WriteHandler(s) ==
    /\ Running /\ sock[s].writing
    /\ sock[s].room > 0 \/ ~Writable(sock[s])
    /\ Changes(s, HandleQueue([sock[s] EXCEPT !.writing = FALSE]).socket)

(* The read failed: ReadHandlerInternal and InitializeHandler close. *)
ReadError(s) ==
    /\ Running /\ sock[s].reading /\ ~sock[s].up
    /\ Changes(s, CloseSocket([sock[s] EXCEPT !.reading = FALSE]))

(* Bytes arrived.  A socket that is no longer open stops reading. *)
ReadIgnored(s) ==
    /\ Running /\ sock[s].reading /\ ~IsOpen(sock[s])
    /\ Changes(s, [sock[s] EXCEPT !.reading = FALSE])

Reads(s) == Running /\ sock[s].reading /\ sock[s].up /\ IsOpen(sock[s])

(* A malformed greeting, header or packet, a packet that is not allowed yet, a
   ping too many. *)
ReadMalformed(s) ==
    /\ Reads(s)
    /\ Changes(s, CloseSocket([sock[s] EXCEPT !.reading = FALSE]))

(* InitializeHandler: the client's greeting is answered with a challenge. *)
InitializeHandler(s) ==
    /\ Reads(s) /\ sock[s].query = "greeted" /\ sock[s].count < MaxPackets
    /\ Changes(s, AsyncRead(SendPacket([sock[s] EXCEPT !.query = "none"], 1)))

(* CMSG_PING of a socket that has a session: HandlePing answers. *)
ReadPing(s) ==
    /\ Reads(s) /\ sock[s].count < MaxPackets
    /\ IF sock[s].instance THEN sock[s].known
                           ELSE sock[s].query \in {"permissions", "done"}
    /\ Changes(s, AsyncRead(SendPacket(sock[s], 1)))

(* CMSG_AUTH_SESSION, CMSG_AUTH_CONTINUED_SESSION: nothing is read until the
   database answers. *)
ReadAuthSession(s) ==
    /\ Reads(s) /\ sock[s].query = "none"
    /\ Changes(s, [sock[s] EXCEPT !.reading = FALSE, !.query = "auth"])

ReadAuthContinued(s) ==
    /\ Reads(s) /\ sock[s].query = "none"
    /\ Changes(s, [sock[s] EXCEPT !.reading = FALSE, !.query = "continued"])

(* A key of another type of connection is refused at once. *)
ReadAuthContinuedDenied(s) ==
    /\ Reads(s) /\ sock[s].query = "none" /\ sock[s].count < MaxPackets
    /\ Changes(s, DelayedCloseSocket(SendPacket([sock[s] EXCEPT !.reading = FALSE], 1)))

(* CMSG_ENABLE_ENCRYPTION_ACK of a client that was asked: the session, or the
   connection to the instance server, goes to the World. *)
ReadEncryptionAck(s) ==
    /\ Reads(s) /\ sock[s].query = "done" /\ ~sock[s].known
    /\ Changes(s, AsyncRead([sock[s] EXCEPT !.known = TRUE]))

-----------------------------------------------------------------------------
(* The world thread. *)

(* WorldSocket::SendPacket: the test of IsOpen, and then the Enqueue. *)
SendPacketCheck(s, n) ==
    /\ sock[s].known /\ sock[s].sending = 0 /\ sock[s].count < MaxPackets
    /\ IsOpen(sock[s])
    /\ Changes(s, [sock[s] EXCEPT !.sending = n])

SendPacketEnqueue(s) ==
    /\ sock[s].sending # 0
    /\ Changes(s, [Enqueue(sock[s], sock[s].sending) EXCEPT !.sending = 0])

(* CloseSocket (KickPlayer, ~WorldSession, an idle session): the exchange, and
   then the shutdown and OnClose. *)
CloseSocketExchange(s) ==
    /\ sock[s].known /\ ~sock[s].closed
    /\ Changes(s, [sock[s] EXCEPT !.closed = TRUE, !.finishing = TRUE])

CloseSocketFinish(s) ==
    /\ sock[s].finishing
    /\ Changes(s, [sock[s] EXCEPT !.finishing = FALSE, !.shut = TRUE, !.closes = @ + 1])

(* World::ProcessLinkInstanceSocket refuses an instance connection. *)
WorldRefuses(s) ==
    /\ sock[s].instance /\ sock[s].known /\ sock[s].sending = 0 /\ sock[s].count < MaxPackets
    /\ IsOpen(sock[s])
    /\ Changes(s, DelayedCloseSocket(SendPacket(sock[s], 1)))

(* StopNetwork: the thread is told to stop; it leaves run() after the handler
   it is in and forgets its sockets. *)
Stop ==
    /\ ~stopped
    /\ stopped' = TRUE
    /\ UNCHANGED <<sock, where, connections, pc, cur, buffer, todo>>

RunExits ==
    /\ stopped /\ pc = "idle"
    /\ pc' = "exited"
    /\ where' = [s \in Sockets |-> IF where[s] = "none" THEN "none" ELSE "gone"]
    /\ UNCHANGED <<sock, connections, stopped, cur, buffer, todo>>

-----------------------------------------------------------------------------
(* The client and the kernel. *)

PeerReads(s) ==
    /\ sock[s].up /\ sock[s].room < SendRoom
    /\ Changes(s, [sock[s] EXCEPT !.room = SendRoom])

PeerLeaves(s) ==
    /\ where[s] # "none" /\ sock[s].up
    /\ Changes(s, [sock[s] EXCEPT !.up = FALSE])

-----------------------------------------------------------------------------
UpdateThread ==
    \/ UpdateBegins
    \/ \E s \in Sockets : UpdateSocket(s)
    \/ DrainPacket
    \/ DrainEnds
    \/ UpdateEnds
    \/ RemoveClosed
    \/ BaseUpdate
    \/ HandleStep
    \/ Queries

Next ==
    \/ UpdateThread
    \/ Stop
    \/ RunExits
    \/ \E s \in Sockets :
        \/ AddSocket(s)
        \/ WriteHandler(s)
        \/ ReadError(s)
        \/ ReadIgnored(s)
        \/ ReadMalformed(s)
        \/ InitializeHandler(s)
        \/ ReadPing(s)
        \/ ReadAuthSession(s)
        \/ ReadAuthContinued(s)
        \/ ReadAuthContinuedDenied(s)
        \/ ReadEncryptionAck(s)
        \/ SendPacketEnqueue(s)
        \/ CloseSocketExchange(s)
        \/ CloseSocketFinish(s)
        \/ PeerReads(s)
        \/ PeerLeaves(s)
        \/ WorldRefuses(s)
        \/ \E n \in Sizes : SendPacketCheck(s, n)

Spec == Init /\ [][Next]_vars

(* The update timer is armed again in every Update and asio runs the handlers
   that are ready in turn, so the network thread goes on and no handler is
   passed over for ever (strongly: a handler cannot run during an Update).  A
   started call of the world thread finishes.  A peer that does not leave reads
   what it is sent. *)
Fairness ==
    /\ WF_vars(UpdateThread)
    /\ WF_vars(RunExits)
    /\ \A s \in Sockets :
        /\ SF_vars(WriteHandler(s))
        /\ SF_vars(ReadError(s))
        /\ WF_vars(SendPacketEnqueue(s))
        /\ WF_vars(CloseSocketFinish(s))
        /\ WF_vars(PeerReads(s))

FairSpec == Spec /\ Fairness

-----------------------------------------------------------------------------
(* Properties. *)

(* The client gets the bytes of the packets in the order in which they were
   accepted, with no gap and nothing twice: batching, packets larger than the
   buffer, partial writes and the switch between Update and the asynchronous
   write handler keep the stream in order. *)
StreamInOrder == \A s \in Sockets : IsPrefix(sock[s].wire, sock[s].accepted)

(* A socket is a stream of bytes that is shut down once and for all: whatever the
   two threads do, bytes are only added to what was accepted, only the next ones
   leave, and none does after shutdown_send. *)
Streams == INSTANCE ByteStream WITH
    Streams  <- Sockets,
    accepted <- [s \in Sockets |-> sock[s].accepted],
    wire     <- [s \in Sockets |-> sock[s].wire],
    open     <- [s \in Sockets |-> ~sock[s].shut]

ImplementsByteStream == Streams!Spec

(* OnClose runs once, although the network thread and the world thread may
   close a socket at the same time. *)
ClosedOnce ==
    \A s \in Sockets :
        /\ sock[s].closes <= 1
        /\ sock[s].shut => sock[s].closed

(* A packet that was accepted reaches the wire, unless the socket is closed or
   told to, the client leaves or the network is stopped. *)
PacketsLeave ==
    \A s \in Sockets :
        (Len(sock[s].wire) < Len(sock[s].accepted)) ~>
            \/ Len(sock[s].wire) = Len(sock[s].accepted)
            \/ ~IsOpen(sock[s]) \/ ~sock[s].up \/ stopped

(* A delayed close that finds something in the write queue ends in a closed
   socket, also when the client never reads again and leaves. *)
DelayedCloseEnds ==
    \A s \in Sockets :
        (sock[s].closing /\ sock[s].writeQueue # <<>>) ~> (sock[s].closed \/ stopped)

=============================================================================
