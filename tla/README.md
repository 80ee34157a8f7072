# TLA+ models of AshamaneCore (Legion 7.3.5)

AshamaneCore is a game server for World of Warcraft, descended from
TrinityCore: a world server (`src/src/server/worldserver`, `game`, `scripts`), a
Battle.net login server (`bnetserver`), and the libraries under both (`common`,
`shared`, `database`). Most of its source is game content and rules evaluated by
one thread. What is hard to test is the machinery that hands work from one
thread to another and decides how long objects live. The modules here model
that machinery, from the source, with TLC runs on small instances and TLAPS
proofs for instances of any size.

## 1. Inventory

How the parts interact:

```
 clients --TCP--> acceptor --AddSocket--> NetworkThread(s): Socket/WorldSocket
                                              | ^
        addSessQueue, packet queues (locked)  | | _bufferQueue (MPSCQueue)
                                              v |
   CLI, RA, SOAP --commands--> world thread: World::Update
                                  | UpdateSessions (login queue, sessions)
                                  | MapManager::Update --schedule/wait--> MapUpdater workers
                                  | managers (LFG, battlegrounds, auctions, guilds ...)
                                  v
                    DatabaseWorkerPool x3 --queue--> DatabaseWorker threads --> MySQL
                                  ^                        |
                                  +-- futures, QueryCallback polling
```

| component | state it keeps | operations | what is hard | what makes it correct |
|---|---|---|---|---|
| Parallel map update (`Maps/MapUpdater`, `MapManager`, `MapInstanced`) | request queue, pending count, token, maps and instances | schedule, wait, finish, deactivate; create, destroy, unload | workers schedule more work while the world thread waits; shutdown | `wait` is a barrier; no map updated twice or after deletion; ticks and shutdown end |
| Producer/consumer queue (`Threading`) | queue, shutdown flag, waiters | Push, WaitAndPop, Cancel | lost and spurious wake-ups | as used by its two users |
| Database worker pool | connections, workers, shared queue | Open, Enqueue, Close, the loader's retry | threads start before the connection is open and stop in its destructor | a worker has its connection; an operation has one owner; closing ends |
| Connection and transactions | MySQL handle, server session, retry state | ExecuteTransaction, retry on deadlock, reconnect | the connection is lost between two statements | a transaction is applied once or not at all |
| MPSC queue (`Threading`) | linked nodes, head, tail | Enqueue, Dequeue, destructor | lock-free producers | it is a FIFO queue; no use after free; nothing stuck |
| Socket and network thread | write queue, flags, handler state; containers, counter | QueuePacket, Update, write handler, close, delayed close, add, stop | three threads; partial writes; closing while writing | byte order, one OnClose, packets leave, a delayed close ends |
| World sessions and login queue | sessions, queue, disconnect times | AddSession, AddSession_, UpdateSessions, kick, tolerance | replacement, kick and disconnect of a session that waits | queue sound, positions told, limit kept, no idle slot |
| Session packet queue, `PacketFilter` | receive queue, the socket's session pointer and its lock, the queues to the world thread | queue, filtered dequeue, put aside and put back, link, kick, replace, expire, delete | network, world and map threads share a session that the world thread deletes | no dangling session; one owner; packets in order; a login is reached; sessions leave |
| Query callbacks | chains of futures and functions | add, chain, poll | callbacks change the list that is walked through; the owner dies before the result | every result once; every callback runs |
| Timed events (`EventProcessor`, `TaskScheduler`) | events by time | add, kill, reschedule, run | events change the container while it is run | each event runs or is aborted once |
| Grids | grid state, timers, locks | load, tick, unload | active objects appear during the countdown | no grid with players is unloaded |
| Instance saves, pools, game events | binds, timers, spawned sets | bind, reset, spawn | resets against players inside | limits of pools, no live instance reset |
| Battleground queue and battlegrounds | groups by team and kind, invitations, invited counts, free slot queue | join, update, port, decline, expire, leave, log out, start, end, delete | answers against timeouts; a battleground that ends under invited players | counts exact, teams fit, queue and players agree, ended battlegrounds go |
| Trade | the two offers, acceptances, state indexes | initiate, set, clear, accept, unaccept, cancel | offers change while an acceptance is on its way | both sides exist together; only a seen offer is carried out; money and items kept |
| Dungeon finder | queues, proposals, timers | join, answer, expire | answers against timeouts | nobody in two proposals, everyone gets an outcome |
| Groups, loot, mail, auctions, guild bank | members, items, money | the game's transactions | several steps, some failing | items and money are conserved |
| Realm list, Battle.net sessions, REST login | realms, tickets | refresh, login, expire | refresh against readers | tickets used once, before expiry |
| World server start and stop, freeze detector | threads | start, stop | order of stopping | nothing is used after it was stopped |
| Database updater | applied updates by hash | apply, rename, clean | failing half-way | each update applied once |
| Entities, spells, AI, scripts, collision, data stores, cryptography, tools, generated and vendored code | | | rules in data, geometry, formats | not modelled |

`PROJECT.json` lists all of these with their sources, and under `hazards` the
places in the code where something can go wrong that a test would hardly reach.

## 2. Plan

Done: `ProducerConsumerQueue`, `MapUpdater`, `DatabaseWorkerPool`, `QueryCallbacks`
which composes it with the pollers of its results, `MySQLTransaction`, `MPSCQueue`
with its abstract `FifoQueue`, `Socket` with its abstract `ByteStream`, `WorldSessions`, `SessionPackets`, `Trade`,
`BattlegroundQueue`; and the proofs of section 5.

What an extension would take up, in this order:

1. `EventProcessor` and `TaskScheduler`;
2. the dungeon finder's proposals, role checks and kicks;
3. grid states and map creation from several threads; instance saves;
4. group loot, auctions, mail, guild bank (conservation of items and money);
5. realm list, REST login tickets, database updater, order of shutdown.

Every safety property that a passing run checks, invariant, action property or
refinement, is a theorem of section 5; only liveness is left to TLC. No module here
declares a RECURSIVE operator.

## 3. Modules and how they correspond to the code

The `map` of `PROJECT.json` names the lines of every definition. Each module has
an `MC` module that TLC runs, and the eight modules of proofs (`...Proofs`) are what
section 5 is about. Definitions whose name has an underscore and a
description (`HandleQueue_NotShut`, `EndUnloadAll_NoToken`) are deliberately wrong
variants of the definition before the underscore; they are not part of `Next` and
show that a property notices the fault.

**ProducerConsumerQueue** (`common/Threading/ProducerConsumerQueue.h`). `queue`,
`shutdown` and the set `blocked` of threads asleep on the condition variable. One
action per critical section: `PCQPush`, `PCQBlock`, `PCQPopItem`,
`PCQPopNothing`, `PCQCancel`. `notify_one` wakes one blocked thread;
`PCQSpurious` wakes one for nothing. Extended by its two users.

**MapUpdater** (`Maps/MapUpdater`, `MapManager`, `MapInstanced`). The world
thread goes through `idle`, `schedule`, `wait`, `delayed` in a tick and through
`unload`, `deactivate`, `cancel`, `join` at shutdown; a worker through `pop`,
`check`, `update`, `finish`. A worker updating a `MapInstanced` schedules or
destroys its instances one at a time, so these steps interleave with everything
else; without workers (`CONFIG_NUMTHREADS` = 0, all of them `off` in an initial
state) the world thread does the same inline. `crash` is the state of
a worker that called a null request. What a map does to its objects is left out.
Maps are created by the world thread between ticks only.

**DatabaseWorkerPool** (`Database/DatabaseWorkerPool`, `DatabaseWorker`,
`DatabaseLoader`). Connections are constructed one by one, each with its worker,
then opened; a failed open destroys them again and the loader may create the
schema and retry. Destroying a connection is three steps (set the token, cancel
the shared queue, join). `fate` follows each operation.

**QueryCallbacks** (`Database/QueryCallback`, `QueryCallbackProcessor`) extends
`DatabaseWorkerPool` and runs with it. One owner keeps a list of queries, each with
the callbacks that are left of its chain. `ProcessReadyQueries` is a loop of steps,
one per query, so workers finish operations in its middle; a callback returns, sets
the next query of its chain, or adds another query to the list that is being walked
through. The pool is closed after the owner is gone, as `main` does.

**MySQLTransaction** (`MySQLConnection`, `Transaction`). Each connection executes
a transaction statement by statement; the server (external) is in autocommit or
transaction mode, keeps uncommitted writes per session and counts in `rows` how
often a statement was durably applied. Losing the connection, reconnecting with
its attempts, giving up with `abort`, and the retry loop after a deadlock (under
`_deadlockLock` for asynchronous connections) are separate actions. So are
`BeginError`, `RollbackError` and `CommitError`, a control statement that fails while
the connection is kept: the code ignores the result of each. `touched` and
`unconfirmed` remember which transactions this happened to.

**MPSCQueue** and **FifoQueue** (`common/Threading/MPSCQueue.h`). One step per
atomic operation: making a node, the exchange of `_head`, the store of `Next`,
the consumer's load, its store of `_tail` with the delete of the old node. Steps
are sequentially consistent; the release and acquire pairs of the code order the
same accesses. `FifoQueue` is the abstract queue; the refinement mapping takes
the values in the order of the exchanges.

**Socket** and **ByteStream** (`shared/Networking/Socket.h`, `NetworkThread.h`, parts of
`game/Server/WorldSocket.cpp`), for the build without IOCP. A packet is a run of
bytes carrying its number, so `wire` can be compared with `accepted`. The network
thread's `Update` visits a socket in steps (`UpdateSocket` begins an empty message,
`DrainPacket` takes one packet from `_bufferQueue` into it, `DrainEnds` queues the
rest, `HandleStep` writes, the query callbacks follow), so the other threads send and
close in the middle of it, and between two
updates runs the asio handlers: the client's greeting, the two kinds of
authentication, pings, malformed input, writes that can go on. The world thread's `SendPacket` is two steps (the
test of `IsOpen`, the enqueue) and so is its `CloseSocket`. `ByteStream` is what all this
promises to who sends: bytes are added at the end, the next ones leave, and after the
shutdown none does.

**WorldSessions** (`World/World.cpp`, `Server/WorldSession.cpp`). Sessions are
numbered; `sessions`, `queued`, `disconnects` and `addSessQueue` are the members
of `World`. `UpdateSessions` is a loop that first takes new sessions and then
updates each, so network threads add sessions and close sockets between any two
of its steps. Of `WorldSession::Update`, the idle close, the queue test before a
handler, the callbacks with the account's and the character's data, the logout and
the clean-up are kept. `AbortLogin` is a network thread's step.
`RemoveQueuedPlayer` is called twice for a session that leaves, as in the code.

**SessionPackets** (`Server/WorldSocket.cpp`, `Server/WorldSession.cpp`,
`World/World.cpp`, `Threading/LockedQueue.h`). The sessions of one account with their
realm and instance sockets. A network thread makes a session, hands it over after the
encryption handshake and, holding `_worldSessionLock`, puts packets in the session's
queue; the world thread, and after it the map's thread, take the packets their filter
passes, put aside those for a player who is not there yet and put them back in front.
`closing` is the list of sockets on which the thread still has to call `CloseSocket`;
its `OnClose` waits for the lock. `HandleEnableEncryptionAck` does what the code does
with every acknowledgement, expected or not: it hands over whatever `_worldSession` is.
Those out of turn are counted (`strays`), and what the world thread does with a null or
deleted session (`AddSessionFault`, `wpc = "fault"`) is not followed further. An opcode is one of five kinds, told apart by the
status and the processing place of its handler; a handler is what it makes of the
player's presence. Left out, since no property depends on them: handlers that either thread may
run (`PROCESS_INPLACE`), those allowed for a while after the logout, and the packets
dropped while the session waits in the login queue. The map threads work while the world thread waits, which
`MapUpdater` establishes (`Barrier`), so one program counter stands for both.

**Trade** (`Handlers/TradeHandler.cpp`, `Player/TradeData.cpp`). One action per
opcode. `view` holds the last updates a client was shown, so that an acceptance may
answer to an offer that has changed since. `agreed` is a history variable: both offers
as the client saw them when it accepted. An item that is on offer may vanish and money
may be spent at any time; a vanished item is passed over silently when the trade is
carried out, as `GetItem` does. `UpdateServerStateIndex` draws a random index; the
model's indexes never repeat.

**BattlegroundQueue** (`Battlegrounds/`, `BattleGroundHandler.cpp`, `Group.cpp`,
`MovementHandler.cpp`). The queue of one battleground type and bracket. The handlers,
the removal events and the parts of `Battleground::Update` are actions;
`QueueUpdate` is the whole of `BattlegroundQueueUpdate`, composed of the filling of
running battlegrounds, the premade match or the move of a premade group to the normal
queue, and the normal match. The loop in `FillPlayersToBG` that kicks groups out of
the selection pools has no effect and is not there: unless teams are not balanced at
all, either one team has no free place, and the loop breaks at once, or both have at
most one. `MaxGroupSize` of the battleground's entry is a setting of its own (`group`). A
group above it is queued without any check of its members, as in the code. If they
would have passed, nothing is special about it. If one would not, `unchecked` becomes
true and the model stops there: such a member is in two groups while `m_QueuedPlayers`
knows only the later one, and it is no longer modelled what the handlers do with the
other. An invitation he had is lost to the count, so that a battleground may never be
deleted. Offline members of a group are not seen by `CanJoinBattlegroundQueue` but counted by
`GetMembersCount`, as in the code. Left out: arenas and rated groups, a player in
several queues, a teleport that fails (its result is ignored by the code and would
keep the place), and what is played inside.

## 4. Runs

| run | instance | what it shows |
|---|---|---|
| `map_update` | 2 workers or none, 3 base maps (one `MapInstanced`, one with a child terrain), 2 instances | `Barrier`, `OneUpdater` per map, `NoDanglingMap`, `NoNullCall`, `TickComplete`; `WorldThreadReturns` from `wait` and `deactivate` |
| `db_pool` | 2 connections, 3 operations, chains of 2, schema present or not | `WorkerHasConnection`, `OneOwner` of an operation, `CallbackOnce`, `CallbacksRun`, `CloseTerminates` |
| `transaction` | 2 asynchronous connections; 3 transactions of 2, 1 and 0 statements; 1 retry, 2 attempts, 1 loss, 1 control statement that fails | a transaction that kept its connection is applied once or not at all, and one whose COMMIT failed as a whole or not at all (`OutcomeUnlessLost`); `TransactionsEnd` |
| `transaction_lost` (violation) | 1 connection, 1 loss, 5 retries and attempts as in the code | a lost connection applies a transaction in part (`AllOrNothing`) |
| `mpsc` | 2 producers, 4 nodes, 2 values | `ImplementsFifo`, `NoUseAfterFree`, `AllDequeued` |
| `socket` | 1 connection, packets of 1 and 3 bytes, batch of 2, send buffer of 2, 5 packets | `ImplementsByteStream`, `ClosedOnce`, `PacketsLeave`, `DelayedCloseEnds` |
| `sessions` | 3 accounts, one privileged, 4 logins, limit 1, tolerance on | `QueueSound`, `PositionsTold`, `LimitRespected`, `NoIdleSlot`, `NobodyOvertakes` through replacement, kicks and disconnects |
| `session_packets` | 2 sessions of an account, 4 sockets, 3 packets (1 once both sessions exist or an acknowledgement came out of turn), limit of 1 put-back packet per update, 1 acknowledgement out of turn | `HandledInOrder`; until an acknowledgement comes out of turn, `NoUseAfterFree` and `OneOwner` of a session, `LoginHandled`, `SessionsLeave` |
| `session_abort` (violation) | 1 session, 2 packets | aborting a login can lock a mutex twice (`AbortReturns`) |
| `trade` | 3 players, 2 items, 2 coins, answers up to 2 updates late, 2 changes of an offer | `Paired`, `AcceptedSeen`, `MoneyKept`, `TradesAsAgreed` |
| `trade_items` | 2 players with full bags of 2 items, 2 trade slots, 3 changes | `ItemsKept` |
| `bg_queue` | 2 players per team, one of them offline and one who disconnects, both groups, all three balance settings, teams of 1 or 2, groups within and above the size limit, 1 battleground, 2 inviting updates | `InvitedExact`, `QueueAgrees`, `EndedGone` until a group joins unchecked; `TeamsFit`, `SlotsOffered` |

No run spends a property on what follows from another. `StreamInOrder` of `Socket`,
that the client gets the accepted bytes in order, follows from `ImplementsByteStream`;
the type invariants `TypeOK` of `MapUpdater` and `Trade` are theorems, and the bound that
matters in the second, the money limit, is part of `MoneyKept`.

The bounds are named constants. They are enough for the cases of interest: two
workers can pop at once and one can sleep while the other schedules; a packet
larger than a batch, one that fits with another and one that does not all occur,
as do partial writes of each; with a privileged session active both ordinary
accounts wait, and the fourth login replaces one of the three sessions;
a statement can be lost before, inside and after a transaction; a callback can ask
for a query while another is not ready; a session can be replaced with a packet
in its network thread's hands, and a login can stand behind as many packets as an
update passes over; a third player can come between two who trade, and full bags can
only exchange; a battleground can be filled by late comers, end with an invitation
open, and be followed by another that reuses its id. `Retries` and
`Attempts` are the code's five in the violating run and smaller in the larger
instance: the retry loops treat all rounds but the last alike. A synchronous connection
runs the same loop without the lock, so the instance has two that contend for it; that
the outcome is the same for any mixture of both is a theorem. The two ordinary accounts of `sessions` are
interchangeable (`SYMMETRY`): nothing in the module tells them apart, and its properties
are all safety properties.

Deadlock is checked except for `Socket`, where everything may really have
stopped (the client gone, its socket dropped, the thread exited), and for
`BattlegroundQueue`, where everybody may be content and the bound on updates ends
the rest.

### Fairness

Weak fairness of every thread that can go on: the operating system schedules it
(`MapUpdater`, `DatabaseWorkerPool`, `MPSCQueue`). Nothing forces a caller to
enqueue, close, create a map or shut down. In `MySQLTransaction` entering the
retry loop is strongly fair: the holder of `_deadlockLock` leaves it after a
bounded number of retries and the mutex is not given to the same waiters for ever.
In `Socket` the asio handlers are strongly fair, since none can run during an
`Update` and the context runs ready handlers in turn; a peer that stays connected
reads what it is sent, which is the one assumption about the outside. A peer may
leave at any time. In `QueryCallbacks` the owner's update loop is weakly fair, in
`SessionPackets` the world thread's loop and what a network thread does under the
lock; nothing obliges a client to send, to answer or to leave. In
`BattlegroundQueue` the timers are weakly fair: removal events and the end of a
battleground are run by `BattlegroundMgr::Update`; and so is the arrival of a player
who accepted, because a client that does not come through the loading screen is
logged out, which lets its player arrive first (`LogoutPlayer` calls
`HandleMoveWorldportAck`). `WorldSessions` and `Trade` promise safety only.

### Disagreements found

With a run that shows them:

* A transaction whose connection is lost goes on in autocommit mode after the
  reconnect: a part of it is applied and success is reported (`transaction_lost`).
* `HandleConnectToFailed` calls `AbortLogin` under `_worldSessionLock`. If the world
  thread has ended the loading meanwhile, `AbortLogin` kicks, and closing the socket
  locks the same mutex: the network thread hangs (`session_abort`).

Without a run of their own; the properties that are checked are stated so that they
leave these cases out. For the first four the property the code does not keep is stated
in the module named, and TLC refutes it when it is added to that module's configuration
(`ReportedIsDurable` and `InOneGroup` as an INVARIANT, the other two as a PROPERTY):

* The result of COMMIT is ignored: one that fails while the connection is kept, by a
  deadlock for instance, is reported as success, and nothing of the transaction is
  durable, although `MySQLConnection.cpp:417` says "to prevent data loss, we only clean up
  when it's all done" (`ReportedIsDurable` in `MySQLTransaction`). `OutcomeUnlessLost`
  says of such a transaction only that it is applied as a whole or not at all.
* Every `CMSG_ENABLE_ENCRYPTION_ACK` hands the session to the World, also the second one
  and one before the session exists (where `AddSession_` asserts). A second one while the
  player is being loaded deletes the session that `m_sessions` holds, of which
  `World.cpp:276` says "session not added yet in session list" (`RefusedNotListed` in
  `SessionPackets`); at other times the session takes its own place and is deleted.
  `NoUseAfterFree`, `OneOwner`, `LoginHandled` and `SessionsLeave` are about connections
  that acknowledge once, when they are asked to (`strays = 0`), and so are the theorems;
  `WorldSessions` takes every session to be handed over once. `HandledInOrder` holds with
  acknowledgements out of turn all the same.
* An item that was used up since it was offered does not stop the trade: only items that
  `GetItem` still finds are looked at, neither acceptance is withdrawn, and the partner
  pays in full, although `TradeHandler.cpp:306` says "not accept if some items now can't
  be trade" (`OffersWhole` in `Trade`). `TradesAsAgreed` therefore promises all the money
  and every agreed item that its owner still has, not the whole offer.
* `Group::CanJoinBattlegroundQueue` answers `ERR_BATTLEGROUND_NONE`, which is no error, for
  a group with more than `MaxGroupSize` members, before it has looked at them: a member
  who is queued on his own is in two groups then, one of the other team is on the wrong
  list, and the place kept by an invitation he had is never given back. `Group.cpp:1842`
  says "don't let join if someone from the group is already in that bg queue"
  (`InOneGroup` in `BattlegroundQueue`). `InvitedExact`, `QueueAgrees` and `EndedGone`
  hold until that happens (`unchecked`).
* `Socket.h:156` says a delayed close "Marks the socket for closing after write
  buffer becomes empty". If the buffer already is empty the socket is never closed,
  since only writing a message closes it (`Socket.h:242`). `DelayedCloseEnds` is
  about a socket that has something to write.
* After the loader has created a missing schema (`DatabaseLoader.cpp:63`) the pool's
  queue stays shut down by the first, failed attempt, and the reopened pool executes
  nothing asynchronously in that process. `CallbacksRun` excludes it (`retried`).
* A reconnect that fails for an unlisted reason (`MySQLConnection.cpp:592`) leaves
  the connection without a handle, although the comment at line 555 promises that
  the server is shut down.
* `HasRecentlyDisconnected` (`World.cpp:364`) has the arguments of `difftime`
  swapped: the disconnect tolerance never expires. `LimitRespected` leaves the
  accounts out that skip the queue by it.
* `BattlegroundQueue.cpp:768` says the queue update "is called when group is
  inserted, or player / group is removed from BG Queue". `LogoutPlayer`
  (`WorldSession.cpp:570`) removes a player without scheduling one, so a place that
  an invited player gives up by logging out is offered only when something else
  schedules an update.
* A comment in `WorldSession::Update` says packets are re-added "to the bottom of the
  queue"; `readd` puts them in front, which `HandledInOrder` depends on. As a
  consequence more than `MAX_PROCESSED_PACKETS_IN_SAME_WORLDSESSION_UPDATE` packets
  that wait for the player hold up the login behind them.
* A comment in `Group::CanJoinBattlegroundQueue` says of an offline member "don't let
  join"; offline members are not among those it looks at.

Not promised anywhere, but worth knowing: closing a pool deletes the operations
still queued, an error packet sent together with a delayed close may be dropped,
`~MPSCQueue` drops the elements it still holds, and a session whose connection ends
before the client acknowledges encryption is never deleted (`OneOwner` is about
sessions that were handed over).

## 5. Proofs

The proofs hold for every value of the constants. What is assumed of these stands as
a named assumption in the module that declares them (finite sets of threads and
connections, model values outside the sets they stand apart from, bounds that are
natural numbers) and is evaluated by TLC in every run. Each safety property is proved
from an inductive invariant `IInv` of its module: `Init => IInv`, one lemma per action
or group of actions for `IInv /\ [Next]_vars => IInv'`, and `IInv => ` the property.

**MapUpdaterProofs**: `TypeCorrect`, `PendingCountCorrect`, `BarrierCorrect`,
`NoNullCallCorrect`, `OneUpdaterCorrect`, `NoDanglingMapCorrect`,
`TickCompleteCorrect`. The barrier is not inductive. That it holds when `wait` returns
depends on the count being exact (`PendingCount`), on the count staying zero until the
next tick (`QuietOutsideTick`), on workers finding no request after `Cancel` only when
the token is already visible (`TokenWhenStopping`), and on what a worker holds at each
place (`WorkerHolds`). The count changes by one exactly when a sequence grows or a
finite set gains or loses one worker, which is where the library's theorems on finite
sets are used. On top of `IInv`, `TickInv` accounts for every map within a tick: each
is still to be scheduled, in the queue once, held by one worker, or updated, and never
two of these; the last three theorems follow from it and the barrier.

**NetworkProofs**, about `MPSCQueue`: `NoUseAfterFreeCorrect` and
`ImplementsFifoCorrect`. The invariant describes the shape of the list: the nodes from
the tail on, in the order of the exchanges of `_head`, with a gap after a node exactly
while its producer stands between the exchange and the store of `Next`. A producer that
still has to write through `prev` owns a node that the consumer cannot pass, so it is
never freed under it. The refinement maps the list to the values of `FifoQueue`; each
step is one of the abstract queue's or leaves it alone.

About `Socket`: `StreamInOrderCorrect`, `ClosedOnceCorrect`. What is to be written
lies in three places: the write queue, the message `WorldSocket::Update` is filling,
and `_bufferQueue`. As long as the socket can be written to these hold, in this order
and one after the other (`Chain`), exactly the accepted bytes after those on the wire;
once it cannot, nothing leaves any more, and dropping messages does no harm
(`Stream`). The greeting goes straight to the write queue and overtakes nothing,
because a socket whose address is not checked yet has sent nothing (`Fresh`).
`Closing` is what the two halves of the world thread's `CloseSocket` leave behind.
`ImplementsByteStreamCorrect` is the refinement: the socket's `accepted`, `wire` and
`shut` move as `ByteStream` says. Each step is put together from what `Sent`,
`HandleQueue` and the two ways to close do to one socket (`Grows`, `Flows`, `Moves`);
that the bytes which leave are the next ones accepted is `StreamInOrder` after the step
(`InOrder`), not a consequence of the step alone.

**QueryCallbacksProofs**: `WorkerHasConnectionCorrect`, `OneOwnerCorrect` (`PoolInv`,
about the workers and connections alone) and `CallbackOnceCorrect` (`QCInv`, which
adds that a query in the list stands for an operation whose result has not been
taken). A connection is destroyed in three steps; `PoolInv` says which worker may still
run at each of them.

**MySQLTransactionProofs**: `OutcomeCorrect`, the property `OutcomeUnlessLost`. The
invariant ties the statements a connection has executed to the uncommitted writes of
its server session as long as the connection was not lost and its START TRANSACTION
and ROLLBACK did not fail, and `OneConn` says that one connection at a time holds a
transaction. What a failed COMMIT leaves uncommitted in a session is the whole of that
transaction, which the next START TRANSACTION of the session commits or its loss rolls
back.

**WorldSessionsProofs**: `QueueSoundCorrect`, `PositionsToldCorrect`,
`NoIdleSlotCorrect`, `LimitRespectedCorrect`. The invariant says in which container a
session is at each step of the loop (`Registered`, `HandedOver`, `NotMade`, `Loop`),
what the login queue holds (`Queue`) and that a session leaves it only into a free
place (`Room`). The limit is a counting argument: the accounts that were let in, those
that wait and that of the session being removed are disjoint parts of the accounts in
`m_sessions`. `NobodyOvertakesCorrect` is an action property: `Shrinks` says of any
change of sessions and queue that it takes nobody in, keeps the order and admits only
who waited before all that are left; kicking, the first and the second
`RemoveQueuedPlayer` and the delete each do that, and so does one after the other
(`ShrinksComposed`). That a new session is not let in past the queue needs `Room`: with
a queue the limit is reached, whatever `AddSession_` counts.

**SessionPacketsProofs**: `NoUseAfterFreeCorrect`, `OneOwnerCorrect`,
`HandledInOrderCorrect`. `SockInv` says what a closed socket may still do with its
session pointer and `Dying` that a session the world thread deletes has its sockets
closed, so no network thread is left in the middle of using it; `Owned` and `World`
follow a session from the socket to the map of sessions. The order of packets has a
second invariant, `OrderInv`: packets are put aside only while there is no player, and
those put aside, those put back and those in the queue are sorted by arrival. All of
this holds while no acknowledgement came out of turn: `InTurn`, the invariant that is
proved, is `strays = 0 => IInv`, and a step that counts one needs nothing else
(`StraysCounted`).

**TradeProofs**: `PairedCorrect`, `AcceptedSeenCorrect`, `TypeCorrect`,
`MoneyKeptCorrect`, `ItemsKeptCorrect`, `TradesAsAgreedCorrect`. The second rests on the state indexes: no offer
has an index that was not drawn yet, an index stands for one offer, and so a client that
answers with the present index was shown the present offer (`IndexesDrawn`,
`FirstEmpty`, `ShownAsIs`). The next three are about bags and purses (`Goods`). That
`moveItems` loses nothing is `MoveItemsSwaps`: by induction over the slots, an item on
its way always finds room, because the bag holds less than what `CanStoreItems` has
counted; it needs that no item is in two slots of an offer (`OneSlot`), which
`HandleSetTradeItemOpcode` sees to. The money is a sum over all players
(`SumChanges`). The last theorem is an action property and puts these together: items
and money pass between two players only in the step in which the second of them
accepts, and then as the first had agreed (`AcceptedSeen`) and all that is there
(`MoveItemsSwaps`): what is offered is what was promised and is still owned
(`PromisedOffered`).

**BattlegroundQueueProofs**: `InvitedExactCorrect`, `TeamsFitCorrect`,
`QueueAgreesCorrect`, `SlotsOfferedCorrect`. What holds in every state is `Inv`: `IInv` until a
group joins unchecked, and the limits of the teams and the free slots even then,
because that step touches neither (`UncheckedJoin`). The core of `IInv`, `Good`, is stated for any
queue, battlegrounds, players and free slots instead of for the variables, because
`QueueUpdate` works on a copy of them that it changes for one free
slot after the other: `Good` holds of the copy after every turn of the fold
(`FillSlotsOk`, by `FoldStays`) and after each match (`InviteOk`). An
invited count can only be shown exact together with who holds a place, `Claims`: those
whose queue slot names the battleground, and those inside. That a handler takes away
exactly one claim needs that nobody is in two groups (`OneGroup`), that a queue slot
without a group belongs to a battleground (`PlayerOk`), and that nobody is twice on the
list of those who are offline (`OfflineOk`). That an invitation never
exceeds the free places is shown of each way in which the update chooses groups
(`FillPlayersOk`, `PremadePoolsOk`, `NormalPoolsOk`): however the loop ends, the pool
has no more players than were asked for (`AddStays`, `ScanStays`, `EnoughStays`), and an
invitation of such pools keeps `Good` (`InvitedGood`). `PremadeToNormal` takes a group
from the front of one list to the front of another; `Moved` says where each group came
from, one position for one position, so nobody is in two groups afterwards (`MovedOk`).

Some of these lemmas need induction over data: what a fold over a sequence and a sum over
a function compute. The library's induction theorems take a predicate, which the provers
cannot instantiate; `SetInduction` (`TradeProofs`) states induction for a set of
naturals instead, proved from the least element of a set (`WFMin` of
`WellFoundedInduction`), and `FoldExists` shows with it that the recursive function by
which the community modules fold exists. `BattlegroundQueueProofs` states with
them what `FoldLeft` over a list yields (`ListFoldExists`), what a list keeps of another
(`KeepAt`, `KeepHas`), and that a fold whose steps stay in a set ends in it.

Only model-checked:

* liveness under fairness (`WorldThreadReturns`, `CloseTerminates`, `CallbacksRun`,
  `TransactionsEnd`, `AllDequeued`, `PacketsLeave`, `DelayedCloseEnds`,
  `LoginHandled`, `SessionsLeave`, `EndedGone`), which is out of the prover's reach.

## 6. Not modelled

The components with status `not_modelled` in `PROJECT.json`, with the reason for
each. Within the modelled ones: the IOCP build of `Socket`; the choice of a
network thread; the contents, compression and encryption of packets; query results
and synchronous queries; a change of the player limit at run time; the flood
protection of a session; map creation from worker threads (`MapManager.cpp:77` looks
a map up without the lock it creates under); arenas, rated groups, failing teleports
and the play inside a battleground; stacks of items in a trade; weaker memory orders
than sequential consistency.

The largest part of the repository cannot be modelled to a purpose: vendored
libraries, generated protocol code, SQL and script content, and the rules of spells,
auras, creatures and quests, which are data evaluated by one thread.
