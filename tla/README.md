# Nordrassil Core: verification project

TLA+ modules, TLC runs and TLAPS proofs about the World of Warcraft server of this repository
(a TrinityCore derivative, C++). Paths below are relative to the repository root; the program
itself is under `src/`.

## 1. Inventory

The repository builds two servers, `bnetserver` (log-in and realm list) and `worldserver` (the
game), plus map extraction tools. `worldserver` is the program modelled here. Its threads are:
the world thread (`World::Update`), a pool of map threads, network threads (`NetworkThread`), the
acceptor's thread, database worker threads, and the CLI, watchdog and remote-access threads.

| Component | State | Operations | Interacts with |
|---|---|---|---|
| World session admission (`game/World/World.cpp`) | `m_sessions`, `m_QueuedPlayer`, `addSessQueue`, `m_sessionCount`, `m_disconnects` | `AddSession_`, `RemoveQueuedPlayer`, `UpdateSessions`, kicks | network threads push sessions, maps update some of them, constructors and destructors count |
| Network layer (`shared/Networking`) | sockets per thread, write queue, `_closed`, `_closing`, connection counts | accept, read, write, close, update | boost asio, `WorldSocket` |
| World socket (`game/Server/WorldSocket.cpp`) | header and packet buffers, `_bufferQueue`, `_authed`, session pointer | handshake, packet dispatch, send | log-in database, world session |
| Database layer (`common/Database`, `common/Threading`) | operation queue, workers, promises, transactions, callback chains | enqueue, execute, retry on deadlock, close, process callbacks | every handler |
| Session update (`game/Server/WorldSession.cpp`) | receive queue, sockets, `m_map`, log-out state, `m_sUpdate` | `Update`, `LogoutPlayer`, `KickPlayer`, log-in, far teleports | world thread and map threads |
| World loop and shutdown (`game/World/World.cpp`) | `m_stopEvent`, `m_ShutdownTimer`, `m_ShutdownMask` | `ShutdownServ`, `ShutdownCancel`, `_UpdateGameTime` | CLI, game-master commands |
| Maps (`game/Maps`) | maps, instances, the map thread pool | create, update, unload | sessions, grids |
| Events and timers (`common/Utilities`) | `EventProcessor`, `TaskScheduler`, `FunctionProcessor` queues | add, abort, update | every game object |
| Battleground queue (`game/Battlegrounds`) | queued groups, invitations, selection pools | join, invite, leave, time out | players, maps |
| Dungeon finder (`game/DungeonFinding`) | queue, role checks, proposals, boots | join, answer, time out, teleport | groups, players |
| Groups (`game/Groups`) | members, leader, loot rolls, ready check | invite, join, leave, disband, roll | players, dungeon finder |
| Auction house and mail (`game/Handlers`, `game/AuctionHouse`, `game/Mails`, `Player::_SaveMail`) | auctions, letters, purses, bags, and the tables behind them | sell, bid, buy out, cancel, expire, send, take, delete, return, save, log in | players, asynchronous database connection, restarts |
| Trade windows (`game/Handlers/TradeHandler.cpp`) | offered items and money, acceptances | offer, accept, cancel | two players, character database |
| Instance saves (`game/Instances`) | saves, binds, reset queue | bind, reset, unload | groups, maps |
| Pools and game events (`game/Pools`, `game/Events`) | spawned objects, event states | spawn, despawn, start, stop | maps |
| Guilds, calendar, achievements, quests, reputation, spells, AI, movement, pet battles, garrison, LFG list, black market, battlefields, outdoor PvP, scenarios, challenges, weather, tickets, chat, warden, scripts | game rules and content | packet handlers and scripts | mostly on one map thread |
| `bnetserver`, realm list, protobuf services | REST log-in, RPC sessions | log-in, realm join | log-in database |
| Logging, configuration, cryptography, collision, data stores, tools | files and tables | load, query | read-only after start-up |

### Behaviours that are hard

* *Lifetime.* A session is shared by its socket, the world's table, the log-in queue, a map and
  the hand-over queues, and its destructor changes a counter other threads read.
* *Hand-over between threads* goes through locked queues and unlocked flags: a session is added,
  linked to a second socket, moved to a map, kicked from the console, and closed by its peer in
  any order.
* *Counters that lag.* Admission to the realm compares a limit with counts that include sessions
  which are being built or destroyed.
* *Asynchronous completion.* Queries complete on other threads in an order of their own, and
  their callbacks run when the owner polls for them, perhaps after the owner has moved on.
* *Memory ahead of the tables.* Handlers change money, items, letters and auctions in memory and
  queue the statements that save them; the server may crash, or read the tables, with any number of
  these transactions still in the queue.
* *Retries, timeouts.* Transactions are retried on deadlock; role checks, invitations, proposals,
  trades, auctions, logouts and shutdowns have timers that race the answer they wait for.

## 2. Plan

Done, in this order, each with its runs and proofs:

1. `WorldAdmission`: sessions from construction to destruction, the session table, the log-in queue.
2. `SocketLifecycle`, and the service it implements, `PacketStream`.
3. `DatabaseQueue`, and the service it implements, `OperationService`.
4. `DatabaseTransaction`: one transaction on one connection.
5. `SessionUpdate`: one session, the world thread and the threads of several maps.
6. `QueueOps`: operators on lists that several modules share, with the lemmas about them.
7. `CharacterTables`: the tables of the character database and the prepared statements on them, and
   `Market`: the auction house, the mail, the purses and bags of players over these tables, with
   crashes and restarts.

Left, the most important first:

8. `SessionLink`: the instance socket, `ProcessLinkInstanceSocket`, `HandleConnectToFailed`, the
   lock and the reference cycle of `WorldSocket` and `WorldSession`; deadlock freedom.
9. `NetworkPool`: two acceptors, several network threads, one `_acceptSocket` per thread.
10. `QueryCallbacks`, composed with `OperationService`: callbacks and chained queries complete once,
    in order, and not for an owner that has gone.
11. `WorldShutdown`: the shutdown timer with `ShutdownServ`, `ShutdownCancel` and idle shutdowns,
    then the order in which `Main.cpp` stops sessions, network, maps and databases; composed with
    `OperationService`.
12. `EventQueue` (`EventProcessor`, `TaskScheduler`), `BattlegroundQueue`, `DungeonFinder`,
    `GroupLoot`; `Trade`, which completes two players over the tables of `CharacterTables`.
13. In `Market`: part stacks, several attachments, the threads of maps between the steps of a
    handler, the black market; composed with `DatabaseTransaction` for statements that fail.
14. In `SessionUpdate`: the destruction of maps (`MapInstanced::DestroyInstance`, `Map::UnloadAll`),
    chained and postponed teleports, and an abstract lock that it implements.
15. An abstract turnstile (first in, first out, at most `PlayerLimit` inside) that `WorldAdmission`
    implements while its counter loses no update.

Theorems still worth proving: the refinement of the turnstile, "a callback runs at most once".

## 3. Modules

`MC*.tla` extends the module it is named after with the values of a small instance, where a cfg
cannot write them; `*Proofs.tla` extends it with theorems. All theorems use `Spec`, safety without
fairness; `FairSpec` is used by the runs that check liveness. In a module an operator commented "Mutant" is a deliberately wrong
variant of the definition below it: a property is only kept when such a variant violates it.

| Run | Module | Distinct states | Depth | Asks |
|---|---|---|---|---|
| `admission_capacity` | `MCWorldAdmission` | 2,377,631 | 54 | order of the queue, `PlayerLimit` and the counter |
| `admission_live` | `MCWorldAdmission` | 476,046 | 40 | queue, table and flags agree though counts are lost; closed sessions are destroyed |
| `admission_tolerance` | `MCWorldAdmission` | violation | | is the tolerance a number of seconds? |
| `socket_stream` | `SocketLifecycle` | 82,884 | 50 | the wire is a stream, sent data arrives, closed sockets leave and are counted |
| `socket_noclose` | `SocketLifecycle` | violation | | does a delayed close close? |
| `queue_service` | `MCDatabaseQueue` | 20,917 | | order, once, no lost wake-up, the close ends |
| `queue_inuse` | `MCDatabaseQueue` | violation | | does the close spare what is in use? |
| `transaction_outcome` | `MCDatabaseTransaction` | 24,138 | | atomicity, reporting, clean connections, termination |
| `session_handover` | `SessionUpdate` | 270,892 | 101 | who has the session, who is in `Update`, drop and log-out |
| `market_auction` | `MCMarket` | 376,474 | 37 | money and auctions through three players' bids, sales and a crash |
| `market_mail` | `MCMarket` | 1,700,256 | 38 | money, items, mailboxes, an auction and numbers through log-outs, log-ins and a crash |
| `market_winner` | `MCMarket` | violation | | does the winner get the item? |

Deadlock is not checked in any run: clients may stop connecting, the bounds on objects and time
are reached, a transaction ends, a pool stays closed and a session is destroyed. In its place the runs with liveness
properties say what must still happen.

### 3.1 WorldAdmission

*State.* `obj` is the life of a `WorldSession` object. `count` is `World::m_sessionCount`; its `++`
in the constructor and `--` in the destructor are a load and a store (`reg` is the loaded value),
because it is a plain `uint32` that several threads change. `addQ` is `addSessQueue`, `listed` is
`m_sessions` (one session per account), `queue` is `m_QueuedPlayer`, `inQueue` is
`WorldSession::m_inQueue`, `init` is the progress of `InitializeSession` and its queries, `sock` the
realm socket, `map` whether a map updates the session, `disc` is `m_disconnects`, `limit` is
`m_playerLimit`, `pc` and `todo` are the world thread's place in `UpdateSessions`.

*Actions.* `Construct`, `IncreaseSessionCount`, `AddSession`: a network thread builds a session and
pushes it. `BeginUpdateSessions`, `AddSession_`, `EndAddSessions`, `UpdateOpen`, `UpdateClosed`,
`EndUpdateSessions`: the world thread, one session a step; `AddSession_` is the whole of
`World::AddSession_` with `RemoveSession` of an older session of the account, `UpdateClosed` both
calls of `RemoveQueuedPlayer`. `Destroy`, `DecreaseSessionCount`: the last reference goes.
`EnterMap`, `LeaveMap`, `PeerClose`, `KickAllLess`, `SetPlayerAmountLimit`, `Tick`: maps, peers,
console, clock; `KickAll`: `Main.cpp`, at the shutdown, after which the model lets the loop go on.
Packets and the second (instance) socket are left out.

*Properties.* `QueueWellFormed`, `NobodyForgotten` and `FlagMeansWaiting` relate queue, table,
flag and socket; `FirstComeFirstServed` and `LimitRespected` are about a step that lets a session in: the latter
speaks of everyone who waited and of those who did not have to, unless the tolerance spared them;
`ClosedIsFreed` is the liveness property: since no session comes back, that again and again no
closed one lingers says that each is destroyed in the end. `Racing` is the set of sessions whose `++`
and `--` of the counter may overlap; no update is lost when it is empty (`Serialised`), as in
`admission_capacity`. In `admission_live` the two sessions of the reconnecting account race, so that
counts do get lost, and the first three properties and `ClosedIsFreed` hold whatever the counter says;
the theorems about the three hold for any `Racing`. With lost updates `LimitRespected` is not
claimed, and `GetActiveSessionCount` may wrap around (`NoUnderflow` fails).

*`ActiveCount`.* `GetActiveSessionCount` multiplies what is above 50 by `Rate.Online`
(`World.cpp:4079`), a `float`. The model has the default of 1, which is an assumption of
`LimitRespected` and its theorems: with another rate the limit is compared with a number that is not
one of sessions. The product also takes a difference that wrapped around out of the range of `uint32`,
and what the conversion then gives is undefined: `BelowZero` is what the build makes of it, 0 in the
runs (x86-64), anything in the theorems.

*Bounds.* An account that connects twice (`a1`, `a2`) and other players with a limit of one
meet every case of `AddSession_` and `RemoveQueuedPlayer`: a full realm, a queue of one or two, the
replacement of a queued, an admitted and a closed session. In the live run one of two increments, or an
increment and a decrement, of the account's sessions may be lost. The capacity run has four sessions,
hence a queue of three, to see removals from its middle, and a clock that moves
(`Tolerance` 1), with the sessions and accounts that are alike
taken as symmetric. `UintMod` 16 stands for 2^32: no more than four sessions exist, so only a counter
that went below zero meets it. Limits {0, 1} in the live run let the queue be drained when the limit
is lifted, while the time stands still; `g1` is staff.

*Fairness* (`admission_live`). The world loop runs as long as the server does
(`WorldUpdateLoop`); a constructor or destructor that has begun ends; a map goes on updating and so
notices that a session is closed, unless a handler throws (`ClosedIsDropped` in section 3.5).
Nothing forces a client to connect, acknowledge or close.

*Proved* (`WorldAdmissionProofs`), for any finite set of sessions, any accounts, limits, tolerance
and time bound: `TypeCorrect`, `QueueInvariant`, `NobodyForgottenInvariant`, `FlagInvariant`,
`QueueIsFair`, and, for fewer than `UintMod` sessions, `CounterNeverUnderflows` and `LimitHolds`; from
the last, `NeverMoreThanTheLimit`: with `Tolerance` 0 and limits of `m` at most there are never more than
`m` players in the world (`InWorld`), though `m_playerLimit` moves. The
inductive invariant `IInv` adds to the four `Bookkeeping` (a session in `addQ` or in the table has
been constructed, belongs to its account and is not in both) and `TodoListed` (an account still to
visit has a session): without them a step of `UpdateSessions` could be taken on a session that was
never added. `QueueOpsProofs` supplies what erasing, appending and taking the front do to a
sequence without repetitions. `Counted` says that without lost updates the counter is the
number of living objects; what `RemoveQueuedPlayer` compares with the limit is then the number of
living sessions that do not wait, less the one that leaves (`OthersFact`), and all who are in are
among these. `KeepsOrder` is what erasing, appending and taking the front do to the order of a
queue. Liveness is model-checked only.

### 3.2 SocketLifecycle and PacketStream

*State.* Per socket: `place` (starting, `_newSockets`, `_sockets`, gone), `auth` (the handshake),
`peer`, `_closing`, `_closed` (`CloseSocket` sets the flag, then shuts down and runs `OnClose`: "begun"
and "done"), a pending read, `_isWritingAsync` and whether its handler is registered, `sent`,
`_bufferQueue`, `_writeQueue` and the wire. Of the network thread: `_connections`, its place in
`Update`, the packets and the buffer `WorldSocket::Update` holds. Data is blocks, numbered in the
order they were sent; a packet or a buffer is an interval of them.

*Actions.* `Start`, `QueueInitializer`, `AddSocket`: the acceptor's thread. `AddNewSockets`,
`TakePackets`, `PackPacket`, `EndPack`, `BeginWrite`, `Drain`, `RemoveClosed`, `NoCallback`,
`AuthAccepted`, `AuthRefused`, `EndThreadUpdate`: `NetworkThread::Update` and
`WorldSocket::Update`, in the steps another thread can come between. `WriteHandlerWrapper` and the
`Reads` are asio handlers. `SessionSends`, `KickPlayer`, `RefuseLink`, `RefuseLinkClose`,
`FinishClose` are other threads; `PeerCloses` the other end. The build with IOCP, the contents of
packets, the stop of the thread, `CheckIpCallback` (nothing calls it) and handshake packets out of
order are left out.

*Properties.* `WireIsStream` is refinement: with `accepted <- sent`, `delivered <- wire` and
`over <- closed = "done"` every behaviour is one of `PacketStream`, which says that what a
connection delivers is always a prefix of what it accepted. `DelayedCloseDrains`, `SentArrives`,
`ClosedLeaves` and `ConnectionsCounted` are the others. `NobodyStalls`, the invariant `SentArrives` rests
on, is proved and in no run. A run looks for what the comment of
`DelayedCloseSocket` says and does not find it (see section 4).

*Bounds.* `Sizes` {1, 2, 3} with a first buffer of 1 and later ones of 2 give packets smaller than,
equal to and larger than every buffer, so all branches of the packing loop run; `MaxBlocks` 6 allows
three to five packets after the initializer, enough for two buffers in `_writeQueue` behind a partial
write. One socket: sockets share nothing but the thread's loop and `_connections`, and the theorems
hold for any number of them.

*Fairness.* The network thread's timer is re-armed by every update; the acceptor and a `CloseSocket`
that began go on; `SF` of `Progress`: a peer that stays connected reads, so a queue that is tried
again and again moves. Nothing forces a peer to send, or anyone to close.

*Proved* (`SocketLifecycleProofs`), for any finite set of sockets, sizes and capacities:
`TypeCorrect`, `StreamCorrect` (the refinement), `DrainCorrect`, `ConnectionsCorrect`, `NothingStalls`. The invariant
says, per socket, that wire, write queue, the thread's buffer and batch (if it is updating this
socket) and `_bufferQueue` are consecutive intervals that together are `1 .. sent`, as long as
the socket is not shut down (`InOrder`, `Wire`, `Unstarted`), and that the thread's place agrees with
the socket it holds (`Loop`). Without the intervals in hand the invariant breaks in the middle of
`WorldSocket::Update`. `NothingStalls` is its use for progress: what is sent and not on the wire lies in
one of these places, so it is enough that each place has somebody who comes to it: the write handler
to `_writeQueue` while `_isWritingAsync` is set, which is exactly while asio holds the handler (`Registered`),
the next update of the thread to `_writeQueue` otherwise and to `_bufferQueue` always. That they do
come is fairness, and model-checked only.

### 3.3 DatabaseQueue and OperationService

*State.* `queue` and `shutdown` are `ProducerConsumerQueue`; `phase` and `held` are each
`DatabaseWorker`; `canceled` its token; `handle` the MySQL handle of its connection; `closer` and
`at` the thread in `DatabaseWorkerPool::Close`; `mark` a caller of `WaitExecution`; `ran` is history.

*Actions.* `Push` (every kind of asynchronous work), `WaitExecution` and `ExecutionWaited`, the
worker's `Sleep`, `WakeUp` (spurious too), `PopNothing`, `Pop`, `Return`, `Call`, `Finish`, and
`Close`, `FreeConnection`, `SetCancelationToken`, `Cancel`, `Join`. What the queue does under its
lock is one step. Synchronous connections, which do not use the queue, are left out.

*Properties.* `OrderedOnce` is refinement of `OperationService`: operations begin in the order they
were pushed, run at most once, at most one per worker is unfinished, none begins after the close.
`WaitedAreTaken` is exactly what `WaitExecution` gives its callers, and no more: operations may
still run. `NoLostWakeup` relates sleepers to the queue: as many workers are awake as there are operations in it,
or nobody sleeps, and nobody sleeps after `Cancel`. `EveryOperationRuns` and `CloseEnds` are what it is for.
`FewOvertaken`, of the abstract service, bounds how far effects get out of order.

*Bounds.* Three workers and four operations: all workers asleep, one notified, another passing it,
one operation left in the queue when the pool closes, and connections deleted before, at and after
the one whose `Cancel` empties the queue. *Fairness*: threads are scheduled and the server answers.

*Proved* (`DatabaseQueueProofs`), for any number of workers and operations: `TypeCorrect`,
`ServiceCorrect`, `WaitCorrect`, `WakeupsKept`, `FewAreOvertaken`, `OneWorkerInOrder`. The invariant: until the close the queue is exactly
`taken + 1 .. pushed` (`QueueIsRest`); what a worker holds was taken and has not run, and two workers
hold different operations (`HeldIsUnfinished`); what was taken and has not run is held
(`UnfinishedIsHeld`). The bound on unfinished operations is the injection of operations into
workers, one of which, the one that pops, is free. `WakeupsKept` is inductive by itself with the types:
a push that notifies nobody finds no sleeper, and a worker goes to sleep only on an empty queue.

`FewAreOvertaken` is proved of `OperationService` and carried over by the refinement: an operation that has
run has fewer than `NumWorkers` earlier ones that have not. For one worker (`OneWorkerInOrder`; the
default of `worldserver.conf.dist:134`) what has run is a prefix of what was pushed, and a crash cuts off a
suffix: `Market` takes exactly this for granted of its queue, and nothing stronger holds with two.

### 3.4 DatabaseTransaction

One transaction, from `TransactionTask::Execute` or `DirectCommitTransaction` to the callback:
`BeginTransaction`, each statement, its possible errors, `RollbackTransaction`, `CommitTransaction`,
the retries on deadlock (`LoopBreaker`), and the reconnection inside `MySQLConnection::Execute`. The
server's session (`inTx`, `tentative`, `durable`) is external and modelled as the code relies on it:
autocommit outside a transaction, a deadlock rolls the transaction back, another error the
statement, the end of the session whatever was not committed.

`AllOrNothing`, `CalledIffDurable` and `SessionLeftClean` state, with their exact exceptions, what
the caller may rely on; `TransactionEnds` that no worker is held for ever, given a finite number of
lost connections and a thread that runs. `MaxSize` 3 has a first, a middle and a last statement;
`MaxLosses` 2 allows a second loss during the repetition after the first. Left out: statements that
fail to be prepared again during a reconnection, and unprepared statements in between.

*Proved* (`DatabaseTransactionProofs`), for any size and number of losses: `TypeCorrect`,
`AtomicityHolds`, `ReportCorrect`, `SessionClean`, `EveryStepShortens`. The invariant ties the command under way to
what the session holds (`SessionShape`: `tentative` is the statements before the current one),
the client's state to its result (`ClientShape`), and states the properties at every step instead
of at the end (`Atomic`, `Complete`). `EveryStepShortens` is what `TransactionEnds` comes from: `Remaining`,
which counts the executions `LoopBreaker` leaves, the commands of the one under way and the connections
that may still be lost, is a natural number and falls with every step, so that `n` statements and `l`
losses take at most `6 (n + 4) + 2 l` steps.

### 3.5 SessionUpdate

*State.* `map` is `WorldSession::m_map`, whose owner (`None`: World) updates the session; `listed`,
`queued` and `held` are the lists it is in (`World::m_sessions`, each map's `addSessQueue` and
`m_sessions`); `updating` is `m_sUpdate`. `at` is each thread's place in `UpdateSessions`,
`WorldSession::Update` or `Map::Update`; `step`, `dest` its place in a log-in or teleport. The rest
is the player's and the session's flags under their own names. `fault`, `stranded` and `crossed` are
history.

*Actions.* `Drain`, `Drop`, `Pick`, `RunFunctions`, `Leave`: a visit by `UpdateSessions` of World or
of a map. `Test`, `Set`, `EndPackets`, `EndCallbacks`, `Finish`: `WorldSession::Update`; handlers
run in between (`LogoutRequest`, `ObjectUpdateFailed`, `LoginRequest`, `Teleport`, `PortAck`, and
`Login` in the callbacks). `Login`, `LoginAdd` and `Teleport`, `AddFirst`, `LeaveOld`, `AddAgain` are
the hand-overs, cut wherever `SetMap` and `AddSession` let another thread come between. `Visit`,
`EndVisit`: `Player::Update` and the removal of the player. `Throw`, `Close`, `Replace`, `Destroy`.
`LogoutPlayer` is one step; a thread whose player it deletes goes on (`orphans`) and does what
remains of its teleport to the session only. `Finish` cleans up a closed socket when the player is
gone, or when `forceExit` is set or `expireTime` has run out (`forced`), which any round may find.
`LoginAdd` reads `GetMap` again after `SetMap`, as the code does, and adds the session that
`FindSession` returned before it: none for a session that was replaced meanwhile, whose map may be
gone (`fault`: a null pointer). A client may acknowledge a transfer whenever the server expects it.

*Properties.* `HandedOver`: a session of a map is in that map's lists, or a thread is about to put
it there. `Exclusive`: two threads are never in `Update`, or in the log-out that follows it. It is
stated for behaviours in which no `SetMap` comes from a thread that does not own the session or
overtakes another's move (`crossed`); without that exemption it fails, see section 4.
`ClosedIsDropped`: a closed session is dropped by World and every map and logged out, unless a
handler threw (`fault`). `LogoutEnds`: a log-out that was granted ends, unless a teleport took the
player out of the world first.

*Bounds.* Two maps and World give a session that goes from World to a map, to another and back,
with both maps holding it at once. `Crossing = FALSE` is a bound of the run: a log-in or teleport
begins only on the thread that owns the session. The theorems cover `Crossing = TRUE`; liveness was
not checked for it.

*Fairness.* `WF(Runs(t))`: a thread inside `Update` goes on (the packet loop stops after a fixed
number of packets). `WF(Comes(None))`, `SF(Comes(m))`, `SF` of some `Visit`: World's and the maps' loops
come to every session and player again and again, strongly because a session may change hands between
two rounds and `Map::Update` skips a player who is still loading, which assumes that the client ends
its loading screen. `SF(Expires)`: `expireTime` counts down in every round that finds the connection
closed. The last conjunct: a closed connection brings no more packets, so that acknowledgements end
with what is left in `_recvQueue`. `WF(Destroy)`: the last `shared_ptr` destroys. Nothing forces a
client to close, log out, acknowledge or teleport. Both liveness properties have the form "again
and again": a connection stays closed and a session dropped, so that it means "in the end".

*Left out.* The destruction of maps; teleports within a map or zone, to invalid places, and those put
off by a spell or a movie; challenge modes; the second socket; teleports of a replaced session, for
which `FindSession` returns the session that replaced it.

*Proved* (`SessionUpdateProofs`), for any set of maps and both values of `Crossing`: `TypeCorrect`,
`HandedOverCorrect`, `ExclusiveCorrect`, `OwnersAgreeCorrect`, `FlagIsHeldCorrect`. The types need `MoveShape` and `HasPlayer`: who moves the
session knows a map, and has the session's player or knows that it is gone. `Exclusive` is not
inductive: `Orderly` adds that only the owner of the session picks it or comes to the end of
`Update` (`Owned`), hence one thread at most stands between the test and the setting of `m_sUpdate`
or is about to log the player out (`OneSettled`), not while another is in (`NoneTested`, `Shown`),
and that one thread moves the session at a time (`OneMoves`, `MovesOwn`). What
keeps threads apart is `GetMap`; the flag covers the time between a `SetMap` inside `Update` and the
end of that `Update`.

Two invariants that are in no run are proved of the same model. `FlagIsHeld`: `m_sUpdate` is set while a
thread is in `Update`, and only then unless a handler threw; without it the exclusion above could be had
by shutting everybody out. `OwnersAgree`: the map that updates the session is the one its player is in, so
that handlers and `Player::Update` run on one thread, except while the old map's own thread is between
`SetMap` and the player's leave in `SafeTeleport`, the window that section 4 describes. It needs that a
log-in is completed once, and before any teleport (`LoginShape`): a function of an earlier log-in that
was left in `m_Functions` would put the next player into the world of a map that does not have it.

### 3.6 CharacterTables and Market

*State.* `db` is the part of the character database that items and money go through, one record of
tables; `CharacterTables` has a prepared statement or a group of them as an operator from tables to
tables. `queue` is the queue of the asynchronous connection: a transaction is the tables after it,
a log-in query the player who waits for it. `auctions` is `AuctionsMap`, `aitems` is `mAitems`,
`nextMail` and `nextAuction` are `_mailId` and `_auctionId`. Per player: `phase`, `gold`, `bag`, and
`box`, which is `m_mail` with the state of each letter. `purse`, `earned`, `spent`, `lost` and
`crossed` are history.

*Actions.* `SellItem`, `Bid`, `BuyOut`, `Cancel`: the handlers of `AuctionHouseHandler.cpp`; `Expire`:
one row of `AuctionHouseObject::Update`. It may leave a stale number in `aitems`, and to sell that item
again ends the server in the `ASSERT` of `AddAItem` (`SellItemAborts`: a `Crash` like any other, before
the sale is committed). `SendMail`, `LoadMail`, `MailDelete`, `ReturnToSender`, `ReturnToHouse`,
`TakeItem`, `TakeMoney`: `MailHandler.cpp`, with `_SaveMail` where the handler calls it.
`HandleMailReturnToSender` has two of them: a player's letter goes back, one of the auction house is
deleted with its money, and its item stays in `item_instance` where no table leads to it (`lost`).
`ReturnOrDeleteOldMail`: one letter of the nightly pass; the code returns it with two statements, of
which the second changes `mail_items.receiver`, a column nothing is loaded by. `Earn`, `Save` (with the log-out or not),
`Login`, `EnterWorld`; `Execute`: the worker; `Crash`: everything but `db` is lost, and the server
loads auctions and highest numbers again.

*Properties*, all of them of every state a crash may leave (`Durable`: the tables after each
prefix of the queue). `Balanced`: no transaction makes or loses money. `OneHolder`: an item is with a
player, in a letter or in an auction, and in one place, and nowhere exactly when its letter from the
auction house was returned. `AuctionsSaved`: memory and tables agree about
auctions, after a restart too. `MemoryAgrees`: what a player has in memory is what the tables will
say, so nobody takes what another was given. `IdsFresh`: numbers are not given twice, though the
restart takes them from tables that may have lost the largest. `SoldIsPaid`, `CodIsPaid`: an item and
its price change hands in one transaction. `BidIsAnswered`: a bid stands, or is raised by its bidder,
until the step of the database that sends the bidder the money back, or the item.

*The bound `Crossing`.* `ReturnOrDeleteOldMails` skips a receiver whose mailbox is loaded but does
not know of statements in the queue, and its own statements may be executed after a mailbox is
loaded. In either case (`crossed`) letters may be lost or doubled, so the properties exempt such
behaviours and the runs exclude them (`Crossing = FALSE`): what they show is that nothing else goes
wrong.

*Other bounds and abstractions.* Handlers are atomic: the two of one client on different maps, and
the world thread's expiry between the steps of a handler, are not interleaved. The asynchronous
connection has one worker (`CharacterDatabase.WorkerThreads = 1`): with more, transactions of
different players overtake each other. Statements do not fail (`DatabaseTransaction` is about that)
and no character is deleted. Items are sold as whole stacks; a letter has one attachment; COD needs
one; letters arrive at once or later, and auctions and old letters expire at any moment; a transaction
that changes nothing is left out. Left out, too, are texts, times, the mail of an outstanding sale,
the owner column of `item_instance`, the privileges of game masters, and the read flag with
`HandleMailMarkAsRead`, which also takes back a deletion (section 4): a letter marked for deletion in
the model stays so until the next save.
`RemoveAItem` reads the item's number from a deleted entry: either outcome. `Half` 1000 stands for
2^31: no sum comes near it. `market_auction` has three players, one item and two operations in the
queue: an owner and two bidders who overbid each other, a buyout with an older bid to refund, expiry,
cancelling, and a crash anywhere. `market_mail` has two players, an item sent cash on delivery or
put up for auction, the returns, the nightly pass, a log-in that overtakes nothing, and a crash.

*Proved* (`MarketProofs`), for any players, items, offers, sums and bounds and both values of
`Crossing`. `TypeCorrect` and `FreshNumbers` hold for both values of `LogTrade` too. The invariant `TInv` says of every table
a crash may leave that its rows have their types and numbers below the counters, and, with
a function from numbers to kinds of letter, that a letter of a player has a sender: the mailbox holds
copies of rows, and without the link between a number and its kind the letter that `ReturnToSender`
writes could not be typed.

`OneHolderAlways`, `AuctionsSavedAlways` and `MemoryAgreesAlways` assume two things of the constants:
`LogTrade`, without which the program loses items (section 4), and `Narrow`, that prices, sums and
the deposit together stay below 2^32, since the columns are written with `setUInt32`. The first says
of every item of every table a crash may leave that it is in exactly one place unless its letter from
the house was returned, and then in none, for any number of auctions and letters. None of the
three properties is inductive, nor are they together: `OneHolder` needs that numbers are used once and
that an auction's item exists; that the mailbox takes out what the tables have needs that each letter
in it is a row as the last tables have it, for whichever player; and that a log-in finds what
`MemoryAgrees` says needs that the tables the query will see agree with the last ones about this player,
who can neither trade nor write in between, and is asked for once (`ReadersGood`). `Good` is all of
that; `TInv /\ (crossed \/ Good)` is inductive. Each handler is shown to build tables from
the last ones with the same few operators, and to leave other players' rows alone (`StepGood`,
`SavingGood`).

`BalancedAlways` assumes besides that there are finitely many players and `Signed`: prices on delivery
are below 2^31, for `TakeItem` takes them from the receiver as an `int32`. Its invariant is
`GInv /\ (crossed \/ Books)`: the tables of every prefix are worth what everybody had at first
(`Worth`, which adds what was taken out of the world and leaves out what was earned), no auction has a
bid without a bidder or one that buys it out, and no price on delivery exceeds `int32`. `Good` is
needed throughout: a purse in memory is written over the one on disk, so money is kept only because
the two differ by what was earned and saved with it; and a letter whose money is taken must be the row
whose money is deleted. Each handler comes down to one equation between what a purse loses, what
letters bring, what the house keeps and what leaves the world (`Balances`, `Writes`).

`SoldIsPaidAlways`, `CodIsPaidAlways` and `BidIsAnsweredAlways` speak of steps of the database, and only `Execute` takes one,
long after the handler. The invariant `GInv /\ (crossed \/ Dues)` therefore says of every operation in
the queue that it pays, from the tables of the operation before it, what it owes (`Paid`, with `AnsweredFrom` for the bids); the same
pairs are left when the worker takes the first one or a crash drops them all. Two more facts about
the tables make it inductive: a deleted item is with nobody (`Gone`), or it could reappear unpaid, and no
bid exceeds the price that ends the auction (`BelowBuyout`), or a buyout would pay the owner less than
the bid he was shown. A handler then only has to say where the item of each letter, and each item in a
bag, was before (`LetterFrom`, `BagFrom`).

`CharacterTablesProofs` has the lemmas about the statements, the
maximum of the numbers after a restart, and sums over the rows of a table: `MapThenSumSet` is shown
to be the value of a function defined over finite sets, which gives what adding and deleting rows
does to a sum.

### 3.7 What TLC checks and no theorem covers

Liveness (`ClosedIsFreed`, `SentArrives`, `ClosedLeaves`, `EveryOperationRuns`, `CloseEnds`,
`TransactionEnds`, `ClosedIsDropped`, `LogoutEnds`) is beyond the prover, which handles neither
fairness of actions nor `ENABLED`. What can be said of it without fairness is proved: `WakeupsKept` and
`NothingStalls` state that somebody is always due to come to an operation or a block that waits,
`FlagIsHeldCorrect` that nobody is kept from a session for good, `EveryStepShortens` that a transaction
cannot go on for ever.

## 4. Disagreements found

* `World.cpp:388` subtracts the later time from the earlier: an account that disconnected once
  skips the queue for ever (`admission_tolerance`).
* `Socket.h:245` returns before it looks at `_closing` when nothing is queued: a socket marked for
  closing without anything to write stays open and counted (`socket_noclose`).
* `MySQLConnection.cpp:65` frees statements and handle before the worker that uses them is stopped
  (`queue_inuse`).
* `AuctionHouseMgr.cpp:153` looks for the account of a winner who is offline only when
  `GM.LogTrade` is on; otherwise no letter is sent and the item is lost, although
  `AuctionHouseMgr.cpp:506` says that it goes to the winner (`market_winner`).

Observations met while modelling, without a run of their own:

* `Socket.h:280` closes a marked socket when `_writeQueue` is empty although packets wait in
  `_bufferQueue`: the error that explains the close may be lost.
* `ProducerConsumerQueue.h:87` deletes what is queued at the close, the saves of players kicked at
  the shutdown among them.
* `MailHandler.cpp:496` takes the price of a COD item as an `int32`; `CHAR_UPD_MAIL` and
  `CHAR_UPD_AUCTION_BID` write 64-bit sums as 32 bits.
* `HandleMailReturnToSender` deletes the letter of an auction with its money instead of returning it,
  and leaves its item in `item_instance` with no holder (`MailHandler.cpp:390`); only the client keeps
  players from asking. `ReturnToHouse` is that path, and `OneHolder` names the items it loses.
* `AuctionHouseMgr.cpp:520` passes the item's number from the entry that `RemoveAuction` has deleted;
  if the number is not the item's any more, `mAitems` keeps it, and the `ASSERT` of
  `AuctionHouseMgr.cpp:375` ends the server when the item is put up for auction again
  (`SellItemAborts`).
* `HandleMailMarkAsRead` sets the state of a deleted letter back to "changed", and the letter is not
  deleted at the next save.
* A letter that is in the queue when its receiver opens the mailbox is not shown until the next
  log-in.
* `HandleAuctionSellItem` has taken the deposit when `CloneItem` fails for part of a stack.
* What keeps the log-in query behind the save of the same character is that the asynchronous
  connection has one worker, which is a setting.
* Sessions under construction or destruction count as active, so a player may be put in the queue of
  a realm with nobody in the world, where nothing but another departure lets it in.
* A connection lost in the middle of a transaction is replaced and the remaining statements run
  outside any transaction; the result of `COMMIT` is ignored.
* `Player::SafeTeleport` gives the session to the new map (`Player.cpp:2423`) while the player is
  still in the old one, outside `m_sUpdate` when `Player::Update` runs it. The new map may then
  update the session, which may teleport or log out the player again: with `Crossing = TRUE` and
  `crossed` left out of `Exclusive`, TLC finds two threads in `Update`.
* When `HandleWorldPortAck` cannot place the player it asks for a teleport home, which `TeleportTo`
  puts off to `Player::Update`; a player in no world gets none (`stranded`), and after
  `MovementHandler.cpp:84` it stays marked as changing maps too (`fault`).
* `WorldSession.cpp:483` says that log-outs happen in `World::UpdateSessions` only; they happen on
  map threads, in `HandleObjectUpdateFailed`, and in the destructor, on whichever thread drops the
  last reference.

## 5. Further hazards

Hazards beyond those in `PROJECT.json`, at the line where they bite, without a property so far:

* `server/game/World/World.cpp:322` (other): PlayerLimit is compared with a counter of all sessions, staff included, although worldserver.conf.dist:267 excludes staff: a game master online makes a player wait.
* `common/Database/MySQLConnection.cpp:544` (partial failure): A failed reconnection leaves m_Mysql null for good: every later Execute returns false with error 0, which ExecuteTransaction returns as success.
* `common/Database/Transaction.cpp:88` (interleaving): The callback of a transaction runs on the database worker and finds a Player by GUID while the world thread may change or delete it.
* `server/game/Server/WorldSocket.cpp:293` (stale state): OnClose tests and uses _worldSession before it takes the lock that protects it.
* `server/game/Server/WorldSocket.cpp:1097` (interleaving): HandlePing reads the session's player on the network thread while a map thread may log the player out.
* `server/shared/Networking/SocketMgr.h:118` (interleaving): The acceptors of the two ports ask for the thread with the fewest connections and accept into that thread's one _acceptSocket: both may be given the same socket before either accept completes.
* `server/shared/Networking/SocketMgr.h:117` (stale state): The thread is chosen before the accept, whose completion may come much later, when the counts it was chosen by have changed.
* `server/game/Maps/Map.cpp:1322` (interleaving): The functions of a session are run here without m_sUpdate, and FunctionProcessor erases the first function after calling it.
* `common/Threading/ProducerConsumerQueue.h:91` (partial failure): Cancel deletes asynchronous queries with their promises: a callback that then asks for the result gets a broken promise instead of a null result.
* `common/Database/QueryCallbackProcessor.cpp:40` (stale state): A callback may run after the character it was asked for has logged out or been replaced by another of the account.
* `server/game/Pools/PoolMgr.cpp:985` (atomicity): Statements are appended to a transaction already given to the pool and it is committed again: a worker may still be iterating over it, and the first half runs twice.
* `common/Database/DatabaseWorkerPool.h:478` (deadlock): WaitExecution spins on the calling thread until the queue is empty: with a null handle or a server that hangs the world thread waits for the workers.
* `common/Database/DatabaseWorkerPool.h:551` (liveness): GetFreeConnection spins until a synchronous connection can be locked.
* `server/worldserver/Main.cpp:345` (ordering): The databases are closed before the console thread is joined: its commands may still use them.
* `server/game/World/World.cpp:3220` (protocol sequence): Shutdown timers: an idle shutdown that is due waits one second at a time, may be replaced or cancelled while it waits, and counts sessions by the lagging counter.
* `server/game/World/World.cpp:3247` (interleaving): ShutdownServ and ShutdownCancel change timer, mask and exit code from the console's or a script's thread while the world thread counts down.
* `server/worldserver/Main.cpp:619` (timeout retry): The watchdog cancels the thread of a map that is late and starts another on the same map, whatever locks the first one held.
* `common/Utilities/FunctionProcessor.cpp:72` (interleaving): AddFunctionsFromQueue tests the queue for emptiness without its lock.
* `common/Utilities/EventProcessor.cpp:70` (protocol sequence): KillAllEvents keeps aborted events that are not deletable and they are aborted once more when their time comes; an event may call it while it executes.
* `server/game/Battlegrounds/BattlegroundQueue.cpp:1478` (timeout retry): The removal of an invited player races the acceptance, and another invitation to the same battleground must not be taken for the one that expired.
* `server/game/DungeonFinding/LFGMgr.cpp:1233` (timeout retry): Answers to a proposal race its time-out and the loss of a member, after which the other members go back to the queue.
* `server/game/Groups/Group.cpp:1456` (protocol sequence): A roll ends when everybody voted or the time is up, while members leave and vote for several items.
* `server/game/Handlers/TradeHandler.cpp:254` (protocol sequence): A trade window accepted by both may have been changed, or the money spent elsewhere, between the two acceptances.
* `server/game/World/World.cpp:331` (stale state): Sessions still under construction or being destroyed count as others: with nobody in the world a player can be put in a queue that nothing empties until another session leaves.
* `server/game/AuctionHouse/AuctionHouseMgr.cpp:490` (interleaving): Auctions expire on the world thread while players bid and buy on the threads of their maps, and neither takes a lock.
* `server/game/Globals/ObjectMgr.cpp:4167` (interleaving): The nightly pass over old mail skips receivers whose mailbox is loaded, but its statements may be executed after the mailbox is loaded, and the answer it works on may be older than the queue: a letter may be returned, or its item deleted, while its receiver takes it. `Market` marks these meetings (`crossed`).
* `server/game/Handlers/MailHandler.cpp:390` (protocol sequence): A letter of the auction house is deleted when its receiver returns it: money and letter are gone and the item is left in item_instance with no holder. Only the client keeps players from asking. `Market` has the action (`ReturnToHouse`), and `OneHolder` says that it is the only way to lose an item.
* `server/game/Handlers/MailHandler.cpp:496` (numeric edge): The price of an item sent cash on delivery is taken from the receiver as an int32, though both players' sums are 64 bits wide: from 2^31 copper on the receiver is paid instead.
* `server/game/Entities/Player/Player.cpp:25741` (numeric edge): A letter that is saved again, like a bid (AuctionHouseHandler.cpp:428), is written as 32 bits: what exceeds them is lost.
* `server/game/Handlers/AuctionHouseHandler.cpp:307` (partial failure): Selling part of a stack changes the stacks it is taken from in transactions of their own, before the one that stores the auction: a crash in between destroys what was taken.
* `server/game/Maps/Map.cpp:2316` (stale state): UnloadAll logs out and detaches every session the map still holds, sessions that have moved to another map among them.
* `server/game/World/World.cpp:3336` (stale state): a session pushed to the queue of an instance that is destroyed before it drains the queue keeps its m_map, and the world skips it for ever.
* `server/game/Maps/Map.cpp:5412` (partial failure): an exception in an instance is caught by the loop of its parent map, whose current session is null: nobody is kicked and m_sUpdate of the session stays set.
