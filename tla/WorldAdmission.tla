--------------------------- MODULE WorldAdmission ---------------------------
(***************************************************************************)
(* Admission of client sessions to the realm: World::AddSession_, the      *)
(* login queue (m_QueuedPlayer), the session table (m_sessions), the       *)
(* counter m_sessionCount kept by WorldSession's constructor and           *)
(* destructor, and World::UpdateSessions.                                  *)
(*                                                                         *)
(* Three kinds of thread take part.  A network thread builds the           *)
(* WorldSession, pushes it to addSessQueue and sees the peer close.  The   *)
(* world thread drains addSessQueue and then updates every listed session  *)
(* that is not on a map.  Map threads update the others.  A session object *)
(* is destroyed when nothing refers to it any more.                        *)
(***************************************************************************)
EXTENDS Integers, FiniteSets, QueueOps

CONSTANTS
  Sessions,     \* session objects the model may create
  Accounts,     \* game accounts
  Account,      \* the account of each session
  Regular,      \* the sessions AccountMgr::IsPlayerAccount accepts (not staff)
  Limits,       \* values m_playerLimit may take; 0 is "no limit"
  Tolerance,    \* CONFIG_INTERVAL_DISCONNECT_TOLERANCE
  MaxTime,      \* bound on the clock
  UintMod,      \* 2^32 in the code: m_sessionCount is a uint32
  Racing,       \* sessions whose ++ and -- of m_sessionCount may overlap
  BelowZero,    \* what the build makes of a float beyond uint32: undefined in C++
  None          \* no session

ASSUME AdmissionAssumption ==
  /\ IsFiniteSet(Sessions)
  /\ Account \in [Sessions -> Accounts]
  /\ Regular \subseteq Sessions
  /\ Limits \subseteq Nat
  /\ Tolerance \in Nat /\ MaxTime \in Nat
  /\ UintMod \in Nat \ {0}
  /\ Racing \subseteq Sessions
  /\ BelowZero \in 0 .. UintMod - 1
  /\ None \notin Sessions

VARIABLES
  obj,       \* life of each session object
  reg,       \* value the thread in its constructor or destructor has loaded
  count,     \* m_sessionCount
  addQ,      \* addSessQueue
  listed,    \* m_sessions
  queue,     \* m_QueuedPlayer
  inQueue,   \* WorldSession::m_inQueue
  init,      \* InitializeSession: not called, queries running, callback run
  sock,      \* m_Socket[CONNECTION_TYPE_REALM]
  map,       \* WorldSession::m_map and the session list of that map
  disc,      \* m_disconnects
  limit,     \* m_playerLimit
  pc,        \* where the world thread is in World::Update
  todo,      \* accounts still to visit in this UpdateSessions
  clock      \* time(nullptr)

objVars   == <<obj, reg, count>>
worldVars == <<addQ, listed, queue, inQueue, init, disc>>
loopVars  == <<pc, todo>>
vars == <<obj, reg, count, addQ, listed, queue, inQueue, init, sock, map,
          disc, limit, pc, todo, clock>>

NoTime == -1

\* World::GetActiveSessionCount.  The subtraction is unsigned and of 64 bits;
\* what is above 50 is multiplied by Rate.Online, a float with its default of 1,
\* and a difference that wrapped around does not fit into the uint32 again.
ActiveCount(q) == IF Len(q) <= count THEN count - Len(q) ELSE BelowZero

\* The number of others in, once the session that is leaving is discounted.
\* Mutant: it is discounted when it was only waiting, too.
OthersAlways(found, active) == IF active # 0 THEN active - 1 ELSE active
Others(found, active) == IF ~found /\ active # 0 THEN active - 1 ELSE active

(***************************************************************************)
(* World::RemoveQueuedPlayer(s) on the queue q: whether s was found, the   *)
(* queue it leaves and the session it lets in, if any.                     *)
(***************************************************************************)
RemoveQueued(q, s) ==
  LET found == s \in Range(q)
      others == Others(found, ActiveCount(q))
      rest   == Without(q, s)
      admit  == (limit = 0 \/ others < limit) /\ rest # <<>>
  IN  [found |-> found,
       queue |-> IF admit THEN Tail(rest) ELSE rest,
       in    |-> IF admit THEN {Head(rest)} ELSE {}]

Init ==
  /\ obj = [s \in Sessions |-> "unborn"]
  /\ reg = [s \in Sessions |-> 0]
  /\ count = 0
  /\ addQ = <<>>
  /\ listed = [a \in Accounts |-> None]
  /\ queue = <<>>
  /\ inQueue = [s \in Sessions |-> FALSE]
  /\ init = [s \in Sessions |-> "no"]
  /\ sock = [s \in Sessions |-> "none"]
  /\ map = [s \in Sessions |-> "none"]
  /\ disc = [a \in Accounts |-> NoTime]
  /\ limit \in Limits
  /\ pc = "rest"
  /\ todo = {}
  /\ clock = 0

-----------------------------------------------------------------------------
(* Network threads and object lifetime.  m_sessionCount++ and -- are a     *)
(* load and a store: m_sessionCount is a plain uint32 that several threads *)
(* update without a lock.                                                  *)

\* No two updates of the counter overlap.
Serialised == Racing = {}

\* The constructor or destructor of s may load the counter now: whoever has
\* loaded it and not stored it yet may race with s.
CounterFree(s) ==
  \A t \in Sessions : obj[t] \in {"ctor", "dtor"} => {s, t} \subseteq Racing

\* WorldSession::WorldSession, called by WorldSocket::HandleAuthSessionCallback.
Construct(s) ==
  /\ obj[s] = "unborn" /\ CounterFree(s)
  /\ obj' = [obj EXCEPT ![s] = "ctor"]
  /\ reg' = [reg EXCEPT ![s] = count]
  /\ sock' = [sock EXCEPT ![s] = "open"]
  /\ UNCHANGED <<count, worldVars, map, limit, loopVars, clock>>

IncreaseSessionCount(s) ==
  /\ obj[s] = "ctor"
  /\ count' = (reg[s] + 1) % UintMod
  /\ obj' = [obj EXCEPT ![s] = "fresh"]
  /\ reg' = [reg EXCEPT ![s] = 0]
  /\ UNCHANGED <<worldVars, sock, map, limit, loopVars, clock>>

\* WorldSocket::HandleEnableEncryptionAck and World::AddSession.
AddSession(s) ==
  /\ obj[s] = "fresh" /\ sock[s] = "open"
  /\ obj' = [obj EXCEPT ![s] = "live"]
  /\ addQ' = Append(addQ, s)
  /\ UNCHANGED <<reg, count, listed, queue, inQueue, init, sock, map, disc,
                 limit, loopVars, clock>>

\* The peer closes, or IsConnectionIdle: CloseSocket and OnClose.
PeerClose(s) ==
  /\ obj[s] \in {"fresh", "live"} /\ sock[s] = "open"
  /\ sock' = [sock EXCEPT ![s] = "closed"]
  /\ UNCHANGED <<objVars, worldVars, map, limit, loopVars, clock>>

\* Mutant: m_QueuedPlayer holds a plain pointer.
UnreferencedButQueued(s) ==
  /\ obj[s] \in {"fresh", "live"}
  /\ sock[s] # "open"
  /\ s \notin Range(addQ)
  /\ map[s] = "none"
Unreferenced(s) ==
  /\ obj[s] \in {"fresh", "live"}
  /\ sock[s] # "open"
  /\ s \notin Range(addQ) \cup Range(queue)
  /\ listed[Account[s]] # s
  /\ map[s] = "none"

\* The last WorldSessionPtr goes: WorldSession::~WorldSession.
Destroy(s) ==
  /\ Unreferenced(s) /\ CounterFree(s)
  /\ obj' = [obj EXCEPT ![s] = "dtor"]
  /\ reg' = [reg EXCEPT ![s] = count]
  /\ sock' = [sock EXCEPT ![s] = "none"]
  /\ UNCHANGED <<count, worldVars, map, limit, loopVars, clock>>

\* Mutant: m_sessionCount is an int.
DecreaseSigned(s) ==
  /\ obj[s] = "dtor"
  /\ count' = reg[s] - 1
  /\ obj' = [obj EXCEPT ![s] = "dead"]
  /\ reg' = [reg EXCEPT ![s] = 0]
  /\ UNCHANGED <<worldVars, sock, map, limit, loopVars, clock>>
DecreaseSessionCount(s) ==
  /\ obj[s] = "dtor"
  /\ count' = (reg[s] - 1) % UintMod
  /\ obj' = [obj EXCEPT ![s] = "dead"]
  /\ reg' = [reg EXCEPT ![s] = 0]
  /\ UNCHANGED <<worldVars, sock, map, limit, loopVars, clock>>

-----------------------------------------------------------------------------
(* World thread.                                                           *)

\* World::HasRecentlyDisconnected: difftime(then, now), in that order.
Recent(a) == disc[a] # NoTime /\ disc[a] - clock < Tolerance
HasRecentlyDisconnected(s) == Tolerance > 0 /\ Recent(Account[s])
PrunedDisconnects ==
  [a \in Accounts |-> IF Tolerance = 0 \/ Recent(a) THEN disc[a] ELSE NoTime]

\* WorldSession::InitializeSession of the sessions in ss.
\* Mutant: the session is popped and not initialized.
NotStarted(ss, f) == f
Started(ss, f) == [t \in Sessions |-> IF t \in ss THEN "pending" ELSE f[t]]
\* SetInQueue(false) of the sessions in ss.
\* Mutant: the flag stays.
FlagKept(ss, f) == f
FlagCleared(ss, f) == [t \in Sessions |-> t \notin ss /\ f[t]]
\* KickPlayer, and SetMap(nullptr).
Closed(ss, f)  == [t \in Sessions |-> IF t \in ss /\ f[t] = "open" THEN "closed"
                                      ELSE f[t]]
OffMap(ss, f)  == [t \in Sessions |-> IF t \in ss /\ f[t] = "on" THEN "leaving"
                                      ELSE f[t]]

BeginUpdateSessions ==
  /\ pc = "rest"
  /\ pc' = "add"
  /\ UNCHANGED <<objVars, worldVars, sock, map, limit, todo, clock>>

\* World::AddSession_ of the next session in addSessQueue.
AddSession_ ==
  /\ pc = "add" /\ addQ # <<>>
  /\ LET s   == Head(addQ)
         a   == Account[s]
         old == listed[a]
         r   == IF old = None THEN [found |-> FALSE, queue |-> queue, in |-> {}]
                ELSE RemoveQueued(queue, old)
         sessions == IF r.found THEN count ELSE (count - 1) % UintMod
         full     == limit > 0 /\ sessions >= limit
         wait     == full /\ s \in Regular /\ ~HasRecentlyDisconnected(s)
     IN  /\ addQ' = Tail(addQ)
         /\ listed' = [listed EXCEPT ![a] = s]
         /\ sock' = Closed({old}, sock)
         /\ map' = OffMap({old}, map)
         /\ queue' = IF wait THEN Append(r.queue, s) ELSE r.queue
         /\ LET cleared == FlagCleared(IF r.found THEN {old} ELSE {}, inQueue)
            IN  inQueue' = IF wait THEN [cleared EXCEPT ![s] = TRUE] ELSE cleared
         /\ init' = Started(IF wait THEN r.in ELSE r.in \cup {s}, init)
         /\ disc' = IF full /\ s \in Regular THEN PrunedDisconnects ELSE disc
  /\ UNCHANGED <<objVars, limit, loopVars, clock>>

\* addSessQueue.next fails: go on to the update of the listed sessions.
EndAddSessions ==
  /\ pc = "add" /\ addQ = <<>>
  /\ pc' = "update"
  /\ todo' = {a \in Accounts : listed[a] # None}
  /\ UNCHANGED <<objVars, worldVars, sock, map, limit, clock>>

\* ProcessQueryCallbacks runs InitializeSessionCallback when both holders are in.
CallbackRun(s, ready) == ready /\ init[s] = "pending"

\* A session on a map is skipped; WorldSession::Update returns true for an
\* open one.
UpdateOpen(a, ready) ==
  LET s == listed[a] IN
  /\ pc = "update" /\ a \in todo
  /\ map[s] = "on" \/ sock[s] = "open"
  /\ todo' = todo \ {a}
  /\ IF map[s] # "on" /\ CallbackRun(s, ready)
     THEN /\ init' = [init EXCEPT ![s] = "done"]
          /\ inQueue' = FlagCleared({s}, inQueue)
     ELSE UNCHANGED <<init, inQueue>>
  /\ UNCHANGED <<objVars, addQ, listed, queue, sock, map, disc, limit, pc, clock>>

\* WorldSession::Update returns false: RemoveQueuedPlayer is called twice.
UpdateClosed(a, ready) ==
  LET s  == listed[a]
      r1 == RemoveQueued(queue, s)
      r2 == RemoveQueued(r1.queue, s)
      started == Started(r1.in \cup r2.in, init)
  IN
  /\ pc = "update" /\ a \in todo
  /\ map[s] # "on" /\ sock[s] # "open"
  /\ todo' = todo \ {a}
  /\ queue' = r2.queue
  /\ listed' = [listed EXCEPT ![a] = None]
  /\ sock' = [sock EXCEPT ![s] = "none"]
  /\ disc' = IF ~r1.found /\ Tolerance > 0 THEN [disc EXCEPT ![a] = clock] ELSE disc
  /\ init' = IF CallbackRun(s, ready) THEN [started EXCEPT ![s] = "done"] ELSE started
  /\ inQueue' = IF r1.found \/ CallbackRun(s, ready)
                THEN FlagCleared({s}, inQueue) ELSE inQueue
  /\ UNCHANGED <<objVars, addQ, map, limit, pc, clock>>

EndUpdateSessions ==
  /\ pc = "update" /\ todo = {}
  /\ pc' = "rest"
  /\ UNCHANGED <<objVars, worldVars, sock, map, limit, todo, clock>>

\* The player enters the world: Map::AddSession and SetMap.
EnterMap(s) ==
  /\ listed[Account[s]] = s /\ init[s] = "done"
  /\ sock[s] = "open" /\ map[s] = "none"
  /\ map' = [map EXCEPT ![s] = "on"]
  /\ UNCHANGED <<objVars, worldVars, sock, limit, loopVars, clock>>

\* Map::UpdateSessions drops a session that is closed or no longer its own;
\* Map::UnloadAll drops any.
\* Mutant: the map keeps a session whose m_map is no longer this map.
LeaveMapIfOwn(s) ==
  /\ map[s] = "on"
  /\ map' = [map EXCEPT ![s] = "none"]
  /\ sock' = [sock EXCEPT ![s] = IF @ = "closed" THEN "none" ELSE @]
  /\ UNCHANGED <<objVars, worldVars, limit, loopVars, clock>>
LeaveMap(s) ==
  /\ map[s] # "none"
  /\ map' = [map EXCEPT ![s] = "none"]
  /\ sock' = [sock EXCEPT ![s] = IF map[s] = "on" /\ @ = "closed" THEN "none" ELSE @]
  /\ UNCHANGED <<objVars, worldVars, limit, loopVars, clock>>

Listed == {listed[a] : a \in Accounts} \ {None}

\* Main calls it at the shutdown; here the loop may go on afterwards.
KickAll ==
  /\ pc = "rest" /\ Listed # {}
  /\ queue' = <<>>
  /\ sock' = Closed(Listed, sock)
  /\ map' = OffMap(Listed, map)
  /\ UNCHANGED <<objVars, addQ, listed, inQueue, init, disc, limit, loopVars, clock>>

\* World::KickAllLess(SEC_MODERATOR).
KickAllLess ==
  /\ pc = "rest" /\ Listed \cap Regular # {}
  /\ sock' = Closed(Listed \cap Regular, sock)
  /\ UNCHANGED <<objVars, worldVars, map, limit, loopVars, clock>>

SetPlayerAmountLimit ==
  /\ pc = "rest"
  /\ limit' \in Limits \ {limit}
  /\ UNCHANGED <<objVars, worldVars, sock, map, loopVars, clock>>

Tick ==
  /\ pc = "rest" /\ clock < MaxTime
  /\ clock' = clock + 1
  /\ UNCHANGED <<objVars, worldVars, sock, map, limit, loopVars>>

-----------------------------------------------------------------------------
WorldThread ==
  \/ BeginUpdateSessions \/ AddSession_ \/ EndAddSessions \/ EndUpdateSessions
  \/ \E a \in Accounts, ready \in BOOLEAN : UpdateOpen(a, ready) \/ UpdateClosed(a, ready)

Lifetime(s) == IncreaseSessionCount(s) \/ Destroy(s) \/ DecreaseSessionCount(s)

Next ==
  \/ WorldThread
  \/ \E s \in Sessions : \/ Construct(s) \/ Lifetime(s) \/ AddSession(s)
                         \/ PeerClose(s) \/ EnterMap(s) \/ LeaveMap(s)
  \/ KickAll \/ KickAllLess \/ SetPlayerAmountLimit \/ Tick

Spec == Init /\ [][Next]_vars

(***************************************************************************)
(* The world loop runs as long as the server does, a constructor or        *)
(* destructor that has begun ends, and the map of a closed session goes on *)
(* updating.  Nothing forces a client to connect, acknowledge or close.    *)
(***************************************************************************)
Fairness ==
  /\ WF_vars(WorldThread)
  /\ \A s \in Sessions : WF_vars(Lifetime(s))
  /\ \A s \in Sessions : WF_vars(sock[s] # "open" /\ LeaveMap(s))

FairSpec == Spec /\ Fairness

-----------------------------------------------------------------------------
(* Properties.                                                             *)

TypeOK ==
  /\ obj \in [Sessions -> {"unborn", "ctor", "fresh", "live", "dtor", "dead"}]
  /\ reg \in [Sessions -> 0 .. UintMod - 1]
  /\ count \in 0 .. UintMod - 1
  /\ addQ \in Seq(Sessions)
  /\ listed \in [Accounts -> Sessions \cup {None}]
  /\ queue \in Seq(Sessions)
  /\ inQueue \in [Sessions -> BOOLEAN]
  /\ init \in [Sessions -> {"no", "pending", "done"}]
  /\ sock \in [Sessions -> {"none", "open", "closed"}]
  /\ map \in [Sessions -> {"none", "on", "leaving"}]
  /\ disc \in [Accounts -> Nat \cup {NoTime}]
  /\ limit \in Limits
  /\ pc \in {"rest", "add", "update"}
  /\ todo \subseteq Accounts
  /\ clock \in Nat

(***************************************************************************)
(* A session waiting in m_QueuedPlayer waits there once, is the one the    *)
(* session table holds for its account, knows that it waits (m_inQueue     *)
(* stops the idle kick and its packets) and has not been let in.  A        *)
(* reconnect or a removal that forgets the queue leaves a ghost in it.     *)
(***************************************************************************)
QueueWellFormed ==
  /\ Distinct(queue)
  /\ \A i \in DOMAIN queue :
       LET s == queue[i]
       IN  /\ obj[s] = "live" /\ listed[Account[s]] = s
           /\ inQueue[s] /\ init[s] = "no"

(***************************************************************************)
(* Nobody is forgotten: a listed session whose socket is open either waits *)
(* in the queue or has been handed to InitializeSession.                   *)
(***************************************************************************)
NobodyForgotten ==
  \A s \in Listed : sock[s] = "open" /\ init[s] = "no" => s \in Range(queue)

(***************************************************************************)
(* m_inQueue never outlives the wait: the flag is set only on a session    *)
(* that waits, or was let in and has its login queries running, or whose   *)
(* socket KickAll has closed.  A flag left behind makes the session deaf   *)
(* to its client and immune to the idle kick for good.                     *)
(***************************************************************************)
FlagMeansWaiting ==
  \A s \in Sessions :
    inQueue[s] => s \in Range(queue) \/ init[s] = "pending" \/ sock[s] # "open"

(***************************************************************************)
(* GetActiveSessionCount subtracts unsigned numbers: while ++ and -- of    *)
(* m_sessionCount do not overlap, the queue is never longer than the count.*)
(***************************************************************************)
NoUnderflow == Serialised => Len(queue) <= count

LetIn(s) == init[s] = "no" /\ init'[s] # "no"

(***************************************************************************)
(* RemoveQueuedPlayer lets sessions in from the front only: nobody passes  *)
(* a session that stays in the queue, and those that stay keep their order.*)
(***************************************************************************)
FirstComeFirstServed ==
  [][\A i, j \in DOMAIN queue : i < j =>
       /\ queue[i] \in Range(queue') => ~LetIn(queue[j])
       /\ queue[i] \in Range(queue') /\ queue[j] \in Range(queue') =>
            \E k, l \in DOMAIN queue' :
              k < l /\ queue'[k] = queue[i] /\ queue'[l] = queue[j]
    ]_vars

(***************************************************************************)
(* With no lost counter update a player is let in only when fewer than     *)
(* PlayerLimit other players are in - from the queue always, past it unless*)
(* the tolerance for disconnected players spares him - although AddSession_*)
(* and the two calls of RemoveQueuedPlayer in UpdateSessions each estimate *)
(* that number from counters that lag behind the session table.            *)
(***************************************************************************)
Within(s) ==
  Cardinality({t \in (Listed' \cap Regular) \ {s} : init'[t] # "no"}) < limit
LimitRespected ==
  [][\A s \in Regular :
       /\ LetIn(s) /\ limit > 0 /\ Serialised
       /\ s \in Range(queue) \/ ~HasRecentlyDisconnected(s)
       => Within(s)
    ]_vars

\* The socket of s is gone and the object is still there.
Lingers(s) == obj[s] \in {"fresh", "live", "dtor"} /\ sock[s] # "open"

(***************************************************************************)
(* A session whose socket has closed is removed from the queue, the table  *)
(* and its map, and its object is destroyed: nothing keeps a reference.    *)
(* Sessions are finitely many and none comes back, so that again and again *)
(* nobody lingers only if everyone who lingers is destroyed in the end.    *)
(***************************************************************************)
ClosedIsFreed == []<>(\A s \in Sessions : ~Lingers(s))

(***************************************************************************)
(* worldserver.conf.dist, DisconnectToleranceInterval: "Tolerance (in      *)
(* seconds) for disconnected players before reentering the queue."  So the *)
(* disconnection that spares a player the queue is at most Tolerance old.  *)
(***************************************************************************)
ToleranceExpires ==
  \A s \in Sessions : HasRecentlyDisconnected(s) => clock - disc[Account[s]] <= Tolerance

=============================================================================
