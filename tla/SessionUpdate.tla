--------------------------- MODULE SessionUpdate ---------------------------
(***************************************************************************)
(* Who updates a WorldSession: World::UpdateSessions and the               *)
(* Map::UpdateSessions of every map call WorldSession::Update on their own *)
(* threads, and the session is theirs by turns.  Log-in and teleports hand *)
(* it to a map with SetMap and Map::AddSession, two steps without a lock;  *)
(* m_sUpdate, tested and then set, is all that keeps two threads out.      *)
(*                                                                         *)
(* One session with at most one player.  Maps are never destroyed.         *)
(* Teleports within a map, between the zones of one, to places that are    *)
(* not valid, and those put off while a spell or a movie runs, challenge   *)
(* modes, the loading screen and the session's second socket are left out. *)
(* Delays (the 20 s of a log-out, the 100 ms after which Player::Update    *)
(* runs what TeleportTo asked for) have no length.                         *)
(***************************************************************************)
EXTENDS Naturals

CONSTANTS
  Maps,     \* maps, each with a thread of its own
  None,     \* no map; as a thread, the world's
  Crossing  \* may a log-in or a teleport begin on a thread that does not own
            \* the session, or while another moves it?  FALSE is a bound

ASSUME MapAssumption == None \notin Maps
ASSUME CrossingAssumption == Crossing \in BOOLEAN

Threads == Maps \cup {None}

VARIABLES
  map,       \* m_map
  listed,    \* World::m_sessions has the session
  queued,    \* the maps that have it in addSessQueue
  held,      \* the maps that have it in m_sessions
  updating,  \* m_sUpdate
  at,        \* where each thread is in UpdateSessions, Update or Map::Update
  step,      \* where it is in SafeTeleport, or between SetMap and AddSession
  dest,      \* the map it moves the session to
  orphans,   \* the threads whose SafeTeleport works for a player that is gone
  sock,      \* m_Socket[CONNECTION_TYPE_REALM]: open, closed or reset
  loading,   \* the client has asked for a log-in that has not been answered
  entering,  \* the function of the log-in waits in m_Functions
  canLogout, \* canLogout
  player,    \* the session has a Player
  inMap,     \* the player's GetMap
  inWorld,   \* IsInWorld
  changing,  \* IsChangeMap
  removing,  \* IsRemoveFromMap
  far,       \* IsBeingTeleportedFar
  goal,      \* m_teleport_target_map
  fault,     \* history: a handler threw, or an acknowledgement missed its map
  stranded,  \* history: an acknowledgement or a log-in was refused its map
  crossed    \* history: m_map was set by a thread that did not own the session,
             \* or while another was moving it

placeVars  == <<map, listed, queued, held>>
moves      == <<step, dest, orphans>>
threadVars == <<at, moves>>
sessVars   == <<updating, sock, loading, entering, canLogout>>
playerVars == <<player, inMap, inWorld, changing, removing, far, goal>>
history    == <<fault, stranded, crossed>>
vars == <<placeVars, threadVars, sessVars, playerVars, history>>

Init ==
  /\ map = None /\ listed = TRUE /\ queued = {} /\ held = {}
  /\ at = [t \in Threads |-> "out"]
  /\ step = [t \in Threads |-> "none"]
  /\ dest = [t \in Threads |-> None] /\ orphans = {}
  /\ updating = FALSE /\ sock = "open" /\ loading = FALSE /\ entering = FALSE
  /\ canLogout = FALSE
  /\ player = FALSE /\ inMap = None /\ inWorld = FALSE /\ changing = FALSE
  /\ removing = FALSE /\ far = FALSE /\ goal = None
  /\ fault = FALSE /\ stranded = FALSE /\ crossed = FALSE

Goto(t, place) == at' = [at EXCEPT ![t] = place]
In(t, place) == at[t] = place /\ step[t] = "none"
Free(t) == In(t, "out")
GoOn(t, next) == step' = [step EXCEPT ![t] = next] /\ UNCHANGED <<dest, orphans>>
Done(t) ==
  /\ step' = [step EXCEPT ![t] = "none"] /\ dest' = [dest EXCEPT ![t] = None]
  /\ orphans' = orphans \ {t}
Moving == \E t \in Threads : step[t] # "none"
Begin(t, next, m) ==
  /\ step' = [step EXCEPT ![t] = next] /\ dest' = [dest EXCEPT ![t] = m]
  /\ Crossing \/ ~(Moving \/ map # t)
  /\ crossed' = (crossed \/ Moving \/ map # t)
  /\ UNCHANGED orphans

\* LogoutPlayer takes the player out of its map and deletes it.
\* Mutant: the player still changes maps.
LoggedOutChanging ==
  /\ orphans' = {t \in Threads : step[t] # "none"}
  /\ UNCHANGED <<step, dest, changing>>
  /\ player' = FALSE /\ inMap' = None /\ inWorld' = FALSE
  /\ removing' = FALSE /\ far' = FALSE /\ goal' = None
LoggedOut ==
  /\ orphans' = {t \in Threads : step[t] # "none"}
  /\ UNCHANGED <<step, dest>>
  /\ player' = FALSE /\ inMap' = None /\ inWorld' = FALSE /\ changing' = FALSE
  /\ removing' = FALSE /\ far' = FALSE /\ goal' = None

-----------------------------------------------------------------------------
(* UpdateSessions.                                                         *)

\* Map::AddSession_.
Drain(m) ==
  /\ Free(m) /\ m \in queued
  /\ queued' = queued \ {m} /\ held' = held \cup {m}
  /\ UNCHANGED <<map, listed, threadVars, sessVars, playerVars, history>>

\* Mutant: the map looks at the player's map.
DropByPlayer(m) ==
  /\ Free(m) /\ m \in held /\ inMap # m
  /\ held' = held \ {m}
  /\ UNCHANGED <<map, listed, queued, threadVars, sessVars, playerVars, history>>
Drop(m) ==
  /\ Free(m) /\ m \in held /\ map # m
  /\ held' = held \ {m}
  /\ UNCHANGED <<map, listed, queued, threadVars, sessVars, playerVars, history>>

\* Mutant: the map does not look at GetMap.
PickHeld(t) ==
  /\ Free(t)
  /\ IF t = None THEN listed /\ map = None ELSE t \in held /\ ~(player /\ changing)
  /\ Goto(t, "picked")
  /\ UNCHANGED <<placeVars, moves, sessVars, playerVars, history>>
Pick(t) ==
  /\ Free(t) /\ map = t
  /\ IF t = None THEN listed ELSE t \in held /\ ~(player /\ changing)
  /\ Goto(t, "picked")
  /\ UNCHANGED <<placeVars, moves, sessVars, playerVars, history>>

\* The function of the log-in: the player enters its map (enters), or does
\* not and the teleport it is given instead is never run.
Entered(enters) ==
  /\ entering' = FALSE
  /\ IF player /\ entering
     THEN changing' = FALSE /\ inWorld' = enters /\ stranded' = (stranded \/ ~enters)
     ELSE UNCHANGED <<changing, inWorld, stranded>>

\* The functions of a session whose player changes maps run; no Update.
RunFunctions(m, enters) ==
  /\ Free(m) /\ m \in held /\ map = m
  /\ player /\ changing /\ entering
  /\ Entered(enters)
  /\ UNCHANGED <<placeVars, threadVars, updating, sock, loading, canLogout, player,
                 inMap, removing, far, goal, fault, crossed>>

-----------------------------------------------------------------------------
(* WorldSession::Update.                                                   *)

Test(t) ==
  /\ at[t] = "picked"
  /\ Goto(t, IF updating THEN "out" ELSE "tested")
  /\ UNCHANGED <<placeVars, moves, sessVars, playerVars, history>>

Set(t, enters) ==
  /\ at[t] = "tested"
  /\ updating' = TRUE
  /\ Goto(t, "packets")
  /\ Entered(enters)
  /\ UNCHANGED <<placeVars, moves, sock, loading, canLogout, player, inMap, removing,
                 far, goal, fault, crossed>>

\* The packet loop ends, or the callbacks do: a session that has been moved
\* is left alone.
\* Mutant: m_sUpdate is not reset.
PhaseLeft(t, phase, next) ==
  /\ In(t, phase)
  /\ Goto(t, IF map = t THEN next ELSE "out")
  /\ UNCHANGED <<placeVars, moves, sessVars, playerVars, history>>
PhaseEnds(t, phase, next) ==
  /\ In(t, phase)
  /\ Goto(t, IF map = t THEN next ELSE "out")
  /\ updating' = (updating /\ map = t)
  /\ UNCHANGED <<placeVars, moves, sock, loading, entering, canLogout, playerVars, history>>

EndPackets(t) == PhaseEnds(t, "packets", "callbacks")
EndCallbacks(t) == PhaseEnds(t, "callbacks", "finish")

\* Log-out, and the clean-up of a closed socket.  due: the twenty seconds of
\* a log-out are over; forced: forceExit is set, or expireTime has run out.
Finish(t, due, forced) ==
  /\ In(t, "finish")
  /\ IF canLogout /\ player
     THEN LoggedOut
     ELSE /\ removing' = (player /\ (removing \/ due))
          /\ UNCHANGED <<moves, player, inMap, inWorld, changing, far, goal>>
  /\ canLogout' = FALSE
  /\ sock' = IF sock = "closed" /\ (forced \/ ~player') THEN "none" ELSE sock
  /\ updating' = FALSE
  /\ Goto(t, IF sock' = "none" THEN "leave" ELSE "out")
  /\ UNCHANGED <<placeVars, loading, entering, history>>

\* Update has returned false.
Leave(t) ==
  /\ In(t, "leave")
  /\ LoggedOut
  /\ IF t = None
     THEN listed' = FALSE /\ UNCHANGED <<map, held, crossed>>
     ELSE /\ map' = None /\ held' = held \ {t} /\ UNCHANGED listed
          /\ crossed' = (crossed \/ Moving \/ map # t)
  /\ Goto(t, "out")
  /\ UNCHANGED <<queued, sessVars, fault, stranded>>

\* A handler throws; the loop of the map catches it and kicks the session.
Throw(t) ==
  /\ t \in Maps /\ at[t] \in {"packets", "callbacks"} /\ step[t] = "none"
  /\ Goto(t, "out")
  /\ sock' = IF sock = "open" THEN "closed" ELSE sock
  /\ fault' = TRUE
  /\ UNCHANGED <<placeVars, moves, updating, loading, entering, canLogout, playerVars,
                 stranded, crossed>>

\* A packet's handler may run.
Handles(t) == In(t, "packets") /\ map = t /\ sock # "none"

\* HandleLogoutRequest where log-out is instant.
LogoutRequest(t) ==
  /\ Handles(t) /\ player /\ inWorld
  /\ removing' = TRUE
  /\ UNCHANGED <<placeVars, threadVars, sessVars, player, inMap, inWorld, changing, far,
                 goal, history>>

\* HandleObjectUpdateFailed logs the player out on the spot.
ObjectUpdateFailed(t) ==
  /\ Handles(t) /\ player /\ inWorld
  /\ LoggedOut
  /\ UNCHANGED <<placeVars, at, sessVars, history>>

-----------------------------------------------------------------------------
(* Log-in and teleports.                                                   *)

\* HandlePlayerLoginOpcode and what follows it up to the query: the client
\* has to connect once more, so it is there.
LoginRequest(t) ==
  /\ Handles(t) /\ sock = "open" /\ ~player /\ ~loading
  /\ loading' = TRUE
  /\ UNCHANGED <<placeVars, threadVars, updating, sock, entering, canLogout, playerVars,
                 history>>

\* HandlePlayerLogin asks World for the session of the account, sets the map
\* and adds what it was given to what m_map is by then.
Login(t, m) ==
  /\ In(t, "callbacks") /\ loading
  /\ loading' = FALSE /\ player' = TRUE /\ changing' = TRUE /\ inMap' = m
  /\ map' = m
  /\ Begin(t, IF listed THEN "login" ELSE "unlisted", m)
  /\ UNCHANGED <<listed, queued, held, at, updating, sock, entering, canLogout, inWorld,
                 removing, far, goal, fault, stranded>>

\* A session that was replaced has no map: the server dies of it (fault).
LoginAdd(t) ==
  /\ step[t] \in {"login", "unlisted"}
  /\ queued' = IF step[t] = "login" THEN queued \cup ({map} \ {None}) ELSE queued
  /\ fault' = (fault \/ map = None)
  /\ entering' = TRUE
  /\ Done(t)
  /\ UNCHANGED <<map, listed, held, at, updating, sock, loading, canLogout, playerVars,
                 stranded, crossed>>

\* SafeTeleport, called by a packet handler or by Player::Update.  If
\* CreateMap makes the map (made), the session is handed to it while the
\* player is still in its old one.  Not for a session that was replaced:
\* World::FindSession would return the other.
Teleport(t, m, made) ==
  /\ Handles(t) \/ In(t, "player")
  /\ player /\ inWorld /\ m # inMap /\ listed
  /\ map' = IF made THEN m ELSE map
  /\ Begin(t, IF made THEN "set" ELSE "added", m)
  /\ UNCHANGED <<listed, queued, held, at, sessVars, playerVars, fault, stranded>>

AddFirst(t) ==
  /\ step[t] = "set"
  /\ queued' = queued \cup {dest[t]} /\ goal' = IF t \in orphans THEN goal ELSE dest[t]
  /\ GoOn(t, "added")
  /\ UNCHANGED <<map, listed, held, at, sessVars, player, inMap, inWorld, changing,
                 removing, far, history>>

\* The player leaves its old map and the session is handed over once more.
LeaveOld(t, made) ==
  /\ step[t] = "added"
  /\ IF t \in orphans THEN UNCHANGED <<inWorld, far>> ELSE inWorld' = FALSE /\ far' = TRUE
  /\ map' = IF made THEN dest[t] ELSE map
  /\ IF made THEN GoOn(t, "left") ELSE Done(t)
  /\ UNCHANGED <<listed, queued, held, at, sessVars, player, inMap, changing, removing,
                 goal, history>>

AddAgain(t) ==
  /\ step[t] = "left"
  /\ queued' = queued \cup {dest[t]}
  /\ goal' = IF t \in orphans THEN goal ELSE dest[t]
  /\ Done(t)
  /\ UNCHANGED <<map, listed, held, at, sessVars, player, inMap, inWorld, changing,
                 removing, far, history>>

\* HandleWorldPortAck.  new: the map TeleportTo found, or the one made now.
\* A teleport home, or to the map again, waits for a Player::Update that
\* only a player in the world gets.  The client may acknowledge at any time.
PortAck(t, new, enters) ==
  /\ Handles(t) /\ player /\ ~inWorld /\ far /\ ~changing
  /\ goal # None => new = goal
  /\ far' = FALSE /\ goal' = None
  /\ CASE enters /\ new = map ->
            inMap' = new /\ inWorld' = TRUE /\ UNCHANGED <<changing, fault, stranded>>
       [] enters /\ new \notin {map, None} ->
            changing' = TRUE /\ fault' = TRUE /\ UNCHANGED <<inMap, inWorld, stranded>>
       [] OTHER -> stranded' = TRUE /\ UNCHANGED <<inMap, inWorld, changing, fault>>
  /\ UNCHANGED <<placeVars, threadVars, updating, sock, loading, entering, canLogout, player,
                 removing, crossed>>

-----------------------------------------------------------------------------
(* Map::Update.                                                            *)

\* The map comes to the player: Player::Update, and then its removal.
Visit(m) ==
  /\ Free(m) /\ map = m /\ player /\ inMap = m /\ ~changing
  /\ Goto(m, "player")
  /\ UNCHANGED <<placeVars, moves, sessVars, playerVars, history>>

\* Mutant: the session is not told.
RemoveSilently(m) ==
  /\ In(m, "player")
  /\ IF removing
     THEN inWorld' = FALSE /\ removing' = FALSE
     ELSE UNCHANGED <<inWorld, removing>>
  /\ Goto(m, "out")
  /\ UNCHANGED <<placeVars, moves, sessVars, player, inMap, changing, far, goal,
                 history>>
EndVisit(m) ==
  /\ In(m, "player")
  /\ IF removing
     THEN inWorld' = FALSE /\ removing' = FALSE /\ canLogout' = TRUE
     ELSE UNCHANGED <<inWorld, removing, canLogout>>
  /\ Goto(m, "out")
  /\ UNCHANGED <<placeVars, moves, updating, sock, loading, entering, player, inMap,
                 changing, far, goal, history>>

-----------------------------------------------------------------------------
(* Others.                                                                 *)

\* The peer closes, the idle kick, KickPlayer.
Close ==
  /\ sock = "open"
  /\ sock' = "closed"
  /\ UNCHANGED <<placeVars, threadVars, updating, loading, entering, canLogout, playerVars,
                 history>>

\* World::AddSession_ replaces the session by another of the account.
Replace ==
  /\ Free(None) /\ listed
  /\ listed' = FALSE /\ map' = None
  /\ sock' = IF sock = "open" THEN "closed" ELSE sock
  /\ crossed' = (crossed \/ Moving)
  /\ UNCHANGED <<queued, held, threadVars, updating, loading, entering, canLogout,
                 playerVars, fault, stranded>>

\* The last reference is gone: ~WorldSession.
Referenced ==
  \/ listed \/ queued # {} \/ held # {} \/ sock = "open"
  \/ Moving \/ \E t \in Threads : at[t] # "out"
Destroy ==
  /\ ~Referenced /\ player
  /\ LoggedOut
  /\ UNCHANGED <<placeVars, at, sessVars, history>>

-----------------------------------------------------------------------------
\* Steps a thread takes once it is in Update, in Map::Update or in a move.
Runs(t) ==
  \/ Test(t) \/ EndPackets(t) \/ EndCallbacks(t) \/ Leave(t) \/ EndVisit(t)
  \/ LoginAdd(t) \/ AddFirst(t) \/ AddAgain(t)
  \/ \E b \in BOOLEAN : Set(t, b) \/ LeaveOld(t, b)
  \/ \E due, forced \in BOOLEAN : Finish(t, due, forced)

Handlers(t) ==
  \/ Throw(t) \/ LoginRequest(t) \/ LogoutRequest(t) \/ ObjectUpdateFailed(t)
  \/ \E m \in Maps : Login(t, m) \/ \E made \in BOOLEAN : Teleport(t, m, made)
  \/ \E new \in Threads, enters \in BOOLEAN : PortAck(t, new, enters)

\* A visit of the session by the loop of UpdateSessions.
Comes(t) ==
  \/ Pick(t)
  \/ t \in Maps /\ (Drain(t) \/ Drop(t) \/ \E enters \in BOOLEAN : RunFunctions(t, enters))

Next ==
  \/ \E t \in Threads : Comes(t) \/ Runs(t) \/ Handlers(t)
  \/ \E m \in Maps : Visit(m)
  \/ Close \/ Replace \/ Destroy

Spec == Init /\ [][Next]_vars

\* expireTime runs out in the end, and _recvQueue of a closed connection, in
\* which there may be acknowledgements of transfers, is empty in the end.
Expires == sock = "closed" /\ \E t \in Threads, due \in BOOLEAN : Finish(t, due, TRUE)
Acknowledged == far /\ ~far' /\ player'

\* Threads run: the packet loop ends, since it takes a bounded number of
\* packets, and the loops of World and of the maps come to every session of
\* their lists, and to every player, again and again.
Fairness ==
  /\ WF_vars(Comes(None)) /\ \A m \in Maps : SF_vars(Comes(m))
  /\ \A t \in Threads : WF_vars(Runs(t))
  /\ SF_vars(\E m \in Maps : Visit(m))
  /\ SF_vars(Expires) /\ <>[][sock # "open" => ~Acknowledged]_vars
  /\ WF_vars(Destroy)
FairSpec == Spec /\ Fairness

-----------------------------------------------------------------------------
(* Properties.                                                             *)

ThreadTypes ==
  /\ at \in [Threads -> {"out", "picked", "tested", "packets", "callbacks", "finish",
                         "leave", "player"}]
  /\ step \in [Threads -> {"none", "login", "unlisted", "set", "added", "left"}]
  /\ dest \in [Threads -> Threads] /\ orphans \subseteq Threads
SessionTypes ==
  /\ map \in Threads /\ listed \in BOOLEAN /\ queued \subseteq Maps /\ held \subseteq Maps
  /\ updating \in BOOLEAN /\ sock \in {"open", "closed", "none"}
  /\ loading \in BOOLEAN /\ entering \in BOOLEAN /\ canLogout \in BOOLEAN
PlayerTypes ==
  /\ player \in BOOLEAN /\ inMap \in Threads /\ inWorld \in BOOLEAN
  /\ changing \in BOOLEAN /\ removing \in BOOLEAN /\ far \in BOOLEAN
  /\ goal \in Threads
  /\ player \/ ~(inMap # None \/ inWorld \/ changing \/ removing \/ far \/ goal # None)
HistoryTypes == fault \in BOOLEAN /\ stranded \in BOOLEAN /\ crossed \in BOOLEAN

\* The values of the variables; a session without a player keeps nothing of
\* the player it had.
TypeOK == ThreadTypes /\ SessionTypes /\ PlayerTypes /\ HistoryTypes

\* A session whose GetMap is m is in the lists of m, or a thread is about to
\* put it there: else nobody would update it.
HandedOver ==
  listed /\ map \in Maps =>
    \/ map \in queued \cup held
    \/ \E t \in Threads : step[t] \in {"set", "left", "login"} /\ dest[t] = map

InUpdate(t) == at[t] \in {"packets", "callbacks", "finish"}
Inside(t) == InUpdate(t) \/ at[t] = "leave"
\* Two threads are never in Update, or in the log-out that follows it, at
\* once, unless the session was given a map while a thread was moving it.
Exclusive ==
  ~crossed => \A s, t \in Threads : Inside(s) /\ Inside(t) => s = t

\* What is behind ClosedIsDropped: m_sUpdate is set while a thread is in Update
\* and, unless a handler threw, only then: no return of Update leaves it set,
\* which would keep every thread from the session for good.
FlagIsHeld ==
  /\ updating => (\E t \in Threads : InUpdate(t)) \/ fault
  /\ ~crossed => \A t \in Threads : InUpdate(t) => updating

\* The map that updates the session is the one its player is in, whose thread
\* updates the player: handlers and Player::Update do not meet, except between
\* SetMap and the player's leave in a SafeTeleport that the old map runs.
OwnersAgree ==
  ~crossed /\ listed /\ player /\ inWorld =>
    \/ map = inMap
    \/ \E t \in Threads : step[t] \in {"set", "added"} /\ t = inMap /\ dest[t] = map

\* A session whose connection is closed is dropped by World and by every map,
\* and its player is logged out.  A connection stays closed, so that a session
\* that again and again is either connected or gone is gone in the end.
Gone == ~listed /\ queued = {} /\ held = {} /\ ~player
ClosedIsDropped == []<>(sock = "open" \/ Gone \/ fault)

\* A player told to leave its map, or out of the world, does not stay so: it
\* is logged out or enters a map, unless it is being teleported or a map has
\* refused it.
InLimbo == player /\ (removing \/ ~inWorld) /\ ~far
LogoutEnds == []<>(~InLimbo \/ stranded \/ fault)
=============================================================================
