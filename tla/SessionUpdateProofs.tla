------------------------ MODULE SessionUpdateProofs ------------------------
(***************************************************************************)
(* Proofs about SessionUpdate: types, the hand-over, that m_sUpdate keeps  *)
(* two threads out of Update and is always given back, and that player and *)
(* session belong to one map, for any number of maps and with overtaking   *)
(* teleports.                                                              *)
(***************************************************************************)
EXTENDS SessionUpdate, TLAPS

\* A thread that moves the session is in Update or in Player::Update, and
\* knows where to.
MoveShape ==
  \A t \in Threads :
    step[t] # "none" => dest[t] \in Maps /\ at[t] \in {"packets", "callbacks", "player"}

\* Until LogoutPlayer deletes it, the player of a teleport is the session's.
HasPlayer ==
  \A t \in Threads : step[t] \in {"set", "added", "left"} => player \/ t \in orphans

\* World's thread has nothing to do with a session it has dropped.
WorldIsOut == ~listed => at[None] = "out"

\* The threads that are about to enter Update, or to leave it as the last.
Settled(t) == at[t] \in {"picked", "tested", "finish", "leave"}

Owned == \A t \in Threads : Settled(t) => map = t \/ (map = None /\ ~listed)
OneSettled == \A s, t \in Threads : Settled(s) /\ Settled(t) => s = t
NoneTested == \A s, t \in Threads : ~(at[s] = "tested" /\ Inside(t))
Shown == \A t \in Threads : InUpdate(t) => updating
OneIn == \A s, t \in Threads : Inside(s) /\ Inside(t) => s = t
OneMoves == \A s, t \in Threads : step[s] # "none" /\ step[t] # "none" => s = t
MovesOwn == \A t \in Threads : step[t] # "none" => map \in {dest[t], t}

Orderly == Owned /\ OneSettled /\ NoneTested /\ Shown /\ OneIn /\ OneMoves /\ MovesOwn

TypeInv == TypeOK /\ MoveShape /\ HasPlayer /\ WorldIsOut
ExclusiveInv == TypeInv /\ (~crossed => Orderly)

\* IInv is the invariant that Next preserves: TypeInv by itself, HandedOver
\* with its help, and Orderly as long as no move overtakes another.
IInv == ExclusiveInv /\ HandedOver

-----------------------------------------------------------------------------
\* A move sets out from Update or from Player::Update and knows its map; the
\* types need it for what AddSession puts in a queue, and for the marks that
\* a teleport leaves on its player.
LEMMA TypeInvStep == TypeInv /\ [Next]_vars => TypeInv'
<1> SUFFICES ASSUME TypeInv, [Next]_vars
             PROVE  TypeInv'
  OBVIOUS
<1> USE MapAssumption
    DEF TypeInv, TypeOK, ThreadTypes, SessionTypes, PlayerTypes, HistoryTypes,
      MoveShape, HasPlayer, WorldIsOut, Threads, Free, Handles,
      In, Goto, placeVars, moves, threadVars, sessVars, playerVars, history
<1>1. ASSUME NEW t \in Threads, Pick(t)
      PROVE  TypeInv'
  BY <1>1 DEF Pick
<1>2. ASSUME NEW t \in Maps, Drain(t)
      PROVE  TypeInv'
  BY <1>2 DEF Drain
<1>3. ASSUME NEW t \in Maps, Drop(t)
      PROVE  TypeInv'
  BY <1>3 DEF Drop
<1>4. ASSUME NEW t \in Maps, NEW b \in BOOLEAN, RunFunctions(t, b)
      PROVE  TypeInv'
  <2>1. ThreadTypes' /\ SessionTypes' /\ MoveShape' /\ HasPlayer' /\ WorldIsOut'
    BY <1>4 DEF RunFunctions, Entered
  <2>2. PlayerTypes'
    BY <1>4 DEF RunFunctions, Entered
  <2>3. HistoryTypes'
    BY <1>4 DEF RunFunctions, Entered
  <2> QED
    BY <2>1, <2>2, <2>3
<1>5. ASSUME NEW t \in Threads, Test(t)
      PROVE  TypeInv'
  BY <1>5 DEF Test
<1>6. ASSUME NEW t \in Threads, EndPackets(t)
      PROVE  TypeInv'
  BY <1>6 DEF EndPackets, PhaseEnds
<1>7. ASSUME NEW t \in Threads, EndCallbacks(t)
      PROVE  TypeInv'
  BY <1>7 DEF EndCallbacks, PhaseEnds
<1>8. ASSUME NEW t \in Threads, Leave(t)
      PROVE  TypeInv'
  <2>1. ThreadTypes' /\ SessionTypes' /\ MoveShape' /\ HasPlayer' /\ WorldIsOut'
    BY <1>8 DEF Leave, LoggedOut
  <2>2. PlayerTypes'
    BY <1>8 DEF Leave, LoggedOut
  <2>3. HistoryTypes'
    BY <1>8 DEF Leave, LoggedOut
  <2> QED
    BY <2>1, <2>2, <2>3
<1>9. ASSUME NEW t \in Threads, EndVisit(t)
      PROVE  TypeInv'
  <2>1. ThreadTypes' /\ SessionTypes' /\ MoveShape' /\ HasPlayer' /\ WorldIsOut'
    BY <1>9 DEF EndVisit
  <2>2. PlayerTypes'
    BY <1>9 DEF EndVisit
  <2>3. HistoryTypes'
    BY <1>9 DEF EndVisit
  <2> QED
    BY <2>1, <2>2, <2>3
<1>10. ASSUME NEW t \in Threads, LoginAdd(t)
      PROVE  TypeInv'
  BY <1>10 DEF LoginAdd, Done
<1>11. ASSUME NEW t \in Threads, AddFirst(t)
      PROVE  TypeInv'
  BY <1>11 DEF AddFirst, GoOn
<1>12. ASSUME NEW t \in Threads, AddAgain(t)
      PROVE  TypeInv'
  <2>1. ThreadTypes' /\ SessionTypes' /\ MoveShape' /\ HasPlayer' /\ WorldIsOut'
    BY <1>12 DEF AddAgain, Done
  <2>2. PlayerTypes'
    BY <1>12 DEF AddAgain, Done
  <2>3. HistoryTypes'
    BY <1>12 DEF AddAgain, Done
  <2> QED
    BY <2>1, <2>2, <2>3
<1>13. ASSUME NEW t \in Threads, NEW b \in BOOLEAN, Set(t, b)
      PROVE  TypeInv'
  <2>1. ThreadTypes' /\ SessionTypes' /\ MoveShape' /\ HasPlayer' /\ WorldIsOut'
    BY <1>13 DEF Set, Entered
  <2>2. PlayerTypes'
    BY <1>13 DEF Set, Entered
  <2>3. HistoryTypes'
    BY <1>13 DEF Set, Entered
  <2> QED
    BY <2>1, <2>2, <2>3
<1>14. ASSUME NEW t \in Threads, NEW b \in BOOLEAN, NEW f \in BOOLEAN, Finish(t, b, f)
      PROVE  TypeInv'
  <2>1. ThreadTypes' /\ SessionTypes' /\ MoveShape' /\ HasPlayer' /\ WorldIsOut'
    BY <1>14 DEF Finish, LoggedOut
  <2>2. PlayerTypes'
    BY <1>14 DEF Finish, LoggedOut
  <2>3. HistoryTypes'
    BY <1>14 DEF Finish, LoggedOut
  <2> QED
    BY <2>1, <2>2, <2>3
<1>15. ASSUME NEW t \in Threads, NEW b \in BOOLEAN, LeaveOld(t, b)
      PROVE  TypeInv'
  <2>1. ThreadTypes' /\ SessionTypes' /\ MoveShape' /\ HasPlayer' /\ WorldIsOut'
    BY <1>15 DEF LeaveOld, GoOn, Done
  <2>2. PlayerTypes'
    BY <1>15 DEF LeaveOld, GoOn, Done
  <2>3. HistoryTypes'
    BY <1>15 DEF LeaveOld, GoOn, Done
  <2> QED
    BY <2>1, <2>2, <2>3
<1>16. ASSUME NEW t \in Threads, Throw(t)
      PROVE  TypeInv'
  BY <1>16 DEF Throw
<1>17. ASSUME NEW t \in Threads, LoginRequest(t)
      PROVE  TypeInv'
  BY <1>17 DEF LoginRequest
<1>18. ASSUME NEW t \in Threads, LogoutRequest(t)
      PROVE  TypeInv'
  BY <1>18 DEF LogoutRequest
<1>19. ASSUME NEW t \in Threads, ObjectUpdateFailed(t)
      PROVE  TypeInv'
  <2>1. ThreadTypes' /\ SessionTypes' /\ MoveShape' /\ HasPlayer' /\ WorldIsOut'
    BY <1>19 DEF ObjectUpdateFailed, LoggedOut
  <2>2. PlayerTypes'
    BY <1>19 DEF ObjectUpdateFailed, LoggedOut
  <2>3. HistoryTypes'
    BY <1>19 DEF ObjectUpdateFailed, LoggedOut
  <2> QED
    BY <2>1, <2>2, <2>3
<1>20. ASSUME NEW t \in Threads, NEW m \in Maps, Login(t, m)
      PROVE  TypeInv'
  <2>1. ThreadTypes' /\ SessionTypes' /\ MoveShape' /\ HasPlayer' /\ WorldIsOut'
    BY <1>20 DEF Login, Begin
  <2>2. PlayerTypes'
    BY <1>20 DEF Login, Begin
  <2>3. HistoryTypes'
    BY <1>20 DEF Login, Begin
  <2> QED
    BY <2>1, <2>2, <2>3
<1>21. ASSUME NEW t \in Threads, NEW m \in Maps, NEW b \in BOOLEAN, Teleport(t, m, b)
      PROVE  TypeInv'
  BY <1>21 DEF Teleport, Begin
<1>22. ASSUME NEW t \in Threads, NEW new \in Threads, NEW b \in BOOLEAN, PortAck(t, new, b)
      PROVE  TypeInv'
  <2>1. ThreadTypes' /\ SessionTypes' /\ MoveShape' /\ HasPlayer' /\ WorldIsOut'
    BY <1>22 DEF PortAck
  <2>2. PlayerTypes'
    BY <1>22 DEF PortAck
  <2>3. HistoryTypes'
    BY <1>22 DEF PortAck
  <2> QED
    BY <2>1, <2>2, <2>3
<1>23. ASSUME NEW m \in Maps, Visit(m)
      PROVE  TypeInv'
  BY <1>23 DEF Visit
<1>24. CASE Close
  BY <1>24 DEF Close
<1>25. CASE Replace
  <2>1. ThreadTypes' /\ SessionTypes' /\ MoveShape' /\ HasPlayer' /\ WorldIsOut'
    BY <1>25 DEF Replace
  <2>2. PlayerTypes'
    BY <1>25 DEF Replace
  <2>3. HistoryTypes'
    BY <1>25 DEF Replace
  <2> QED
    BY <2>1, <2>2, <2>3
<1>26. CASE Destroy
  <2>1. ThreadTypes' /\ SessionTypes' /\ MoveShape' /\ HasPlayer' /\ WorldIsOut'
    BY <1>26 DEF Destroy, LoggedOut
  <2>2. PlayerTypes'
    BY <1>26 DEF Destroy, LoggedOut
  <2>3. HistoryTypes'
    BY <1>26 DEF Destroy, LoggedOut
  <2> QED
    BY <2>1, <2>2, <2>3
<1>27. CASE UNCHANGED vars
  BY <1>27 DEF vars
<1>28. ASSUME NEW t \in Threads, Comes(t)
       PROVE  TypeInv'
  BY <1>28, <1>1, <1>2, <1>3, <1>4 DEF Comes
<1>29. ASSUME NEW t \in Threads, Runs(t)
       PROVE  TypeInv'
  BY <1>29, <1>5, <1>6, <1>7, <1>8, <1>9, <1>10, <1>11, <1>12, <1>13, <1>14, <1>15 DEF Runs
<1>30. ASSUME NEW t \in Threads, Handlers(t)
       PROVE  TypeInv'
  BY <1>30, <1>16, <1>17, <1>18, <1>19, <1>20, <1>21, <1>22 DEF Handlers
<1> QED
  BY <1>23, <1>24, <1>25, <1>26, <1>27, <1>28, <1>29, <1>30 DEF Next

\* Whoever sets the map is about to put the session in a list of that map, and
\* only a map that is not the session's drops it.
LEMMA HandedOverStep == TypeInv /\ HandedOver /\ [Next]_vars => HandedOver'
<1> SUFFICES ASSUME TypeInv, HandedOver, [Next]_vars
             PROVE  HandedOver'
  OBVIOUS
<1> USE MapAssumption
    DEF TypeInv, TypeOK, ThreadTypes, SessionTypes, HandedOver, Threads, Free, Handles,
      In, Goto, placeVars, moves, threadVars, sessVars, playerVars, history
<1>1. ASSUME NEW t \in Threads, Pick(t)
      PROVE  HandedOver'
  BY <1>1 DEF Pick
<1>2. ASSUME NEW t \in Maps, Drain(t)
      PROVE  HandedOver'
  BY <1>2 DEF Drain
<1>3. ASSUME NEW t \in Maps, Drop(t)
      PROVE  HandedOver'
  BY <1>3 DEF Drop
<1>4. ASSUME NEW t \in Maps, NEW b \in BOOLEAN, RunFunctions(t, b)
      PROVE  HandedOver'
  BY <1>4 DEF RunFunctions, Entered
<1>5. ASSUME NEW t \in Threads, Test(t)
      PROVE  HandedOver'
  BY <1>5 DEF Test
<1>6. ASSUME NEW t \in Threads, EndPackets(t)
      PROVE  HandedOver'
  BY <1>6 DEF EndPackets, PhaseEnds
<1>7. ASSUME NEW t \in Threads, EndCallbacks(t)
      PROVE  HandedOver'
  BY <1>7 DEF EndCallbacks, PhaseEnds
<1>8. ASSUME NEW t \in Threads, Leave(t)
      PROVE  HandedOver'
  BY <1>8 DEF Leave, LoggedOut
<1>9. ASSUME NEW t \in Threads, EndVisit(t)
      PROVE  HandedOver'
  BY <1>9 DEF EndVisit
<1>10. ASSUME NEW t \in Threads, LoginAdd(t)
      PROVE  HandedOver'
  BY <1>10 DEF LoginAdd, Done
<1>11. ASSUME NEW t \in Threads, AddFirst(t)
      PROVE  HandedOver'
  BY <1>11 DEF AddFirst, GoOn
<1>12. ASSUME NEW t \in Threads, AddAgain(t)
      PROVE  HandedOver'
  BY <1>12 DEF AddAgain, Done
<1>13. ASSUME NEW t \in Threads, NEW b \in BOOLEAN, Set(t, b)
      PROVE  HandedOver'
  BY <1>13 DEF Set, Entered
<1>14. ASSUME NEW t \in Threads, NEW b \in BOOLEAN, NEW f \in BOOLEAN, Finish(t, b, f)
      PROVE  HandedOver'
  BY <1>14 DEF Finish, LoggedOut
<1>15. ASSUME NEW t \in Threads, NEW b \in BOOLEAN, LeaveOld(t, b)
      PROVE  HandedOver'
  BY <1>15 DEF LeaveOld, GoOn, Done
<1>16. ASSUME NEW t \in Threads, Throw(t)
      PROVE  HandedOver'
  BY <1>16 DEF Throw
<1>17. ASSUME NEW t \in Threads, LoginRequest(t)
      PROVE  HandedOver'
  BY <1>17 DEF LoginRequest
<1>18. ASSUME NEW t \in Threads, LogoutRequest(t)
      PROVE  HandedOver'
  BY <1>18 DEF LogoutRequest
<1>19. ASSUME NEW t \in Threads, ObjectUpdateFailed(t)
      PROVE  HandedOver'
  BY <1>19 DEF ObjectUpdateFailed, LoggedOut
<1>20. ASSUME NEW t \in Threads, NEW m \in Maps, Login(t, m)
      PROVE  HandedOver'
  BY <1>20 DEF Login, Begin
<1>21. ASSUME NEW t \in Threads, NEW m \in Maps, NEW b \in BOOLEAN, Teleport(t, m, b)
      PROVE  HandedOver'
  BY <1>21 DEF Teleport, Begin
<1>22. ASSUME NEW t \in Threads, NEW new \in Threads, NEW b \in BOOLEAN, PortAck(t, new, b)
      PROVE  HandedOver'
  BY <1>22 DEF PortAck
<1>23. ASSUME NEW m \in Maps, Visit(m)
      PROVE  HandedOver'
  BY <1>23 DEF Visit
<1>24. CASE Close
  BY <1>24 DEF Close
<1>25. CASE Replace
  BY <1>25 DEF Replace
<1>26. CASE Destroy
  BY <1>26 DEF Destroy, LoggedOut
<1>27. CASE UNCHANGED vars
  BY <1>27 DEF vars
<1>28. ASSUME NEW t \in Threads, Comes(t)
       PROVE  HandedOver'
  BY <1>28, <1>1, <1>2, <1>3, <1>4 DEF Comes
<1>29. ASSUME NEW t \in Threads, Runs(t)
       PROVE  HandedOver'
  BY <1>29, <1>5, <1>6, <1>7, <1>8, <1>9, <1>10, <1>11, <1>12, <1>13, <1>14, <1>15 DEF Runs
<1>30. ASSUME NEW t \in Threads, Handlers(t)
       PROVE  HandedOver'
  BY <1>30, <1>16, <1>17, <1>18, <1>19, <1>20, <1>21, <1>22 DEF Handlers
<1> QED
  BY <1>23, <1>24, <1>25, <1>26, <1>27, <1>28, <1>29, <1>30 DEF Next

\* Only the owner of the session picks it, and only its owner comes to the end
\* of Update (Owned), so that one thread at most is between the test of
\* m_sUpdate and its setting, or about to log the player out (OneSettled);
\* m_sUpdate keeps the others out while one is in (Shown, NoneTested, OneIn),
\* and the owner changes only by the hand of the one thread that moves the
\* session (OneMoves, MovesOwn).
LEMMA OrderlyStep ==
  TypeInv /\ (~crossed => Orderly) /\ [Next]_vars => (~crossed => Orderly)'
<1> SUFFICES ASSUME TypeInv, ~crossed', ~crossed => Orderly, [Next]_vars
             PROVE  Orderly'
  OBVIOUS
<1> USE MapAssumption
    DEF TypeInv, TypeOK, ThreadTypes, SessionTypes, MoveShape, WorldIsOut, Orderly,
      Owned, OneSettled, NoneTested, Shown, OneIn, OneMoves, MovesOwn, Settled, InUpdate, Inside,
      Moving, Threads, Free, Handles,
      In, Goto, placeVars, moves, threadVars, sessVars, playerVars, history
<1>1. ASSUME NEW t \in Threads, Pick(t)
      PROVE  Orderly'
  BY <1>1 DEF Pick
<1>2. ASSUME NEW t \in Maps, Drain(t)
      PROVE  Orderly'
  BY <1>2 DEF Drain
<1>3. ASSUME NEW t \in Maps, Drop(t)
      PROVE  Orderly'
  BY <1>3 DEF Drop
<1>4. ASSUME NEW t \in Maps, NEW b \in BOOLEAN, RunFunctions(t, b)
      PROVE  Orderly'
  BY <1>4 DEF RunFunctions, Entered
<1>5. ASSUME NEW t \in Threads, Test(t)
      PROVE  Orderly'
  BY <1>5 DEF Test
<1>6. ASSUME NEW t \in Threads, EndPackets(t)
      PROVE  Orderly'
  BY <1>6 DEF EndPackets, PhaseEnds
<1>7. ASSUME NEW t \in Threads, EndCallbacks(t)
      PROVE  Orderly'
  BY <1>7 DEF EndCallbacks, PhaseEnds
<1>8. ASSUME NEW t \in Threads, Leave(t)
      PROVE  Orderly'
  BY <1>8 DEF Leave, LoggedOut
<1>9. ASSUME NEW t \in Threads, EndVisit(t)
      PROVE  Orderly'
  BY <1>9 DEF EndVisit
<1>10. ASSUME NEW t \in Threads, LoginAdd(t)
      PROVE  Orderly'
  BY <1>10 DEF LoginAdd, Done
<1>11. ASSUME NEW t \in Threads, AddFirst(t)
      PROVE  Orderly'
  BY <1>11 DEF AddFirst, GoOn
<1>12. ASSUME NEW t \in Threads, AddAgain(t)
      PROVE  Orderly'
  BY <1>12 DEF AddAgain, Done
<1>13. ASSUME NEW t \in Threads, NEW b \in BOOLEAN, Set(t, b)
      PROVE  Orderly'
  BY <1>13 DEF Set, Entered
<1>14. ASSUME NEW t \in Threads, NEW b \in BOOLEAN, NEW f \in BOOLEAN, Finish(t, b, f)
      PROVE  Orderly'
  BY <1>14 DEF Finish, LoggedOut
<1>15. ASSUME NEW t \in Threads, NEW b \in BOOLEAN, LeaveOld(t, b)
      PROVE  Orderly'
  BY <1>15 DEF LeaveOld, GoOn, Done
<1>16. ASSUME NEW t \in Threads, Throw(t)
      PROVE  Orderly'
  BY <1>16 DEF Throw
<1>17. ASSUME NEW t \in Threads, LoginRequest(t)
      PROVE  Orderly'
  BY <1>17 DEF LoginRequest
<1>18. ASSUME NEW t \in Threads, LogoutRequest(t)
      PROVE  Orderly'
  BY <1>18 DEF LogoutRequest
<1>19. ASSUME NEW t \in Threads, ObjectUpdateFailed(t)
      PROVE  Orderly'
  BY <1>19 DEF ObjectUpdateFailed, LoggedOut
<1>20. ASSUME NEW t \in Threads, NEW m \in Maps, Login(t, m)
      PROVE  Orderly'
  BY <1>20 DEF Login, Begin
<1>21. ASSUME NEW t \in Threads, NEW m \in Maps, NEW b \in BOOLEAN, Teleport(t, m, b)
      PROVE  Orderly'
  BY <1>21 DEF Teleport, Begin
<1>22. ASSUME NEW t \in Threads, NEW new \in Threads, NEW b \in BOOLEAN, PortAck(t, new, b)
      PROVE  Orderly'
  BY <1>22 DEF PortAck
<1>23. ASSUME NEW m \in Maps, Visit(m)
      PROVE  Orderly'
  BY <1>23 DEF Visit
<1>24. CASE Close
  BY <1>24 DEF Close
<1>25. CASE Replace
  BY <1>25 DEF Replace
<1>26. CASE Destroy
  BY <1>26 DEF Destroy, LoggedOut
<1>27. CASE UNCHANGED vars
  BY <1>27 DEF vars
<1>28. ASSUME NEW t \in Threads, Comes(t)
       PROVE  Orderly'
  BY <1>28, <1>1, <1>2, <1>3, <1>4 DEF Comes
<1>29. ASSUME NEW t \in Threads, Runs(t)
       PROVE  Orderly'
  BY <1>29, <1>5, <1>6, <1>7, <1>8, <1>9, <1>10, <1>11, <1>12, <1>13, <1>14, <1>15 DEF Runs
<1>30. ASSUME NEW t \in Threads, Handlers(t)
       PROVE  Orderly'
  BY <1>30, <1>16, <1>17, <1>18, <1>19, <1>20, <1>21, <1>22 DEF Handlers
<1> QED
  BY <1>23, <1>24, <1>25, <1>26, <1>27, <1>28, <1>29, <1>30 DEF Next

-----------------------------------------------------------------------------
\* A new session is on World's list, and no thread has come to it.
LEMMA InitInv == Init => IInv
BY MapAssumption
   DEF Init, IInv, ExclusiveInv, TypeInv, TypeOK, ThreadTypes, SessionTypes, PlayerTypes, HistoryTypes,
       MoveShape, HasPlayer, WorldIsOut, HandedOver, Orderly, Owned, OneSettled, NoneTested, Shown,
       OneIn, OneMoves, MovesOwn, Settled, InUpdate, Inside, Threads

\* Every step keeps the invariant.
LEMMA StepInv == IInv /\ [Next]_vars => IInv'
BY TypeInvStep, HandedOverStep, OrderlyStep DEF IInv, ExclusiveInv

\* The invariant holds in every reachable state.
LEMMA Invariance == Spec => []IInv
BY InitInv, StepInv, PTL DEF Spec

\* Every variable keeps its values, and a session without a player keeps
\* nothing of the player it had: LogoutPlayer, whichever thread runs it and
\* whatever teleport is under way.
THEOREM TypeCorrect == Spec => []TypeOK
<1>1. IInv => TypeOK
  BY DEF IInv, ExclusiveInv, TypeInv
<1> QED
  BY <1>1, Invariance, PTL

\* A session that belongs to a map is in the lists of that map or about to be:
\* SetMap and AddSession, however the threads take turns between them.
THEOREM HandedOverCorrect == Spec => []HandedOver
<1>1. IInv => HandedOver
  BY DEF IInv
<1> QED
  BY <1>1, Invariance, PTL

\* m_sUpdate, which is tested and set in two steps, and the owner of the
\* session keep two threads out of WorldSession::Update.
THEOREM ExclusiveCorrect == Spec => []Exclusive
<1>1. IInv => Exclusive
  BY DEF IInv, ExclusiveInv, Orderly, OneIn, Exclusive
<1> QED
  BY <1>1, Invariance, PTL
-----------------------------------------------------------------------------
\* No exit from Update but an exception leaves m_sUpdate set.
NoneLeaksIt == updating => (\E t \in Threads : InUpdate(t)) \/ fault

\* Each way out of Update clears m_sUpdate, and the way from one phase to the
\* next keeps the thread in.
LEMMA NoneLeaksStep == TypeInv /\ NoneLeaksIt /\ [Next]_vars => NoneLeaksIt'
<1> SUFFICES ASSUME TypeInv, NoneLeaksIt, [Next]_vars
             PROVE  NoneLeaksIt'
  OBVIOUS
<1> USE MapAssumption
    DEF TypeInv, TypeOK, ThreadTypes, SessionTypes, NoneLeaksIt, InUpdate, Threads, Free,
      Handles, In, Goto, placeVars, moves, threadVars, sessVars, playerVars, history
<1>1. ASSUME NEW t \in Threads, Pick(t)
      PROVE  NoneLeaksIt'
  BY <1>1 DEF Pick
<1>2. ASSUME NEW t \in Maps, Drain(t)
      PROVE  NoneLeaksIt'
  BY <1>2 DEF Drain
<1>3. ASSUME NEW t \in Maps, Drop(t)
      PROVE  NoneLeaksIt'
  BY <1>3 DEF Drop
<1>4. ASSUME NEW t \in Maps, NEW b \in BOOLEAN, RunFunctions(t, b)
      PROVE  NoneLeaksIt'
  BY <1>4 DEF RunFunctions, Entered
<1>5. ASSUME NEW t \in Threads, Test(t)
      PROVE  NoneLeaksIt'
  BY <1>5 DEF Test
<1>6. ASSUME NEW t \in Threads, EndPackets(t)
      PROVE  NoneLeaksIt'
  BY <1>6 DEF EndPackets, PhaseEnds
<1>7. ASSUME NEW t \in Threads, EndCallbacks(t)
      PROVE  NoneLeaksIt'
  BY <1>7 DEF EndCallbacks, PhaseEnds
<1>8. ASSUME NEW t \in Threads, Leave(t)
      PROVE  NoneLeaksIt'
  BY <1>8 DEF Leave, LoggedOut
<1>9. ASSUME NEW t \in Threads, EndVisit(t)
      PROVE  NoneLeaksIt'
  BY <1>9 DEF EndVisit
<1>10. ASSUME NEW t \in Threads, LoginAdd(t)
      PROVE  NoneLeaksIt'
  BY <1>10 DEF LoginAdd, Done
<1>11. ASSUME NEW t \in Threads, AddFirst(t)
      PROVE  NoneLeaksIt'
  BY <1>11 DEF AddFirst, GoOn
<1>12. ASSUME NEW t \in Threads, AddAgain(t)
      PROVE  NoneLeaksIt'
  BY <1>12 DEF AddAgain, Done
<1>13. ASSUME NEW t \in Threads, NEW b \in BOOLEAN, Set(t, b)
      PROVE  NoneLeaksIt'
  BY <1>13 DEF Set, Entered
<1>14. ASSUME NEW t \in Threads, NEW b \in BOOLEAN, NEW f \in BOOLEAN, Finish(t, b, f)
      PROVE  NoneLeaksIt'
  BY <1>14 DEF Finish, LoggedOut
<1>15. ASSUME NEW t \in Threads, NEW b \in BOOLEAN, LeaveOld(t, b)
      PROVE  NoneLeaksIt'
  BY <1>15 DEF LeaveOld, GoOn, Done
<1>16. ASSUME NEW t \in Threads, Throw(t)
      PROVE  NoneLeaksIt'
  BY <1>16 DEF Throw
<1>17. ASSUME NEW t \in Threads, LoginRequest(t)
      PROVE  NoneLeaksIt'
  BY <1>17 DEF LoginRequest
<1>18. ASSUME NEW t \in Threads, LogoutRequest(t)
      PROVE  NoneLeaksIt'
  BY <1>18 DEF LogoutRequest
<1>19. ASSUME NEW t \in Threads, ObjectUpdateFailed(t)
      PROVE  NoneLeaksIt'
  BY <1>19 DEF ObjectUpdateFailed, LoggedOut
<1>20. ASSUME NEW t \in Threads, NEW m \in Maps, Login(t, m)
      PROVE  NoneLeaksIt'
  BY <1>20 DEF Login, Begin
<1>21. ASSUME NEW t \in Threads, NEW m \in Maps, NEW b \in BOOLEAN, Teleport(t, m, b)
      PROVE  NoneLeaksIt'
  BY <1>21 DEF Teleport, Begin
<1>22. ASSUME NEW t \in Threads, NEW new \in Threads, NEW b \in BOOLEAN, PortAck(t, new, b)
      PROVE  NoneLeaksIt'
  BY <1>22 DEF PortAck
<1>23. ASSUME NEW m \in Maps, Visit(m)
      PROVE  NoneLeaksIt'
  BY <1>23 DEF Visit
<1>24. CASE Close
  BY <1>24 DEF Close
<1>25. CASE Replace
  BY <1>25 DEF Replace
<1>26. CASE Destroy
  BY <1>26 DEF Destroy, LoggedOut
<1>27. CASE UNCHANGED vars
  BY <1>27 DEF vars
<1>28. ASSUME NEW t \in Threads, Comes(t)
       PROVE  NoneLeaksIt'
  BY <1>28, <1>1, <1>2, <1>3, <1>4 DEF Comes
<1>29. ASSUME NEW t \in Threads, Runs(t)
       PROVE  NoneLeaksIt'
  BY <1>29, <1>5, <1>6, <1>7, <1>8, <1>9, <1>10, <1>11, <1>12, <1>13, <1>14, <1>15 DEF Runs
<1>30. ASSUME NEW t \in Threads, Handlers(t)
       PROVE  NoneLeaksIt'
  BY <1>30, <1>16, <1>17, <1>18, <1>19, <1>20, <1>21, <1>22 DEF Handlers
<1> QED
  BY <1>23, <1>24, <1>25, <1>26, <1>27, <1>28, <1>29, <1>30 DEF Next

\* m_sUpdate is set exactly while a thread is in Update, unless a handler threw:
\* every return of WorldSession::Update clears it, so a session whose map still
\* has it is never shut out of it by a flag that nobody holds.
THEOREM FlagIsHeldCorrect == Spec => []FlagIsHeld
<1>1. Init => NoneLeaksIt
  BY DEF Init, NoneLeaksIt
<1>2. IInv => TypeInv /\ (~crossed => Shown)
  BY DEF IInv, ExclusiveInv, Orderly
<1>3. NoneLeaksIt /\ (~crossed => Shown) => FlagIsHeld
  BY DEF NoneLeaksIt, Shown, FlagIsHeld
<1> QED
  BY <1>1, <1>2, <1>3, NoneLeaksStep, Invariance, PTL DEF Spec
-----------------------------------------------------------------------------
(* The player and its session.                                             *)

\* OwnersAgree, of a player whose log-in waits to be completed too.
Together ==
  listed /\ player /\ (inWorld \/ entering) =>
    \/ map = inMap
    \/ \E t \in Threads : step[t] \in {"set", "added"} /\ t = inMap /\ dest[t] = map

\* A log-in is completed once, before the next one and before any teleport,
\* and no player comes while a move of the last one is under way.
LoginShape ==
  /\ loading => ~player /\ ~entering
  /\ inWorld \/ far => ~entering
  /\ \A t \in Threads :
       /\ at[t] = "packets" => ~entering
       /\ step[t] \in {"set", "added", "left"} => ~entering
       /\ step[t] \in {"login", "unlisted"} => at[t] = "callbacks" /\ ~loading
       /\ step[t] \in {"login", "unlisted"} /\ player =>
            ~inWorld /\ ~far /\ ~entering /\ (listed => map = inMap)
       /\ t \in orphans => ~player /\ step[t] # "none"

\* Only the mover of Together changes the map while the player stays, and it is
\* the only mover there is (OneMoves).
LEMMA TogetherStep ==
  TypeInv /\ (~crossed => Orderly /\ Together /\ LoginShape) /\ [Next]_vars
    => (~crossed => Together /\ LoginShape)'
<1> SUFFICES ASSUME TypeInv, ~crossed', ~crossed => Orderly /\ Together /\ LoginShape, [Next]_vars
             PROVE  Together' /\ LoginShape'
  OBVIOUS
<1> USE MapAssumption
    DEF TypeInv, TypeOK, ThreadTypes, SessionTypes, PlayerTypes, HistoryTypes, MoveShape, Orderly,
      NoneTested, OneIn, OneMoves, MovesOwn, InUpdate, Inside, Together, LoginShape,
      Moving, Threads, Free, Handles,
      In, Goto, placeVars, moves, threadVars, sessVars, playerVars, history
<1>1. ASSUME NEW t \in Threads, Pick(t)
      PROVE  Together' /\ LoginShape'
  BY <1>1 DEF Pick
<1>2. ASSUME NEW t \in Maps, Drain(t)
      PROVE  Together' /\ LoginShape'
  BY <1>2 DEF Drain
<1>3. ASSUME NEW t \in Maps, Drop(t)
      PROVE  Together' /\ LoginShape'
  BY <1>3 DEF Drop
<1>4. ASSUME NEW t \in Maps, NEW b \in BOOLEAN, RunFunctions(t, b)
      PROVE  Together' /\ LoginShape'
  BY <1>4 DEF RunFunctions, Entered
<1>5. ASSUME NEW t \in Threads, Test(t)
      PROVE  Together' /\ LoginShape'
  BY <1>5 DEF Test
<1>6. ASSUME NEW t \in Threads, EndPackets(t)
      PROVE  Together' /\ LoginShape'
  BY <1>6 DEF EndPackets, PhaseEnds
<1>7. ASSUME NEW t \in Threads, EndCallbacks(t)
      PROVE  Together' /\ LoginShape'
  BY <1>7 DEF EndCallbacks, PhaseEnds
<1>8. ASSUME NEW t \in Threads, Leave(t)
      PROVE  Together' /\ LoginShape'
  BY <1>8 DEF Leave, LoggedOut
<1>9. ASSUME NEW t \in Threads, EndVisit(t)
      PROVE  Together' /\ LoginShape'
  BY <1>9 DEF EndVisit
<1>10. ASSUME NEW t \in Threads, LoginAdd(t)
      PROVE  Together' /\ LoginShape'
  BY <1>10 DEF LoginAdd, Done
<1>11. ASSUME NEW t \in Threads, AddFirst(t)
      PROVE  Together' /\ LoginShape'
  BY <1>11 DEF AddFirst, GoOn
<1>12. ASSUME NEW t \in Threads, AddAgain(t)
      PROVE  Together' /\ LoginShape'
  BY <1>12 DEF AddAgain, Done
<1>13. ASSUME NEW t \in Threads, NEW b \in BOOLEAN, Set(t, b)
      PROVE  Together' /\ LoginShape'
  BY <1>13 DEF Set, Entered
<1>14. ASSUME NEW t \in Threads, NEW b \in BOOLEAN, NEW f \in BOOLEAN, Finish(t, b, f)
      PROVE  Together' /\ LoginShape'
  BY <1>14 DEF Finish, LoggedOut
<1>15. ASSUME NEW t \in Threads, NEW b \in BOOLEAN, LeaveOld(t, b)
      PROVE  Together' /\ LoginShape'
  BY <1>15 DEF LeaveOld, GoOn, Done
<1>16. ASSUME NEW t \in Threads, Throw(t)
      PROVE  Together' /\ LoginShape'
  BY <1>16 DEF Throw
<1>17. ASSUME NEW t \in Threads, LoginRequest(t)
      PROVE  Together' /\ LoginShape'
  BY <1>17 DEF LoginRequest
<1>18. ASSUME NEW t \in Threads, LogoutRequest(t)
      PROVE  Together' /\ LoginShape'
  BY <1>18 DEF LogoutRequest
<1>19. ASSUME NEW t \in Threads, ObjectUpdateFailed(t)
      PROVE  Together' /\ LoginShape'
  BY <1>19 DEF ObjectUpdateFailed, LoggedOut
<1>20. ASSUME NEW t \in Threads, NEW m \in Maps, Login(t, m)
      PROVE  Together' /\ LoginShape'
  BY <1>20 DEF Login, Begin
<1>21. ASSUME NEW t \in Threads, NEW m \in Maps, NEW b \in BOOLEAN, Teleport(t, m, b)
      PROVE  Together' /\ LoginShape'
  BY <1>21 DEF Teleport, Begin
<1>22. ASSUME NEW t \in Threads, NEW new \in Threads, NEW b \in BOOLEAN, PortAck(t, new, b)
      PROVE  Together' /\ LoginShape'
  BY <1>22 DEF PortAck
<1>23. ASSUME NEW m \in Maps, Visit(m)
      PROVE  Together' /\ LoginShape'
  BY <1>23 DEF Visit
<1>24. CASE Close
  BY <1>24 DEF Close
<1>25. CASE Replace
  BY <1>25 DEF Replace
<1>26. CASE Destroy
  BY <1>26 DEF Destroy, LoggedOut
<1>27. CASE UNCHANGED vars
  BY <1>27 DEF vars
<1>28. ASSUME NEW t \in Threads, Comes(t)
       PROVE  Together' /\ LoginShape'
  BY <1>28, <1>1, <1>2, <1>3, <1>4 DEF Comes
<1>29. ASSUME NEW t \in Threads, Runs(t)
       PROVE  Together' /\ LoginShape'
  BY <1>29, <1>5, <1>6, <1>7, <1>8, <1>9, <1>10, <1>11, <1>12, <1>13, <1>14, <1>15 DEF Runs
<1>30. ASSUME NEW t \in Threads, Handlers(t)
       PROVE  Together' /\ LoginShape'
  BY <1>30, <1>16, <1>17, <1>18, <1>19, <1>20, <1>21, <1>22 DEF Handlers
<1> QED
  BY <1>23, <1>24, <1>25, <1>26, <1>27, <1>28, <1>29, <1>30 DEF Next

\* The session is updated by the map that its player is in, or was a moment ago
\* and whose thread is about to take it out: SetMap in HandlePlayerLogin and
\* SafeTeleport, and what HandleWorldPortAck makes of GetMap.
THEOREM OwnersAgreeCorrect == Spec => []OwnersAgree
<1>1. Init => (~crossed => Together /\ LoginShape)
  BY MapAssumption DEF Init, Together, LoginShape, Threads
<1>2. IInv => TypeInv /\ (~crossed => Orderly)
  BY DEF IInv, ExclusiveInv
<1>3. (~crossed => Together /\ LoginShape) => OwnersAgree
  BY DEF Together, OwnersAgree
<1>4. TypeInv /\ (~crossed => Orderly) /\ (~crossed => Together /\ LoginShape) /\ [Next]_vars
        => (~crossed => Together /\ LoginShape)'
  BY TogetherStep
<1> QED
  BY <1>1, <1>2, <1>3, <1>4, Invariance, PTL DEF Spec
=============================================================================
