--------------------- MODULE DatabaseTransactionProofs ---------------------
(***************************************************************************)
(* Proofs about DatabaseTransaction: types, atomicity, the report to the   *)
(* caller, the session left behind and the number of steps it takes, for   *)
(* transactions of any size and any number of lost connections.            *)
(***************************************************************************)
EXTENDS DatabaseTransaction, TLAPS

\* The statements before the j-th have had their effect.
Upto(j) == [i \in Statements |-> IF i < j THEN 1 ELSE 0]

\* The session on the server: without a transaction nothing is tentative, and
\* a transaction is open only while the client executes one.
SessionShape ==
  /\ ~inTx => tentative = Nothing
  /\ lost \/ handle = "null" => ~inTx
  /\ pc \in {"task", "begin", "returned", "done"} => ~inTx
  /\ lost => handle = "open" /\ pc \in lostAt

\* Where the client is.
ClientShape ==
  /\ pc = "task" => tries = 0
  /\ pc # "done" => called = 0
  /\ pc \in {"begin", "statement", "rollback", "commit"} => size > 0
  /\ error = Empty => size = 0 /\ tries = 1
  /\ size = 0 /\ pc \in {"returned", "done"} => error = Empty
  /\ pc = "begin" => k = 1
  /\ pc = "statement" => k <= size
  /\ pc \in {"task", "begin", "statement", "commit"} => error = OK
  /\ pc = "rollback" /\ handle = "open" => error # OK
  /\ pc = "done" => (called = 1 <=> async /\ Success)

\* What the database holds, when no connection was lost at a statement.
Atomic ==
  "statement" \notin lostAt =>
    /\ durable \in {Nothing, Once}
    /\ pc \in {"task", "begin", "statement", "rollback"} => durable = Nothing
    /\ pc \in {"returned", "done"} /\ error # OK => durable = Nothing
    /\ pc = "statement" /\ handle = "open" => inTx /\ tentative = Upto(k)
    /\ pc = "commit" /\ inTx => tentative = Once /\ durable = Nothing

\* When none was lost at the COMMIT either and there is a connection.
Complete ==
  lostAt \cap {"statement", "commit"} = {} /\ handle = "open" =>
    /\ pc = "commit" => inTx
    /\ pc \in {"returned", "done"} /\ error = OK => durable = Once

IInv == TypeOK /\ SessionShape /\ ClientShape /\ Atomic /\ Complete

-----------------------------------------------------------------------------
(* The effects of statements.                                              *)

\* Nothing and Once count; adding Nothing changes nothing.
LEMMA Effects ==
  /\ Nothing \in [Statements -> Nat] /\ Once \in [Statements -> Nat]
  /\ \A f, g \in [Statements -> Nat] : Added(f, g) \in [Statements -> Nat]
  /\ \A f \in [Statements -> Nat] : Added(f, Nothing) = f /\ Added(Nothing, f) = f
<1>1. Nothing \in [Statements -> Nat] /\ Once \in [Statements -> Nat]
  BY DEF Nothing, Once
<1>2. \A f, g \in [Statements -> Nat] : Added(f, g) \in [Statements -> Nat]
  BY DEF Added
<1>3. ASSUME NEW f \in [Statements -> Nat]
      PROVE  Added(f, Nothing) = f /\ Added(Nothing, f) = f
  <2>1. \A i \in Statements : f[i] \in Nat /\ f[i] + 0 = f[i] /\ 0 + f[i] = f[i]
    OBVIOUS
  <2>2. f = [i \in Statements |-> f[i]]
    OBVIOUS
  <2> QED
    BY <2>1, <2>2 DEF Added, Nothing
<1> QED
  BY <1>1, <1>2, <1>3

\* The statements before the first are none, and each adds one.
LEMMA Prefixes ==
  ASSUME TypeOK
  PROVE  /\ Upto(1) = Nothing
         /\ Upto(size + 1) = Once
         /\ \A j \in Statements : [Upto(j) EXCEPT ![j] = @ + 1] = Upto(j + 1)
<1>1. Upto(1) = Nothing
  BY SizeAssumption DEF Upto, Nothing, Statements
<1>2. Upto(size + 1) = Once
  <2>1. \A i \in Statements : i < size + 1 <=> i <= size
    BY SizeAssumption DEF Statements, TypeOK
  <2> QED
    BY <2>1 DEF Upto, Once
<1>3. ASSUME NEW j \in Statements
      PROVE  [Upto(j) EXCEPT ![j] = @ + 1] = Upto(j + 1)
  <2>1. \A i \in Statements : i < j + 1 <=> i < j \/ i = j
    BY SizeAssumption DEF Statements
  <2>2. ~(j < j)
    BY SizeAssumption DEF Statements
  <2>3. Upto(j)[j] = 0
    BY <2>2 DEF Upto
  <2>4. \A i \in Statements :
          [Upto(j) EXCEPT ![j] = @ + 1][i] = IF i < j + 1 THEN 1 ELSE 0
    BY <2>1, <2>3 DEF Upto
  <2>5. [Upto(j) EXCEPT ![j] = @ + 1] = [i \in Statements |-> IF i < j + 1 THEN 1 ELSE 0]
    BY <2>4 DEF Upto
  <2> QED
    BY <2>5 DEF Upto
<1> QED
  BY <1>1, <1>2, <1>3

\* A transaction of at least one statement has an effect.
LEMMA SomeEffect == TypeOK => (size > 0 <=> Once # Nothing)
<1> SUFFICES ASSUME TypeOK PROVE size > 0 <=> Once # Nothing
  OBVIOUS
<1>1. CASE size > 0
  <2>1. 1 \in Statements /\ Once[1] = 1 /\ Nothing[1] = 0
    BY <1>1, SizeAssumption DEF TypeOK, Once, Nothing, Statements
  <2> QED
    BY <1>1, <2>1
<1>2. CASE ~(size > 0)
  BY <1>2, SizeAssumption DEF TypeOK, Once, Nothing, Statements
<1> QED
  BY <1>1, <1>2

-----------------------------------------------------------------------------
(* The invariant.                                                          *)

LEMMA InitInv == Init => IInv
<1> SUFFICES ASSUME Init PROVE IInv
  OBVIOUS
<1>1. TypeOK
  <2>1. k \in 1 .. MaxSize + 1 /\ tries \in 0 .. LoopBreaker + 1 /\ losses \in 0 .. MaxLosses
    BY SizeAssumption, LossAssumption DEF Init, LoopBreaker
  <2>2. tentative \in [Statements -> Nat] /\ durable \in [Statements -> Nat]
    BY Effects DEF Init
  <2>3. /\ size \in 0 .. MaxSize /\ async \in BOOLEAN /\ called \in 0 .. 1
        /\ pc \in {"task", "begin", "statement", "rollback", "commit", "returned",
                   "done", "aborted"}
        /\ error \in {OK, Empty, Deadlock, OtherError}
    BY DEF Init
  <2>4. handle \in {"open", "null"} /\ lost \in BOOLEAN /\ inTx \in BOOLEAN
    BY DEF Init
  <2>5. lostAt \subseteq {"begin", "statement", "rollback", "commit"}
    BY DEF Init
  <2> QED
    BY <2>1, <2>2, <2>3, <2>4, <2>5 DEF TypeOK
<1>2. SessionShape /\ ClientShape /\ Atomic /\ Complete
  BY DEF Init, SessionShape, ClientShape, Atomic, Complete, OK, Empty
<1> QED
  BY <1>1, <1>2 DEF IInv

LEMMA LoseConnectionInv == IInv /\ LoseConnection => IInv'
<1> SUFFICES ASSUME IInv, LoseConnection PROVE IInv'
  OBVIOUS
<1>0. TypeOK /\ SessionShape /\ ClientShape /\ Atomic /\ Complete
  BY DEF IInv
<1>1. /\ pc \in {"begin", "statement", "rollback", "commit"} /\ handle = "open" /\ ~lost /\ lost' = TRUE
      /\ losses < MaxLosses /\ losses' = losses + 1 /\ lostAt' = lostAt \cup {pc}
      /\ UNCHANGED <<size, async, called, handle, tries, pc, k, error>>
      /\ SessionEnds
  BY <1>0 DEF LoseConnection, Sends, client
<1>2. /\ inTx' = FALSE /\ tentative' = Nothing /\ durable' \in [Statements -> Nat]
      /\ durable' = durable \/ pc = "statement"
         \/ (pc = "commit" /\ durable' = Added(durable, tentative))
      /\ tentative' \in [Statements -> Nat]
  <2>1. CASE ServerRollsBack
    BY <1>0, <2>1, Effects DEF ServerRollsBack, TypeOK
  <2>2. CASE pc = "commit" /\ ServerCommits
    BY <1>0, <2>2, Effects DEF ServerCommits, TypeOK
  <2>3. CASE /\ pc = "statement" /\ ~inTx
             /\ durable' = [durable EXCEPT ![k] = @ + 1]
             /\ UNCHANGED <<inTx, tentative>>
    <3>1. durable \in [Statements -> Nat] /\ k \in Statements
      BY <1>0, <2>3, SizeAssumption DEF TypeOK, ClientShape, Statements
    <3>2. durable' \in [Statements -> Nat]
      BY <2>3, <3>1
    <3> QED
      BY <1>0, <2>3, <3>2, Effects DEF SessionShape
  <2> QED
    BY <1>1, <2>1, <2>2, <2>3 DEF SessionEnds
<1>3. Once' = Once
  BY <1>1 DEF Once
<1>4. TypeOK'
  <2>1. losses' \in 0 .. MaxLosses
    BY <1>0, <1>1, LossAssumption DEF TypeOK
  <2>2. lostAt' \subseteq {"begin", "statement", "rollback", "commit"}
    BY <1>0, <1>1 DEF TypeOK
  <2> QED
    BY <1>0, <1>1, <1>2, <2>1, <2>2 DEF TypeOK
<1>5. SessionShape'
  BY <1>0, <1>1, <1>2 DEF SessionShape
<1>6. ClientShape'
  BY <1>0, <1>1 DEF ClientShape, Success
<1>7. Atomic'
  <2> SUFFICES ASSUME "statement" \notin lostAt' PROVE Atomic'
    BY DEF Atomic
  <2>1. "statement" \notin lostAt /\ pc # "statement"
    BY <1>1
  <2>2. CASE pc = "commit"
    <3>1. /\ durable \in [Statements -> Nat] /\ tentative \in [Statements -> Nat]
          /\ durable \in {Nothing, Once}
          /\ (tentative = Once /\ durable = Nothing) \/ tentative = Nothing
      BY <1>0, <2>1, <2>2 DEF TypeOK, Atomic, SessionShape
    <3>2. Added(durable, tentative) \in {Nothing, Once}
      BY <3>1, Effects
    <3> QED
      BY <1>1, <1>2, <1>3, <2>2, <3>1, <3>2 DEF Atomic
  <2>3. CASE pc # "commit"
    BY <1>0, <1>1, <1>2, <1>3, <2>1, <2>3 DEF Atomic
  <2> QED
    BY <2>2, <2>3
<1>8. Complete'
  BY <1>0, <1>1, <1>2, <1>3 DEF Complete
<1> QED
  BY <1>4, <1>5, <1>6, <1>7, <1>8 DEF IInv

LEMMA ReconnectInv == IInv /\ Reconnect => IInv'
<1> SUFFICES ASSUME IInv, Reconnect PROVE IInv'
  OBVIOUS
<1>0. TypeOK /\ SessionShape /\ ClientShape /\ Atomic /\ Complete
  BY DEF IInv
<1>1. /\ lost /\ lost' = FALSE /\ handle' = handle
      /\ UNCHANGED <<size, async, called, tries, pc, k, error, lostAt, losses>>
      /\ UNCHANGED <<inTx, tentative, durable>>
  BY <1>0 DEF Reconnect, client, session
<1>2. Once' = Once
  BY <1>1 DEF Once
<1>3. TypeOK'
  BY <1>0, <1>1 DEF TypeOK
<1>4. SessionShape'
  BY <1>0, <1>1 DEF SessionShape
<1>5. ClientShape'
  BY <1>0, <1>1 DEF ClientShape, Success
<1>6. Atomic'
  BY <1>0, <1>1, <1>2 DEF Atomic
<1>7. Complete'
  BY <1>0, <1>1, <1>2 DEF Complete
<1> QED
  BY <1>3, <1>4, <1>5, <1>6, <1>7 DEF IInv

LEMMA FailToReconnectInv == IInv /\ FailToReconnect => IInv'
<1> SUFFICES ASSUME IInv, FailToReconnect PROVE IInv'
  OBVIOUS
<1>0. TypeOK /\ SessionShape /\ ClientShape /\ Atomic /\ Complete
  BY DEF IInv
<1>1. /\ lost /\ lost' = FALSE /\ handle' = "null"
      /\ UNCHANGED <<size, async, called, tries, pc, k, error, lostAt, losses>>
      /\ UNCHANGED <<inTx, tentative, durable>>
  BY <1>0 DEF FailToReconnect, session
<1>2. Once' = Once
  BY <1>1 DEF Once
<1>3. TypeOK'
  BY <1>0, <1>1 DEF TypeOK
<1>4. SessionShape'
  BY <1>0, <1>1 DEF SessionShape
<1>5. ClientShape'
  BY <1>0, <1>1 DEF ClientShape, Success
<1>6. Atomic'
  BY <1>0, <1>1, <1>2 DEF Atomic
<1>7. Complete'
  BY <1>0, <1>1, <1>2 DEF Complete
<1> QED
  BY <1>3, <1>4, <1>5, <1>6, <1>7 DEF IInv

LEMMA ExecuteInv == IInv /\ (Start \/ Retry) => IInv'
<1> SUFFICES ASSUME IInv, Start \/ Retry PROVE IInv'
  OBVIOUS
<1>0. TypeOK /\ SessionShape /\ ClientShape /\ Atomic /\ Complete
  BY DEF IInv
<1>1. /\ pc = "task" \/ (pc = "returned" /\ tries <= LoopBreaker /\ (error # OK)
                           /\ (tries = 1 => error = Deadlock))
      /\ tries' = tries + 1 /\ k' = 1
      /\ IF size = 0 THEN pc' = "returned" /\ error' = Empty ELSE pc' = "begin" /\ error' = OK
      /\ UNCHANGED <<size, async, called, handle, lost, lostAt, losses, inTx, tentative, durable>>
  BY <1>0 DEF Start, Retry, Again, ExecuteTransaction, Try, faults, session, OK, Deadlock
<1>2. Once' = Once
  BY <1>1 DEF Once
<1>3. TypeOK'
  <2>1. tries' \in 0 .. LoopBreaker + 1
    BY <1>0, <1>1 DEF TypeOK, ClientShape, LoopBreaker
  <2>2. k' \in 1 .. MaxSize + 1
    BY <1>1, SizeAssumption
  <2> QED
    BY <1>0, <1>1, <2>1, <2>2 DEF TypeOK
<1>4. SessionShape'
  BY <1>0, <1>1 DEF SessionShape, TypeOK
<1>5. ClientShape'
  BY <1>0, <1>1 DEF ClientShape, TypeOK, Success, Empty, OK, Deadlock
<1>6. Atomic'
  BY <1>0, <1>1, <1>2 DEF Atomic, Empty, OK
<1>7. Complete'
  BY <1>0, <1>1, <1>2 DEF Complete, Empty, OK
<1> QED
  BY <1>3, <1>4, <1>5, <1>6, <1>7 DEF IInv

LEMMA BeginTransactionInv == IInv /\ BeginTransaction => IInv'
<1> SUFFICES ASSUME IInv, BeginTransaction PROVE IInv'
  OBVIOUS
<1>0. TypeOK /\ SessionShape /\ ClientShape /\ Atomic /\ Complete
  BY DEF IInv
<1>1. /\ pc = "begin" /\ pc' = "statement"
      /\ \/ handle = "open" /\ ~lost /\ ServerBegins
         \/ handle = "null" /\ UNCHANGED <<inTx, tentative, durable>>
      /\ UNCHANGED <<size, async, called, handle, tries, k, error, lost, lostAt, losses>>
  BY <1>0 DEF BeginTransaction, Sends, NoHandle, Continue, client, faults, session
<1>2. /\ handle = "null" => UNCHANGED <<inTx, tentative, durable>>
      /\ handle = "open" => inTx' = TRUE /\ ~lost
      /\ tentative' = Nothing /\ durable' = durable
      /\ tentative' \in [Statements -> Nat] /\ inTx' \in BOOLEAN
  <2>1. ~inTx /\ tentative = Nothing /\ durable \in [Statements -> Nat] /\ inTx \in BOOLEAN
    BY <1>0, <1>1 DEF SessionShape, TypeOK
  <2> QED
    BY <1>1, <2>1, Effects DEF ServerBegins
<1>3. Once' = Once
  BY <1>1 DEF Once
<1>4. TypeOK'
  BY <1>0, <1>1, <1>2 DEF TypeOK
<1>5. SessionShape'
  BY <1>0, <1>1, <1>2 DEF SessionShape
<1>6. ClientShape'
  BY <1>0, <1>1 DEF ClientShape, TypeOK, Success
<1>7. Atomic'
  <2>1. Upto(1) = Nothing
    BY <1>0, Prefixes
  <2>2. k = 1 /\ k' = 1 /\ ("statement" \notin lostAt => durable = Nothing)
    BY <1>0, <1>1 DEF ClientShape, Atomic
  <2> QED
    BY <1>1, <1>2, <1>3, <2>1, <2>2 DEF Atomic
<1>8. Complete'
  BY <1>0, <1>1, <1>3 DEF Complete
<1> QED
  BY <1>4, <1>5, <1>6, <1>7, <1>8 DEF IInv

LEMMA ExecuteStatementInv == IInv /\ ExecuteStatement => IInv'
<1> SUFFICES ASSUME IInv, ExecuteStatement PROVE IInv'
  OBVIOUS
<1>0. TypeOK /\ SessionShape /\ ClientShape /\ Atomic /\ Complete
  BY DEF IInv
<1>1. /\ pc = "statement" /\ handle = "open" /\ ~lost /\ ServerExecutes
      /\ IF k < size THEN k' = k + 1 /\ pc' = pc ELSE pc' = "commit" /\ k' = k
      /\ UNCHANGED <<size, async, called, handle, tries, error, lost, lostAt, losses>>
  BY <1>0 DEF ExecuteStatement, Sends, client, faults
<1>2. /\ k \in Statements /\ k \in Int /\ size \in Int /\ k <= size /\ size <= MaxSize /\ k >= 1
      /\ inTx' = inTx /\ (~inTx => tentative' = tentative)
      /\ tentative' \in [Statements -> Nat] /\ durable' \in [Statements -> Nat]
      /\ pc' = "commit" => k = size
  <2>1. /\ k \in Int /\ k >= 1 /\ size \in Int /\ size <= MaxSize /\ k <= size
        /\ tentative \in [Statements -> Nat] /\ durable \in [Statements -> Nat]
    BY <1>0, <1>1, SizeAssumption DEF TypeOK, ClientShape
  <2>2. k \in Statements
    BY <2>1, SizeAssumption DEF Statements
  <2> QED
    BY <1>1, <2>1, <2>2 DEF ServerExecutes
<1>3. ServerExecutes
  BY <1>1
<1>4. Once' = Once
  BY <1>1 DEF Once
<1>5. TypeOK'
  BY <1>0, <1>1, <1>2, SizeAssumption DEF TypeOK
<1>6. SessionShape'
  BY <1>0, <1>1, <1>2 DEF SessionShape
<1>7. ClientShape'
  BY <1>0, <1>1, <1>2 DEF ClientShape, Success
<1>8. Atomic'
  <2> SUFFICES ASSUME "statement" \notin lostAt PROVE Atomic'
    BY <1>1 DEF Atomic
  <2>1. inTx /\ tentative = Upto(k) /\ durable = Nothing
    BY <1>0, <1>1 DEF Atomic
  <2>2. tentative' = Upto(k + 1) /\ durable' = Nothing /\ inTx' = inTx
    BY <1>0, <1>2, <1>3, <2>1, Prefixes DEF ServerExecutes
  <2>3. pc' = "commit" => tentative' = Once
    BY <1>0, <1>1, <1>2, <2>2, Prefixes
  <2>4. pc' = "statement" => k' = k + 1
    BY <1>1
  <2> QED
    BY <1>1, <1>2, <1>4, <2>1, <2>2, <2>3, <2>4 DEF Atomic
<1>9. Complete'
  <2> SUFFICES ASSUME "statement" \notin lostAt PROVE Complete'
    BY <1>1 DEF Complete
  <2>1. inTx
    BY <1>0, <1>1 DEF Atomic
  <2> QED
    BY <1>1, <1>3, <2>1 DEF Complete, ServerExecutes
<1> QED
  BY <1>5, <1>6, <1>7, <1>8, <1>9 DEF IInv

LEMMA StatementErrorInv == IInv /\ (StatementDeadlocks \/ StatementFails \/ StatementUnsent) => IInv'
<1> SUFFICES ASSUME IInv, StatementDeadlocks \/ StatementFails \/ StatementUnsent PROVE IInv'
  OBVIOUS
<1>0. TypeOK /\ SessionShape /\ ClientShape /\ Atomic /\ Complete
  BY DEF IInv
<1>1. /\ pc = "statement" /\ pc' = "rollback" /\ durable' = durable
      /\ \/ UNCHANGED <<inTx, tentative>>
         \/ handle = "open" /\ ~lost /\ inTx' = FALSE /\ tentative' = Nothing
      /\ error' \in {OK, Deadlock, OtherError} /\ (handle = "open" => error' # OK /\ ~lost)
      /\ UNCHANGED <<size, async, called, handle, tries, k, lost, lostAt, losses>>
  BY <1>0 DEF StatementDeadlocks, StatementFails, StatementUnsent, Sends, NoHandle, ServerRollsBack, Fail, client, faults, session,
      OK, Deadlock, OtherError
<1>2. Once' = Once
  BY <1>1 DEF Once
<1>3. Empty \notin {OK, Deadlock, OtherError}
  BY DEF Empty, OK, Deadlock, OtherError
<1>4. TypeOK'
  BY <1>0, <1>1, Effects DEF TypeOK
<1>5. SessionShape'
  BY <1>0, <1>1 DEF SessionShape
<1>6. ClientShape'
  BY <1>0, <1>1, <1>3 DEF ClientShape, Success
<1>7. Atomic'
  BY <1>0, <1>1, <1>2 DEF Atomic
<1>8. Complete'
  BY <1>0, <1>1, <1>2 DEF Complete
<1> QED
  BY <1>4, <1>5, <1>6, <1>7, <1>8 DEF IInv

LEMMA StatementAbortsInv == IInv /\ StatementAborts => IInv'
<1> SUFFICES ASSUME IInv, StatementAborts PROVE IInv'
  OBVIOUS
<1>0. TypeOK /\ SessionShape /\ ClientShape /\ Atomic /\ Complete
  BY DEF IInv
<1>1. /\ pc = "statement" /\ pc' = "aborted" /\ handle = "open" /\ ~lost
      /\ inTx' = FALSE /\ tentative' = Nothing /\ durable' = durable
      /\ UNCHANGED <<size, async, called, handle, tries, k, error, lost, lostAt, losses>>
  BY <1>0 DEF StatementAborts, Sends, ServerRollsBack, client, faults
<1>2. Once' = Once
  BY <1>1 DEF Once
<1>3. TypeOK'
  BY <1>0, <1>1, Effects DEF TypeOK
<1>4. SessionShape'
  BY <1>0, <1>1 DEF SessionShape
<1>5. ClientShape'
  BY <1>0, <1>1 DEF ClientShape, Success
<1>6. Atomic'
  BY <1>0, <1>1, <1>2 DEF Atomic
<1>7. Complete'
  BY <1>0, <1>1, <1>2 DEF Complete
<1> QED
  BY <1>3, <1>4, <1>5, <1>6, <1>7 DEF IInv

LEMMA RollbackTransactionInv == IInv /\ RollbackTransaction => IInv'
<1> SUFFICES ASSUME IInv, RollbackTransaction PROVE IInv'
  OBVIOUS
<1>0. TypeOK /\ SessionShape /\ ClientShape /\ Atomic /\ Complete
  BY DEF IInv
<1>1. /\ pc = "rollback" /\ pc' = "returned" /\ ~lost
      /\ ~inTx' /\ (inTx' = FALSE \/ inTx' = inTx) /\ tentative' = Nothing /\ durable' = durable
      /\ UNCHANGED <<size, async, called, handle, tries, k, error, lost, lostAt, losses>>
  BY <1>0 DEF RollbackTransaction, Sends, NoHandle, ServerRollsBack, Continue, client, faults, session, SessionShape
<1>2. Once' = Once
  BY <1>1 DEF Once
<1>3. size > 0 /\ size # 0 /\ (handle = "open" => error # OK)
  BY <1>0, <1>1 DEF TypeOK, ClientShape
<1>4. TypeOK'
  BY <1>0, <1>1, Effects DEF TypeOK
<1>5. SessionShape'
  BY <1>0, <1>1 DEF SessionShape
<1>6. ClientShape'
  BY <1>0, <1>1, <1>3 DEF ClientShape, Success
<1>7. Atomic'
  BY <1>0, <1>1, <1>2 DEF Atomic
<1>8. Complete'
  BY <1>0, <1>1, <1>2, <1>3 DEF Complete, ClientShape
<1> QED
  BY <1>4, <1>5, <1>6, <1>7, <1>8 DEF IInv

LEMMA CommitTransactionInv == IInv /\ (CommitTransaction \/ CommitUnsent) => IInv'
<1> SUFFICES ASSUME IInv, CommitTransaction \/ CommitUnsent PROVE IInv'
  OBVIOUS
<1>0. TypeOK /\ SessionShape /\ ClientShape /\ Atomic /\ Complete
  BY DEF IInv
<1>1. /\ pc = "commit" /\ pc' = "returned"
      /\ \/ handle = "open" /\ ~lost /\ ServerCommits
         \/ handle = "null" /\ UNCHANGED <<inTx, tentative, durable>>
      /\ UNCHANGED <<size, async, called, handle, tries, k, error, lost, lostAt, losses>>
  BY <1>0 DEF CommitTransaction, CommitUnsent, Sends, NoHandle, Continue, client, faults, session
<1>2. /\ inTx' = FALSE /\ tentative' = Nothing
      /\ tentative' \in [Statements -> Nat] /\ durable' \in [Statements -> Nat]
      /\ inTx => durable' = Added(durable, tentative)
      /\ ~inTx => durable' = durable
  <2>1. /\ durable \in [Statements -> Nat] /\ tentative \in [Statements -> Nat] /\ inTx \in BOOLEAN
        /\ handle = "null" => ~inTx
        /\ ~inTx => tentative = Nothing
    BY <1>0 DEF SessionShape, TypeOK
  <2> QED
    BY <1>1, <2>1, Effects DEF ServerCommits
<1>3. Once' = Once
  BY <1>1 DEF Once
<1>4. TypeOK'
  BY <1>0, <1>1, <1>2 DEF TypeOK
<1>5. SessionShape'
  BY <1>0, <1>1, <1>2 DEF SessionShape
<1>6. ClientShape'
  BY <1>0, <1>1 DEF ClientShape, TypeOK, Success
<1>7. Atomic'
  <2> SUFFICES ASSUME "statement" \notin lostAt PROVE Atomic'
    BY <1>1 DEF Atomic
  <2>1. /\ durable \in [Statements -> Nat] /\ durable \in {Nothing, Once} /\ error = OK
        /\ inTx => tentative = Once /\ durable = Nothing
    BY <1>0, <1>1 DEF TypeOK, Atomic, ClientShape
  <2>2. durable' \in {Nothing, Once}
    BY <1>2, <2>1, Effects
  <2> QED
    BY <1>1, <1>3, <2>1, <2>2 DEF Atomic
<1>8. Complete'
  BY <1>0, <1>1, <1>2, <1>3, Effects DEF Complete, Atomic
<1> QED
  BY <1>4, <1>5, <1>6, <1>7, <1>8 DEF IInv

LEMMA FinishInv == IInv /\ Finish => IInv'
<1> SUFFICES ASSUME IInv, Finish PROVE IInv'
  OBVIOUS
<1>0. TypeOK /\ SessionShape /\ ClientShape /\ Atomic /\ Complete
  BY DEF IInv
<1>1. /\ pc = "returned" /\ ~Again /\ pc' = "done"
      /\ called' = IF async /\ Success THEN called + 1 ELSE called
      /\ UNCHANGED <<size, async, handle, tries, k, error, lost, lostAt, losses>>
      /\ UNCHANGED <<inTx, tentative, durable>>
  BY <1>0 DEF Finish, faults, session
<1>2. Once' = Once
  BY <1>1 DEF Once
<1>3. called = 0
  BY <1>0, <1>1 DEF ClientShape
<1>4. TypeOK'
  BY <1>0, <1>1, <1>3 DEF TypeOK
<1>5. SessionShape'
  BY <1>0, <1>1 DEF SessionShape, TypeOK
<1>6. ClientShape'
  BY <1>0, <1>1, <1>3 DEF ClientShape, Success
<1>7. Atomic'
  BY <1>0, <1>1, <1>2 DEF Atomic
<1>8. Complete'
  BY <1>0, <1>1, <1>2 DEF Complete
<1> QED
  BY <1>4, <1>5, <1>6, <1>7, <1>8 DEF IInv

LEMMA Inductive == IInv /\ [Next]_vars => IInv'
<1> SUFFICES ASSUME IInv, [Next]_vars PROVE IInv'
  OBVIOUS
<1>1. CASE UNCHANGED vars
  BY <1>1 DEF IInv, vars, client, faults, session, TypeOK, SessionShape, ClientShape, Atomic,
     Complete, Success, Once, Nothing, Upto
<1>2. CASE LoseConnection
  BY <1>2, LoseConnectionInv
<1>3. CASE Start \/ Retry
  BY <1>3, ExecuteInv
<1>4. CASE BeginTransaction
  BY <1>4, BeginTransactionInv
<1>5. CASE ExecuteStatement
  BY <1>5, ExecuteStatementInv
<1>6. CASE StatementDeadlocks \/ StatementFails \/ StatementUnsent
  BY <1>6, StatementErrorInv
<1>7. CASE StatementAborts
  BY <1>7, StatementAbortsInv
<1>8. CASE RollbackTransaction
  BY <1>8, RollbackTransactionInv
<1>9. CASE CommitTransaction \/ CommitUnsent
  BY <1>9, CommitTransactionInv
<1>10. CASE Reconnect
  BY <1>10, ReconnectInv
<1>11. CASE FailToReconnect
  BY <1>11, FailToReconnectInv
<1>12. CASE Finish
  BY <1>12, FinishInv
<1> QED
  BY <1>1, <1>2, <1>3, <1>4, <1>5, <1>6, <1>7, <1>8, <1>9, <1>10, <1>11, <1>12 DEF Next, Worker

LEMMA Invariance == Spec => []IInv
<1>1. Init => IInv
  BY InitInv
<1>2. IInv /\ [Next]_vars => IInv'
  BY Inductive
<1> QED
  BY <1>1, <1>2, PTL DEF Spec

-----------------------------------------------------------------------------
(* The theorems.                                                           *)

(***************************************************************************)
(* TypeOK holds: a transaction is executed at most LoopBreaker + 1 times   *)
(* and its callback runs at most once.                                     *)
(***************************************************************************)
THEOREM TypeCorrect == Spec => []TypeOK
<1>1. IInv => TypeOK
  BY DEF IInv
<1> QED
  BY <1>1, Invariance, PTL

(***************************************************************************)
(* AllOrNothing holds for transactions of any size: deadlocks, errors,     *)
(* retries and connections lost at START TRANSACTION, ROLLBACK or COMMIT   *)
(* never leave a part of a transaction in the database.                    *)
(***************************************************************************)
THEOREM AtomicityHolds == Spec => []AllOrNothing
<1>1. IInv => AllOrNothing
  BY DEF IInv, Atomic, AllOrNothing
<1> QED
  BY <1>1, Invariance, PTL

(***************************************************************************)
(* CalledIffDurable holds: what TransactionTask::Execute makes of          *)
(* errorCode agrees with what the database holds.                          *)
(***************************************************************************)
THEOREM ReportCorrect == Spec => []CalledIffDurable
<1>1. IInv => CalledIffDurable
  <2> SUFFICES ASSUME IInv, pc = "done", async, handle = "open",
                      lostAt \cap {"statement", "commit"} = {}
               PROVE  called = 1 <=> durable = Once
    BY DEF CalledIffDurable
  <2>1. /\ called = 1 <=> Success
        /\ error = OK => durable = Once
        /\ error # OK => durable = Nothing
        /\ error = Empty => size = 0 /\ tries = 1
        /\ size = 0 => error = Empty
        /\ size > 0 <=> Once # Nothing
    BY SomeEffect DEF IInv, ClientShape, Atomic, Complete
  <2>2. size = 0 \/ size > 0
    BY DEF IInv, TypeOK
  <2>3. CASE error = OK
    BY <2>1, <2>3 DEF Success
  <2>4. CASE error # OK /\ size = 0
    BY <2>1, <2>4 DEF Success
  <2>5. CASE error # OK /\ size > 0
    BY <2>1, <2>5 DEF Success
  <2> QED
    BY <2>2, <2>3, <2>4, <2>5
<1> QED
  BY <1>1, Invariance, PTL

(***************************************************************************)
(* SessionLeftClean holds: no operation finds the transaction of an        *)
(* earlier one open on its connection.                                     *)
(***************************************************************************)
THEOREM SessionClean == Spec => []SessionLeftClean
<1>1. IInv => SessionLeftClean
  BY DEF IInv, SessionShape, SessionLeftClean
<1> QED
  BY <1>1, Invariance, PTL
-----------------------------------------------------------------------------
(* The length of a transaction.                                            *)

\* Steps the execution under way can still take while no connection is lost.
Stage ==
  CASE pc = "begin"                  -> size + 3
    [] pc = "statement"              -> (size - k) + 3
    [] pc \in {"rollback", "commit"} -> 2
    [] pc = "returned"               -> 1
    [] OTHER                         -> 0

\* Steps of all executions that LoopBreaker leaves, the one under way, and
\* the losses: a connection is lost in one step and tried again in another.
Executions == (LoopBreaker + 1 - tries) * (size + 4)
Losses == 2 * (MaxLosses - losses) + (IF lost THEN 1 ELSE 0)
Remaining == Executions + Stage + Losses

Longest == (LoopBreaker + 1) * (size + 4) + 2 * MaxLosses

\* Neither of the three is ever negative.
LEMMA RemainingType == IInv => Executions \in Nat /\ Stage \in Nat /\ Losses \in Nat
<1> SUFFICES ASSUME IInv PROVE Executions \in Nat /\ Stage \in Nat /\ Losses \in Nat
  OBVIOUS
<1>1. TypeOK /\ (pc = "statement" => k <= size)
  BY DEF IInv, ClientShape
<1>2. size \in Nat /\ k \in Nat /\ tries \in 0 .. LoopBreaker + 1 /\ losses \in 0 .. MaxLosses
  BY <1>1, SizeAssumption DEF TypeOK
<1>3. Stage \in Nat
  BY <1>1, <1>2 DEF Stage
<1>4. Losses \in Nat
  BY <1>2, LossAssumption DEF Losses
<1>5. ASSUME NEW a \in Nat, NEW b \in Nat PROVE a * b \in Nat
  OBVIOUS
<1>6. LoopBreaker + 1 - tries \in Nat /\ size + 4 \in Nat
  BY <1>2 DEF LoopBreaker
<1>7. Executions \in Nat
  BY <1>5, <1>6 DEF Executions
<1> QED
  BY <1>3, <1>4, <1>7

\* One execution less.
LEMMA ExecutionsFall ==
  ASSUME IInv, tries' = tries + 1, size' = size
  PROVE  Executions' = Executions - (size + 4)
<1>1. size \in Nat /\ tries \in Nat
  BY SizeAssumption DEF IInv, TypeOK, LoopBreaker
<1>2. ASSUME NEW a \in Nat, NEW b \in Nat
      PROVE  (5 + 1 - (a + 1)) * b = (5 + 1 - a) * b - b
  OBVIOUS
<1>3. size + 4 \in Nat
  BY <1>1
<1> QED
  BY <1>1, <1>2, <1>3 DEF Executions, LoopBreaker

\* A sum falls when one term does, or grows by less than another falls.
LEMMA SumFalls ==
  \A a, b, c, y, d \in Int : y < b + d => (a - d) + y + c < a + b + c
OBVIOUS

LEMMA TermFalls == \A a, b, c, y \in Int : y < b => a + y + c < a + b + c
OBVIOUS

LEMMA WorkerShortens == IInv /\ Worker => Remaining' < Remaining /\ size' = size
<1> SUFFICES ASSUME IInv, Worker PROVE Remaining' < Remaining /\ size' = size
  OBVIOUS
<1>0. TypeOK /\ ClientShape
  BY DEF IInv
<1>1. /\ size \in Nat /\ k \in Nat /\ losses \in 0 .. MaxLosses /\ lost \in BOOLEAN
      /\ pc = "statement" => k <= size
      /\ pc = "begin" => k = 1
      /\ Executions \in Nat /\ Stage \in Nat /\ Losses \in Nat
  BY <1>0, RemainingType, SizeAssumption DEF TypeOK, ClientShape
<1>2. CASE Start \/ Retry
  <2>1. /\ tries' = tries + 1 /\ size' = size /\ UNCHANGED <<lost, losses>>
        /\ pc \in {"task", "returned"} /\ k' = 1
        /\ (size = 0 /\ pc' = "returned") \/ (size # 0 /\ pc' = "begin")
    BY <1>2 DEF Start, Retry, Again, ExecuteTransaction, Try, faults
  <2>2. Executions' = Executions - (size + 4)
    BY <2>1, ExecutionsFall
  <2>3. Stage' <= size + 3
    BY <1>1, <2>1 DEF Stage
  <2>4. Losses' = Losses
    BY <2>1 DEF Losses
  <2>5. Stage' \in Nat
    BY <1>1, <2>1 DEF Stage
  <2>6. Executions' + Stage' + Losses' < Executions + Stage + Losses
    <3>1. Stage' < Stage + (size + 4)
      BY <1>1, <2>3, <2>5
    <3>2. /\ size + 4 \in Int /\ Executions \in Int /\ Stage \in Int /\ Losses \in Int
          /\ Stage' \in Int
      BY <1>1, <2>5
    <3> QED
      BY <2>2, <2>4, <3>1, <3>2, SumFalls, Zenon
  <2> QED
    BY <2>1, <2>6 DEF Remaining
<1>3. CASE \/ BeginTransaction \/ ExecuteStatement \/ StatementDeadlocks \/ StatementFails
           \/ StatementUnsent \/ StatementAborts \/ RollbackTransaction \/ CommitTransaction
           \/ CommitUnsent \/ Finish
  <2>1. UNCHANGED <<size, tries, lost, losses>>
    BY <1>3 DEF BeginTransaction, ExecuteStatement, StatementDeadlocks, StatementFails,
       StatementUnsent, StatementAborts, RollbackTransaction, CommitTransaction,
       CommitUnsent, Finish, Fail, Continue, client, faults
  <2>2. Executions' = Executions /\ Losses' = Losses
    BY <2>1 DEF Executions, Losses
  <2>3. Stage' \in Nat /\ Stage' < Stage
    <3>1. CASE BeginTransaction
      <4>1. pc = "begin" /\ pc' = "statement" /\ k' = 1 /\ k = 1
        BY <1>1, <3>1 DEF BeginTransaction, Sends, NoHandle, Continue
      <4>2. size > 0
        BY <1>0, <1>1, <4>1 DEF ClientShape
      <4> QED
        BY <1>1, <2>1, <4>1, <4>2 DEF Stage
    <3>2. CASE ExecuteStatement
      <4>1. /\ pc = "statement" /\ k <= size
            /\ \/ k < size /\ k' = k + 1 /\ pc' = pc
               \/ pc' = "commit" /\ k' = k
        BY <1>1, <3>2 DEF ExecuteStatement, Sends
      <4> QED
        BY <1>1, <2>1, <4>1 DEF Stage
    <3>3. CASE StatementDeadlocks \/ StatementFails \/ StatementUnsent \/ StatementAborts
      <4>1. pc = "statement" /\ k <= size /\ pc' \in {"rollback", "aborted"}
        BY <1>1, <3>3 DEF StatementDeadlocks, StatementFails, StatementUnsent, StatementAborts,
           Sends, NoHandle, Fail
      <4> QED
        BY <1>1, <2>1, <4>1 DEF Stage
    <3>4. CASE RollbackTransaction \/ CommitTransaction \/ CommitUnsent
      <4>1. pc \in {"rollback", "commit"} /\ pc' = "returned"
        BY <3>4 DEF RollbackTransaction, CommitTransaction, CommitUnsent, Sends, NoHandle,
           Continue
      <4> QED
        BY <4>1 DEF Stage
    <3>5. CASE Finish
      BY <3>5 DEF Finish, Stage
    <3> QED
      BY <1>3, <3>1, <3>2, <3>3, <3>4, <3>5
  <2>4. Executions' + Stage' + Losses' < Executions + Stage + Losses
    <3>1. Executions \in Int /\ Stage \in Int /\ Losses \in Int /\ Stage' \in Int
      BY <1>1, <2>3
    <3> QED
      BY <2>2, <2>3, <3>1, TermFalls, Zenon
  <2> QED
    BY <2>1, <2>4 DEF Remaining
<1>4. CASE Reconnect \/ FailToReconnect
  <2>1. UNCHANGED <<size, tries, k, pc, losses>> /\ lost /\ lost' = FALSE
    BY <1>4 DEF Reconnect, FailToReconnect, client
  <2>2. Executions' = Executions /\ Stage' = Stage
    BY <2>1 DEF Executions, Stage
  <2>3. Losses' = Losses - 1
    BY <1>1, <2>1, LossAssumption DEF Losses
  <2> QED
    BY <1>1, <2>1, <2>2, <2>3 DEF Remaining
<1> QED
  BY <1>2, <1>3, <1>4 DEF Worker

LEMMA LossShortens == IInv /\ LoseConnection => Remaining' < Remaining /\ size' = size
<1> SUFFICES ASSUME IInv, LoseConnection PROVE Remaining' < Remaining /\ size' = size
  OBVIOUS
<1>1. /\ UNCHANGED <<size, tries, k, pc>> /\ ~lost /\ lost' = TRUE /\ losses' = losses + 1
  BY DEF LoseConnection, Sends, client
<1>2. losses \in 0 .. MaxLosses /\ Executions \in Nat /\ Stage \in Nat /\ Losses \in Nat
  BY RemainingType DEF IInv, TypeOK
<1>3. Executions' = Executions /\ Stage' = Stage
  BY <1>1 DEF Executions, Stage
<1>4. Losses' = Losses - 1
  BY <1>1, <1>2, LossAssumption DEF Losses
<1> QED
  BY <1>1, <1>2, <1>3, <1>4 DEF Remaining

(***************************************************************************)
(* Every step brings the end nearer: a transaction of n statements and at  *)
(* most l lost connections takes at most 6 (n + 4) + 2 l steps, whatever   *)
(* the server answers.  LoopBreaker bounds it, and the connections lost;   *)
(* so TransactionEnds needs no more than that the thread goes on.          *)
(***************************************************************************)
THEOREM EveryStepShortens ==
  Spec => /\ [](Remaining \in 0 .. Longest)
          /\ [][Remaining' < Remaining]_vars
<1> DEFINE Bounded == Remaining <= Longest
<1>1. IInv => Remaining \in Nat /\ Longest \in Int
  <2> SUFFICES ASSUME IInv PROVE Remaining \in Nat /\ Longest \in Int
    OBVIOUS
  <2>1. Remaining \in Nat
    BY RemainingType DEF Remaining
  <2>2. size \in Nat
    BY SizeAssumption DEF IInv, TypeOK
  <2> QED
    BY <2>1, <2>2, LossAssumption DEF Longest, LoopBreaker
<1>2. Init => Bounded
  <2> SUFFICES ASSUME Init PROVE Bounded
    OBVIOUS
  <2>1. /\ Executions = (LoopBreaker + 1) * (size + 4) /\ Stage = 0 /\ Losses = 2 * MaxLosses
    BY LossAssumption DEF Init, Executions, Stage, Losses, LoopBreaker
  <2>2. Executions \in Nat /\ Stage \in Nat /\ Losses \in Nat
    BY InitInv, RemainingType
  <2>3. Executions + Stage + Losses <= (LoopBreaker + 1) * (size + 4) + 2 * MaxLosses
    BY <2>1, <2>2
  <2> QED
    BY <2>3 DEF Remaining, Longest
<1>3. IInv /\ [Next]_vars => [Remaining' < Remaining]_vars /\ UNCHANGED size
  <2>1. IInv /\ Next => Remaining' < Remaining /\ size' = size
    BY WorkerShortens, LossShortens DEF Next
  <2>2. UNCHANGED vars => size' = size
    BY DEF vars, client
  <2> QED
    BY <2>1, <2>2
<1>4. /\ Remaining \in Nat /\ Longest \in Int /\ (Remaining \in Nat /\ Longest \in Int)'
      /\ Bounded /\ UNCHANGED size /\ [Remaining' < Remaining]_vars
      => Bounded'
  <2> SUFFICES ASSUME Remaining \in Nat, Longest \in Int, Remaining' \in Nat, Bounded, size' = size,
                      [Remaining' < Remaining]_vars
               PROVE  Bounded'
    OBVIOUS
  <2>1. Longest' = Longest
    BY DEF Longest
  <2>2. Remaining' = Remaining \/ Remaining' < Remaining
    BY DEF vars, client, faults, Remaining, Executions, Stage, Losses
  <2>3. Remaining' <= Longest
    BY <2>2
  <2> QED
    BY <2>1, <2>3
<1>5. Remaining \in Nat /\ Longest \in Int /\ Bounded => Remaining \in 0 .. Longest
  OBVIOUS
<1> QED
  BY <1>1, <1>2, <1>3, <1>4, <1>5, Invariance, PTL DEF Spec
=============================================================================
