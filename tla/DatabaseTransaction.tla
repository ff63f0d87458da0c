------------------------ MODULE DatabaseTransaction ------------------------
(***************************************************************************)
(* One SQLTransaction executed by one MySQLConnection: TransactionTask on  *)
(* an asynchronous connection or DirectCommitTransaction on a synchronous  *)
(* one, with the session it has on the server, deadlocks, other errors,    *)
(* lost connections, and the reconnection inside Execute.                  *)
(*                                                                         *)
(* The server is external.  Its session runs in autocommit mode unless a   *)
(* transaction is open; a deadlock rolls the whole transaction back, any   *)
(* other error the statement alone, and the end of the session what was    *)
(* not committed.                                                          *)
(***************************************************************************)
EXTENDS Integers

CONSTANTS
  MaxSize,    \* bound on the statements of the transaction
  MaxLosses   \* bound on the connections lost

ASSUME SizeAssumption == MaxSize \in Nat
ASSUME LossAssumption == MaxLosses \in Nat

Statements == 1 .. MaxSize

\* The values of errorCode: no error, an empty transaction, ER_LOCK_DEADLOCK
\* and the rest.
OK == 0
Empty == -1
Deadlock == 1213
OtherError == 1

LoopBreaker == 5

VARIABLES
  size,      \* number of m_queries
  async,     \* committed with CommitTransaction
  pc,        \* the command under way
  k,         \* the statement under way
  error,     \* errorCode
  tries,     \* executions begun
  called,    \* how often m_Callback ran
  handle,    \* m_Mysql: "open" or "null"
  lost,      \* the connection is gone, Execute handles the error
  lostAt,    \* history: the commands at which connections were lost
  losses,    \* how many
  inTx,      \* server: a transaction is open
  tentative, \* server: effects of each statement in it
  durable    \* server: effects of each statement committed

client  == <<size, async, called, handle, tries>>
faults  == <<lost, lostAt, losses>>
session == <<inTx, tentative, durable>>
vars == <<client, pc, k, error, faults, session>>

Nothing == [i \in Statements |-> 0]
Once == [i \in Statements |-> IF i <= size THEN 1 ELSE 0]
Added(f, g) == [i \in Statements |-> f[i] + g[i]]

Init ==
  /\ size \in 0 .. MaxSize /\ async \in BOOLEAN
  /\ pc = "task" /\ k = 1 /\ error = OK /\ tries = 0 /\ called = 0
  /\ handle = "open" /\ lost = FALSE /\ lostAt = {} /\ losses = 0
  /\ inTx = FALSE /\ tentative = Nothing /\ durable = Nothing

-----------------------------------------------------------------------------
(* The server.                                                             *)

\* START TRANSACTION commits a transaction that is open.
ServerBegins ==
  /\ durable' = Added(durable, tentative)
  /\ inTx' = TRUE /\ tentative' = Nothing

ServerCommits ==
  /\ durable' = Added(durable, tentative)
  /\ inTx' = FALSE /\ tentative' = Nothing

ServerRollsBack ==
  /\ inTx' = FALSE /\ tentative' = Nothing /\ UNCHANGED durable

ServerExecutes ==
  IF inTx THEN /\ tentative' = [tentative EXCEPT ![k] = @ + 1]
               /\ UNCHANGED <<inTx, durable>>
  ELSE /\ durable' = [durable EXCEPT ![k] = @ + 1]
       /\ UNCHANGED <<inTx, tentative>>

\* The session ends, before or after the server did what it was sent.
SessionEnds ==
  \/ ServerRollsBack
  \/ pc = "commit" /\ ServerCommits
  \/ /\ pc = "statement" /\ ~inTx
     /\ durable' = [durable EXCEPT ![k] = @ + 1]
     /\ UNCHANGED <<inTx, tentative>>

-----------------------------------------------------------------------------
(* Execute.  A command is sent while the connection is there.              *)

Sends(c) == pc = c /\ handle = "open" /\ ~lost
NoHandle(c) == pc = c /\ handle = "null"

\* CR_SERVER_GONE_ERROR or CR_SERVER_LOST.
LoseConnection ==
  /\ \E c \in {"begin", "statement", "rollback", "commit"} : Sends(c)
  /\ losses < MaxLosses
  /\ lost' = TRUE /\ losses' = losses + 1 /\ lostAt' = lostAt \cup {pc}
  /\ SessionEnds
  /\ UNCHANGED <<client, pc, k, error>>

\* _HandleMySQLErrno opens a new session, and Execute calls itself ...
Reconnect ==
  /\ lost
  /\ lost' = FALSE
  /\ UNCHANGED <<client, pc, k, error, lostAt, losses, session>>

\* ... or mysql_real_connect fails, and so does Execute.
FailToReconnect ==
  /\ lost
  /\ lost' = FALSE /\ handle' = "null"
  /\ UNCHANGED <<size, async, called, tries, pc, k, error, lostAt, losses, session>>

-----------------------------------------------------------------------------
(* ExecuteTransaction.                                                     *)

\* Mutant: an attempt that is repeated is not counted.
TryOnce == tries' = 1
Try == tries' = tries + 1

ExecuteTransaction ==
  /\ Try
  /\ k' = 1
  /\ IF size = 0 THEN pc' = "returned" /\ error' = Empty
                 ELSE pc' = "begin" /\ error' = OK
  /\ UNCHANGED <<size, async, called, handle, faults, session>>

Continue(next) == pc' = next /\ UNCHANGED <<client, k, error, faults>>

\* Results of START TRANSACTION, ROLLBACK and COMMIT are ignored.
\* Mutant: START TRANSACTION is not sent.
BeginNothing ==
  \/ Sends("begin") /\ Continue("statement") /\ UNCHANGED session
  \/ NoHandle("begin") /\ Continue("statement") /\ UNCHANGED session
BeginTransaction ==
  \/ Sends("begin") /\ ServerBegins /\ Continue("statement")
  \/ NoHandle("begin") /\ Continue("statement") /\ UNCHANGED session

ExecuteStatement ==
  /\ Sends("statement")
  /\ ServerExecutes
  /\ IF k < size THEN k' = k + 1 /\ UNCHANGED pc
                 ELSE pc' = "commit" /\ UNCHANGED k
  /\ UNCHANGED <<client, error, faults>>

Fail(e) ==
  /\ error' = e /\ pc' = "rollback"
  /\ UNCHANGED <<client, k, faults>>

StatementDeadlocks == Sends("statement") /\ ServerRollsBack /\ Fail(Deadlock)
StatementFails == Sends("statement") /\ Fail(OtherError) /\ UNCHANGED session

\* GetLastError of no connection is 0.
StatementUnsent == NoHandle("statement") /\ Fail(OK) /\ UNCHANGED session

\* ER_BAD_FIELD_ERROR, ER_NO_SUCH_TABLE, ER_PARSE_ERROR: std::abort.
StatementAborts ==
  /\ Sends("statement")
  /\ pc' = "aborted"
  /\ ServerRollsBack
  /\ UNCHANGED <<client, k, error, faults>>

\* Mutant: the transaction is left open.
ForgetToRollback ==
  \/ Sends("rollback") /\ Continue("returned") /\ UNCHANGED session
  \/ NoHandle("rollback") /\ Continue("returned") /\ UNCHANGED session
RollbackTransaction ==
  \/ Sends("rollback") /\ ServerRollsBack /\ Continue("returned")
  \/ NoHandle("rollback") /\ Continue("returned") /\ UNCHANGED session

CommitTransaction ==
  /\ Sends("commit") /\ ServerCommits /\ Continue("returned")

CommitUnsent == NoHandle("commit") /\ Continue("returned") /\ UNCHANGED session

-----------------------------------------------------------------------------
(* TransactionTask::Execute and DirectCommitTransaction.                   *)

\* Once a deadlock was met any error is tried again.
\* Mutant: there is no loopBreaker.
AgainForever ==
  /\ pc = "returned"
  /\ IF tries = 1 THEN error = Deadlock ELSE error # OK
Again ==
  /\ pc = "returned" /\ tries <= LoopBreaker
  /\ IF tries = 1 THEN error = Deadlock ELSE error # OK

Start == pc = "task" /\ ExecuteTransaction
Retry == Again /\ ExecuteTransaction

\* Mutant: an error that is no deadlock is taken for success.
TriedIsSuccess == error # Deadlock
Success == error = OK \/ (tries = 1 /\ error = Empty)

Finish ==
  /\ pc = "returned" /\ ~Again
  /\ pc' = "done"
  /\ called' = IF async /\ Success THEN called + 1 ELSE called
  /\ UNCHANGED <<size, async, handle, tries, k, error, faults, session>>

-----------------------------------------------------------------------------
Worker ==
  \/ Start \/ Retry \/ Finish
  \/ BeginTransaction \/ ExecuteStatement \/ StatementDeadlocks
  \/ StatementFails \/ StatementUnsent \/ StatementAborts
  \/ RollbackTransaction \/ CommitTransaction \/ CommitUnsent
  \/ Reconnect \/ FailToReconnect

Next == Worker \/ LoseConnection

Spec == Init /\ [][Next]_vars

\* The thread runs, the server answers, and an attempt to connect ends.
FairSpec == Spec /\ WF_vars(Worker)

-----------------------------------------------------------------------------
(* Properties.                                                             *)

\* Types; the number of executions is bounded.
TypeOK ==
  /\ size \in 0 .. MaxSize /\ async \in BOOLEAN
  /\ pc \in {"task", "begin", "statement", "rollback", "commit", "returned",
             "done", "aborted"}
  /\ k \in 1 .. MaxSize + 1
  /\ error \in {OK, Empty, Deadlock, OtherError}
  /\ tries \in 0 .. LoopBreaker + 1 /\ called \in 0 .. 1
  /\ handle \in {"open", "null"} /\ lost \in BOOLEAN
  /\ lostAt \subseteq {"begin", "statement", "rollback", "commit"}
  /\ losses \in 0 .. MaxLosses
  /\ inTx \in BOOLEAN
  /\ tentative \in [Statements -> Nat] /\ durable \in [Statements -> Nat]

(***************************************************************************)
(* "Begins an automanaged transaction": whatever fails and however often   *)
(* it is tried, the database holds every statement once or none, unless a  *)
(* connection was lost at a statement: the rest is then executed outside   *)
(* any transaction.                                                        *)
(***************************************************************************)
AllOrNothing == "statement" \notin lostAt => durable \in {Nothing, Once}

(***************************************************************************)
(* The callback of an asynchronous transaction runs only when all of it is *)
(* in the database, and it runs whenever it is, unless a connection was    *)
(* lost at a statement or at the COMMIT, or could not be opened again.     *)
(***************************************************************************)
CalledIffDurable ==
  pc = "done" /\ async /\ handle = "open" /\ lostAt \cap {"statement", "commit"} = {} =>
    (called = 1 <=> durable = Once)

(***************************************************************************)
(* The connection serves other operations next: whatever happened, none of *)
(* them finds a transaction open that is not its own.                      *)
(***************************************************************************)
SessionLeftClean == pc = "done" => ~inTx /\ tentative = Nothing

(***************************************************************************)
(* A worker is not held for ever by deadlocks, errors or a server that     *)
(* does not come back: every transaction ends.                             *)
(***************************************************************************)
TransactionEnds == <>(pc \in {"done", "aborted"})

=============================================================================
