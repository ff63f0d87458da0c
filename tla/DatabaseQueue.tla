--------------------------- MODULE DatabaseQueue ---------------------------
(***************************************************************************)
(* The asynchronous half of a DatabaseWorkerPool: the shared               *)
(* ProducerConsumerQueue, one DatabaseWorker with a MySQLConnection of its *)
(* own per asynchronous connection, WaitExecution, and Close, which        *)
(* deletes the connections one after the other.                            *)
(*                                                                         *)
(* Operations are numbered in the order they are pushed.  Whatever the     *)
(* queue does it does under its lock, in one step.                         *)
(***************************************************************************)
EXTENDS Integers, FiniteSets, Sequences

CONSTANTS
  NumWorkers,  \* WorkerThreads of the configuration
  MaxOps       \* bound on the operations pushed

ASSUME QueueAssumption == NumWorkers \in Nat \ {0} /\ MaxOps \in Nat

Workers == 1 .. NumWorkers
Ops == 1 .. MaxOps
NoOp == 0

VARIABLES
  pushed,       \* number of operations pushed
  queue,        \* _queue
  taken,        \* number of operations popped by workers
  shutdown,     \* _shutdown
  phase,        \* where each worker is
  held,         \* the operation each worker has popped
  canceled,     \* _cancelationToken of each worker
  ran,          \* how often each operation has run
  handle,       \* m_Mysql of each connection is "open" or "freed"
  closer,       \* where Close is
  at,           \* the connection it deletes
  mark          \* in WaitExecution: operations pushed at the call, else 0

queueVars  == <<pushed, queue, taken, shutdown>>
workerVars == <<phase, held, ran>>
closeVars  == <<canceled, handle, closer, at>>
vars == <<queueVars, workerVars, closeVars, mark>>

Init ==
  /\ pushed = 0 /\ queue = <<>> /\ taken = 0 /\ shutdown = FALSE
  /\ phase = [w \in Workers |-> "looks"]
  /\ held = [w \in Workers |-> NoOp]
  /\ ran = [o \in Ops |-> 0]
  /\ canceled = [w \in Workers |-> FALSE]
  /\ handle = [w \in Workers |-> "open"]
  /\ closer = "no" /\ at = 1
  /\ mark = 0

-----------------------------------------------------------------------------
(* The condition variable.                                                 *)

Sleeping == {w \in Workers : phase[w] = "sleeps"}

\* Mutant: the notification is forgotten.
NotifyNobody == UNCHANGED phase
NotifyOne ==
  IF Sleeping = {} THEN UNCHANGED phase
  ELSE \E w \in Sleeping : phase' = [phase EXCEPT ![w] = "looks"]

NotifyAll == phase' = [w \in Workers |-> IF w \in Sleeping THEN "looks" ELSE phase[w]]

\* A condition variable may wake a thread for no reason.
WakeUp(w) ==
  /\ phase[w] = "sleeps"
  /\ phase' = [phase EXCEPT ![w] = "looks"]
  /\ UNCHANGED <<queueVars, held, ran, closeVars, mark>>

-----------------------------------------------------------------------------
(* Callers.  The pool is closed once every other thread has ended.         *)

\* Enqueue, for Execute, AsyncQuery, CommitTransaction and KeepAlive alike.
Push ==
  /\ closer = "no" /\ pushed < MaxOps
  /\ pushed' = pushed + 1
  /\ queue' = Append(queue, pushed + 1)
  /\ NotifyOne
  /\ UNCHANGED <<taken, shutdown, held, ran, closeVars, mark>>

WaitExecution ==
  /\ closer = "no" /\ mark = 0 /\ pushed > 0
  /\ mark' = pushed
  /\ UNCHANGED <<queueVars, workerVars, closeVars>>

\* The loop ends when it finds the queue empty.
\* Mutant: when it finds that an operation was taken.
ExecutionStarted ==
  /\ mark > 0 /\ taken > 0
  /\ mark' = 0
  /\ UNCHANGED <<queueVars, workerVars, closeVars>>
ExecutionWaited ==
  /\ mark > 0 /\ queue = <<>>
  /\ mark' = 0
  /\ UNCHANGED <<queueVars, workerVars, closeVars>>

-----------------------------------------------------------------------------
(* DatabaseWorker::WorkerThread of worker w.                               *)

\* WaitAndPop finds nothing and waits, ...
Sleep(w) ==
  /\ phase[w] = "looks" /\ queue = <<>> /\ ~shutdown
  /\ phase' = [phase EXCEPT ![w] = "sleeps"]
  /\ UNCHANGED <<queueVars, held, ran, closeVars, mark>>

\* ... returns without an operation ...
PopNothing(w) ==
  /\ phase[w] = "looks" /\ shutdown
  /\ phase' = [phase EXCEPT ![w] = "popped"]
  /\ UNCHANGED <<queueVars, held, ran, closeVars, mark>>

\* ... or pops one.
\* Mutant: the newest one.
PopNewest(w) ==
  /\ phase[w] = "looks" /\ queue # <<>> /\ ~shutdown
  /\ held' = [held EXCEPT ![w] = queue[Len(queue)]]
  /\ queue' = SubSeq(queue, 1, Len(queue) - 1)
  /\ taken' = taken + 1
  /\ phase' = [phase EXCEPT ![w] = "popped"]
  /\ UNCHANGED <<pushed, shutdown, ran, closeVars, mark>>
Pop(w) ==
  /\ phase[w] = "looks" /\ queue # <<>> /\ ~shutdown
  /\ held' = [held EXCEPT ![w] = Head(queue)]
  /\ queue' = Tail(queue)
  /\ taken' = taken + 1
  /\ phase' = [phase EXCEPT ![w] = "popped"]
  /\ UNCHANGED <<pushed, shutdown, ran, closeVars, mark>>

\* _cancelationToken || !operation ends the thread; an operation it holds is
\* neither run nor deleted.
\* Mutant: only the token is looked at.
StopsOnToken(w) == canceled[w]
Stops(w) == canceled[w] \/ held[w] = NoOp

Return(w) ==
  /\ phase[w] = "popped" /\ Stops(w)
  /\ phase' = [phase EXCEPT ![w] = "exited"]
  /\ UNCHANGED <<queueVars, held, ran, closeVars, mark>>

Call(w) ==
  /\ phase[w] = "popped" /\ ~Stops(w)
  /\ phase' = [phase EXCEPT ![w] = "runs"]
  /\ UNCHANGED <<queueVars, held, ran, closeVars, mark>>

\* The operation has run, with the connection or in vain, and is deleted.
Finish(w) ==
  /\ phase[w] = "runs"
  /\ ran' = [ran EXCEPT ![held[w]] = @ + 1]
  /\ held' = [held EXCEPT ![w] = NoOp]
  /\ phase' = [phase EXCEPT ![w] = "looks"]
  /\ UNCHANGED <<queueVars, closeVars, mark>>

-----------------------------------------------------------------------------
(* DatabaseWorkerPool::Close: MySQLConnection::~MySQLConnection and        *)
(* DatabaseWorker::~DatabaseWorker for each connection in turn.            *)

Close ==
  /\ closer = "no" /\ mark = 0
  /\ closer' = "free"
  /\ UNCHANGED <<queueVars, workerVars, canceled, handle, at, mark>>

\* The prepared statements are deleted and mysql_close called.
FreeConnection ==
  /\ closer = "free"
  /\ handle' = [handle EXCEPT ![at] = "freed"]
  /\ closer' = "token"
  /\ UNCHANGED <<queueVars, workerVars, canceled, at, mark>>

SetCancelationToken ==
  /\ closer = "token"
  /\ canceled' = [canceled EXCEPT ![at] = TRUE]
  /\ closer' = "cancel"
  /\ UNCHANGED <<queueVars, workerVars, handle, at, mark>>

\* ProducerConsumerQueue::Cancel deletes what is queued.
\* Mutant: it wakes one worker only.
CancelOne ==
  /\ closer = "cancel"
  /\ queue' = <<>> /\ shutdown' = TRUE
  /\ NotifyOne
  /\ closer' = "join"
  /\ UNCHANGED <<pushed, taken, held, ran, canceled, handle, at, mark>>
Cancel ==
  /\ closer = "cancel"
  /\ queue' = <<>> /\ shutdown' = TRUE
  /\ NotifyAll
  /\ closer' = "join"
  /\ UNCHANGED <<pushed, taken, held, ran, canceled, handle, at, mark>>

Join ==
  /\ closer = "join" /\ phase[at] = "exited"
  /\ IF at < NumWorkers THEN at' = at + 1 /\ closer' = "free"
                        ELSE closer' = "done" /\ UNCHANGED at
  /\ UNCHANGED <<queueVars, workerVars, canceled, handle, mark>>

-----------------------------------------------------------------------------
WorkerThread(w) == \/ Sleep(w) \/ PopNothing(w) \/ Pop(w)
                   \/ Return(w) \/ Call(w) \/ Finish(w)
Closing == FreeConnection \/ SetCancelationToken \/ Cancel \/ Join

Next ==
  \/ Push \/ WaitExecution \/ ExecutionWaited \/ Close \/ Closing
  \/ \E w \in Workers : WorkerThread(w) \/ WakeUp(w)

Spec == Init /\ [][Next]_vars

\* Threads are scheduled, and the server answers every operation.
Fairness == WF_vars(Closing) /\ \A w \in Workers : WF_vars(WorkerThread(w))

FairSpec == Spec /\ Fairness

-----------------------------------------------------------------------------
(* Properties.                                                             *)

\* Types; a worker that calls an operation has one.
TypeOK ==
  /\ pushed \in 0 .. MaxOps
  /\ queue \in Seq(Ops)
  /\ taken \in Nat
  /\ shutdown \in BOOLEAN
  /\ phase \in [Workers -> {"looks", "sleeps", "popped", "runs", "exited"}]
  /\ held \in [Workers -> Ops \cup {NoOp}]
  /\ canceled \in [Workers -> BOOLEAN]
  /\ ran \in [Ops -> Nat]
  /\ handle \in [Workers -> {"open", "freed"}]
  /\ closer \in {"no", "free", "token", "cancel", "join", "done"}
  /\ at \in Workers
  /\ mark \in 0 .. MaxOps
  /\ \A w \in Workers : phase[w] = "runs" => held[w] # NoOp

\* The pool, seen by its callers.
Service == INSTANCE OperationService
             WITH Limit <- NumWorkers, accepted <- pushed, begun <- taken,
                  open <- ~shutdown

(***************************************************************************)
(* Operations begin in the order they were pushed, each runs at most once, *)
(* an operation that runs has overtaken less than NumWorkers earlier ones, *)
(* and nothing begins once the queue is cancelled: the code that saves the *)
(* same rows twice relies on it.                                           *)
(***************************************************************************)
OrderedOnce == Service!Spec

(***************************************************************************)
(* When WaitExecution returns, every operation pushed before the call has  *)
(* been popped, and all but NumWorkers of them have run.                   *)
(***************************************************************************)
WaitedAreTaken ==
  [][mark > 0 /\ mark' = 0 =>
       /\ mark <= taken
       /\ Cardinality({o \in 1 .. mark : ran[o] = 0}) <= NumWorkers]_vars

(***************************************************************************)
(* While a worker sleeps, there is an awake one for every operation in the *)
(* queue, although Push notifies one worker at most and none may hear it;  *)
(* and nobody sleeps once the queue is cancelled.                          *)
(***************************************************************************)
NoLostWakeup ==
  /\ Sleeping # {} => Len(queue) <= Cardinality({w \in Workers : phase[w] = "looks"})
  /\ shutdown => Sleeping = {}

(***************************************************************************)
(* As long as the pool is not closed every operation runs: no notification *)
(* is lost between a worker's look at the queue and its sleep.             *)
(***************************************************************************)
EveryOperationRuns ==
  \A o \in Ops : pushed >= o ~> ran[o] > 0 \/ closer # "no"

(***************************************************************************)
(* Close ends: whatever the workers are doing, each finds out and can be   *)
(* joined.                                                                 *)
(***************************************************************************)
CloseEnds == closer # "no" ~> closer = "done"

(***************************************************************************)
(* MySQLConnection.cpp, Close: "Only close us if we're not operating".  So *)
(* a connection in use by its worker has not been freed.                   *)
(***************************************************************************)
InUseIsOpen == \A w \in Workers : phase[w] = "runs" => handle[w] = "open"

=============================================================================
