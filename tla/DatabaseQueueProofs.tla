------------------------- MODULE DatabaseQueueProofs -------------------------
(***************************************************************************)
(* Proofs about DatabaseQueue, for any number of workers and operations.   *)
(* The queue is the interval of the operations pushed and not taken, and   *)
(* the operations taken that have not run are those the workers hold.      *)
(***************************************************************************)
EXTENDS DatabaseQueue, FiniteSetTheorems, FunctionTheorems, SequenceTheorems, TLAPS

\* The queue holds taken + 1 .. pushed in order, until it is cancelled.
QueueIsRest ==
  /\ taken <= pushed
  /\ queue = IF shutdown THEN <<>> ELSE [i \in 1 .. pushed - taken |-> taken + i]

\* What a worker holds was taken, has not run, and is held by nobody else.
HeldIsUnfinished ==
  /\ \A w \in Workers : held[w] # NoOp => held[w] <= taken /\ ran[held[w]] = 0
  /\ \A w, v \in Workers : held[w] = held[v] /\ held[w] # NoOp => w = v
  /\ \A w \in Workers : phase[w] \in {"looks", "sleeps"} => held[w] = NoOp

\* What was taken and has not run is held; what was not taken has not run.
UnfinishedIsHeld ==
  /\ \A o \in Ops : o <= taken /\ ran[o] = 0 => \E w \in Workers : held[w] = o
  /\ \A o \in Ops : o > taken => ran[o] = 0

IInv ==
  /\ TypeOK
  /\ QueueIsRest /\ HeldIsUnfinished /\ UnfinishedIsHeld
  /\ shutdown => closer # "no"
  /\ mark <= pushed /\ (closer # "no" => mark = 0)

-----------------------------------------------------------------------------
LEMMA InitInv == Init => IInv
<1> SUFFICES ASSUME Init PROVE IInv
  OBVIOUS
<1> USE QueueAssumption DEF Init
<1>1. queue \in Seq(Ops) /\ queue = [i \in 1 .. 0 |-> i]
  OBVIOUS
<1>2. TypeOK
  <2>1. 1 \in Workers /\ pushed \in 0 .. MaxOps /\ mark \in 0 .. MaxOps
    BY DEF Workers
  <2>2. /\ phase \in [Workers -> {"looks", "sleeps", "popped", "runs", "exited"}]
        /\ held \in [Workers -> Ops \cup {NoOp}] /\ ran \in [Ops -> Nat]
    OBVIOUS
  <2> QED
    BY <1>1, <2>1, <2>2 DEF TypeOK
<1>3. QueueIsRest
  BY <1>1 DEF QueueIsRest
<1> QED
  BY <1>2, <1>3 DEF IInv, HeldIsUnfinished, UnfinishedIsHeld, Ops, NoOp

\* The notifications keep the phase of a worker that is awake.
LEMMA NotifyFact ==
  ASSUME TypeOK, NotifyOne \/ NotifyAll
  PROVE  /\ phase' \in [Workers -> {"looks", "sleeps", "popped", "runs", "exited"}]
         /\ \A w \in Workers : \/ phase'[w] = phase[w]
                               \/ phase[w] = "sleeps" /\ phase'[w] = "looks"
  BY DEF TypeOK, NotifyOne, NotifyAll, Sleeping

LEMMA PushInv == IInv /\ Push => IInv'
<1> SUFFICES ASSUME IInv, Push PROVE IInv'
  OBVIOUS
<1>0. TypeOK /\ ~shutdown /\ pushed + 1 \in Ops /\ taken \in Nat /\ pushed \in Nat /\ mark \in Nat
  BY QueueAssumption DEF IInv, Push, TypeOK, Ops
<1>1. /\ phase' \in [Workers -> {"looks", "sleeps", "popped", "runs", "exited"}]
      /\ \A w \in Workers : \/ phase'[w] = phase[w]
                            \/ phase[w] = "sleeps" /\ phase'[w] = "looks"
  BY <1>0, NotifyFact DEF Push
<1>2. queue' \in Seq(Ops)
  BY <1>0 DEF Push, TypeOK
<1>3. TypeOK'
  BY <1>0, <1>1, <1>2, QueueAssumption DEF TypeOK, Push, Ops, closeVars
<1>4. QueueIsRest'
  <2>1. queue = [i \in 1 .. pushed - taken |-> taken + i] /\ taken <= pushed
    BY <1>0 DEF IInv, QueueIsRest
  <2>2. Len(queue) = pushed - taken
    BY <1>0, <2>1
  <2>3. queue' = [i \in 1 .. (pushed + 1) - taken |-> taken + i]
    <3>1. (pushed + 1) - taken = (pushed - taken) + 1 /\ pushed - taken \in Nat
      BY <1>0, <2>1
    <3> QED
      BY <1>0, <2>1, <2>2, <3>1 DEF Push
  <2> QED
    BY <1>0, <2>1, <2>3 DEF QueueIsRest, Push
<1>5. HeldIsUnfinished' /\ UnfinishedIsHeld'
  BY <1>1 DEF IInv, HeldIsUnfinished, UnfinishedIsHeld, Push
<1> QED
  BY <1>0, <1>3, <1>4, <1>5 DEF IInv, Push, closeVars

LEMMA PopInv == \A w \in Workers : IInv /\ Pop(w) => IInv'
<1> SUFFICES ASSUME IInv, NEW w \in Workers, Pop(w) PROVE IInv'
  OBVIOUS
<1>0. /\ TypeOK /\ ~shutdown /\ taken \in Nat /\ pushed \in Nat /\ mark \in Nat /\ held[w] = NoOp
      /\ queue \in Seq(Ops) /\ queue # <<>> /\ taken <= pushed
  BY QueueAssumption DEF IInv, Pop, TypeOK, QueueIsRest, HeldIsUnfinished
<1>1. queue = [i \in 1 .. pushed - taken |-> taken + i]
  BY <1>0 DEF IInv, QueueIsRest
<1>2. pushed - taken > 0 /\ Head(queue) = taken + 1 /\ Head(queue) \in Ops /\ Len(queue) = pushed - taken
  <2>1. Len(queue) = pushed - taken
    BY <1>0, <1>1
  <2>2. Len(queue) > 0 /\ Head(queue) = queue[1] /\ Head(queue) \in Ops
    BY <1>0, HeadTailProperties, EmptySeq
  <2> QED
    BY <1>0, <1>1, <2>1, <2>2
<1>3. Tail(queue) = [i \in 1 .. pushed - (taken + 1) |-> (taken + 1) + i] /\ Tail(queue) \in Seq(Ops)
  <2> DEFINE rest == [i \in 1 .. pushed - (taken + 1) |-> (taken + 1) + i]
  <2>1. /\ Tail(queue) \in Seq(Ops) /\ Len(Tail(queue)) = Len(queue) - 1
        /\ \A i \in 1 .. Len(Tail(queue)) : Tail(queue)[i] = queue[i + 1]
    BY <1>0, HeadTailProperties
  <2>2. pushed - (taken + 1) \in Nat /\ Len(Tail(queue)) = pushed - (taken + 1)
    BY <1>0, <1>2, <2>1
  <2>3. rest \in Seq(Nat) /\ Len(rest) = pushed - (taken + 1)
    <3>1. rest \in [1 .. pushed - (taken + 1) -> Nat]
      BY <1>0, <2>2
    <3> QED
      BY <2>2, <3>1, SeqDef
  <2>4. Tail(queue) \in Seq(Nat)
    <3>1. Ops \subseteq Nat
      BY DEF Ops
    <3> HIDE DEF rest
    <3> QED
      BY <2>1, <3>1, SeqMonotonic
  <2>5. ASSUME NEW i \in 1 .. Len(rest) PROVE Tail(queue)[i] = rest[i]
    <3>1. i + 1 \in 1 .. pushed - taken /\ i \in 1 .. Len(Tail(queue))
      BY <1>0, <2>2, <2>3
    <3> QED
      BY <1>0, <1>1, <2>1, <2>3, <3>1
  <2> HIDE DEF rest
  <2>6. Tail(queue) = rest
    BY <2>2, <2>3, <2>4, <2>5, SeqEqual
  <2> QED
    BY <2>1, <2>6 DEF rest
<1>4. TypeOK'
  BY <1>0, <1>2, <1>3 DEF TypeOK, Pop, closeVars, NoOp
<1>5. QueueIsRest'
  BY <1>0, <1>2, <1>3 DEF QueueIsRest, Pop
<1>6. held' = [held EXCEPT ![w] = taken + 1] /\ taken' = taken + 1 /\ ran' = ran
  BY <1>2 DEF Pop
<1>7. held \in [Workers -> Ops \cup {NoOp}] /\ taken + 1 \in Ops /\ NoOp = 0 /\ Ops \subseteq Nat
  BY <1>0, <1>2 DEF TypeOK, NoOp, Ops
<1>8. HeldIsUnfinished'
  <2>1. ran[taken + 1] = 0
    BY <1>0, <1>7 DEF IInv, UnfinishedIsHeld
  <2>2. \A v \in Workers : held'[v] = IF v = w THEN taken + 1 ELSE held[v]
    BY <1>6, <1>7
  <2>3. \A v \in Workers : held[v] # NoOp => held[v] <= taken /\ ran[held[v]] = 0
    BY DEF IInv, HeldIsUnfinished
  <2>7. \A v \in Workers : held[v] \in Nat
    <3>1. Ops \cup {NoOp} \subseteq Nat
      BY <1>7
    <3>2. \A v \in Workers : held[v] \in Ops \cup {NoOp}
      BY <1>7, Zenon
    <3> QED
      BY <3>1, <3>2, Zenon
  <2>4. \A v \in Workers : held'[v] # NoOp => held'[v] <= taken' /\ ran'[held'[v]] = 0
    BY <1>0, <1>6, <2>1, <2>2, <2>3, <2>7
  <2>5. ASSUME NEW v \in Workers, NEW u \in Workers, held'[v] = held'[u], held'[v] # NoOp
        PROVE  v = u
    <3>1. CASE v = w \/ u = w
      BY <1>0, <1>7, <2>2, <2>3, <2>5, <2>7, <3>1
    <3>2. CASE v # w /\ u # w
      BY <2>2, <2>5, <3>2 DEF IInv, HeldIsUnfinished
    <3> QED
      BY <3>1, <3>2
  <2>6. \A v \in Workers : phase'[v] \in {"looks", "sleeps"} => held'[v] = NoOp
    BY <2>2 DEF IInv, HeldIsUnfinished, Pop, TypeOK
  <2> QED
    BY <2>4, <2>5, <2>6 DEF HeldIsUnfinished
<1>9. UnfinishedIsHeld'
  <2>1. ASSUME NEW o \in Ops, o <= taken + 1, ran[o] = 0
        PROVE \E v \in Workers : held'[v] = o
    <3>1. CASE o = taken + 1
      BY <1>6, <1>7, <3>1
    <3>2. CASE o # taken + 1
      <4>1. o <= taken
        BY <1>0, <1>7, <2>1, <3>2
      <4>2. PICK v \in Workers : held[v] = o
        BY <2>1, <4>1 DEF IInv, UnfinishedIsHeld
      <4>3. v # w
        BY <1>0, <1>7, <4>2 DEF Ops
      <4> QED
        BY <1>6, <1>7, <4>2, <4>3
    <3> QED
      BY <3>1, <3>2
  <2>2. ASSUME NEW o \in Ops, o > taken + 1 PROVE ran[o] = 0
    BY <1>0, <1>7, <2>2 DEF IInv, UnfinishedIsHeld
  <2> QED
    BY <1>6, <2>1, <2>2 DEF UnfinishedIsHeld
<1> QED
  BY <1>4, <1>5, <1>8, <1>9 DEF IInv, Pop, closeVars

LEMMA FinishInv == \A w \in Workers : IInv /\ Finish(w) => IInv'
<1> SUFFICES ASSUME IInv, NEW w \in Workers, Finish(w) PROVE IInv'
  OBVIOUS
<1>0. /\ TypeOK /\ held \in [Workers -> Ops \cup {NoOp}] /\ ran \in [Ops -> Nat]
      /\ NoOp = 0 /\ Ops \subseteq Nat \ {0} /\ taken \in Nat
  BY DEF IInv, TypeOK, NoOp, Ops
<1>1. held[w] \in Ops /\ ran[held[w]] = 0 /\ held[w] <= taken
  BY <1>0 DEF IInv, TypeOK, Finish, HeldIsUnfinished
<1>2. /\ ran' = [ran EXCEPT ![held[w]] = 1] /\ held' = [held EXCEPT ![w] = NoOp]
      /\ phase' = [phase EXCEPT ![w] = "looks"] /\ UNCHANGED <<queueVars, closeVars, mark>>
  BY <1>0, <1>1 DEF Finish
<1>3. TypeOK'
  BY <1>0, <1>1, <1>2 DEF TypeOK, queueVars, closeVars
<1>4. QueueIsRest'
  BY <1>2 DEF IInv, QueueIsRest, queueVars
<1>5. HeldIsUnfinished'
  BY <1>0, <1>1, <1>2 DEF IInv, TypeOK, HeldIsUnfinished, queueVars
<1>6. UnfinishedIsHeld'
  <2>1. ASSUME NEW o \in Ops, o <= taken, ran'[o] = 0
        PROVE \E v \in Workers : held'[v] = o
    <3>1. o # held[w] /\ ran[o] = 0
      BY <1>0, <1>1, <1>2, <2>1
    <3>2. PICK v \in Workers : held[v] = o
      BY <2>1, <3>1 DEF IInv, UnfinishedIsHeld
    <3> QED
      BY <1>0, <1>2, <3>1, <3>2
  <2>2. ASSUME NEW o \in Ops, o > taken PROVE ran'[o] = 0
    BY <1>0, <1>1, <1>2, <2>2 DEF IInv, UnfinishedIsHeld
  <2> QED
    BY <1>2, <2>1, <2>2 DEF UnfinishedIsHeld, queueVars
<1> QED
  BY <1>2, <1>3, <1>4, <1>5, <1>6 DEF IInv, queueVars, closeVars

\* A worker that sleeps, wakes, returns or calls keeps what it holds.
LEMMA WorkerInv ==
  \A w \in Workers : /\ IInv
                     /\ Sleep(w) \/ PopNothing(w) \/ Return(w) \/ Call(w) \/ WakeUp(w)
                     => IInv'
<1> SUFFICES ASSUME IInv, NEW w \in Workers,
                    Sleep(w) \/ PopNothing(w) \/ Return(w) \/ Call(w) \/ WakeUp(w)
             PROVE  IInv'
  OBVIOUS
<1>1. UNCHANGED <<queueVars, held, ran, closeVars, mark>>
  BY DEF Sleep, PopNothing, Return, Call, WakeUp
<1>2. /\ phase' \in [Workers -> {"looks", "sleeps", "popped", "runs", "exited"}]
      /\ \A v \in Workers : phase'[v] = "runs" => held[v] # NoOp
      /\ \A v \in Workers : phase'[v] \in {"looks", "sleeps"} => phase[v] \in {"looks", "sleeps"}
  BY DEF IInv, TypeOK, Sleep, PopNothing, Return, Call, WakeUp, Stops
<1>3. TypeOK'
  BY <1>1, <1>2 DEF IInv, TypeOK, queueVars, closeVars
<1> QED
  BY <1>1, <1>2, <1>3
     DEF IInv, QueueIsRest, HeldIsUnfinished, UnfinishedIsHeld, queueVars, closeVars

LEMMA CancelInv == IInv /\ Cancel => IInv'
<1> SUFFICES ASSUME IInv, Cancel PROVE IInv'
  OBVIOUS
<1>1. /\ phase' \in [Workers -> {"looks", "sleeps", "popped", "runs", "exited"}]
      /\ \A w \in Workers : \/ phase'[w] = phase[w]
                            \/ phase[w] = "sleeps" /\ phase'[w] = "looks"
  BY NotifyFact DEF IInv, Cancel
<1>2. TypeOK'
  BY <1>1 DEF IInv, TypeOK, Cancel
<1> QED
  BY <1>1, <1>2 DEF IInv, QueueIsRest, HeldIsUnfinished, UnfinishedIsHeld, Cancel

\* The other steps of the closing thread and of WaitExecution.
LEMMA OtherInv ==
  /\ IInv
  /\ \/ WaitExecution \/ ExecutionWaited \/ Close
     \/ FreeConnection \/ SetCancelationToken \/ Join
  => IInv'
<1> SUFFICES ASSUME IInv,
                    \/ WaitExecution \/ ExecutionWaited \/ Close
                    \/ FreeConnection \/ SetCancelationToken \/ Join
             PROVE  IInv'
  OBVIOUS
<1>1. UNCHANGED <<queueVars, workerVars>>
  BY DEF WaitExecution, ExecutionWaited, Close, FreeConnection, SetCancelationToken, Join
<1>2. TypeOK' /\ mark' <= pushed /\ (closer # "no" => closer' # "no") /\ (closer' # "no" => mark' = 0)
  <2> USE QueueAssumption DEF IInv, TypeOK, queueVars, workerVars, closeVars
  <2>1. CASE WaitExecution
    BY <2>1 DEF WaitExecution
  <2>2. CASE ExecutionWaited
    BY <2>2 DEF ExecutionWaited
  <2>3. CASE Close
    BY <2>3 DEF Close
  <2>4. CASE FreeConnection
    BY <2>4 DEF FreeConnection
  <2>5. CASE SetCancelationToken
    BY <2>5 DEF SetCancelationToken
  <2>6. CASE Join
    <3>1. at' \in Workers /\ closer' \in {"free", "done"}
      BY <2>6 DEF Join, Workers
    <3> QED
      BY <2>6, <3>1 DEF Join
  <2> QED
    BY <2>1, <2>2, <2>3, <2>4, <2>5, <2>6
<1> QED
  BY <1>1, <1>2
     DEF IInv, QueueIsRest, HeldIsUnfinished, UnfinishedIsHeld, queueVars, workerVars

LEMMA NextInv == IInv /\ [Next]_vars => IInv'
<1> SUFFICES ASSUME IInv, [Next]_vars PROVE IInv'
  OBVIOUS
<1>1. CASE UNCHANGED vars
  BY <1>1 DEF vars, queueVars, workerVars, closeVars, IInv, TypeOK, QueueIsRest,
       HeldIsUnfinished, UnfinishedIsHeld
<1>2. CASE Push
  BY <1>2, PushInv
<1>3. CASE \E w \in Workers : WorkerThread(w) \/ WakeUp(w)
  BY <1>3, PopInv, FinishInv, WorkerInv DEF WorkerThread
<1>4. CASE Cancel
  BY <1>4, CancelInv
<1>5. CASE \/ WaitExecution \/ ExecutionWaited \/ Close
           \/ FreeConnection \/ SetCancelationToken \/ Join
  BY <1>5, OtherInv
<1> QED
  BY <1>1, <1>2, <1>3, <1>4, <1>5 DEF Next, Closing

(***************************************************************************)
(* The inductive invariant: the queue is the rest of what was pushed, and  *)
(* what was taken has run once or is held by exactly one worker.           *)
(***************************************************************************)
THEOREM Inductive == Spec => []IInv
  BY InitInv, NextInv, PTL DEF Spec

(***************************************************************************)
(* The state keeps its types, and WorkerThread never calls a null          *)
(* operation: one that wakes up to an empty or cancelled queue returns.    *)
(***************************************************************************)
THEOREM TypeCorrect == Spec => []TypeOK
<1>1. IInv => TypeOK
  BY DEF IInv
<1> QED
  BY <1>1, Inductive, PTL

-----------------------------------------------------------------------------
\* The instance counts as this module does.
LEMMA SameCount == \A S : Service!Cardinality(S) = Cardinality(S)
  BY DEF Service!Cardinality, Cardinality

\* The operations under way are fewer than the workers, one of which is free.
LEMMA UnfinishedFact ==
  ASSUME IInv, NEW W \in SUBSET Workers, \A v \in Workers \ W : held[v] = NoOp
  PROVE  /\ IsFiniteSet(Service!Unfinished)
         /\ Cardinality(Service!Unfinished) <= Cardinality(W)
<1>1. IsFiniteSet(W)
  <2>1. 1 \in Int /\ NumWorkers \in Int
    BY QueueAssumption
  <2>2. IsFiniteSet(Workers)
    BY <2>1, FS_Interval DEF Workers
  <2> QED
    BY <2>2, FS_Subset
<1>2. Service!Unfinished \subseteq {held[v] : v \in W}
  <2>1. ASSUME NEW o \in Service!Unfinished PROVE \E v \in W : held[v] = o
    <3>1. o \in Ops /\ o <= taken /\ ran[o] = 0
      BY DEF Service!Unfinished
    <3>2. PICK v \in Workers : held[v] = o
      BY <3>1 DEF IInv, UnfinishedIsHeld
    <3>3. o # NoOp
      BY <3>1 DEF Ops, NoOp
    <3> QED
      BY <3>2, <3>3
  <2> QED
    BY <2>1
<1>3. /\ IsFiniteSet({held[v] : v \in W})
      /\ Cardinality({held[v] : v \in W}) <= Cardinality(W)
  <2>1. [v \in W |-> held[v]] \in Surjection(W, {held[v] : v \in W})
    BY Fun_IsSurj
  <2> QED
    BY <1>1, <2>1, FS_Surjection
<1>4. /\ IsFiniteSet(Service!Unfinished)
      /\ Cardinality(Service!Unfinished) <= Cardinality({held[v] : v \in W})
  BY <1>2, <1>3, FS_Subset
<1>5. /\ Cardinality(Service!Unfinished) \in Nat /\ Cardinality(W) \in Nat
      /\ Cardinality({held[v] : v \in W}) \in Nat
  BY <1>1, <1>3, <1>4, FS_CardinalityType
<1> QED
  BY <1>3, <1>4, <1>5

LEMMA WorkersFact == IsFiniteSet(Workers) /\ Cardinality(Workers) = NumWorkers
<1>1. 1 \in Int /\ NumWorkers \in Int /\ NumWorkers >= 1
  BY QueueAssumption
<1> QED
  BY <1>1, FS_Interval DEF Workers

ServiceStep == Service!Next \/ UNCHANGED Service!serviceVars

LEMMA PopStep == \A w \in Workers : IInv /\ Pop(w) => ServiceStep
<1> SUFFICES ASSUME IInv, NEW w \in Workers, Pop(w) PROVE ServiceStep
  OBVIOUS
<1>1. held[w] = NoOp /\ taken \in Nat /\ pushed \in Nat /\ queue \in Seq(Ops) /\ queue # <<>>
  BY DEF IInv, TypeOK, Pop, HeldIsUnfinished
<1>2. taken < pushed
  <2>1. queue = [i \in 1 .. pushed - taken |-> taken + i] /\ taken <= pushed
    BY DEF IInv, QueueIsRest, Pop
  <2>2. Len(queue) = pushed - taken
    BY <1>1, <2>1
  <2> QED
    BY <1>1, <2>2, EmptySeq
<1>3. Cardinality(Service!Unfinished) < NumWorkers
  <2>1. Cardinality(Service!Unfinished) <= Cardinality(Workers \ {w})
    BY <1>1, UnfinishedFact
  <2>2. Cardinality(Workers \ {w}) = NumWorkers - 1
    BY WorkersFact, FS_RemoveElement
  <2>3. IsFiniteSet(Service!Unfinished)
    BY <1>1, UnfinishedFact
  <2> QED
    BY <2>1, <2>2, <2>3, FS_CardinalityType, QueueAssumption
<1> QED
  BY <1>2, <1>3, SameCount DEF Pop, ServiceStep, Service!Next, Service!Begin

LEMMA ServiceNext == IInv /\ [Next]_vars => ServiceStep
<1> SUFFICES ASSUME IInv, [Next]_vars PROVE ServiceStep
  OBVIOUS
<1>1. CASE UNCHANGED <<pushed, taken, ran, shutdown>>
  BY <1>1 DEF ServiceStep, Service!serviceVars
<1>2. CASE Push
  <2>1. ~shutdown
    BY <1>2 DEF IInv, Push
  <2> QED
    BY <1>2, <2>1 DEF Push, ServiceStep, Service!Next, Service!Accept
<1>3. CASE \E w \in Workers : Pop(w)
  BY <1>3, PopStep
<1>4. CASE \E w \in Workers : Finish(w)
  <2>1. PICK w \in Workers : Finish(w)
    BY <1>4
  <2>2. held[w] \in Ops /\ held[w] <= taken /\ ran[held[w]] = 0
    BY <2>1 DEF IInv, TypeOK, Finish, HeldIsUnfinished
  <2>3. ran' = [ran EXCEPT ![held[w]] = 1] /\ UNCHANGED <<pushed, taken, shutdown>>
    BY <2>1, <2>2 DEF IInv, TypeOK, Finish, queueVars
  <2> QED
    BY <2>2, <2>3 DEF ServiceStep, Service!Next, Service!Finish
<1>5. CASE Cancel
  <2>1. /\ shutdown \in BOOLEAN /\ shutdown' = TRUE
        /\ UNCHANGED <<pushed, taken, ran>>
    BY <1>5 DEF IInv, TypeOK, Cancel
  <2> QED
    BY <2>1 DEF ServiceStep, Service!Next, Service!Stop, Service!serviceVars
<1>6. CASE \E w \in Workers : \/ Sleep(w) \/ PopNothing(w) \/ Return(w) \/ Call(w) \/ WakeUp(w)
  BY <1>1, <1>6 DEF Sleep, PopNothing, Return, Call, WakeUp, queueVars
<1>7. CASE \/ UNCHANGED vars \/ WaitExecution \/ ExecutionWaited \/ Close
           \/ FreeConnection \/ SetCancelationToken \/ Join
  BY <1>1, <1>7 DEF vars, WaitExecution, ExecutionWaited, Close, FreeConnection,
       SetCancelationToken, Join, queueVars, workerVars
<1> QED
  BY <1>2, <1>3, <1>4, <1>5, <1>6, <1>7 DEF Next, Closing, WorkerThread

(***************************************************************************)
(* DatabaseQueue implements OperationService: whatever the number of       *)
(* workers and the moment of Close, operations begin in the order of their *)
(* Push, run at most once, and none begins after Cancel.                   *)
(***************************************************************************)
THEOREM ServiceCorrect == Spec => OrderedOnce
<1>1. Init => Service!Init
  BY DEF Init, Service!Init
<1>2. IInv /\ [Next]_vars => [Service!Next]_(Service!serviceVars)
  BY ServiceNext DEF ServiceStep
<1> QED
  BY <1>1, <1>2, Inductive, PTL DEF Spec, OrderedOnce, Service!Spec

-----------------------------------------------------------------------------
WaitStep ==
  mark > 0 /\ mark' = 0 =>
    /\ mark <= taken
    /\ Cardinality({o \in 1 .. mark : ran[o] = 0}) <= NumWorkers

LEMMA WaitNext == IInv /\ [Next]_vars => WaitStep
<1> SUFFICES ASSUME IInv, [Next]_vars, mark > 0, mark' = 0 PROVE WaitStep
  BY DEF WaitStep
<1>1. ExecutionWaited /\ mark \in Nat
  BY DEF vars, Next, Push, WaitExecution, Close, Closing, FreeConnection, SetCancelationToken,
     Cancel, Join, WorkerThread, Sleep, PopNothing, Pop, Return, Call, Finish, WakeUp,
     IInv, TypeOK
<1>2. mark <= taken
  <2>1. queue = <<>> /\ taken \in Nat /\ pushed \in Nat /\ taken <= pushed /\ mark <= pushed
        /\ ~shutdown
    BY <1>1 DEF IInv, TypeOK, QueueIsRest, ExecutionWaited
  <2> QED
    BY <1>1, <2>1 DEF IInv, QueueIsRest
<1>3. Cardinality({o \in 1 .. mark : ran[o] = 0}) <= NumWorkers
  <2>1. {o \in 1 .. mark : ran[o] = 0} \subseteq Service!Unfinished
    <3>1. mark <= MaxOps /\ taken \in Nat
      BY QueueAssumption DEF IInv, TypeOK
    <3>2. ASSUME NEW o \in 1 .. mark PROVE o \in Ops /\ o <= taken
      BY <1>1, <1>2, <3>1, QueueAssumption DEF Ops
    <3> QED
      BY <3>2 DEF Service!Unfinished
  <2>2. /\ IsFiniteSet(Service!Unfinished)
        /\ Cardinality(Service!Unfinished) <= Cardinality(Workers)
    BY UnfinishedFact
  <2>3. /\ IsFiniteSet({o \in 1 .. mark : ran[o] = 0})
        /\ Cardinality({o \in 1 .. mark : ran[o] = 0}) <= Cardinality(Service!Unfinished)
    BY <2>1, <2>2, FS_Subset
  <2> QED
    BY <2>2, <2>3, WorkersFact, FS_CardinalityType, QueueAssumption
<1> QED
  BY <1>2, <1>3 DEF WaitStep

(***************************************************************************)
(* When WaitExecution returns, everything pushed before the call has been  *)
(* popped, and no more operations than workers have not run.               *)
(***************************************************************************)
THEOREM WaitCorrect == Spec => WaitedAreTaken
<1>1. IInv /\ [Next]_vars => WaitStep
  BY WaitNext
<1> QED
  BY <1>1, Inductive, PTL DEF Spec, WaitedAreTaken, WaitStep

-----------------------------------------------------------------------------
(* No wake-up is lost.                                                     *)

Looking == {w \in Workers : phase[w] = "looks"}

LEMMA LookingFact == IsFiniteSet(Looking) /\ Cardinality(Looking) \in Nat
<1>1. IsFiniteSet(Looking)
  BY WorkersFact, FS_Subset DEF Looking
<1> QED
  BY <1>1, FS_CardinalityType

\* One worker more looks at the queue, or one fewer.
LEMMA LooksToo ==
  ASSUME TypeOK, NEW w \in Workers, phase[w] # "looks", phase' = [phase EXCEPT ![w] = "looks"]
  PROVE  /\ Cardinality(Looking') = Cardinality(Looking) + 1
         /\ Sleeping' \subseteq Sleeping
<1>1. Looking' = Looking \cup {w} /\ w \notin Looking /\ Sleeping' \subseteq Sleeping
  BY DEF TypeOK, Looking, Sleeping
<1> QED
  BY <1>1, LookingFact, FS_AddElement

LEMMA LooksNoMore ==
  ASSUME TypeOK, NEW w \in Workers, phase[w] = "looks", phase' = [phase EXCEPT ![w] = "popped"]
  PROVE  /\ Cardinality(Looking') = Cardinality(Looking) - 1
         /\ Sleeping' = Sleeping
<1>1. Looking' = Looking \ {w} /\ w \in Looking /\ Sleeping' = Sleeping
  BY DEF TypeOK, Looking, Sleeping
<1> QED
  BY <1>1, LookingFact, FS_RemoveElement

LEMMA PushWakes == IInv /\ NoLostWakeup /\ Push => NoLostWakeup'
<1> SUFFICES ASSUME IInv, NoLostWakeup, Push PROVE NoLostWakeup'
  OBVIOUS
<1>1. TypeOK /\ queue \in Seq(Ops) /\ ~shutdown /\ shutdown' = shutdown
  BY DEF IInv, TypeOK, Push
<1>2. Len(queue') = Len(queue) + 1 /\ Len(queue) \in Nat
  BY <1>1 DEF Push
<1>3. CASE Sleeping = {}
  BY <1>1, <1>3 DEF Push, NotifyOne, NoLostWakeup, Sleeping
<1>4. CASE Sleeping # {}
  <2>1. PICK w \in Sleeping : phase' = [phase EXCEPT ![w] = "looks"]
    BY <1>4 DEF Push, NotifyOne
  <2>2. Cardinality(Looking') = Cardinality(Looking) + 1
    BY <1>1, <2>1, LooksToo DEF Sleeping
  <2>3. Len(queue) <= Cardinality(Looking)
    BY <1>4 DEF NoLostWakeup, Looking
  <2>4. Len(queue') <= Cardinality(Looking')
    BY <1>2, <2>2, <2>3, LookingFact
  <2> QED
    BY <1>1, <2>4 DEF NoLostWakeup, Looking
<1> QED
  BY <1>3, <1>4

LEMMA WorkerWakes ==
  \A w \in Workers : IInv /\ NoLostWakeup /\ (WorkerThread(w) \/ WakeUp(w)) => NoLostWakeup'
<1> SUFFICES ASSUME IInv, NoLostWakeup, NEW w \in Workers, WorkerThread(w) \/ WakeUp(w)
             PROVE  NoLostWakeup'
  OBVIOUS
<1>1. TypeOK /\ queue \in Seq(Ops)
  BY DEF IInv, TypeOK
<1>2. Len(queue) \in Nat
  BY <1>1
<1>3. Sleeping # {} => Len(queue) <= Cardinality(Looking)
  BY DEF NoLostWakeup, Looking
<1>4. CASE Sleep(w)
  <2>1. queue' = <<>> /\ ~shutdown'
    BY <1>4 DEF Sleep, queueVars
  <2>2. Len(queue') = 0
    BY <2>1
  <2>3. Looking' = Looking \ {w}
    BY <1>1, <1>4 DEF Sleep, TypeOK, Looking
  <2>4. Cardinality(Looking') \in Nat
    BY <2>3, LookingFact, FS_Subset, FS_CardinalityType
  <2>5. Len(queue') <= Cardinality(Looking')
    BY <2>2, <2>4
  <2> QED
    BY <2>1, <2>5 DEF NoLostWakeup, Looking
<1>5. CASE Pop(w)
  <2>1. Len(queue') = Len(queue) - 1 /\ shutdown' = shutdown /\ ~shutdown
    <3>1. queue # <<>> /\ queue' = Tail(queue) /\ shutdown' = shutdown /\ ~shutdown
      BY <1>5 DEF Pop
    <3> QED
      BY <1>1, <3>1, HeadTailProperties
  <2>2. Cardinality(Looking') = Cardinality(Looking) - 1 /\ Sleeping' = Sleeping
    BY <1>1, <1>5, LooksNoMore DEF Pop
  <2>3. Sleeping' # {} => Len(queue') <= Cardinality(Looking')
    BY <1>2, <1>3, <2>1, <2>2, LookingFact
  <2> QED
    BY <2>1, <2>3 DEF NoLostWakeup, Looking
<1>6. CASE PopNothing(w)
  <2>1. shutdown /\ phase' = [phase EXCEPT ![w] = "popped"] /\ Sleeping = {}
    BY <1>6 DEF PopNothing, NoLostWakeup
  <2>2. Sleeping' = {}
    BY <1>1, <2>1 DEF TypeOK, Sleeping
  <2> QED
    BY <2>2 DEF NoLostWakeup
<1>7. CASE Return(w) \/ Call(w)
  <2>1. Looking' = Looking /\ Sleeping' = Sleeping /\ queue' = queue /\ shutdown' = shutdown
    BY <1>1, <1>7 DEF Return, Call, TypeOK, Looking, Sleeping, queueVars
  <2> QED
    BY <2>1 DEF NoLostWakeup, Looking
<1>8. CASE Finish(w) \/ WakeUp(w)
  <2>1. /\ Cardinality(Looking') = Cardinality(Looking) + 1 /\ Sleeping' \subseteq Sleeping
        /\ queue' = queue /\ shutdown' = shutdown
    BY <1>1, <1>8, LooksToo DEF Finish, WakeUp, queueVars
  <2>2. Sleeping' # {} => Len(queue') <= Cardinality(Looking')
    BY <1>2, <1>3, <2>1, LookingFact
  <2> QED
    BY <2>1, <2>2 DEF NoLostWakeup, Looking
<1> QED
  BY <1>4, <1>5, <1>6, <1>7, <1>8 DEF WorkerThread

LEMMA WakeNext == IInv /\ NoLostWakeup /\ [Next]_vars => NoLostWakeup'
<1> SUFFICES ASSUME IInv, NoLostWakeup, [Next]_vars PROVE NoLostWakeup'
  OBVIOUS
<1>1. CASE Cancel
  <2>1. Sleeping' = {}
    BY <1>1 DEF Cancel, NotifyAll, Sleeping
  <2> QED
    BY <2>1 DEF NoLostWakeup
<1>2. CASE \/ UNCHANGED vars \/ WaitExecution \/ ExecutionWaited \/ Close
           \/ FreeConnection \/ SetCancelationToken \/ Join
  <2>1. queue' = queue /\ phase' = phase /\ shutdown' = shutdown
    BY <1>2 DEF vars, WaitExecution, ExecutionWaited, Close, FreeConnection,
       SetCancelationToken, Join, queueVars, workerVars
  <2> QED
    BY <2>1 DEF NoLostWakeup, Sleeping
<1> QED
  BY <1>1, <1>2, PushWakes, WorkerWakes DEF Next, Closing

(***************************************************************************)
(* While a worker sleeps there is an awake one for every operation in the  *)
(* queue, and nobody sleeps once the queue is cancelled, for any number of *)
(* workers and operations: EveryOperationRuns and CloseEnds rest on it.    *)
(***************************************************************************)
THEOREM WakeupsKept == Spec => []NoLostWakeup
<1>1. Init => NoLostWakeup
  <2> SUFFICES ASSUME Init PROVE NoLostWakeup
    OBVIOUS
  <2>1. Sleeping = {} /\ ~shutdown
    BY DEF Init, Sleeping
  <2> QED
    BY <2>1 DEF NoLostWakeup
<1> QED
  BY <1>1, WakeNext, Inductive, PTL DEF Spec

-----------------------------------------------------------------------------
(* What follows for the callers from the order in which operations begin.  *)

Overtaken(o) == {p \in Ops : p < o /\ ran[p] = 0}

\* Of every operation that has begun, run or not.
FewBefore ==
  /\ taken \in Nat /\ ran \in [Ops -> Nat] /\ \A o \in Ops : ran[o] > 0 => o <= taken
  /\ \A o \in Ops : o <= taken => Cardinality(Overtaken(o)) < NumWorkers

LEMMA OvertakenFact == \A o \in Ops : IsFiniteSet(Overtaken(o)) /\ Cardinality(Overtaken(o)) \in Nat
<1>1. IsFiniteSet(Ops)
  <2>1. 1 \in Int /\ MaxOps \in Int
    BY QueueAssumption
  <2> QED
    BY <2>1, FS_Interval DEF Ops
<1>2. \A o \in Ops : IsFiniteSet(Overtaken(o))
  BY <1>1, FS_Subset DEF Overtaken
<1> QED
  BY <1>2, FS_CardinalityType

\* From the steps of the service alone.
LEMMA ServiceOvertakes == FewBefore /\ [Service!Next]_(Service!serviceVars) => FewBefore'
<1> SUFFICES ASSUME FewBefore, [Service!Next]_(Service!serviceVars) PROVE FewBefore'
  OBVIOUS
<1>0. taken \in Nat /\ Ops \subseteq Nat
  BY DEF FewBefore, Ops
<1>1. CASE taken' = taken /\ ran' = ran
  <2>1. \A o \in Ops : Overtaken(o)' = Overtaken(o)
    BY <1>1 DEF Overtaken
  <2> QED
    BY <1>1, <2>1 DEF FewBefore
<1>2. CASE Service!Begin
  <2>1. taken' = taken + 1 /\ ran' = ran /\ Cardinality(Service!Unfinished) < NumWorkers
    BY <1>2, SameCount DEF Service!Begin
  <2>2. \A o \in Ops : Overtaken(o)' = Overtaken(o)
    BY <2>1 DEF Overtaken
  <2>3. ASSUME NEW o \in Ops, o <= taken + 1 PROVE Cardinality(Overtaken(o)) < NumWorkers
    <3>1. CASE o <= taken
      BY <3>1 DEF FewBefore
    <3>2. CASE o = taken + 1
      <4>1. \A p \in Ops : p < o <=> p <= taken
        <5>1. \A p \in Ops : p \in Nat
          BY DEF Ops
        <5> QED
          BY <1>0, <3>2, <5>1
      <4>2. Overtaken(o) = Service!Unfinished
        BY <4>1 DEF Overtaken, Service!Unfinished
      <4> QED
        BY <2>1, <4>2
    <3> QED
      BY <1>0, <2>3, <3>1, <3>2
  <2> QED
    BY <1>0, <2>1, <2>2, <2>3 DEF FewBefore
<1>3. ASSUME NEW q \in Ops, Service!Finish(q) PROVE FewBefore'
  <2>1. q <= taken /\ ran' = [ran EXCEPT ![q] = 1] /\ taken' = taken
    BY <1>3 DEF Service!Finish
  <2>2. \A o \in Ops : Overtaken(o)' \subseteq Overtaken(o)
    BY <2>1 DEF Overtaken, FewBefore
  <2>3. ASSUME NEW o \in Ops, o <= taken PROVE Cardinality(Overtaken(o)') < NumWorkers
    <3>1. /\ IsFiniteSet(Overtaken(o)')
          /\ Cardinality(Overtaken(o)') <= Cardinality(Overtaken(o))
      BY <2>2, OvertakenFact, FS_Subset
    <3>2. Cardinality(Overtaken(o)') \in Nat
      BY <3>1, FS_CardinalityType
    <3> QED
      BY <2>3, <3>1, <3>2, OvertakenFact, QueueAssumption DEF FewBefore
  <2>4. ran' \in [Ops -> Nat] /\ \A o \in Ops : ran'[o] > 0 => o <= taken
    BY <2>1 DEF FewBefore
  <2> QED
    BY <1>0, <2>1, <2>3, <2>4 DEF FewBefore
<1>4. CASE Service!Accept \/ Service!Stop \/ UNCHANGED Service!serviceVars
  BY <1>1, <1>4 DEF Service!Accept, Service!Stop, Service!serviceVars
<1> QED
  BY <1>2, <1>3, <1>4 DEF Service!Next

(***************************************************************************)
(* An operation that has run has overtaken fewer earlier ones than there   *)
(* are workers, for the order in which operations begin and the number of  *)
(* those under way are all that OperationService promises.                 *)
(***************************************************************************)
THEOREM FewAreOvertaken == Spec => []Service!FewOvertaken
<1>1. Init => FewBefore
  BY DEF Init, FewBefore, Ops
<1>2. FewBefore => Service!FewOvertaken
  BY SameCount DEF FewBefore, Overtaken, Service!FewOvertaken
<1> QED
  BY <1>1, <1>2, ServiceOvertakes, ServiceCorrect, PTL DEF Spec, OrderedOnce, Service!Spec

(***************************************************************************)
(* With one worker, the default of worldserver.conf, the operations that   *)
(* have run are a prefix of those pushed: a crash or Close cuts off the    *)
(* last ones only, and the queries of a log-in come after every save that  *)
(* was pushed before.  Market takes this for granted.                      *)
(***************************************************************************)
COROLLARY OneWorkerInOrder ==
  ASSUME NumWorkers = 1
  PROVE  Spec => [](\A o, p \in Ops : ran[o] > 0 /\ p < o => ran[p] > 0)
<1>1. FewBefore => \A o, p \in Ops : ran[o] > 0 /\ p < o => ran[p] > 0
  <2> SUFFICES ASSUME FewBefore, NEW o \in Ops, NEW p \in Ops, ran[o] > 0, p < o
               PROVE  ran[p] > 0
    OBVIOUS
  <2>1. Cardinality(Overtaken(o)) = 0
    BY OvertakenFact DEF FewBefore
  <2>2. Overtaken(o) = {}
    BY <2>1, OvertakenFact, FS_EmptySet
  <2> QED
    BY <2>2 DEF Overtaken, FewBefore
<1>2. Init => FewBefore
  BY DEF Init, FewBefore, Ops
<1> QED
  BY <1>1, <1>2, ServiceOvertakes, ServiceCorrect, PTL DEF Spec, OrderedOnce, Service!Spec
=============================================================================
