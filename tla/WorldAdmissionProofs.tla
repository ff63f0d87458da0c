------------------------ MODULE WorldAdmissionProofs ------------------------
(***************************************************************************)
(* Proofs about WorldAdmission for every set of sessions and accounts,     *)
(* every limit and tolerance, with or without lost counter updates; what   *)
(* is about the counter only without.                                      *)
(***************************************************************************)
EXTENDS WorldAdmission, QueueOpsProofs, FiniteSetTheorems, FunctionTheorems

-----------------------------------------------------------------------------
\* RemoveQueuedPlayer takes out its argument and at most the one it lets in.
LEMMA RemoveQueuedFact ==
  ASSUME NEW S, NEW q \in Seq(S), NEW s, Distinct(q)
  PROVE  LET r == RemoveQueued(q, s)
         IN  /\ r.queue \in Seq(S)
             /\ Distinct(r.queue)
             /\ r.in \subseteq Range(q) \ {s}
             /\ Range(r.queue) = Range(q) \ ({s} \cup r.in)
             /\ (r.found <=> s \in Range(q))
<1> DEFINE rest == Without(q, s)
           admit == (limit = 0 \/ Others(s \in Range(q), ActiveCount(q)) < limit) /\ rest # <<>>
<1>1. /\ rest \in Seq(S)
      /\ Distinct(rest)
      /\ Range(rest) = Range(q) \ {s}
  BY WithoutFact
<1>2. /\ RemoveQueued(q, s).found <=> s \in Range(q)
      /\ RemoveQueued(q, s).queue = IF admit THEN Tail(rest) ELSE rest
      /\ RemoveQueued(q, s).in = IF admit THEN {Head(rest)} ELSE {}
  BY DEF RemoveQueued
<1> HIDE DEF rest
<1>3. CASE admit
  BY <1>1, <1>2, <1>3, TailFact
<1>4. CASE ~admit
  BY <1>1, <1>2, <1>4
<1> QED
  BY <1>3, <1>4

-----------------------------------------------------------------------------
(***************************************************************************)
(* What makes QueueWellFormed and NobodyForgotten inductive: the sessions  *)
(* that wait in addSessQueue and those not yet handed to it are untouched, *)
(* and the table files a session under its own account.                    *)
(***************************************************************************)
Untouched(s) == init[s] = "no" /\ ~inQueue[s] /\ listed[Account[s]] # s

Bookkeeping ==
  /\ \A s \in Sessions : obj[s] \in {"unborn", "ctor", "fresh"} => Untouched(s)
  /\ Distinct(addQ)
  /\ \A i \in DOMAIN addQ : obj[addQ[i]] = "live" /\ Untouched(addQ[i])
  /\ \A x \in Accounts : listed[x] # None =>
       Account[listed[x]] = x /\ obj[listed[x]] = "live"

TodoListed == \A x \in todo : listed[x] # None

IInv == /\ TypeOK /\ QueueWellFormed /\ NobodyForgotten /\ FlagMeansWaiting
        /\ Bookkeeping /\ TodoListed

\* Nothing is queued or listed when the server starts.
LEMMA InitInv == Init => IInv
<1> SUFFICES ASSUME Init PROVE IInv
  OBVIOUS
<1> USE AdmissionAssumption DEF Init
<1>1. TypeOK
  BY DEF TypeOK, NoTime
<1>2. QueueWellFormed
  BY DEF QueueWellFormed, Distinct
<1>3. NobodyForgotten
  BY DEF NobodyForgotten, Listed
<1>4. FlagMeansWaiting
  BY DEF FlagMeansWaiting
<1>5. Bookkeeping
  BY DEF Bookkeeping, Untouched, Distinct
<1> QED
  BY <1>1, <1>2, <1>3, <1>4, <1>5 DEF IInv, TodoListed

\* The network threads and the lifetime of objects.
LEMMA LifetimeInv ==
  ASSUME IInv, NEW s \in Sessions,
         Construct(s) \/ Lifetime(s) \/ AddSession(s) \/ PeerClose(s)
  PROVE  IInv'
<1> USE AdmissionAssumption DEF IInv, objVars, worldVars, loopVars
<1>1. CASE Construct(s)
  <2> USE <1>1 DEF Construct
  <2>1. TypeOK'
    BY DEF TypeOK
  <2>2. QueueWellFormed'
    BY DEF QueueWellFormed, TypeOK
  <2>3. NobodyForgotten' /\ FlagMeansWaiting'
    BY DEF NobodyForgotten, FlagMeansWaiting, Bookkeeping, Untouched, Listed, TypeOK
  <2>4. Bookkeeping'
    BY DEF Bookkeeping, Untouched, TypeOK
  <2> QED
    BY <2>1, <2>2, <2>3, <2>4 DEF TodoListed
<1>2. CASE IncreaseSessionCount(s)
  <2> USE <1>2 DEF IncreaseSessionCount
  <2>1. TypeOK'
    BY DEF TypeOK
  <2>2. QueueWellFormed'
    BY DEF QueueWellFormed, TypeOK
  <2>3. NobodyForgotten' /\ FlagMeansWaiting'
    BY DEF NobodyForgotten, FlagMeansWaiting, Listed
  <2>4. Bookkeeping'
    BY DEF Bookkeeping, Untouched, TypeOK
  <2> QED
    BY <2>1, <2>2, <2>3, <2>4 DEF TodoListed
<1>3. CASE Destroy(s)
  <2> USE <1>3 DEF Destroy, Unreferenced
  <2>1. TypeOK'
    BY DEF TypeOK
  <2>2. QueueWellFormed'
    BY DEF QueueWellFormed, TypeOK, Range
  <2>3. NobodyForgotten' /\ FlagMeansWaiting'
    BY DEF NobodyForgotten, FlagMeansWaiting, Listed, TypeOK
  <2>4. Bookkeeping'
    BY DEF Bookkeeping, Untouched, TypeOK, Range
  <2> QED
    BY <2>1, <2>2, <2>3, <2>4 DEF TodoListed
<1>4. CASE DecreaseSessionCount(s)
  <2> USE <1>4 DEF DecreaseSessionCount
  <2>1. TypeOK'
    BY DEF TypeOK
  <2>2. QueueWellFormed'
    BY DEF QueueWellFormed, TypeOK
  <2>3. NobodyForgotten' /\ FlagMeansWaiting'
    BY DEF NobodyForgotten, FlagMeansWaiting, Listed
  <2>4. Bookkeeping'
    BY DEF Bookkeeping, Untouched, TypeOK
  <2> QED
    BY <2>1, <2>2, <2>3, <2>4 DEF TodoListed
<1>5. CASE AddSession(s)
  <2> USE <1>5 DEF AddSession
  <2>0. s \notin Range(addQ)
    BY DEF Bookkeeping, Range
  <2>1. /\ addQ' \in Seq(Sessions)
        /\ Distinct(addQ')
        /\ Range(addQ') = Range(addQ) \cup {s}
    BY <2>0, AppendFact DEF TypeOK, Bookkeeping
  <2>2. TypeOK'
    BY <2>1 DEF TypeOK
  <2>3. QueueWellFormed'
    BY DEF QueueWellFormed, TypeOK
  <2>4. NobodyForgotten' /\ FlagMeansWaiting'
    BY DEF NobodyForgotten, FlagMeansWaiting, Listed
  <2>5. \A t \in Range(addQ') : obj'[t] = "live" /\ Untouched(t)'
    BY <2>1 DEF Bookkeeping, Untouched, TypeOK, Range
  <2>6. Bookkeeping'
    BY <2>1, <2>5 DEF Bookkeeping, Untouched, TypeOK, Range
  <2> QED
    BY <2>2, <2>3, <2>4, <2>6 DEF TodoListed
<1>6. CASE PeerClose(s)
  <2> USE <1>6 DEF PeerClose
  <2>1. TypeOK'
    BY DEF TypeOK
  <2>2. QueueWellFormed' /\ Bookkeeping'
    BY DEF QueueWellFormed, Bookkeeping, Untouched
  <2>3. NobodyForgotten' /\ FlagMeansWaiting'
    BY DEF NobodyForgotten, FlagMeansWaiting, Listed, TypeOK
  <2> QED
    BY <2>1, <2>2, <2>3 DEF TodoListed
<1> QED
  BY <1>1, <1>2, <1>3, <1>4, <1>5, <1>6 DEF Lifetime

\* AddSession_: the old session of the account leaves, the new one comes in.
LEMMA AddSessionInv == ASSUME IInv, AddSession_ PROVE IInv'
<1> USE AdmissionAssumption DEF IInv, objVars, loopVars
<1> DEFINE s    == Head(addQ)
           acc  == Account[s]
           old  == listed[acc]
           r    == IF old = None THEN [found |-> FALSE, queue |-> queue, in |-> {}]
                   ELSE RemoveQueued(queue, old)
           sessions == IF r.found THEN count ELSE (count - 1) % UintMod
           full == limit > 0 /\ sessions >= limit
           wait == full /\ s \in Regular /\ ~HasRecentlyDisconnected(s)
           cleared == FlagCleared(IF r.found THEN {old} ELSE {}, inQueue)
<1>1. /\ addQ # <<>> /\ addQ' = Tail(addQ)
      /\ listed' = [listed EXCEPT ![acc] = s]
      /\ sock' = Closed({old}, sock)
      /\ map' = OffMap({old}, map)
      /\ queue' = IF wait THEN Append(r.queue, s) ELSE r.queue
      /\ inQueue' = IF wait THEN [cleared EXCEPT ![s] = TRUE] ELSE cleared
      /\ init' = Started(IF wait THEN r.in ELSE r.in \cup {s}, init)
      /\ disc' = IF full /\ s \in Regular THEN PrunedDisconnects ELSE disc
      /\ UNCHANGED <<obj, reg, count, limit, pc, todo, clock>>
  BY DEF AddSession_
<1>0. /\ queue \in Seq(Sessions) /\ Distinct(queue)
      /\ addQ \in Seq(Sessions) /\ Distinct(addQ)
      /\ Account \in [Sessions -> Accounts]
      /\ listed \in [Accounts -> Sessions \cup {None}]
  BY DEF TypeOK, QueueWellFormed, Bookkeeping
<1>2. s \in Range(addQ) /\ s \in Sessions /\ acc \in Accounts
  <2>1. s \in Range(addQ)
    BY <1>0, <1>1, TailFact
  <2>2. Range(addQ) \subseteq Sessions
    BY <1>0 DEF Range
  <2> QED
    BY <1>0, <2>1, <2>2
<1>3. obj[s] = "live" /\ Untouched(s)
  BY <1>2 DEF Bookkeeping, Range
<1>4. /\ addQ' \in Seq(Sessions)
      /\ Distinct(addQ')
      /\ Range(addQ') = Range(addQ) \ {s}
  BY <1>1, TailFact DEF TypeOK, Bookkeeping
<1>5. /\ r.queue \in Seq(Sessions)
      /\ Distinct(r.queue)
      /\ r.in \subseteq Range(queue) \ {old}
      /\ Range(r.queue) = Range(queue) \ ({old} \cup r.in)
      /\ (r.found <=> old \in Range(queue))
  <2>1. CASE old = None
    <3>1. None \notin Range(queue)
      BY <1>0 DEF Range
    <3>2. r.queue = queue /\ r.in = {} /\ r.found = FALSE
      BY <2>1
    <3> HIDE DEF r
    <3> QED
      BY <1>0, <2>1, <3>1, <3>2
  <2>2. CASE old # None
    BY <1>0, <2>2, RemoveQueuedFact
  <2> QED
    BY <2>1, <2>2
<1>6. \A t \in Range(queue) : /\ t \in Sessions /\ obj[t] = "live" /\ init[t] = "no"
                              /\ inQueue[t] /\ listed[Account[t]] = t
  BY DEF QueueWellFormed, Range, TypeOK
<1>7. s \notin Range(queue)
  BY <1>3, <1>6 DEF Untouched
<1> HIDE DEF r, wait, full
<1>8. /\ queue' \in Seq(Sessions)
      /\ Distinct(queue')
      /\ Range(queue') = Range(r.queue) \cup (IF wait THEN {s} ELSE {})
  BY <1>1, <1>2, <1>5, <1>7, AppendFact
<1>9. \A t \in Range(queue) : Account[t] = acc => t = old
  BY <1>6
<1> HIDE DEF s
<1>10. \A t \in Sessions :
         /\ inQueue'[t] <=> ((wait /\ t = s) \/ (inQueue[t] /\ ~(r.found /\ t = old)))
         /\ init'[t] = IF t \in r.in \/ (~wait /\ t = s) THEN "pending" ELSE init[t]
         /\ sock'[t] = IF t = old /\ sock[t] = "open" THEN "closed" ELSE sock[t]
         /\ listed'[Account[t]] = IF Account[t] = acc THEN s ELSE listed[Account[t]]
         /\ Account[t] \in Accounts
  BY <1>0, <1>1, <1>2, <1>3 DEF Started, Closed, FlagCleared, TypeOK, Untouched
<1>11. TypeOK'
  <2>1. inQueue' \in [Sessions -> BOOLEAN] /\ disc' \in [Accounts -> Nat \cup {NoTime}]
    BY <1>1, <1>2 DEF TypeOK, FlagCleared, PrunedDisconnects
  <2>2. /\ init' \in [Sessions -> {"no", "pending", "done"}]
        /\ sock' \in [Sessions -> {"none", "open", "closed"}]
        /\ map' \in [Sessions -> {"none", "on", "leaving"}]
        /\ listed' \in [Accounts -> Sessions \cup {None}]
    BY <1>1, <1>2 DEF TypeOK, Started, Closed, OffMap
  <2> QED
    BY <1>1, <1>4, <1>8, <2>1, <2>2 DEF TypeOK
<1>12. QueueWellFormed'
  <2>1. ASSUME NEW t \in Range(queue')
        PROVE  obj'[t] = "live" /\ listed'[Account[t]] = t /\ inQueue'[t] /\ init'[t] = "no"
    <3>1. CASE t = s /\ wait
      <4>1. s \notin r.in /\ init[s] = "no"
        BY <1>3, <1>5, <1>7 DEF Untouched
      <4>2. inQueue'[s]
        BY <1>2, <1>10, <3>1
      <4>3. init'[s] = "no" /\ listed'[Account[s]] = s
        BY <1>2, <1>10, <3>1, <4>1
      <4>4. obj'[s] = "live"
        BY <1>1, <1>3
      <4> QED
        BY <3>1, <4>2, <4>3, <4>4
    <3>2. CASE t \in Range(r.queue)
      <4>1. t \in Range(queue) /\ t # old /\ t \notin r.in /\ Account[t] # acc /\ t # s
        BY <1>5, <1>7, <1>9, <3>2
      <4>2. t \in Sessions /\ obj[t] = "live" /\ init[t] = "no" /\ inQueue[t]
            /\ listed[Account[t]] = t
        BY <1>6, <4>1
      <4>3. inQueue'[t]
        BY <1>10, <4>1, <4>2
      <4>4. init'[t] = "no" /\ listed'[Account[t]] = t
        BY <1>10, <4>1, <4>2
      <4>5. obj'[t] = "live"
        BY <1>1, <4>2
      <4> QED
        BY <4>3, <4>4, <4>5
    <3> QED
      BY <1>8, <3>1, <3>2
  <2> QED
    BY <1>8, <2>1 DEF QueueWellFormed, Range
<1>13. NobodyForgotten'
  <2> SUFFICES ASSUME NEW t \in Listed', sock'[t] = "open", init'[t] = "no"
               PROVE  t \in Range(queue')
    BY DEF NobodyForgotten
  <2>1. t \in Sessions /\ (t = s \/ (t \in Listed /\ t # old))
    <3>1. PICK x \in Accounts : t = listed'[x] /\ t # None
      BY DEF Listed
    <3>2. CASE x = acc
      BY <1>0, <1>1, <1>2, <3>1, <3>2
    <3>3. CASE x # acc
      <4>1. t = listed[x] /\ t \in Sessions
        BY <1>0, <1>1, <3>1, <3>3
      <4>2. Account[t] = x
        BY <3>1, <4>1 DEF Bookkeeping
      <4>3. t # old
        BY <1>2, <3>3, <4>1, <4>2, <3>1 DEF Bookkeeping
      <4> QED
        BY <3>1, <4>1, <4>3 DEF Listed
    <3> QED
      BY <3>2, <3>3
  <2>2. CASE t = s
    BY <1>2, <1>8, <1>10, <2>2
  <2>3. CASE t \in Listed /\ t # old
    <3>1. t \in Range(queue) /\ t \notin r.in
      BY <1>10, <2>1, <2>3 DEF NobodyForgotten
    <3> QED
      BY <1>5, <1>8, <2>3, <3>1
  <2> QED
    BY <2>1, <2>2, <2>3
<1>14. FlagMeansWaiting'
  <2> SUFFICES ASSUME NEW t \in Sessions, inQueue'[t], init'[t] # "pending", sock'[t] = "open"
               PROVE  t \in Range(queue')
    BY <1>11 DEF FlagMeansWaiting, TypeOK
  <2>1. CASE wait /\ t = s
    BY <1>8, <2>1
  <2>2. CASE inQueue[t] /\ ~(r.found /\ t = old)
    BY <1>5, <1>8, <1>10, <2>2 DEF FlagMeansWaiting
  <2> QED
    BY <1>10, <2>1, <2>2
<1>15. Bookkeeping'
  <2>1. ASSUME NEW t \in Sessions, t # s, Untouched(t) PROVE Untouched(t)'
    <3>1. t \notin r.in
      BY <1>5, <1>6, <2>1 DEF Untouched
    <3> QED
      BY <1>1, <1>2, <1>10, <2>1, <3>1 DEF Untouched, TypeOK
  <2>2. \A t \in Range(addQ') : t \in Sessions /\ obj'[t] = "live" /\ Untouched(t)'
    <3>1. \A t \in Range(addQ) : t \in Sessions /\ obj[t] = "live" /\ Untouched(t)
      BY <1>0 DEF Bookkeeping, Range
    <3> QED
      BY <1>1, <1>4, <2>1, <3>1
  <2>3. \A t \in Sessions : obj'[t] \in {"unborn", "ctor", "fresh"} => Untouched(t)'
    BY <1>1, <1>3, <2>1 DEF Bookkeeping
  <2>4. \A x \in Accounts : listed'[x] # None =>
          Account[listed'[x]] = x /\ obj'[listed'[x]] = "live"
    BY <1>1, <1>2, <1>3 DEF Bookkeeping, TypeOK
  <2> QED
    BY <1>4, <2>2, <2>3, <2>4 DEF Bookkeeping, Range
<1>16. TodoListed'
  BY <1>0, <1>1, <1>2 DEF TodoListed, TypeOK
<1> QED
  BY <1>11, <1>12, <1>13, <1>14, <1>15, <1>16

\* UpdateSessions removes a closed session, calling RemoveQueuedPlayer twice.
LEMMA UpdateClosedInv ==
  ASSUME IInv, NEW acc \in Accounts, NEW ready \in BOOLEAN, UpdateClosed(acc, ready),
         listed[acc] # None
  PROVE  IInv'
<1> USE AdmissionAssumption DEF IInv, objVars
<1> DEFINE s  == listed[acc]
           r1 == RemoveQueued(queue, s)
           r2 == RemoveQueued(r1.queue, s)
           in == r1.in \cup r2.in
<1>0. /\ queue \in Seq(Sessions) /\ Distinct(queue)
      /\ Account \in [Sessions -> Accounts]
      /\ listed \in [Accounts -> Sessions \cup {None}]
  BY DEF TypeOK, QueueWellFormed
<1>1. /\ map[s] # "on" /\ sock[s] # "open"
      /\ todo' = todo \ {acc}
      /\ queue' = r2.queue
      /\ listed' = [listed EXCEPT ![acc] = None]
      /\ sock' = [sock EXCEPT ![s] = "none"]
      /\ disc' = IF ~r1.found /\ Tolerance > 0 THEN [disc EXCEPT ![acc] = clock] ELSE disc
      /\ init' = IF CallbackRun(s, ready) THEN [Started(in, init) EXCEPT ![s] = "done"]
                 ELSE Started(in, init)
      /\ inQueue' = IF r1.found \/ CallbackRun(s, ready)
                    THEN FlagCleared({s}, inQueue) ELSE inQueue
      /\ UNCHANGED <<obj, reg, count, addQ, map, limit, pc, clock>>
  BY DEF UpdateClosed
<1>2. s \in Sessions /\ Account[s] = acc /\ obj[s] = "live"
  BY <1>0 DEF Bookkeeping
<1>3. /\ r1.queue \in Seq(Sessions)
      /\ Distinct(r1.queue)
      /\ r1.in \subseteq Range(queue) \ {s}
      /\ Range(r1.queue) = Range(queue) \ ({s} \cup r1.in)
  BY <1>0, RemoveQueuedFact
<1> HIDE DEF r1
<1>4. /\ queue' \in Seq(Sessions)
      /\ Distinct(queue')
      /\ in \subseteq Range(queue) \ {s}
      /\ Range(queue') = Range(queue) \ ({s} \cup in)
  BY <1>1, <1>3, RemoveQueuedFact
<1>5. \A t \in Range(queue) : /\ t \in Sessions /\ obj[t] = "live" /\ init[t] = "no"
                              /\ inQueue[t] /\ listed[Account[t]] = t
  BY DEF QueueWellFormed, Range, TypeOK
<1> HIDE DEF r2, in, s
<1>6. \A t \in Sessions :
        /\ t # s => (inQueue'[t] <=> inQueue[t])
        /\ inQueue'[t] => inQueue[t]
        /\ t # s => init'[t] = IF t \in in THEN "pending" ELSE init[t]
        /\ t # s => sock'[t] = sock[t]
        /\ Account[t] \in Accounts
        /\ listed'[Account[t]] = IF Account[t] = acc THEN None ELSE listed[Account[t]]
  BY <1>0, <1>1, <1>2 DEF Started, FlagCleared, TypeOK
<1>7. TypeOK'
  <2>1. inQueue' \in [Sessions -> BOOLEAN] /\ disc' \in [Accounts -> Nat \cup {NoTime}]
    BY <1>1, <1>2 DEF TypeOK, FlagCleared
  <2>2. /\ init' \in [Sessions -> {"no", "pending", "done"}]
        /\ sock' \in [Sessions -> {"none", "open", "closed"}]
        /\ listed' \in [Accounts -> Sessions \cup {None}]
    BY <1>1, <1>2 DEF TypeOK, Started
  <2> QED
    BY <1>1, <1>4, <2>1, <2>2 DEF TypeOK
<1>8. QueueWellFormed'
  <2>1. ASSUME NEW t \in Range(queue')
        PROVE  obj'[t] = "live" /\ listed'[Account[t]] = t /\ inQueue'[t] /\ init'[t] = "no"
    <3>1. t \in Range(queue) /\ t # s /\ t \notin in
      BY <1>4
    <3>2. t \in Sessions /\ obj[t] = "live" /\ init[t] = "no" /\ inQueue[t]
          /\ listed[Account[t]] = t
      BY <1>5, <3>1
    <3>3. Account[t] # acc
      BY <3>1, <3>2 DEF s
    <3>4. inQueue'[t]
      BY <1>6, <3>1, <3>2
    <3>5. obj'[t] = "live" /\ listed'[Account[t]] = t /\ init'[t] = "no"
      BY <1>1, <1>6, <3>1, <3>2, <3>3
    <3> QED
      BY <3>4, <3>5
  <2> QED
    BY <1>4, <2>1 DEF QueueWellFormed, Range
<1>9. NobodyForgotten'
  <2> SUFFICES ASSUME NEW t \in Listed', sock'[t] = "open", init'[t] = "no"
               PROVE  t \in Range(queue')
    BY DEF NobodyForgotten
  <2>1. PICK x \in Accounts : t = listed'[x] /\ t # None
    BY DEF Listed
  <2>2. x # acc /\ t = listed[x] /\ t \in Sessions
    BY <1>0, <1>1, <2>1
  <2>3. t # s
    BY <1>2, <2>1, <2>2 DEF Bookkeeping
  <2>4. t \in Listed /\ sock[t] = "open" /\ init[t] = "no" /\ t \notin in
    BY <1>6, <2>1, <2>2, <2>3 DEF Listed
  <2> QED
    BY <1>4, <2>3, <2>4 DEF NobodyForgotten
<1>10. FlagMeansWaiting'
  <2> SUFFICES ASSUME NEW t \in Sessions, inQueue'[t], init'[t] # "pending", sock'[t] = "open"
               PROVE  t \in Range(queue')
    BY <1>7 DEF FlagMeansWaiting, TypeOK
  <2>1. t # s
    BY <1>1, <1>2 DEF TypeOK
  <2>2. inQueue[t] /\ sock[t] = "open" /\ t \notin in /\ init[t] # "pending"
    BY <1>6, <2>1
  <2> QED
    BY <1>4, <2>1, <2>2 DEF FlagMeansWaiting
<1>11. Bookkeeping'
  <2>1. ASSUME NEW t \in Sessions, Untouched(t) PROVE Untouched(t)'
    <3>1. t # s
      BY <1>2, <2>1 DEF Untouched, s
    <3>2. t \notin in
      BY <1>4, <1>5, <2>1 DEF Untouched
    <3>3. listed'[Account[t]] # t
      BY <1>6, <2>1 DEF Untouched
    <3>4. init'[t] = "no" /\ ~inQueue'[t]
      BY <1>6, <2>1, <3>1, <3>2 DEF Untouched
    <3> QED
      BY <3>3, <3>4 DEF Untouched
  <2>2. \A i \in DOMAIN addQ : addQ[i] \in Sessions
    BY DEF TypeOK
  <2>3. \A x \in Accounts : listed'[x] # None => listed'[x] = listed[x]
    BY <1>0, <1>1
  <2> QED
    BY <1>1, <2>1, <2>2, <2>3 DEF Bookkeeping
<1>12. TodoListed'
  BY <1>0, <1>1 DEF TodoListed, TypeOK
<1> QED
  BY <1>7, <1>8, <1>9, <1>10, <1>11, <1>12

\* A listed session whose socket is open, or that is on a map, is updated.
LEMMA UpdateOpenInv ==
  ASSUME IInv, NEW acc \in Accounts, NEW ready \in BOOLEAN, UpdateOpen(acc, ready),
         listed[acc] # None
  PROVE  IInv'
<1> USE AdmissionAssumption DEF IInv, objVars
<1> DEFINE s == listed[acc]
<1>1. s \in Sessions /\ Account[s] = acc /\ obj[s] = "live"
  BY DEF Bookkeeping, TypeOK
<1>2. CASE map[s] # "on" /\ CallbackRun(s, ready)
  <2>1. /\ init' = [init EXCEPT ![s] = "done"]
        /\ inQueue' = FlagCleared({s}, inQueue)
        /\ todo' = todo \ {acc}
        /\ UNCHANGED <<obj, reg, count, addQ, listed, queue, sock, map, disc, limit, pc, clock>>
    BY <1>2 DEF UpdateOpen
  <2>2. init[s] = "pending"
    BY <1>2 DEF CallbackRun
  <2> HIDE DEF s
  <2>3. \A t \in Sessions : /\ inQueue'[t] <=> (t # s /\ inQueue[t])
                            /\ init'[t] = IF t = s THEN "done" ELSE init[t]
    BY <1>1, <2>1 DEF FlagCleared, TypeOK
  <2>4. TypeOK'
    BY <1>1, <2>1 DEF TypeOK, FlagCleared
  <2>5. \A i \in DOMAIN queue : queue[i] \in Sessions /\ queue[i] # s
    BY <2>2 DEF QueueWellFormed, TypeOK
  <2>6. QueueWellFormed'
    <3>1. ASSUME NEW i \in DOMAIN queue
          PROVE  inQueue'[queue[i]] /\ init'[queue[i]] = "no"
      BY <2>3, <2>5 DEF QueueWellFormed
    <3> QED
      BY <2>1, <3>1 DEF QueueWellFormed
  <2>7. NobodyForgotten'
    BY <1>1, <2>1, <2>3 DEF NobodyForgotten, Listed, TypeOK
  <2>8. FlagMeansWaiting'
    BY <2>1, <2>3 DEF FlagMeansWaiting
  <2>9. \A t \in Sessions : Untouched(t) => Untouched(t)'
    BY <2>1, <2>2, <2>3 DEF Untouched
  <2>10. \A i \in DOMAIN addQ : addQ[i] \in Sessions
    BY DEF TypeOK
  <2>11. Bookkeeping'
    BY <2>1, <2>9, <2>10 DEF Bookkeeping
  <2> QED
    BY <2>1, <2>4, <2>6, <2>7, <2>8, <2>11 DEF TodoListed
<1>3. CASE ~(map[s] # "on" /\ CallbackRun(s, ready))
  <2>1. /\ todo' = todo \ {acc}
        /\ UNCHANGED <<obj, reg, count, addQ, listed, queue, inQueue, init, sock, map,
                       disc, limit, pc, clock>>
    BY <1>3 DEF UpdateOpen
  <2>2. TypeOK'
    BY <2>1 DEF TypeOK
  <2>3. /\ QueueWellFormed' /\ NobodyForgotten' /\ FlagMeansWaiting' /\ Bookkeeping'
        /\ TodoListed'
    BY <2>1 DEF QueueWellFormed, NobodyForgotten, FlagMeansWaiting, Bookkeeping,
                Untouched, Listed, TodoListed
  <2> QED
    BY <2>2, <2>3
<1> QED
  BY <1>2, <1>3

\* The other steps of the world thread.
LEMMA LoopInv ==
  ASSUME IInv, BeginUpdateSessions \/ EndAddSessions \/ EndUpdateSessions \/ Tick
               \/ SetPlayerAmountLimit
  PROVE  IInv'
<1> USE AdmissionAssumption DEF IInv, objVars, worldVars, loopVars
<1>1. UNCHANGED <<objVars, worldVars, sock, map>>
  BY DEF BeginUpdateSessions, EndAddSessions, EndUpdateSessions, Tick, SetPlayerAmountLimit
<1>2. /\ pc' \in {"rest", "add", "update"} /\ limit' \in Limits /\ clock' \in Nat
      /\ todo' = todo \/ todo' = {x \in Accounts : listed[x] # None}
  BY DEF BeginUpdateSessions, EndAddSessions, EndUpdateSessions, Tick, SetPlayerAmountLimit,
         TypeOK
<1>3. TypeOK'
  BY <1>1, <1>2 DEF TypeOK
<1>4. QueueWellFormed' /\ NobodyForgotten' /\ FlagMeansWaiting'
  BY <1>1 DEF QueueWellFormed, NobodyForgotten, FlagMeansWaiting, Listed
<1>5. Bookkeeping' /\ TodoListed'
  BY <1>1, <1>2 DEF Bookkeeping, Untouched, TodoListed
<1> QED
  BY <1>3, <1>4, <1>5

\* Kicks close sockets, KickAll empties the queue, maps come and go.
LEMMA KickInv ==
  ASSUME IInv, KickAll \/ KickAllLess \/ (\E s \in Sessions : EnterMap(s) \/ LeaveMap(s))
  PROVE  IInv'
<1> USE AdmissionAssumption DEF IInv, objVars, worldVars, loopVars
<1>1. CASE KickAll
  <2> USE <1>1 DEF KickAll
  <2>1. TypeOK'
    BY DEF TypeOK, Closed, OffMap
  <2>2. \A s \in Listed : s \in Sessions /\ sock'[s] # "open"
    BY DEF Listed, Closed, TypeOK
  <2>3. NobodyForgotten' /\ QueueWellFormed'
    BY <2>2 DEF NobodyForgotten, QueueWellFormed, Distinct, Listed
  <2>4. ASSUME NEW s \in Sessions, inQueue'[s] PROVE init'[s] = "pending" \/ sock'[s] # "open"
    <3>1. CASE s \in Range(queue)
      <4>1. listed[Account[s]] = s /\ Account[s] \in Accounts /\ s # None
        BY <3>1 DEF QueueWellFormed, Range
      <4> QED
        BY <2>2, <4>1 DEF Listed
    <3>2. CASE s \notin Range(queue)
      BY <2>4, <3>2 DEF FlagMeansWaiting, Closed, TypeOK
    <3> QED
      BY <3>1, <3>2
  <2>5. FlagMeansWaiting'
    BY <2>4 DEF FlagMeansWaiting
  <2>6. Bookkeeping' /\ TodoListed'
    BY DEF Bookkeeping, Untouched, TodoListed
  <2> QED
    BY <2>1, <2>3, <2>5, <2>6
<1>2. CASE KickAllLess
  <2> USE <1>2 DEF KickAllLess
  <2>1. TypeOK'
    BY DEF TypeOK, Closed
  <2>2. \A s \in Sessions : sock'[s] = "open" => sock[s] = "open"
    BY DEF Closed
  <2>3. QueueWellFormed' /\ Bookkeeping' /\ TodoListed'
    BY DEF QueueWellFormed, Bookkeeping, Untouched, TodoListed
  <2>4. NobodyForgotten' /\ FlagMeansWaiting'
    <3>1. Listed \subseteq Sessions /\ Listed' = Listed
      BY DEF Listed, TypeOK
    <3> QED
      BY <2>2, <3>1 DEF NobodyForgotten, FlagMeansWaiting
  <2> QED
    BY <2>1, <2>3, <2>4
<1>3. CASE \E s \in Sessions : EnterMap(s) \/ LeaveMap(s)
  <2>1. /\ UNCHANGED <<objVars, worldVars, limit, loopVars, clock>>
        /\ map' \in [Sessions -> {"none", "on", "leaving"}]
        /\ sock' \in [Sessions -> {"none", "open", "closed"}]
        /\ \A s \in Sessions : sock'[s] = "open" <=> sock[s] = "open"
    <3>1. PICK s \in Sessions : EnterMap(s) \/ LeaveMap(s)
      BY <1>3
    <3>2. CASE EnterMap(s)
      BY <3>2 DEF EnterMap, TypeOK
    <3>3. CASE LeaveMap(s)
      BY <3>3 DEF LeaveMap, TypeOK
    <3> QED
      BY <3>1, <3>2, <3>3
  <2>2. TypeOK'
    BY <2>1 DEF TypeOK
  <2>3. QueueWellFormed' /\ Bookkeeping' /\ TodoListed'
    BY <2>1 DEF QueueWellFormed, Bookkeeping, Untouched, TodoListed
  <2>4. NobodyForgotten' /\ FlagMeansWaiting'
    BY <2>1 DEF NobodyForgotten, FlagMeansWaiting, Listed, TypeOK
  <2> QED
    BY <2>2, <2>3, <2>4
<1> QED
  BY <1>1, <1>2, <1>3

\* Every step keeps the inductive invariant.
LEMMA NextInv == IInv /\ [Next]_vars => IInv'
<1> SUFFICES ASSUME IInv, [Next]_vars PROVE IInv'
  OBVIOUS
<1>1. CASE WorldThread
  <2>1. CASE AddSession_
    BY <2>1, AddSessionInv
  <2>2. CASE BeginUpdateSessions \/ EndAddSessions \/ EndUpdateSessions
    BY <2>2, LoopInv
  <2>3. ASSUME NEW acc \in Accounts, NEW ready \in BOOLEAN,
               UpdateOpen(acc, ready) \/ UpdateClosed(acc, ready)
        PROVE  IInv'
    <3>1. listed[acc] # None
      BY <2>3 DEF UpdateOpen, UpdateClosed, IInv, TodoListed
    <3> QED
      BY <2>3, <3>1, UpdateOpenInv, UpdateClosedInv
  <2> QED
    BY <1>1, <2>1, <2>2, <2>3 DEF WorldThread
<1>2. ASSUME NEW s \in Sessions,
             Construct(s) \/ Lifetime(s) \/ AddSession(s) \/ PeerClose(s)
      PROVE  IInv'
  BY <1>2, LifetimeInv
<1>3. CASE KickAll \/ KickAllLess \/ (\E s \in Sessions : EnterMap(s) \/ LeaveMap(s))
  BY <1>3, KickInv
<1>4. CASE SetPlayerAmountLimit \/ Tick
  BY <1>4, LoopInv
<1>5. CASE UNCHANGED vars
  BY <1>5 DEF vars, IInv, TypeOK, QueueWellFormed, NobodyForgotten, FlagMeansWaiting,
              Bookkeeping, Untouched, TodoListed, Listed
<1> QED
  BY <1>1, <1>2, <1>3, <1>4, <1>5 DEF Next

LEMMA Inductive == Spec => []IInv
<1>1. Init => IInv
  BY InitInv
<1>2. IInv /\ [Next]_vars => IInv'
  BY NextInv
<1> QED
  BY <1>1, <1>2, PTL DEF Spec

\* Every variable keeps its type, m_sessionCount its width.
THEOREM TypeCorrect == Spec => []TypeOK
<1>1. IInv => TypeOK
  BY DEF IInv
<1> QED
  BY <1>1, Inductive, PTL

\* m_QueuedPlayer holds no ghost and no session twice.
THEOREM QueueInvariant == Spec => []QueueWellFormed
<1>1. IInv => QueueWellFormed
  BY DEF IInv
<1> QED
  BY <1>1, Inductive, PTL

\* A connected session waits in the queue or has been let in.
THEOREM NobodyForgottenInvariant == Spec => []NobodyForgotten
<1>1. IInv => NobodyForgotten
  BY DEF IInv
<1> QED
  BY <1>1, Inductive, PTL

\* No session stays deaf with the wait flag set.
THEOREM FlagInvariant == Spec => []FlagMeansWaiting
<1>1. IInv => FlagMeansWaiting
  BY DEF IInv
<1> QED
  BY <1>1, Inductive, PTL
-----------------------------------------------------------------------------
(***************************************************************************)
(* The counter: while ++ and -- do not overlap, m_sessionCount is the      *)
(* number of objects whose constructor has counted them and whose          *)
(* destructor has not.                                                     *)
(***************************************************************************)
Counting == {s \in Sessions : obj[s] \in {"ctor", "dtor"}}
Alive == {s \in Sessions : obj[s] \in {"fresh", "live", "dtor"}}
Counted ==
  Serialised => /\ count = Cardinality(Alive)
                /\ \A s \in Counting : reg[s] = count
                /\ \A s, t \in Counting : s = t

LEMMA AliveFact ==
  ASSUME Cardinality(Sessions) < UintMod, NEW S \in SUBSET Sessions
  PROVE  IsFiniteSet(S) /\ Cardinality(S) \in 0 .. UintMod - 1
<1>1. IsFiniteSet(S) /\ Cardinality(S) <= Cardinality(Sessions)
  BY AdmissionAssumption, FS_Subset
<1>2. Cardinality(S) \in Nat /\ Cardinality(Sessions) \in Nat
  BY <1>1, AdmissionAssumption, FS_CardinalityType
<1>. QED  BY <1>1, <1>2, AdmissionAssumption

LEMMA SmallMod == \A n \in 0 .. UintMod - 1 : n % UintMod = n
BY AdmissionAssumption

\* A step that neither counts nor is about to keeps the number.
LEMMA SameCounted ==
  ASSUME Counted, Alive' = Alive, Counting' \subseteq Counting, UNCHANGED <<reg, count>>
  PROVE  Counted'
BY DEF Counted

LEMMA InitCounted == Init => Counted
<1>. SUFFICES ASSUME Init  PROVE  Counted
  OBVIOUS
<1>1. Alive = {} /\ Counting = {}
  BY DEF Init, Alive, Counting
<1>. QED  BY <1>1, FS_EmptySet DEF Init, Counted

LEMMA LifetimeCounted ==
  ASSUME Cardinality(Sessions) < UintMod, TypeOK, Counted, NEW s \in Sessions,
         Construct(s) \/ Lifetime(s) \/ AddSession(s) \/ PeerClose(s)
  PROVE  Counted'
<1>. DEFINE n == Cardinality(Alive)
<1>0. IsFiniteSet(Alive) /\ n \in 0 .. UintMod - 1
  BY AliveFact DEF Alive
<1>1. CASE Construct(s)
  <2>. USE <1>1 DEF Construct, TypeOK
  <2>1. Alive' = Alive  BY DEF Alive
  <2>2. Serialised => Counting' = {s}
    BY DEF Counting, CounterFree, Serialised
  <2>. QED  BY <2>1, <2>2 DEF Counted
<1>2. CASE IncreaseSessionCount(s)
  <2>. USE <1>2 DEF IncreaseSessionCount, TypeOK
  <2>1. Alive' = Alive \cup {s} /\ s \notin Alive  BY DEF Alive
  <2>2. Cardinality(Alive') = n + 1
    BY <1>0, <2>1, FS_AddElement
  <2>3. n + 1 \in 0 .. UintMod - 1
    <3>1. Cardinality(Alive \cup {s}) \in 0 .. UintMod - 1
      BY AliveFact DEF Alive
    <3>. QED  BY <2>1, <2>2, <3>1
  <2>4. Serialised => reg[s] = n /\ Counting' = {}
    BY DEF Counted, Counting
  <2>5. Serialised => count' = n + 1
    <3>1. ASSUME Serialised  PROVE  count' = (n + 1) % UintMod
      BY <2>4, <3>1
    <3>2. (n + 1) % UintMod = n + 1
      BY <2>3, SmallMod
    <3>. QED  BY <3>1, <3>2
  <2>. QED  BY <2>2, <2>4, <2>5 DEF Counted
<1>3. CASE Destroy(s)
  <2>. USE <1>3 DEF Destroy, Unreferenced, TypeOK
  <2>1. Alive' = Alive  BY DEF Alive
  <2>2. Serialised => Counting' = {s}
    BY DEF Counting, CounterFree, Serialised
  <2>. QED  BY <2>1, <2>2 DEF Counted
<1>4. CASE DecreaseSessionCount(s)
  <2>. USE <1>4 DEF DecreaseSessionCount, TypeOK
  <2>1. Alive' = Alive \ {s} /\ s \in Alive  BY DEF Alive
  <2>2. Cardinality(Alive') = n - 1
    BY <1>0, <2>1, FS_RemoveElement
  <2>3. n - 1 \in 0 .. UintMod - 1
    <3>1. Cardinality(Alive \ {s}) \in 0 .. UintMod - 1
      BY AliveFact DEF Alive
    <3>. QED  BY <2>1, <2>2, <3>1
  <2>4. Serialised => reg[s] = n /\ Counting' = {}
    BY DEF Counted, Counting
  <2>5. Serialised => count' = n - 1
    <3>1. ASSUME Serialised  PROVE  count' = (n - 1) % UintMod
      BY <2>4, <3>1
    <3>2. (n - 1) % UintMod = n - 1
      BY <2>3, SmallMod
    <3>. QED  BY <3>1, <3>2
  <2>. QED  BY <2>2, <2>4, <2>5 DEF Counted
<1>5. CASE AddSession(s) \/ PeerClose(s)
  <2>1. Alive' = Alive /\ Counting' \subseteq Counting /\ UNCHANGED <<reg, count>>
    BY <1>5 DEF Alive, Counting, AddSession, PeerClose, objVars, TypeOK
  <2>. QED  BY <2>1, SameCounted
<1>. QED  BY <1>1, <1>2, <1>3, <1>4, <1>5 DEF Lifetime

LEMMA NextCounted ==
  ASSUME Cardinality(Sessions) < UintMod, TypeOK, Counted, [Next]_vars
  PROVE  Counted'
<1>1. CASE UNCHANGED objVars
  <2>1. Alive' = Alive /\ Counting' \subseteq Counting /\ UNCHANGED <<reg, count>>
    BY <1>1 DEF Alive, Counting, objVars
  <2>. QED  BY <2>1, SameCounted
<1>2. ASSUME NEW s \in Sessions,
             Construct(s) \/ Lifetime(s) \/ AddSession(s) \/ PeerClose(s)
      PROVE  Counted'
  BY <1>2, LifetimeCounted
<1>3. CASE WorldThread
  <2>1. UNCHANGED objVars
    BY <1>3 DEF WorldThread, BeginUpdateSessions, AddSession_, EndAddSessions,
                EndUpdateSessions, UpdateOpen, UpdateClosed
  <2>. QED  BY <1>1, <2>1
<1>4. CASE \/ KickAll \/ KickAllLess \/ SetPlayerAmountLimit \/ Tick
           \/ \E s \in Sessions : EnterMap(s) \/ LeaveMap(s)
  <2>1. UNCHANGED objVars
    BY <1>4 DEF KickAll, KickAllLess, SetPlayerAmountLimit, Tick, EnterMap, LeaveMap
  <2>. QED  BY <1>1, <2>1
<1>5. CASE UNCHANGED vars
  BY <1>1, <1>5 DEF vars, objVars
<1>. QED  BY <1>2, <1>3, <1>4, <1>5 DEF Next

\* A queue without repetitions is no longer than the number of living sessions.
LEMMA QueueIsShort ==
  ASSUME Cardinality(Sessions) < UintMod, TypeOK, QueueWellFormed
  PROVE  Len(queue) <= Cardinality(Alive)
<1>1. queue \in Seq(Sessions) /\ Distinct(queue) /\ DOMAIN queue = 1 .. Len(queue)
      /\ Len(queue) \in Nat
  BY DEF TypeOK, QueueWellFormed
<1>2. \A i \in 1 .. Len(queue) : queue[i] \in Alive
  BY <1>1 DEF QueueWellFormed, Alive
<1>3. [i \in 1 .. Len(queue) |-> queue[i]] \in Injection(1 .. Len(queue), Alive)
  BY <1>1, <1>2 DEF Injection, IsInjective, Distinct
<1>4. IsFiniteSet(Alive)
  BY AliveFact DEF Alive
<1>5. Cardinality(1 .. Len(queue)) <= Cardinality(Alive)
  BY <1>3, <1>4, FS_Injection
<1>6. 1 \in Int /\ Len(queue) \in Int /\ Cardinality(1 .. Len(queue)) = Len(queue)
  BY <1>1, FS_Interval
<1>. QED  BY <1>5, <1>6

\* While no update of the counter is lost and fewer than 2^32 sessions exist,
\* GetActiveSessionCount never wraps around.
THEOREM CounterNeverUnderflows ==
  ASSUME Cardinality(Sessions) < UintMod
  PROVE  Spec => []NoUnderflow
<1>1. Init => Counted
  BY InitCounted
<1>2. IInv => TypeOK /\ QueueWellFormed
  BY DEF IInv
<1>3. TypeOK /\ Counted /\ [Next]_vars => Counted'
  BY NextCounted
<1>4. TypeOK /\ QueueWellFormed /\ Counted => NoUnderflow
  BY QueueIsShort DEF Counted, NoUnderflow
<1>. QED  BY <1>1, <1>2, <1>3, <1>4, Inductive, PTL DEF Spec
-----------------------------------------------------------------------------
(***************************************************************************)
(* RemoveQueuedPlayer keeps the order and lets in the first that stays.    *)
(***************************************************************************)
LEMMA RemoveQueuedOrder ==
  ASSUME NEW S, NEW q \in Seq(S), NEW s, Distinct(q)
  PROVE  LET r == RemoveQueued(q, s)
         IN  /\ KeepsOrder(q, r.queue)
             /\ \A i, j \in DOMAIN q : i < j /\ q[i] \in Range(r.queue) => q[j] \notin r.in
<1>. DEFINE rest == Without(q, s)
            admit == (limit = 0 \/ Others(s \in Range(q), ActiveCount(q)) < limit) /\ rest # <<>>
            u == RemoveQueued(q, s)
<1>1. rest \in Seq(S) /\ Distinct(rest) /\ KeepsOrder(q, rest) /\ Range(rest) = Range(q) \ {s}
  BY WithoutFact, WithoutOrder
<1>2. /\ u.queue = IF admit THEN Tail(rest) ELSE rest
      /\ u.in = IF admit THEN {Head(rest)} ELSE {}
  BY DEF RemoveQueued
<1>. HIDE DEF rest, u
<1>3. ASSUME admit
      PROVE  /\ KeepsOrder(q, u.queue)
             /\ \A i, j \in DOMAIN q : i < j /\ q[i] \in Range(u.queue) => q[j] \notin u.in
  <2>1. rest # <<>> /\ u.queue = Tail(rest) /\ u.in = {Head(rest)}
    BY <1>2, <1>3
  <2>2. /\ KeepsOrder(rest, Tail(rest)) /\ Head(rest) \in Range(rest)
        /\ Range(Tail(rest)) = Range(rest) \ {Head(rest)}
    BY <1>1, <2>1, TailFact, TailOrder
  <2>3. KeepsOrder(q, Tail(rest))
    BY <1>1, <2>2, OrderTransitive
  <2>4. ASSUME NEW i \in DOMAIN q, NEW j \in DOMAIN q, i < j,
               q[i] \in Range(Tail(rest)), q[j] = Head(rest)
        PROVE  FALSE
    <3>1. PICK k, l \in DOMAIN rest : k < l /\ rest[k] = q[i] /\ rest[l] = Head(rest)
      BY <1>1, <2>2, <2>4 DEF KeepsOrder
    <3>2. rest[1] = Head(rest) /\ DOMAIN rest = 1 .. Len(rest) /\ Len(rest) \in Nat
          /\ 1 \in DOMAIN rest
      BY <1>1, <2>1
    <3>3. l = 1
      BY <1>1, <3>1, <3>2 DEF Distinct
    <3>. QED  BY <3>1, <3>2, <3>3
  <2>. QED  BY <2>1, <2>3, <2>4
<1>4. ASSUME ~admit
      PROVE  KeepsOrder(q, u.queue) /\ u.in = {}
  BY <1>1, <1>2, <1>4
<1>. HIDE DEF admit
<1>5. /\ KeepsOrder(q, u.queue)
      /\ \A i, j \in DOMAIN q : i < j /\ q[i] \in Range(u.queue) => q[j] \notin u.in
  BY <1>3, <1>4
<1>. QED  BY <1>5 DEF u

\* The property of FirstComeFirstServed for one step.
InOrder ==
  \A i, j \in DOMAIN queue : i < j =>
    /\ queue[i] \in Range(queue') => ~LetIn(queue[j])
    /\ queue[i] \in Range(queue') /\ queue[j] \in Range(queue') =>
         \E k, l \in DOMAIN queue' :
           k < l /\ queue'[k] = queue[i] /\ queue'[l] = queue[j]

LEMMA InOrderParts ==
  ASSUME KeepsOrder(queue, queue'),
         \A i, j \in DOMAIN queue : i < j /\ queue[i] \in Range(queue') => ~LetIn(queue[j])
  PROVE  InOrder
BY DEF InOrder, KeepsOrder

LEMMA AddSessionOrder == ASSUME IInv, AddSession_ PROVE InOrder
<1>. DEFINE s    == Head(addQ)
            acc  == Account[s]
            old  == listed[acc]
            r    == IF old = None THEN [found |-> FALSE, queue |-> queue, in |-> {}]
                    ELSE RemoveQueued(queue, old)
<1>1. PICK wait \in BOOLEAN :
        /\ queue' = IF wait THEN Append(r.queue, s) ELSE r.queue
        /\ init' = Started(IF wait THEN r.in ELSE r.in \cup {s}, init)
        /\ addQ # <<>>
  <2>. DEFINE sessions == IF r.found THEN count ELSE (count - 1) % UintMod
              full == limit > 0 /\ sessions >= limit
              wait == full /\ s \in Regular /\ ~HasRecentlyDisconnected(s)
  <2>1. /\ queue' = IF wait THEN Append(r.queue, s) ELSE r.queue
        /\ init' = Started(IF wait THEN r.in ELSE r.in \cup {s}, init)
        /\ addQ # <<>>
    BY DEF AddSession_
  <2>2. wait \in BOOLEAN
    OBVIOUS
  <2>. HIDE DEF wait, r, s
  <2>. QED  BY <2>1, <2>2
<1>2. queue \in Seq(Sessions) /\ Distinct(queue) /\ addQ \in Seq(Sessions) /\ Distinct(addQ)
  BY DEF IInv, TypeOK, QueueWellFormed, Bookkeeping
<1>3. s \in Range(addQ)
  BY <1>1, <1>2, TailFact
<1>4. s \in Sessions /\ listed[Account[s]] # s
  BY <1>2, <1>3 DEF IInv, Bookkeeping, Untouched, Range
<1>5. s \notin Range(queue)
  BY <1>4 DEF IInv, QueueWellFormed, Range
<1>6. /\ KeepsOrder(queue, r.queue)
      /\ \A i, j \in DOMAIN queue : i < j /\ queue[i] \in Range(r.queue) => queue[j] \notin r.in
      /\ r.queue \in Seq(Sessions) /\ Distinct(r.queue) /\ Range(r.queue) \subseteq Range(queue)
  <2>1. CASE old = None
    BY <1>2, <2>1, SameOrder
  <2>2. CASE old # None
    <3>. DEFINE x == RemoveQueued(queue, old)
    <3>1. /\ KeepsOrder(queue, x.queue)
          /\ \A i, j \in DOMAIN queue : i < j /\ queue[i] \in Range(x.queue) => queue[j] \notin x.in
          /\ x.queue \in Seq(Sessions) /\ Distinct(x.queue) /\ Range(x.queue) \subseteq Range(queue)
      BY <1>2, RemoveQueuedFact, RemoveQueuedOrder
    <3>. HIDE DEF x
    <3>2. r = x
      BY <2>2 DEF x
    <3>. HIDE DEF r
    <3>. QED  BY <3>1, <3>2
  <2>. QED  BY <2>1, <2>2
<1>. HIDE DEF r, s
<1>7. KeepsOrder(queue, queue') /\ Range(queue') \subseteq Range(r.queue) \cup {s}
  <2>1. CASE wait
    <3>1. Range(Append(r.queue, s)) = Range(r.queue) \cup {s}
      BY <1>4, <1>5, <1>6, AppendFact
    <3>2. KeepsOrder(r.queue, Append(r.queue, s))
      BY <1>4, <1>6, AppendOrder
    <3>3. KeepsOrder(queue, Append(r.queue, s))
      BY <1>5, <1>6, <3>1, <3>2, OrderTransitive
    <3>. QED  BY <1>1, <2>1, <3>1, <3>3
  <2>2. CASE ~wait
    BY <1>1, <1>6, <2>2
  <2>. QED  BY <2>1, <2>2
<1>8. ASSUME NEW i \in DOMAIN queue, NEW j \in DOMAIN queue, i < j,
             queue[i] \in Range(queue'), LetIn(queue[j])
      PROVE  FALSE
  <2>1. queue[i] # s /\ queue[j] # s /\ queue[j] \in Sessions
    BY <1>2, <1>5 DEF Range
  <2>2. queue[j] \in r.in
    BY <1>1, <1>8, <2>1 DEF LetIn, Started
  <2>. QED  BY <1>6, <1>7, <1>8, <2>1, <2>2
<1>. QED  BY <1>7, <1>8, InOrderParts

LEMMA UpdateClosedOrder ==
  ASSUME IInv, NEW acc \in Accounts, NEW ready \in BOOLEAN, UpdateClosed(acc, ready)
  PROVE  InOrder
<1>. DEFINE s  == listed[acc]
            r1 == RemoveQueued(queue, s)
            r2 == RemoveQueued(r1.queue, s)
<1>1. /\ queue' = r2.queue
      /\ init' = IF CallbackRun(s, ready) THEN [Started(r1.in \cup r2.in, init) EXCEPT ![s] = "done"]
                 ELSE Started(r1.in \cup r2.in, init)
  BY DEF UpdateClosed
<1>2. queue \in Seq(Sessions) /\ Distinct(queue)
  BY DEF IInv, TypeOK, QueueWellFormed
<1>3. /\ r1.queue \in Seq(Sessions) /\ Distinct(r1.queue) /\ KeepsOrder(queue, r1.queue)
      /\ \A i, j \in DOMAIN queue : i < j /\ queue[i] \in Range(r1.queue) => queue[j] \notin r1.in
  BY <1>2, RemoveQueuedFact, RemoveQueuedOrder
<1>. HIDE DEF r1
<1>4. /\ KeepsOrder(r1.queue, r2.queue)
      /\ \A i, j \in DOMAIN r1.queue :
           i < j /\ r1.queue[i] \in Range(r2.queue) => r1.queue[j] \notin r2.in
      /\ r2.in \subseteq Range(r1.queue) /\ Range(r2.queue) \subseteq Range(r1.queue)
  BY <1>3, RemoveQueuedFact, RemoveQueuedOrder
<1>. HIDE DEF r2
<1>5. KeepsOrder(queue, queue')
  BY <1>1, <1>3, <1>4, OrderTransitive
<1>6. ASSUME NEW i \in DOMAIN queue, NEW j \in DOMAIN queue, i < j,
             queue[i] \in Range(queue'), LetIn(queue[j])
      PROVE  FALSE
  <2>1. queue[j] \in Sessions /\ init[queue[j]] = "no" /\ init'[queue[j]] # "no"
    BY <1>2, <1>6 DEF LetIn
  <2>2. queue[j] \in r1.in \cup r2.in
    BY <1>1, <2>1 DEF CallbackRun, Started
  <2>3. queue[i] \in Range(r1.queue)
    BY <1>1, <1>4, <1>6
  <2>4. queue[j] \in r2.in
    BY <1>3, <1>6, <2>2, <2>3
  <2>5. queue[j] \in Range(r1.queue)
    BY <1>4, <2>4
  <2>6. PICK k, l \in DOMAIN r1.queue : k < l /\ r1.queue[k] = queue[i] /\ r1.queue[l] = queue[j]
    BY <1>3, <1>6, <2>3, <2>5 DEF KeepsOrder
  <2>. QED  BY <1>1, <1>4, <1>6, <2>4, <2>6
<1>. QED  BY <1>5, <1>6, InOrderParts

LEMMA NextOrder == ASSUME IInv, [Next]_vars PROVE InOrder
<1>1. ASSUME UNCHANGED queue, \A x \in Sessions : ~LetIn(x)  PROVE  InOrder
  <2>1. \A j \in DOMAIN queue : queue[j] \in Sessions
    BY DEF IInv, TypeOK
  <2>. QED  BY <1>1, <2>1, SameOrder, InOrderParts
<1>2. ASSUME UNCHANGED <<queue, init>>  PROVE  InOrder
  BY <1>1, <1>2 DEF LetIn
<1>3. CASE WorldThread
  <2>1. CASE AddSession_
    BY <2>1, AddSessionOrder
  <2>2. CASE BeginUpdateSessions \/ EndAddSessions \/ EndUpdateSessions
    BY <1>2, <2>2 DEF BeginUpdateSessions, EndAddSessions, EndUpdateSessions, worldVars
  <2>3. ASSUME NEW acc \in Accounts, NEW ready \in BOOLEAN, UpdateClosed(acc, ready)
        PROVE  InOrder
    BY <2>3, UpdateClosedOrder
  <2>4. ASSUME NEW acc \in Accounts, NEW ready \in BOOLEAN, UpdateOpen(acc, ready)
        PROVE  InOrder
    <3>1. UNCHANGED queue /\ \A x \in Sessions : ~LetIn(x)
      BY <2>4 DEF UpdateOpen, LetIn, CallbackRun, IInv, TypeOK
    <3>. QED  BY <1>1, <3>1
  <2>. QED  BY <1>3, <2>1, <2>2, <2>3, <2>4 DEF WorldThread
<1>4. ASSUME NEW x \in Sessions,
             \/ Construct(x) \/ Lifetime(x) \/ AddSession(x)
             \/ PeerClose(x) \/ EnterMap(x) \/ LeaveMap(x)
      PROVE  InOrder
  BY <1>2, <1>4 DEF Construct, Lifetime, IncreaseSessionCount, Destroy, DecreaseSessionCount,
       AddSession, PeerClose, EnterMap, LeaveMap, worldVars
<1>5. CASE KickAll
  <2>1. queue' = <<>> /\ UNCHANGED init
    BY <1>5 DEF KickAll
  <2>2. Range(queue') = {}
    BY <2>1 DEF Range
  <2>. QED  BY <2>1, <2>2 DEF InOrder, LetIn
<1>6. CASE KickAllLess \/ SetPlayerAmountLimit \/ Tick \/ UNCHANGED vars
  BY <1>2, <1>6 DEF KickAllLess, SetPlayerAmountLimit, Tick, vars, worldVars
<1>. QED  BY <1>3, <1>4, <1>5, <1>6 DEF Next

\* Nobody who stays in the log-in queue is passed by another.
THEOREM QueueIsFair == Spec => FirstComeFirstServed
<1>1. IInv /\ [Next]_vars => [InOrder]_vars
  BY NextOrder
<1>2. Spec => [][InOrder]_vars
  BY <1>1, Inductive, PTL DEF Spec
<1>. QED  BY <1>2 DEF FirstComeFirstServed, InOrder
-----------------------------------------------------------------------------
(***************************************************************************)
(* The limit.  What RemoveQueuedPlayer compares with it is the number of   *)
(* living sessions that do not wait, but for the one that leaves.          *)
(***************************************************************************)
LEMMA OthersFact ==
  ASSUME Cardinality(Sessions) < UintMod, Counted, Serialised,
         NEW q \in Seq(Sessions), Distinct(q), Range(q) \subseteq Alive, NEW x \in Alive
  PROVE  Others(x \in Range(q), ActiveCount(q)) = Cardinality(Alive \ (Range(q) \cup {x}))
<1>. DEFINE waiting == Range(q)
            rest == Alive \ waiting
<1>1. /\ IsFiniteSet(Alive) /\ Cardinality(Alive) \in 0 .. UintMod - 1
      /\ IsFiniteSet(waiting) /\ Cardinality(waiting) \in 0 .. UintMod - 1
      /\ IsFiniteSet(rest) /\ Cardinality(rest) \in 0 .. UintMod - 1
  BY AliveFact DEF Alive
<1>2. Cardinality(waiting) = Len(q)
  <2>1. DOMAIN q = 1 .. Len(q) /\ Len(q) \in Nat
    OBVIOUS
  <2>. DEFINE f == [i \in 1 .. Len(q) |-> q[i]]
  <2>2. f \in Bijection(1 .. Len(q), waiting)
    BY <2>1 DEF Bijection, Injection, Surjection, IsInjective, Distinct, Range
  <2>. HIDE DEF f, waiting
  <2>3. IsFiniteSet(1 .. Len(q)) /\ Cardinality(1 .. Len(q)) = Len(q)
    BY <2>1, FS_Interval
  <2>4. ExistsBijection(1 .. Len(q), waiting)
    BY <2>2 DEF ExistsBijection
  <2>. QED  BY <2>3, <2>4, FS_Bijection
<1>3. Cardinality(Alive) = Cardinality(waiting) + Cardinality(rest)
  <2>1. waiting \cup rest = Alive /\ waiting \cap rest = {} /\ Cardinality({}) = 0
    BY FS_EmptySet
  <2>. HIDE DEF waiting, rest
  <2>2. Cardinality(waiting \cup rest)
          = Cardinality(waiting) + Cardinality(rest) - Cardinality(waiting \cap rest)
    BY <1>1, FS_Union
  <2>3. Cardinality(waiting \cap rest) = 0 /\ Cardinality(waiting \cup rest) = Cardinality(Alive)
    BY <2>1
  <2>. QED  BY <1>1, <2>2, <2>3
<1>4. ActiveCount(q) = Cardinality(rest)
  <2>. HIDE DEF waiting, rest
  <2>1. count = Cardinality(Alive)
    BY DEF Counted
  <2>2. count - Len(q) = Cardinality(rest)
    BY <1>1, <1>2, <1>3, <2>1
  <2>3. Len(q) <= count
    BY <1>1, <1>2, <1>3, <2>1
  <2>. QED  BY <2>2, <2>3 DEF ActiveCount
<1>5. CASE x \in waiting
  <2>1. Alive \ (waiting \cup {x}) = rest
    BY <1>5
  <2>. QED  BY <1>4, <1>5, <2>1 DEF Others
<1>6. CASE x \notin waiting
  <2>1. Alive \ (waiting \cup {x}) = rest \ {x} /\ x \in rest
    BY <1>6
  <2>. HIDE DEF rest
  <2>2. Cardinality(rest \ {x}) = Cardinality(rest) - 1
    BY <1>1, <2>1, FS_RemoveElement
  <2>3. Cardinality(rest) # 0
    BY <1>1, <2>1, FS_EmptySet
  <2>. QED  BY <1>4, <1>6, <2>1, <2>2, <2>3 DEF Others
<1>. QED  BY <1>5, <1>6

\* Whoever is let in finds room besides those who are in.
LEMMA LetInFact ==
  ASSUME Cardinality(Sessions) < UintMod, Counted, Serialised, limit > 0, limit \in Nat,
         NEW q \in Seq(Sessions), Distinct(q), Range(q) \subseteq Alive, NEW x \in Alive
  PROVE  /\ \A s, t \in RemoveQueued(q, x).in : s = t
         /\ RemoveQueued(q, x).in # {} =>
              Cardinality(Alive \ (Range(q) \cup {x})) < limit
<1>1. Others(x \in Range(q), ActiveCount(q)) = Cardinality(Alive \ (Range(q) \cup {x}))
  BY OthersFact
<1>2. limit # 0
  OBVIOUS
<1>. QED  BY <1>1, <1>2 DEF RemoveQueued

\* The players other than s who are in after a step.
OthersIn(s) == {t \in (Listed' \cap Regular) \ {s} : init'[t] # "no"}
Roomy(s) == Cardinality(OthersIn(s)) < limit

LEMMA RoomyFact ==
  ASSUME Cardinality(Sessions) < UintMod, limit \in Nat, NEW s,
         NEW S \in SUBSET Sessions, OthersIn(s) \subseteq S, Cardinality(S) < limit
  PROVE  Roomy(s)
<1>1. IsFiniteSet(S) /\ Cardinality(S) \in Nat
  BY AliveFact, FS_CardinalityType
<1>2. IsFiniteSet(OthersIn(s)) /\ Cardinality(OthersIn(s)) <= Cardinality(S)
  BY <1>1, FS_Subset
<1>3. Cardinality(OthersIn(s)) \in Nat
  BY <1>2, FS_CardinalityType
<1>. QED  BY <1>1, <1>2, <1>3 DEF Roomy

\* What the table and the queue hold is alive; who waits is not in.
LEMMA ListedFact ==
  ASSUME IInv
  PROVE  /\ queue \in Seq(Sessions) /\ Distinct(queue) /\ Range(queue) \subseteq Alive
         /\ \A t \in Range(queue) : init[t] = "no"
         /\ \A x \in Accounts : listed[x] # None => listed[x] \in Alive /\ Account[listed[x]] = x
         /\ limit \in Nat
<1>1. queue \in Seq(Sessions) /\ Distinct(queue) /\ listed \in [Accounts -> Sessions \cup {None}]
      /\ limit \in Nat
  BY AdmissionAssumption DEF IInv, TypeOK, QueueWellFormed
<1>2. \A t \in Range(queue) : t \in Sessions /\ obj[t] = "live" /\ init[t] = "no"
  BY <1>1 DEF IInv, QueueWellFormed, Range
<1>. QED  BY <1>1, <1>2 DEF IInv, Bookkeeping, Alive

LEMMA UpdateClosedLimit ==
  ASSUME Cardinality(Sessions) < UintMod, IInv, Counted, Serialised, limit > 0,
         NEW acc \in Accounts, NEW ready \in BOOLEAN, UpdateClosed(acc, ready),
         NEW s \in Regular, LetIn(s)
  PROVE  Roomy(s)
<1>. DEFINE x  == listed[acc]
            r1 == RemoveQueued(queue, x)
            r2 == RemoveQueued(r1.queue, x)
<1>1. /\ listed' = [listed EXCEPT ![acc] = None]
      /\ init' = IF CallbackRun(x, ready) THEN [Started(r1.in \cup r2.in, init) EXCEPT ![x] = "done"]
                 ELSE Started(r1.in \cup r2.in, init)
      /\ acc \in todo
  BY DEF UpdateClosed
<1>2. x \in Alive /\ Account[x] = acc
  BY <1>1, ListedFact DEF IInv, TodoListed
<1>3. /\ r1.queue \in Seq(Sessions) /\ Distinct(r1.queue)
      /\ Range(r1.queue) = Range(queue) \ ({x} \cup r1.in) /\ r1.in \subseteq Range(queue) \ {x}
      /\ \A u, t \in r1.in : u = t
      /\ r1.in # {} => Cardinality(Alive \ (Range(queue) \cup {x})) < limit
  <2>1. queue \in Seq(Sessions) /\ Distinct(queue) /\ Range(queue) \subseteq Alive /\ limit \in Nat
    BY ListedFact
  <2>2. /\ \A u, t \in r1.in : u = t
        /\ r1.in # {} => Cardinality(Alive \ (Range(queue) \cup {x})) < limit
    BY <1>2, <2>1, LetInFact
  <2>3. /\ r1.queue \in Seq(Sessions) /\ Distinct(r1.queue)
        /\ Range(r1.queue) = Range(queue) \ ({x} \cup r1.in) /\ r1.in \subseteq Range(queue) \ {x}
    BY <2>1, RemoveQueuedFact
  <2>. QED  BY <2>2, <2>3
<1>. HIDE DEF r1
<1>4. /\ r2.in \subseteq Range(r1.queue) \ {x}
      /\ \A u, t \in r2.in : u = t
      /\ r2.in # {} => Cardinality(Alive \ (Range(r1.queue) \cup {x})) < limit
  BY <1>2, <1>3, ListedFact, RemoveQueuedFact, LetInFact
<1>5. s \in Sessions /\ init[s] = "no" /\ init'[s] # "no"
  BY AdmissionAssumption DEF LetIn
<1>. HIDE DEF r2
<1>6. s \in r1.in \cup r2.in
  BY <1>1, <1>5 DEF CallbackRun, Started
<1>7. \A t \in OthersIn(s) :
        /\ t \in Alive \ {s, x}
        /\ t \notin Range(queue) \/ t \in r1.in \cup r2.in
  <2>. SUFFICES ASSUME NEW t \in OthersIn(s)
                PROVE  /\ t \in Alive \ {s, x}
                       /\ t \notin Range(queue) \/ t \in r1.in \cup r2.in
    OBVIOUS
  <2>1. t \in Listed' /\ t # s /\ t \in Sessions /\ init'[t] # "no"
    BY AdmissionAssumption DEF OthersIn
  <2>2. PICK b \in Accounts : t = listed'[b] /\ t # None
    BY <2>1 DEF Listed
  <2>3. b # acc /\ t = listed[b]
    BY <1>1, <2>2 DEF IInv, TypeOK
  <2>4. t \in Alive /\ t # x
    BY <1>2, <2>2, <2>3, ListedFact
  <2>5. t \notin r1.in \cup r2.in => init[t] # "no"
    BY <1>1, <2>1, <2>4 DEF Started
  <2>. QED  BY <2>1, <2>4, <2>5, ListedFact
<1>. DEFINE A == Alive \ (Range(queue) \cup {x})
            B == Alive \ (Range(r1.queue) \cup {x})
<1>8. A \in SUBSET Sessions /\ B \in SUBSET Sessions /\ limit \in Nat
  BY ListedFact DEF Alive
<1>9. CASE s \in r2.in
  <2>1. OthersIn(s) \subseteq B /\ Cardinality(B) < limit
    BY <1>3, <1>4, <1>7, <1>9
  <2>. HIDE DEF A, B
  <2>. QED  BY <1>8, <2>1, RoomyFact
<1>10. CASE s \in r1.in /\ r2.in = {}
  <2>1. OthersIn(s) \subseteq A /\ Cardinality(A) < limit
    BY <1>3, <1>7, <1>10
  <2>. HIDE DEF A, B
  <2>. QED  BY <1>8, <2>1, RoomyFact
<1>11. CASE s \in r1.in /\ r2.in # {}
  <2>1. PICK y \in r2.in : TRUE
    BY <1>11
  <2>2. y \in Sessions /\ s \in B /\ y \notin B
    BY <1>3, <1>4, <1>11, <2>1, ListedFact DEF Alive
  <2>. DEFINE S == (B \ {s}) \cup {y}
  <2>3. OthersIn(s) \subseteq S
    BY <1>3, <1>4, <1>7, <1>11, <2>1
  <2>4. Cardinality(B) < limit
    BY <1>4, <1>11
  <2>. HIDE DEF A, B
  <2>5. IsFiniteSet(B) /\ Cardinality(B) \in Nat
    BY <1>8, AliveFact, FS_CardinalityType
  <2>6. IsFiniteSet(B \ {s}) /\ Cardinality(B \ {s}) = Cardinality(B) - 1
    BY <2>2, <2>5, FS_RemoveElement
  <2>7. Cardinality(S) = Cardinality(B)
    <3>1. y \notin B \ {s}  BY <2>2
    <3>2. Cardinality((B \ {s}) \cup {y}) = Cardinality(B \ {s}) + 1
      BY <2>6, <3>1, FS_AddElement
    <3>. QED  BY <2>5, <2>6, <3>2
  <2>8. S \in SUBSET Sessions
    BY <1>8, <2>2
  <2>. HIDE DEF S
  <2>. QED  BY <1>8, <2>3, <2>4, <2>7, <2>8, RoomyFact
<1>. QED  BY <1>6, <1>9, <1>10, <1>11

LEMMA AddSessionLimit ==
  ASSUME Cardinality(Sessions) < UintMod, IInv, Counted, Serialised, limit > 0,
         AddSession_, NEW s \in Regular, LetIn(s),
         s \in Range(queue) \/ ~HasRecentlyDisconnected(s)
  PROVE  Roomy(s)
<1>. DEFINE new  == Head(addQ)
            acc  == Account[new]
            old  == listed[acc]
            r    == IF old = None THEN [found |-> FALSE, queue |-> queue, in |-> {}]
                    ELSE RemoveQueued(queue, old)
            sessions == IF r.found THEN count ELSE (count - 1) % UintMod
<1>1. /\ listed' = [listed EXCEPT ![acc] = new]
      /\ \/ init' = Started(r.in, init)
         \/ /\ init' = Started(r.in \cup {new}, init)
            /\ new \in Regular /\ ~HasRecentlyDisconnected(new) => ~(sessions >= limit)
      /\ addQ # <<>>
  <2>. DEFINE full == limit > 0 /\ sessions >= limit
              wait == full /\ new \in Regular /\ ~HasRecentlyDisconnected(new)
  <2>1. /\ listed' = [listed EXCEPT ![acc] = new]
        /\ init' = Started(IF wait THEN r.in ELSE r.in \cup {new}, init)
        /\ addQ # <<>>
    BY DEF AddSession_
  <2>2. ~wait /\ new \in Regular /\ ~HasRecentlyDisconnected(new) => ~(sessions >= limit)
    OBVIOUS
  <2>. HIDE DEF wait, r, new
  <2>. QED  BY <2>1, <2>2
<1>2. addQ \in Seq(Sessions) /\ Distinct(addQ)
  BY DEF IInv, TypeOK, Bookkeeping
<1>3. new \in Range(addQ)
  BY <1>1, <1>2, TailFact
<1>4. new \in Alive /\ acc \in Accounts /\ old # new /\ init[new] = "no"
  <2>1. new \in Sessions /\ obj[new] = "live" /\ Untouched(new)
    BY <1>2, <1>3 DEF IInv, Bookkeeping, Range
  <2>. QED  BY <2>1, AdmissionAssumption DEF Alive, Untouched
<1>5. new \notin Range(queue)
  <2>1. Untouched(new)
    BY <1>2, <1>3 DEF IInv, Bookkeeping, Range
  <2>. QED  BY <2>1 DEF IInv, QueueWellFormed, Untouched, Range
<1>6. /\ \A u, t \in r.in : u = t
      /\ r.in \subseteq Range(queue)
      /\ r.in # {} => old \in Alive /\ Cardinality(Alive \ (Range(queue) \cup {old})) < limit
  <2>1. CASE old = None
    BY <2>1
  <2>2. CASE old # None
    <3>. DEFINE x == RemoveQueued(queue, old)
    <3>1. old \in Alive
      BY <1>4, <2>2, ListedFact
    <3>2. /\ \A u, t \in x.in : u = t
          /\ x.in \subseteq Range(queue)
          /\ x.in # {} => Cardinality(Alive \ (Range(queue) \cup {old})) < limit
      BY <3>1, ListedFact, RemoveQueuedFact, LetInFact
    <3>. HIDE DEF x
    <3>3. r = x
      BY <2>2 DEF x
    <3>. HIDE DEF r
    <3>. QED  BY <3>1, <3>2, <3>3
  <2>. QED  BY <2>1, <2>2
<1>. HIDE DEF r
<1>7. limit \in Nat /\ s \in Sessions /\ init[s] = "no" /\ init'[s] # "no"
  BY AdmissionAssumption, ListedFact DEF LetIn
<1>8. \A t \in OthersIn(s) :
        /\ t \in Alive \ {s, old}
        /\ t \notin Range(queue) \/ t \in r.in
  <2>. SUFFICES ASSUME NEW t \in OthersIn(s)
                PROVE  /\ t \in Alive \ {s, old}
                       /\ t \notin Range(queue) \/ t \in r.in
    OBVIOUS
  <2>. HIDE DEF new
  <2>1. t \in Listed' /\ t # s /\ t \in Sessions /\ init'[t] # "no"
    BY AdmissionAssumption DEF OthersIn
  <2>2. PICK b \in Accounts : t = listed'[b] /\ t # None
    BY <2>1 DEF Listed
  <2>3. \/ b = acc /\ t = new
        \/ b # acc /\ t = listed[b]
    BY <1>1, <1>4, <2>2 DEF IInv, TypeOK
  <2>4. t \in Alive /\ t # old
    BY <1>4, <2>2, <2>3, ListedFact
  <2>5. t \notin r.in => init[t] # "no" \/ t = new
    BY <1>1, <2>1, <2>4 DEF Started
  <2>. QED  BY <1>5, <2>1, <2>4, <2>5, ListedFact
<1>9. CASE s \in r.in
  <2>. DEFINE A == Alive \ (Range(queue) \cup {old})
  <2>1. OthersIn(s) \subseteq A /\ Cardinality(A) < limit /\ A \in SUBSET Sessions
    BY <1>6, <1>8, <1>9 DEF Alive
  <2>. HIDE DEF A
  <2>. QED  BY <1>7, <2>1, RoomyFact
<1>10. CASE s \notin r.in
  <2>. HIDE DEF new, sessions
  <2>0. s = new /\ init' = Started(r.in \cup {new}, init)
    BY <1>1, <1>7, <1>10 DEF Started
  <2>1. s = new /\ ~(sessions >= limit)
    BY <1>1, <1>5, <1>7, <1>10, <2>0 DEF Started
  <2>2. IsFiniteSet(Alive) /\ Cardinality(Alive) \in 0 .. UintMod - 1
    BY AliveFact DEF Alive
  <2>3. Cardinality(Alive \ {s}) = Cardinality(Alive) - 1 /\ Cardinality(Alive) # 0
    BY <1>4, <2>1, <2>2, FS_RemoveElement, FS_EmptySet
  <2>4. count = Cardinality(Alive) /\ (count - 1) % UintMod = count - 1
    <3>1. count = Cardinality(Alive)  BY DEF Counted
    <3>2. count - 1 \in 0 .. UintMod - 1  BY <2>2, <2>3, <3>1, AdmissionAssumption
    <3>. QED  BY <3>1, <3>2, SmallMod
  <2>5. Cardinality(Alive \ {s}) < limit
    <3>1. sessions = count \/ sessions = count - 1
      BY <2>4 DEF sessions
    <3>. QED  BY <1>7, <2>1, <2>2, <2>3, <2>4, <3>1
  <2>6. OthersIn(s) \subseteq Alive \ {s} /\ Alive \ {s} \in SUBSET Sessions
    BY <1>8 DEF Alive
  <2>. QED  BY <1>7, <2>5, <2>6, RoomyFact
<1>. QED  BY <1>9, <1>10

\* Others let nobody in.
LEMMA NextLimit ==
  ASSUME Cardinality(Sessions) < UintMod, IInv, Counted, Serialised, limit > 0,
         [Next]_vars, NEW s \in Regular, LetIn(s),
         s \in Range(queue) \/ ~HasRecentlyDisconnected(s)
  PROVE  Roomy(s)
<1>1. s \in Sessions /\ init[s] = "no" /\ init'[s] # "no"
  BY AdmissionAssumption DEF LetIn
<1>2. CASE WorldThread
  <2>1. CASE AddSession_
    BY <2>1, AddSessionLimit
  <2>2. CASE BeginUpdateSessions \/ EndAddSessions \/ EndUpdateSessions
    BY <1>1, <2>2 DEF BeginUpdateSessions, EndAddSessions, EndUpdateSessions, worldVars
  <2>3. ASSUME NEW acc \in Accounts, NEW ready \in BOOLEAN, UpdateClosed(acc, ready)
        PROVE  Roomy(s)
    BY <2>3, UpdateClosedLimit
  <2>4. ASSUME NEW acc \in Accounts, NEW ready \in BOOLEAN, UpdateOpen(acc, ready)
        PROVE  Roomy(s)
    BY <1>1, <2>4 DEF UpdateOpen, CallbackRun, IInv, TypeOK
  <2>. QED  BY <1>2, <2>1, <2>2, <2>3, <2>4 DEF WorldThread
<1>3. ASSUME NEW x \in Sessions,
             \/ Construct(x) \/ Lifetime(x) \/ AddSession(x)
             \/ PeerClose(x) \/ EnterMap(x) \/ LeaveMap(x)
      PROVE  Roomy(s)
  BY <1>1, <1>3 DEF Construct, Lifetime, IncreaseSessionCount, Destroy, DecreaseSessionCount,
       AddSession, PeerClose, EnterMap, LeaveMap, worldVars
<1>4. CASE KickAll \/ KickAllLess \/ SetPlayerAmountLimit \/ Tick \/ UNCHANGED vars
  BY <1>1, <1>4 DEF KickAll, KickAllLess, SetPlayerAmountLimit, Tick, vars, worldVars
<1>. QED  BY <1>2, <1>3, <1>4 DEF Next

\* While no update of the counter is lost and fewer than 2^32 sessions exist,
\* no player is let in when PlayerLimit others are in.
THEOREM LimitHolds ==
  ASSUME Cardinality(Sessions) < UintMod
  PROVE  Spec => LimitRespected
<1>. DEFINE Kept == \A s \in Regular :
                      /\ LetIn(s) /\ limit > 0 /\ Serialised
                      /\ s \in Range(queue) \/ ~HasRecentlyDisconnected(s)
                      => Roomy(s)
<1>1. IInv /\ Counted /\ [Next]_vars => Kept
  BY NextLimit
<1>2. Init => Counted
  BY InitCounted
<1>3. IInv => TypeOK
  BY DEF IInv
<1>4. TypeOK /\ Counted /\ [Next]_vars => Counted'
  BY NextCounted
<1>5. Spec => [][Kept]_vars
  <2>. HIDE DEF Kept
  <2>. QED  BY <1>1, <1>2, <1>3, <1>4, Inductive, PTL DEF Spec
<1>. QED  BY <1>5 DEF LimitRespected, Within, Roomy, OthersIn

-----------------------------------------------------------------------------
(* How many players are in at a time.                                      *)

InWorld == {t \in Listed \cap Regular : init[t] # "no"}

\* Who is in and was not let in by this step was in before.
LEMMA StayIn ==
  ASSUME IInv, [Next]_vars, \A s \in Regular : ~LetIn(s)
  PROVE  InWorld' \subseteq InWorld
<1>. SUFFICES ASSUME NEW t \in InWorld' PROVE t \in Listed
  BY DEF InWorld, LetIn
<1>1. t \in Listed' /\ t \in Regular /\ t \in Sessions /\ init[t] # "no"
  BY AdmissionAssumption DEF InWorld, LetIn
<1>2. PICK b \in Accounts : t = listed'[b] /\ t # None
  BY <1>1 DEF Listed
<1>3. t = listed[b]
  <2>1. CASE AddSession_
    <3>. DEFINE new == Head(addQ)
    <3>1. listed' = [listed EXCEPT ![Account[new]] = new] /\ addQ # <<>>
      BY <2>1 DEF AddSession_
    <3>2. addQ \in Seq(Sessions) /\ Distinct(addQ)
      BY DEF IInv, TypeOK, Bookkeeping
    <3>3. new \in Range(addQ)
      BY <3>1, <3>2, TailFact
    <3>4. Untouched(new)
      BY <3>2, <3>3 DEF IInv, Bookkeeping, Range
    <3>5. new # t
      BY <1>1, <3>4 DEF Untouched
    <3>. HIDE DEF new
    <3>. QED  BY <1>2, <3>1, <3>5 DEF IInv, TypeOK
  <2>2. ASSUME NEW acc \in Accounts, NEW ready \in BOOLEAN, UpdateClosed(acc, ready)
        PROVE  t = listed[b]
    <3>1. listed' = [listed EXCEPT ![acc] = None]
      BY <2>2 DEF UpdateClosed
    <3>. QED  BY <1>2, <3>1 DEF IInv, TypeOK
  <2>3. ASSUME listed' = listed PROVE t = listed[b]
    BY <1>2, <2>3
  <2>4. ASSUME NEW acc \in Accounts, NEW ready \in BOOLEAN, UpdateOpen(acc, ready)
        PROVE  listed' = listed
    BY <2>4 DEF UpdateOpen
  <2>5. BeginUpdateSessions \/ EndAddSessions \/ EndUpdateSessions => listed' = listed
    BY DEF BeginUpdateSessions, EndAddSessions, EndUpdateSessions, worldVars
  <2>6. ASSUME NEW x \in Sessions,
               \/ Construct(x) \/ Lifetime(x) \/ AddSession(x)
               \/ PeerClose(x) \/ EnterMap(x) \/ LeaveMap(x)
        PROVE  listed' = listed
    BY <2>6 DEF Construct, Lifetime, IncreaseSessionCount, Destroy, DecreaseSessionCount,
         AddSession, PeerClose, EnterMap, LeaveMap, worldVars
  <2>7. KickAll \/ KickAllLess \/ SetPlayerAmountLimit \/ Tick \/ UNCHANGED vars => listed' = listed
    BY DEF KickAll, KickAllLess, SetPlayerAmountLimit, Tick, vars, worldVars
  <2>8. WorldThread => t = listed[b]
    BY <2>1, <2>2, <2>3, <2>4, <2>5 DEF WorldThread
  <2>. QED  BY <2>3, <2>6, <2>7, <2>8 DEF Next
<1>. QED  BY <1>2, <1>3 DEF Listed

LEMMA StepKeepsLimit ==
  ASSUME Cardinality(Sessions) < UintMod, Serialised, Tolerance = 0,
         NEW m \in Nat, \A l \in Limits : l # 0 /\ l <= m,
         IInv, Counted, Cardinality(InWorld) <= m, [Next]_vars
  PROVE  Cardinality(InWorld') <= m
<1>1. limit \in Nat /\ limit > 0 /\ limit <= m
  BY AdmissionAssumption DEF IInv, TypeOK
<1>2. InWorld \in SUBSET Sessions /\ InWorld' \in SUBSET Sessions /\ IsFiniteSet(Sessions)
  BY AdmissionAssumption DEF InWorld
<1>3. CASE \E s \in Regular : LetIn(s)
  <2>1. PICK s \in Regular : LetIn(s)  BY <1>3
  <2>2. ~HasRecentlyDisconnected(s)  BY DEF HasRecentlyDisconnected
  <2>3. Cardinality(OthersIn(s)) < limit
    BY <1>1, <2>1, <2>2, NextLimit DEF Roomy
  <2>4. OthersIn(s) = InWorld' \ {s}
    BY DEF OthersIn, InWorld
  <2>. PICK others : others = OthersIn(s)  OBVIOUS
  <2>5. others \in SUBSET Sessions /\ IsFiniteSet(others)
    BY <1>2, <2>4, FS_Subset
  <2>6. /\ IsFiniteSet(others \cup {s}) /\ Cardinality(others) \in Nat
        /\ Cardinality(others \cup {s}) = Cardinality(others) + 1
    <3>1. s \notin others  BY <2>4
    <3>. QED  BY <2>5, <3>1, FS_AddElement, FS_CardinalityType
  <2>7. InWorld' \subseteq others \cup {s}
    BY <2>4
  <2>8. Cardinality(InWorld') <= Cardinality(others \cup {s}) /\ Cardinality(InWorld') \in Nat
    BY <2>6, <2>7, FS_Subset, FS_CardinalityType
  <2>. QED  BY <1>1, <2>3, <2>6, <2>8
<1>4. CASE \A s \in Regular : ~LetIn(s)
  <2>1. InWorld' \subseteq InWorld  BY <1>4, StayIn
  <2>2. IsFiniteSet(InWorld)  BY <1>2, FS_Subset
  <2>3. Cardinality(InWorld') <= Cardinality(InWorld) /\ Cardinality(InWorld) \in Nat
        /\ Cardinality(InWorld') \in Nat
    BY <2>1, <2>2, FS_Subset, FS_CardinalityType
  <2>. QED  BY <2>3
<1>. QED  BY <1>3, <1>4

\* Never are more players in than the largest limit that was ever set, however
\* sessions come, reconnect, are kicked and die.
THEOREM NeverMoreThanTheLimit ==
  ASSUME Cardinality(Sessions) < UintMod, Serialised, Tolerance = 0,
         NEW m \in Nat, \A l \in Limits : l # 0 /\ l <= m
  PROVE  Spec => [](Cardinality(InWorld) <= m)
<1>. DEFINE Few == Cardinality(InWorld) <= m
<1>1. Init => Counted
  BY InitCounted
<1>2. IInv => TypeOK
  BY DEF IInv
<1>3. TypeOK /\ Counted /\ [Next]_vars => Counted'
  BY NextCounted
<1>4. Init => Few
  <2>1. Init => InWorld = {}
    BY AdmissionAssumption DEF Init, InWorld, Listed
  <2>. QED  BY <2>1, FS_EmptySet
<1>5. IInv /\ Counted /\ Few /\ [Next]_vars => Few'
  BY StepKeepsLimit
<1>. HIDE DEF Few
<1>6. Spec => []Few
  BY <1>1, <1>2, <1>3, <1>4, <1>5, Inductive, PTL DEF Spec
<1>. QED  BY <1>6 DEF Few
=============================================================================
