----------------------- MODULE SocketLifecycleProofs -----------------------
(***************************************************************************)
(* Proofs about SocketLifecycle for every set of sockets, all packet sizes *)
(* and buffer capacities: types, and that every socket is a packet stream. *)
(***************************************************************************)
EXTENDS SocketLifecycle, SequenceTheorems, FiniteSetTheorems, TLAPS

-----------------------------------------------------------------------------
(***************************************************************************)
(* The queue q holds the blocks from + 1 .. to, in order and without a gap.*)
(* The bounds and the order of distant elements follow from the other      *)
(* conjuncts by induction; stating them spares the proofs that induction.  *)
(***************************************************************************)
Chained(q, from, to) ==
  /\ from <= to
  /\ q = <<>> => from = to
  /\ q # <<>> => q[1].lo = from /\ q[Len(q)].hi = to
  /\ \A i \in 1 .. Len(q) : from <= q[i].lo /\ q[i].lo <= q[i].hi /\ q[i].hi <= to
  /\ \A i, j \in 1 .. Len(q) : j = i + 1 => q[i].hi = q[j].lo
  /\ \A i, j \in 1 .. Len(q) : i < j => q[i].hi <= q[j].lo

\* The elements of a queue of packets.
LEMMA ElementFact ==
  ASSUME NEW q \in Seq(Packet)
  PROVE  \A i \in 1 .. Len(q) : q[i] \in Packet /\ q[i].lo \in Nat /\ q[i].hi \in Nat
<1>1. \A i \in 1 .. Len(q) : q[i] \in Packet
  OBVIOUS
<1>2. \A p \in Packet : p.lo \in Nat /\ p.hi \in Nat
  BY DEF Packet
<1> QED
  BY <1>1, <1>2

\* A packet that loses its first k blocks.
LEMMA PartFact ==
  ASSUME NEW p \in Packet, NEW k \in Nat
  PROVE  /\ [p EXCEPT !.lo = @ + k] \in Packet
         /\ [p EXCEPT !.lo = @ + k].lo = p.lo + k
         /\ [p EXCEPT !.lo = @ + k].hi = p.hi
  BY DEF Packet

\* Appending the blocks that come next.
LEMMA ChainAppend ==
  ASSUME NEW q \in Seq(Packet), NEW from \in Nat, NEW to \in Nat, NEW p \in Packet,
         Chained(q, from, to), p.lo = to, p.lo <= p.hi
  PROVE  Append(q, p) \in Seq(Packet) /\ Chained(Append(q, p), from, p.hi)
<1> DEFINE r == Append(q, p)
<1>1. /\ r \in Seq(Packet) /\ Len(r) = Len(q) + 1 /\ Len(q) \in Nat
      /\ \A i \in 1 .. Len(q) : r[i] = q[i]
      /\ r[Len(q) + 1] = p
      /\ r # <<>>
  OBVIOUS
<1>8. p.lo \in Nat /\ p.hi \in Nat
  BY DEF Packet
<1>2. p.lo \in Nat /\ p.hi \in Nat /\ \A i \in 1 .. Len(q) : q[i].lo \in Nat /\ q[i].hi \in Nat
  BY <1>8, ElementFact
<1> HIDE DEF r
<1>3. r[1].lo = from
  <2>1. CASE q = <<>>
    BY <1>1, <2>1 DEF Chained
  <2>2. CASE q # <<>>
    BY <1>1, <2>2 DEF Chained
  <2> QED
    BY <2>1, <2>2
<1>4. \A i \in 1 .. Len(r) : from <= r[i].lo /\ r[i].lo <= r[i].hi /\ r[i].hi <= p.hi
  <2> SUFFICES ASSUME NEW i \in 1 .. Len(r)
               PROVE  from <= r[i].lo /\ r[i].lo <= r[i].hi /\ r[i].hi <= p.hi
    OBVIOUS
  <2>1. CASE i = Len(q) + 1
    BY <1>1, <1>2, <2>1 DEF Chained
  <2>2. CASE i # Len(q) + 1
    <3>1. i \in 1 .. Len(q) /\ r[i] = q[i]
      BY <1>1, <2>2
    <3> QED
      BY <1>2, <3>1 DEF Chained
  <2> QED
    BY <2>1, <2>2
<1>5. \A i, j \in 1 .. Len(r) : j = i + 1 => r[i].hi = r[j].lo
  <2> SUFFICES ASSUME NEW i \in 1 .. Len(r), NEW j \in 1 .. Len(r), j = i + 1
               PROVE  r[i].hi = r[j].lo
    OBVIOUS
  <2>1. CASE j = Len(q) + 1
    <3>1. i = Len(q) /\ i \in 1 .. Len(q) /\ q # <<>>
      BY <1>1, <2>1
    <3> QED
      BY <1>1, <2>1, <3>1 DEF Chained
  <2>2. CASE j # Len(q) + 1
    BY <1>1, <2>2 DEF Chained
  <2> QED
    BY <2>1, <2>2
<1>6. \A i, j \in 1 .. Len(r) : i < j => r[i].hi <= r[j].lo
  <2> SUFFICES ASSUME NEW i \in 1 .. Len(r), NEW j \in 1 .. Len(r), i < j
               PROVE  r[i].hi <= r[j].lo
    OBVIOUS
  <2>1. i \in 1 .. Len(q) /\ r[i] = q[i]
    BY <1>1
  <2>2. CASE j = Len(q) + 1
    BY <1>1, <1>2, <2>1, <2>2 DEF Chained
  <2>3. CASE j # Len(q) + 1
    BY <1>1, <2>1, <2>3 DEF Chained
  <2> QED
    BY <2>2, <2>3
<1>7. from <= p.hi
  BY <1>2 DEF Chained
<1> QED
  BY <1>1, <1>3, <1>4, <1>5, <1>6, <1>7 DEF Chained, r

\* Taking the first element off.
LEMMA ChainTail ==
  ASSUME NEW q \in Seq(Packet), NEW from \in Nat, NEW to \in Nat,
         q # <<>>, Chained(q, from, to)
  PROVE  /\ Tail(q) \in Seq(Packet) /\ Head(q) \in Packet
         /\ Head(q).lo = from /\ from <= Head(q).hi /\ Head(q).hi <= to
         /\ Chained(Tail(q), Head(q).hi, to)
<1> DEFINE r == Tail(q)
<1>1. /\ r \in Seq(Packet) /\ Len(r) = Len(q) - 1 /\ Len(q) \in Nat \ {0}
      /\ \A i \in 1 .. Len(r) : r[i] = q[i + 1] /\ i + 1 \in 1 .. Len(q)
      /\ Head(q) = q[1] /\ Head(q) \in Packet
  OBVIOUS
<1>2. \A i \in 1 .. Len(q) : q[i].lo \in Nat /\ q[i].hi \in Nat
  BY ElementFact
<1> HIDE DEF r
<1>9. r = <<>> <=> Len(r) = 0
  BY <1>1, EmptySeq
<1>3. Head(q).lo = from /\ from <= Head(q).hi /\ Head(q).hi <= to
  BY <1>1, <1>2 DEF Chained
<1>4. r = <<>> => Head(q).hi = to
  <2> SUFFICES ASSUME r = <<>> PROVE Head(q).hi = to
    OBVIOUS
  <2>1. Len(q) = 1
    BY <1>1, <1>9
  <2> QED
    BY <1>1, <2>1 DEF Chained
<1>5. r # <<>> => r[1].lo = Head(q).hi /\ r[Len(r)].hi = to
  <2> SUFFICES ASSUME r # <<>> PROVE r[1].lo = Head(q).hi /\ r[Len(r)].hi = to
    OBVIOUS
  <2>1. Len(r) \in Nat \ {0} /\ Len(r) + 1 = Len(q)
    BY <1>1, <1>9
  <2>2. r[1] = q[2] /\ r[Len(r)] = q[Len(q)]
    BY <1>1, <2>1
  <2>4. 1 \in 1 .. Len(q) /\ 2 \in 1 .. Len(q) /\ 2 = 1 + 1
    BY <1>1, <2>1
  <2>3. q[1].hi = q[2].lo
    BY <2>4 DEF Chained
  <2> QED
    BY <1>1, <2>2, <2>3 DEF Chained
<1>6. \A i \in 1 .. Len(r) : Head(q).hi <= r[i].lo /\ r[i].lo <= r[i].hi /\ r[i].hi <= to
  <2> SUFFICES ASSUME NEW i \in 1 .. Len(r)
               PROVE  Head(q).hi <= r[i].lo /\ r[i].lo <= r[i].hi /\ r[i].hi <= to
    OBVIOUS
  <2>1. 1 \in 1 .. Len(q) /\ i + 1 \in 1 .. Len(q) /\ 1 < i + 1 /\ r[i] = q[i + 1]
    BY <1>1
  <2> QED
    BY <1>1, <2>1 DEF Chained
<1>7. \A i, j \in 1 .. Len(r) : j = i + 1 => r[i].hi = r[j].lo
  <2> SUFFICES ASSUME NEW i \in 1 .. Len(r), NEW j \in 1 .. Len(r), j = i + 1
               PROVE  r[i].hi = r[j].lo
    OBVIOUS
  <2>1. j + 1 = (i + 1) + 1 /\ r[i] = q[i + 1] /\ r[j] = q[j + 1]
    BY <1>1
  <2>2. i + 1 \in 1 .. Len(q) /\ j + 1 \in 1 .. Len(q)
    BY <1>1
  <2> QED
    BY <2>1, <2>2 DEF Chained
<1>8. \A i, j \in 1 .. Len(r) : i < j => r[i].hi <= r[j].lo
  <2> SUFFICES ASSUME NEW i \in 1 .. Len(r), NEW j \in 1 .. Len(r), i < j
               PROVE  r[i].hi <= r[j].lo
    OBVIOUS
  <2>1. i + 1 < j + 1 /\ r[i] = q[i + 1] /\ r[j] = q[j + 1]
    BY <1>1
  <2>2. i + 1 \in 1 .. Len(q) /\ j + 1 \in 1 .. Len(q)
    BY <1>1
  <2> QED
    BY <2>1, <2>2 DEF Chained
<1> QED
  BY <1>1, <1>3, <1>4, <1>5, <1>6, <1>7, <1>8 DEF Chained, r

\* The first element loses its first blocks.
LEMMA ChainPart ==
  ASSUME NEW q \in Seq(Packet), NEW from \in Nat, NEW to \in Nat, NEW k \in Nat,
         q # <<>>, Chained(q, from, to), from + k <= Head(q).hi
  PROVE  /\ <<[Head(q) EXCEPT !.lo = @ + k]>> \o Tail(q) \in Seq(Packet)
         /\ Chained(<<[Head(q) EXCEPT !.lo = @ + k]>> \o Tail(q), from + k, to)
<1> DEFINE h == [Head(q) EXCEPT !.lo = @ + k]
           r == <<h>> \o Tail(q)
<1>1. /\ Head(q).lo = from /\ Head(q).hi <= to /\ Head(q) \in Packet
      /\ Tail(q) \in Seq(Packet) /\ Len(q) \in Nat \ {0} /\ Head(q) = q[1]
  BY ChainTail
<1>2. h \in Packet /\ h.lo = from + k /\ h.hi = q[1].hi
  BY <1>1, PartFact
<1> HIDE DEF h
<1>3. /\ r \in Seq(Packet) /\ Len(r) = Len(q)
      /\ r[1] = h /\ \A i \in 2 .. Len(q) : r[i] = q[i]
      /\ r # <<>>
  BY <1>1, <1>2
<1>4. \A i \in 1 .. Len(q) : q[i].lo \in Nat /\ q[i].hi \in Nat
  BY ElementFact
<1> HIDE DEF r
<1>5. r[1].lo = from + k /\ r[Len(r)].hi = to
  BY <1>1, <1>2, <1>3 DEF Chained
<1>6. \A i \in 1 .. Len(r) : from + k <= r[i].lo /\ r[i].lo <= r[i].hi /\ r[i].hi <= to
  <2> SUFFICES ASSUME NEW i \in 1 .. Len(r)
               PROVE  from + k <= r[i].lo /\ r[i].lo <= r[i].hi /\ r[i].hi <= to
    OBVIOUS
  <2>1. CASE i = 1
    BY <1>1, <1>2, <1>3, <2>1
  <2>2. CASE i # 1
    <3>1. i \in 2 .. Len(q) /\ 1 \in 1 .. Len(q) /\ 1 < i
      BY <1>1, <1>3, <2>2
    <3>2. q[1].hi <= q[i].lo
      BY <3>1 DEF Chained
    <3> QED
      BY <1>1, <1>3, <1>4, <3>1, <3>2 DEF Chained
  <2> QED
    BY <2>1, <2>2
<1>7. \A i, j \in 1 .. Len(r) : j = i + 1 => r[i].hi = r[j].lo
  BY <1>1, <1>2, <1>3, <1>4 DEF Chained
<1>8. \A i, j \in 1 .. Len(r) : i < j => r[i].hi <= r[j].lo
  BY <1>1, <1>2, <1>3, <1>4 DEF Chained
<1>9. from + k <= to
  BY <1>1, <1>4
<1> QED
  BY <1>3, <1>5, <1>6, <1>7, <1>8, <1>9 DEF Chained, r, h

-----------------------------------------------------------------------------
(***************************************************************************)
(* The inductive invariant.  As long as socket s can be written, the wire, *)
(* _writeQueue, what WorldSocket::Update has in hand for s and _bufferQueue*)
(* hold all that was sent, in order.  Before the acceptor has queued the   *)
(* initializer, block 1 is still missing from _writeQueue.                 *)
(***************************************************************************)
InHand(s) == cur = s /\ step = "pack"

Between(s, a, b) ==
  IF InHand(s)
  THEN \/ batch = <<>> /\ buffer.lo = buffer.hi /\ a = b
       \/ buffer.lo = a /\ buffer.lo <= buffer.hi /\ Chained(batch, buffer.hi, b)
  ELSE IF place[s] = "starting" THEN a = 0 /\ b = 1
  ELSE a = b

InOrder(s) ==
  Writable(s) => \E a, b \in 0 .. sent[s] :
    /\ Chained(writeQueue[s], Len(wire[s]), a)
    /\ Chained(bufferQueue[s], b, sent[s])
    /\ Between(s, a, b)

Wire(s) == Len(wire[s]) <= sent[s] /\ wire[s] = Stream!Prefix(Len(wire[s]))

Unstarted(s) ==
  /\ place[s] = "none" =>
       /\ sent[s] = 0 /\ bufferQueue[s] = <<>> /\ auth[s] = "initializing" /\ ~reading[s]
  /\ place[s] \in {"none", "starting"} => writeQueue[s] = <<>> /\ wire[s] = <<>>

Loop ==
  /\ \A s \in todo : place[s] = "listed"
  /\ step \in {"pack", "write", "drain", "callbacks"} =>
       cur \in Sockets \ todo /\ place[cur] = "listed"
  /\ step = "drain" => ~writing[cur]

IInv == TypeOK /\ Loop /\ \A s \in Sockets : InOrder(s) /\ Wire(s) /\ Unstarted(s)

-----------------------------------------------------------------------------
\* Nothing changes for a socket that loses no data and is not in hand.
LEMMA InOrderFrame ==
  ASSUME NEW s \in Sockets, InOrder(s), Writable(s)' => Writable(s),
         sent'[s] = sent[s], wire'[s] = wire[s],
         writeQueue'[s] = writeQueue[s], bufferQueue'[s] = bufferQueue[s],
         InHand(s)' <=> InHand(s), InHand(s) => batch' = batch /\ buffer' = buffer,
         place'[s] = "starting" <=> place[s] = "starting"
  PROVE  InOrder(s)'
<1> SUFFICES ASSUME Writable(s)' PROVE
      \E a, b \in 0 .. sent[s] : /\ Chained(writeQueue[s], Len(wire[s]), a)
                                 /\ Chained(bufferQueue[s], b, sent[s])
                                 /\ Between(s, a, b)'
  BY DEF InOrder
<1>1. PICK a, b \in 0 .. sent[s] : /\ Chained(writeQueue[s], Len(wire[s]), a)
                                   /\ Chained(bufferQueue[s], b, sent[s])
                                   /\ Between(s, a, b)
  BY DEF InOrder
<1>2. Between(s, a, b)'
  BY <1>1 DEF Between
<1> QED
  BY <1>1, <1>2

\* The same for what has been sent and written.
LEMMA WireFrame ==
  ASSUME NEW s \in Sockets, Wire(s), sent'[s] = sent[s], wire'[s] = wire[s]
  PROVE  Wire(s)'
  BY DEF Wire, Stream!Prefix

\* The types of the control state and of the data.
ControlType ==
  /\ place \in [Sockets -> {"none", "starting", "started", "new", "listed", "gone"}]
  /\ auth \in [Sockets -> {"initializing", "challenged", "query", "accepted",
                           "authed", "refused"}]
  /\ peer \in [Sockets -> {"open", "closed", "reset"}]
  /\ closing \in [Sockets -> BOOLEAN]
  /\ closed \in [Sockets -> {"no", "begun", "done"}]
  /\ reading \in [Sockets -> BOOLEAN]
  /\ writing \in [Sockets -> BOOLEAN]
  /\ pending \in [Sockets -> BOOLEAN]
  /\ connections \in Int
  /\ step \in {"idle", "next", "pack", "write", "drain", "callbacks"}
  /\ cur \in Sockets \cup {None}
  /\ todo \subseteq Sockets

DataType ==
  /\ sent \in [Sockets -> Nat]
  /\ bufferQueue \in [Sockets -> Seq(Packet)]
  /\ writeQueue \in [Sockets -> Seq(Packet)]
  /\ wire \in [Sockets -> Seq(Block)]
  /\ batch \in Seq(Packet)
  /\ buffer \in [lo : Nat, hi : Nat, cap : Nat]

LEMMA TypeSplit == TypeOK <=> ControlType /\ DataType
  BY DEF TypeOK, ControlType, DataType

\* Socket t gains no way to write, and is in hand and being started as before.
Still(t) ==
  /\ Writable(t)' => Writable(t)
  /\ InHand(t)' <=> InHand(t)
  /\ place'[t] = "starting" <=> place[t] = "starting"
  /\ place'[t] = "none" =>
       place[t] = "none" /\ auth'[t] = auth[t] /\ (reading'[t] => reading[t])

LEMMA StillFact ==
  ASSUME IInv, UNCHANGED <<dataVars, packVars>>, \A t \in Sockets : Still(t)
  PROVE  DataType' /\ \A t \in Sockets : InOrder(t)' /\ Wire(t)' /\ Unstarted(t)'
<1>1. DataType'
  BY DEF IInv, TypeOK, DataType, dataVars, packVars
<1>2. ASSUME NEW t \in Sockets PROVE InOrder(t)' /\ Wire(t)' /\ Unstarted(t)'
  <2>1. InOrder(t) /\ Wire(t) /\ Unstarted(t) /\ Still(t)
    BY <1>2 DEF IInv
  <2>2. sent' = sent /\ wire' = wire /\ writeQueue' = writeQueue /\ bufferQueue' = bufferQueue
    BY DEF dataVars
  <2>3. batch' = batch /\ buffer' = buffer
    BY DEF packVars
  <2>4. InOrder(t)'
    BY <2>1, <2>2, <2>3, InOrderFrame DEF Still
  <2>5. Wire(t)'
    BY <2>1, <2>2, WireFrame
  <2>6. Unstarted(t)'
    BY <2>1, <2>2 DEF Unstarted, Still
  <2> QED
    BY <2>4, <2>5, <2>6
<1> QED
  BY <1>1, <1>2

\* The steps of the network thread's loop that move no data.
LEMMA QuietLoopInv ==
  ASSUME IInv, AddNewSockets \/ BeginWrite \/ RemoveClosed \/ NoCallback \/ EndThreadUpdate
  PROVE  IInv'
<1> USE SocketAssumption
<1> DEFINE Goal == ControlType' /\ Loop' /\ UNCHANGED <<dataVars, packVars>>
                   /\ \A t \in Sockets : Still(t)
<1> SUFFICES Goal
  <2>1. ASSUME Goal PROVE IInv'
    <3>1. DataType' /\ \A t \in Sockets : InOrder(t)' /\ Wire(t)' /\ Unstarted(t)'
      BY <2>1, StillFact
    <3> QED
      BY <2>1, <3>1 DEF IInv, TypeOK, ControlType, DataType
  <2> QED
    BY <2>1
<1>1. ControlType /\ Loop
  BY TypeSplit DEF IInv
<1>2. CASE AddNewSockets
  <2>1. {s \in In("new") : ~IsOpen(s)} \subseteq Sockets
    BY DEF In
  <2>2. Cardinality({s \in In("new") : ~IsOpen(s)}) \in Nat
    BY <2>1, FS_Subset, FS_CardinalityType
  <2>3. ControlType'
    BY <1>1, <1>2, <2>2 DEF asyncVars, ControlType, AddNewSockets, In
  <2>4. Loop'
    BY <1>1, <1>2 DEF AddNewSockets, Loop, In, ControlType
  <2>5. UNCHANGED <<dataVars, packVars>> /\ \A t \in Sockets : Still(t)
    BY <1>1, <1>2 DEF AddNewSockets, Still, InHand, Writable, ControlType
  <2> QED
    BY <2>3, <2>4, <2>5
<1>3. CASE BeginWrite
  BY <1>1, <1>3 DEF asyncVars, BeginWrite, SkipWrite, ControlType, Loop, Still, InHand, Writable, stateVars
<1>4. CASE RemoveClosed
  BY <1>1, <1>4 DEF asyncVars, RemoveClosed, Set, ControlType, Loop, Still, InHand, Writable
<1>5. CASE NoCallback
  BY <1>1, <1>5 DEF asyncVars, NoCallback, EndUpdate, ControlType, Loop, Still, InHand, Writable, stateVars
<1>6. CASE EndThreadUpdate
  BY <1>1, <1>6 DEF asyncVars, EndThreadUpdate, ControlType, Loop, Still, InHand, Writable, stateVars
<1> QED
  BY <1>2, <1>3, <1>4, <1>5, <1>6

\* The steps of other threads, and of the handlers, that move no data.
LEMMA QuietSocketInv ==
  ASSUME IInv, NEW s \in Sockets,
         \/ AddSocket(s) \/ KickPlayer(s) \/ FinishClose(s) \/ RefuseLinkClose(s)
         \/ ReadFails(s) \/ ReadIgnored(s) \/ HandleEnableEncryptionAck(s) \/ PeerCloses(s)
  PROVE  IInv'
<1> DEFINE Goal == ControlType' /\ Loop' /\ UNCHANGED <<dataVars, packVars>>
                   /\ \A t \in Sockets : Still(t)
<1> SUFFICES Goal
  <2>1. ASSUME Goal PROVE IInv'
    <3>1. DataType' /\ \A t \in Sockets : InOrder(t)' /\ Wire(t)' /\ Unstarted(t)'
      BY <2>1, StillFact
    <3> QED
      BY <2>1, <3>1 DEF IInv, TypeOK, ControlType, DataType
  <2> QED
    BY <2>1
<1>1. ControlType /\ Loop
  BY TypeSplit DEF IInv
<1>2. UNCHANGED <<step, cur, todo, dataVars, packVars>>
  BY DEF AddSocket, KickPlayer, FinishClose, RefuseLinkClose, ReadFails, ReadIgnored,
         HandleEnableEncryptionAck, PeerCloses, threadVars
<1>3. ControlType' /\ \A t \in Sockets : Still(t)
  <2>1. CASE AddSocket(s)
    BY <1>1, <1>2, <2>1 DEF asyncVars, AddSocket, ControlType, Still, InHand, Writable, Set, threadVars, stateVars
  <2>2. CASE KickPlayer(s)
    BY <1>1, <1>2, <2>2 DEF asyncVars, KickPlayer, ControlType, Still, InHand, Writable, Set, threadVars, stateVars
  <2>3. CASE FinishClose(s)
    BY <1>1, <1>2, <2>3 DEF asyncVars, FinishClose, ControlType, Still, InHand, Writable, Set, threadVars, stateVars
  <2>4. CASE RefuseLinkClose(s)
    BY <1>1, <1>2, <2>4 DEF asyncVars, RefuseLinkClose, ControlType, Still, InHand, Writable, Set, threadVars, stateVars
  <2>5. CASE ReadFails(s)
    BY <1>1, <1>2, <2>5 DEF asyncVars, ReadFails, ControlType, Still, InHand, Writable, Set, Shut, threadVars, stateVars
  <2>6. CASE ReadIgnored(s)
    BY <1>1, <1>2, <2>6 DEF asyncVars, ReadIgnored, ControlType, Still, InHand, Writable, Set, threadVars, stateVars
  <2>7. CASE HandleEnableEncryptionAck(s)
    BY <1>1, <1>2, <2>7 DEF asyncVars, IInv, Unstarted, HandleEnableEncryptionAck, ControlType, Still, InHand, Writable, Set, threadVars, stateVars
  <2>8. CASE PeerCloses(s)
    BY <1>1, <1>2, <2>8 DEF asyncVars, PeerCloses, ControlType, Still, InHand, Writable, Set, threadVars, stateVars
  <2> QED
    BY <2>1, <2>2, <2>3, <2>4, <2>5, <2>6, <2>7, <2>8
<1>4. Loop'
  BY <1>1 DEF asyncVars, Loop, ControlType, AddSocket, KickPlayer, FinishClose, RefuseLinkClose, ReadFails,
         ReadIgnored, HandleEnableEncryptionAck, PeerCloses, threadVars, stateVars, Set
<1> QED
  BY <1>2, <1>3, <1>4

\* The acceptor's thread begins to read and then queues the initializer.
LEMMA StartInv ==
  ASSUME IInv, NEW s \in Sockets, Start(s) \/ QueueInitializer(s)
  PROVE  IInv'
<1>1. ControlType /\ DataType /\ Loop
  BY TypeSplit DEF IInv
<1>2. UNCHANGED <<step, cur, todo, batch, buffer, bufferQueue, wire>>
  BY DEF Start, QueueInitializer, threadVars, packVars
<1>3. ControlType'
  BY <1>1 DEF asyncVars, ControlType, Start, QueueInitializer, threadVars, Set
<1>4. <<[lo |-> 0, hi |-> 1]>> \in Seq(Packet)
  BY DEF Packet
<1>5. DataType'
  <2>1. sent' \in [Sockets -> Nat]
    <3>1. sent' = sent \/ sent' = [sent EXCEPT ![s] = 1]
      BY DEF Start, QueueInitializer, Set
    <3> QED
      BY <1>1, <3>1 DEF DataType
  <2>2. writeQueue' \in [Sockets -> Seq(Packet)]
    BY <1>1, <1>4 DEF DataType, Start, QueueInitializer, Set
  <2> QED
    BY <1>1, <1>2, <2>1, <2>2 DEF DataType
<1>6. Loop'
  BY <1>1, <1>2 DEF asyncVars, Loop, ControlType, Start, QueueInitializer, threadVars, Set
<1>7. ASSUME NEW t \in Sockets, t # s PROVE InOrder(t)' /\ Wire(t)' /\ Unstarted(t)'
  <2>1. InOrder(t) /\ Wire(t) /\ Unstarted(t)
    BY <1>7 DEF IInv
  <2>2. /\ sent'[t] = sent[t] /\ writeQueue'[t] = writeQueue[t] /\ place'[t] = place[t]
        /\ closed'[t] = closed[t] /\ peer'[t] = peer[t] /\ auth'[t] = auth[t]
        /\ reading'[t] = reading[t]
    BY <1>1, <1>7 DEF Start, QueueInitializer, Set, ControlType, DataType
  <2>3. InOrder(t)'
    BY <1>2, <2>1, <2>2, InOrderFrame DEF Writable, InHand
  <2>4. Wire(t)'
    BY <1>2, <2>1, <2>2, WireFrame
  <2> QED
    BY <1>2, <2>1, <2>2, <2>3, <2>4 DEF Unstarted
<1>8. InOrder(s)' /\ Wire(s)' /\ Unstarted(s)'
  <2>1. InOrder(s) /\ Wire(s) /\ Unstarted(s) /\ place[s] \in {"none", "starting"}
    BY DEF IInv, Start, QueueInitializer
  <2>2. /\ writeQueue[s] = <<>> /\ wire[s] = <<>> /\ wire'[s] = <<>>
        /\ ~InHand(s) /\ ~InHand(s)'
    BY <1>1, <1>2, <2>1 DEF Unstarted, InHand, Loop
  <2>3. CASE Start(s)
    <3>1. /\ sent[s] = 0 /\ bufferQueue[s] = <<>> /\ bufferQueue'[s] = <<>>
          /\ writeQueue'[s] = <<>>
      BY <1>2, <2>1, <2>2, <2>3 DEF Unstarted, Start
    <3>2. Unstarted(s)'
      BY <1>1, <2>2, <2>3, <3>1 DEF Unstarted, Start, Set, ControlType
    <3>3. \/ place'[s] = "started" /\ sent'[s] = 0
          \/ place'[s] = "starting" /\ sent'[s] = 1
      BY <1>1, <2>3, <3>1 DEF Start, Set, ControlType, DataType
    <3>4. \A n \in Nat : Chained(<<>>, n, n)
      BY DEF Chained
    <3>5. Len(<<>>) = 0 /\ Stream!Prefix(0) = <<>>
      BY DEF Stream!Prefix
    <3>6. Wire(s)'
      BY <2>2, <3>3, <3>5 DEF Wire
    <3>7. InOrder(s)'
      <4>1. CASE place'[s] = "started" /\ sent'[s] = 0
        BY <2>2, <3>1, <3>4, <3>5, <4>1 DEF InOrder, Between
      <4>2. CASE place'[s] = "starting" /\ sent'[s] = 1
        BY <2>2, <3>1, <3>4, <3>5, <4>2 DEF InOrder, Between
      <4> QED
        BY <3>3, <4>1, <4>2
    <3> QED
      BY <3>2, <3>6, <3>7
  <2>4. CASE QueueInitializer(s)
    <3>1. /\ place'[s] = "started" /\ place[s] = "starting" /\ sent'[s] = sent[s]
          /\ writeQueue'[s] = <<[lo |-> 0, hi |-> 1]>> /\ (Writable(s)' <=> Writable(s))
      BY <1>1, <2>4 DEF QueueInitializer, Set, ControlType, DataType, Writable
    <3>2. Wire(s)'
      BY <1>2, <2>1, <3>1, WireFrame
    <3>3. Unstarted(s)'
      BY <3>1 DEF Unstarted
    <3>4. Chained(<<[lo |-> 0, hi |-> 1]>>, 0, 1)
      BY DEF Chained
    <3>5. InOrder(s)'
      <4> SUFFICES ASSUME Writable(s)' PROVE InOrder(s)'
        BY DEF InOrder
      <4>1. PICK a, b \in 0 .. sent[s] : Chained(bufferQueue[s], b, sent[s]) /\ Between(s, a, b)
        BY <2>1, <3>1 DEF InOrder
      <4>2. b = 1 /\ 1 \in 0 .. sent[s]
        BY <2>2, <3>1, <4>1 DEF Between
      <4>3. Between(s, 1, 1)'
        BY <2>2, <3>1 DEF Between
      <4>4. Chained(writeQueue'[s], Len(wire'[s]), 1)
        BY <2>2, <3>1, <3>4
      <4> QED
        BY <1>2, <3>1, <4>1, <4>2, <4>3, <4>4 DEF InOrder
    <3> QED
      BY <3>2, <3>3, <3>5
  <2> QED
    BY <2>3, <2>4
<1>9. TypeOK'
  BY <1>3, <1>5 DEF TypeOK, ControlType, DataType
<1> QED
  BY <1>6, <1>7, <1>8, <1>9 DEF IInv

-----------------------------------------------------------------------------
\* SendPacket on socket s, or no packet at all, whatever else the step does.
LEMMA SendFact ==
  ASSUME IInv, NEW s \in Sockets, SendPacket(s) \/ UNCHANGED <<sent, bufferQueue>>,
         UNCHANGED <<writeQueue, wire, batch, buffer>>, place[s] # "none",
         \A t \in Sockets : Still(t)
  PROVE  DataType' /\ \A t \in Sockets : InOrder(t)' /\ Wire(t)' /\ Unstarted(t)'
<1> USE SocketAssumption
<1>1. ControlType /\ DataType
  BY TypeSplit DEF IInv
<1>2. ASSUME NEW t \in Sockets, sent'[t] = sent[t], bufferQueue'[t] = bufferQueue[t]
      PROVE  InOrder(t)' /\ Wire(t)' /\ Unstarted(t)'
  <2>1. InOrder(t) /\ Wire(t) /\ Unstarted(t) /\ Still(t)
    BY DEF IInv
  <2>2. InOrder(t)'
    BY <1>2, <2>1, InOrderFrame DEF Still
  <2>3. Wire(t)'
    BY <1>2, <2>1, WireFrame
  <2> QED
    BY <1>2, <2>1, <2>2, <2>3 DEF Unstarted, Still
<1>3. CASE UNCHANGED <<sent, bufferQueue>>
  BY <1>1, <1>2, <1>3 DEF DataType
<1>4. CASE SendPacket(s) /\ ~UNCHANGED <<sent, bufferQueue>>
  <2>1. PICK n \in Sizes : /\ bufferQueue' = Set(bufferQueue, s, Pushed(s, n))
                           /\ sent' = Set(sent, s, sent[s] + n)
    BY <1>4 DEF SendPacket
  <2> DEFINE p == [lo |-> sent[s], hi |-> sent[s] + n]
  <2>2. /\ n \in Nat /\ sent[s] \in Nat /\ sent[s] + n \in Nat /\ p \in Packet
        /\ p.lo = sent[s] /\ p.hi = sent[s] + n /\ p.lo <= p.hi
        /\ bufferQueue[s] \in Seq(Packet)
    BY <1>1 DEF DataType, Packet
  <2> HIDE DEF p
  <2>3. bufferQueue'[s] = Append(bufferQueue[s], p) /\ sent'[s] = sent[s] + n
    BY <1>1, <2>1 DEF Set, Pushed, DataType, p
  <2>4. DataType'
    <3>1. Append(bufferQueue[s], p) \in Seq(Packet)
      BY <2>2
    <3>2. bufferQueue' \in [Sockets -> Seq(Packet)]
      BY <1>1, <2>1, <3>1 DEF DataType, Set, Pushed, p
    <3>3. sent' \in [Sockets -> Nat]
      BY <1>1, <2>1, <2>2 DEF DataType, Set
    <3> QED
      BY <1>1, <3>2, <3>3 DEF DataType
  <2>5. ASSUME NEW t \in Sockets, t # s PROVE InOrder(t)' /\ Wire(t)' /\ Unstarted(t)'
    <3>1. sent'[t] = sent[t] /\ bufferQueue'[t] = bufferQueue[t]
      BY <1>1, <2>1, <2>5 DEF Set, DataType
    <3> QED
      BY <1>2, <3>1
  <2>6. InOrder(s) /\ Wire(s) /\ Unstarted(s) /\ Still(s)
    BY DEF IInv
  <2>7. InOrder(s)'
    <3> SUFFICES ASSUME Writable(s)' PROVE InOrder(s)'
      BY DEF InOrder
    <3>1. PICK a, b \in 0 .. sent[s] : /\ Chained(writeQueue[s], Len(wire[s]), a)
                                       /\ Chained(bufferQueue[s], b, sent[s])
                                       /\ Between(s, a, b)
      BY <2>6 DEF InOrder, Still
    <3>2. Chained(bufferQueue'[s], b, sent'[s])
      BY <2>2, <2>3, <3>1, ChainAppend
    <3>3. a \in 0 .. sent'[s] /\ b \in 0 .. sent'[s]
      BY <2>2, <2>3, <3>1
    <3>4. Between(s, a, b)'
      BY <2>6, <3>1 DEF Between, Still
    <3> QED
      BY <3>1, <3>2, <3>3, <3>4 DEF InOrder
  <2>8. Wire(s)'
    <3>1. Len(wire[s]) \in Nat
      BY <1>1 DEF DataType
    <3> QED
      BY <2>2, <2>3, <2>6, <3>1 DEF Wire, Stream!Prefix
  <2>9. Unstarted(s)'
    BY <2>6 DEF Unstarted, Still
  <2> QED
    BY <2>4, <2>5, <2>7, <2>8, <2>9
<1> QED
  BY <1>3, <1>4

\* The steps that may send a packet.
LEMMA SendInv ==
  ASSUME IInv,
         \/ AuthAccepted \/ AuthRefused
         \/ \E s \in Sockets : \/ SessionSends(s) \/ RefuseLink(s)
                               \/ InitializeHandler(s) \/ HandleAuthSession(s)
                              \/ HandleAuthContinuedSession(s)
                               \/ HandleAuthContinuedSession(s)
  PROVE  IInv'
<1>1. ControlType /\ DataType /\ Loop /\ \A t \in Sockets : Unstarted(t)
  BY TypeSplit DEF IInv
<1> DEFINE Sends(s) == /\ place[s] # "none"
                       /\ SendPacket(s) \/ UNCHANGED <<sent, bufferQueue>>
                       /\ UNCHANGED <<writeQueue, wire, batch, buffer>>
                       /\ ControlType' /\ Loop' /\ \A t \in Sockets : Still(t)
<1> SUFFICES \E s \in Sockets : Sends(s)
  <2>1. ASSUME NEW s \in Sockets, Sends(s) PROVE IInv'
    <3>1. DataType' /\ \A t \in Sockets : InOrder(t)' /\ Wire(t)' /\ Unstarted(t)'
      BY <2>1, SendFact
    <3>2. TypeOK'
      BY <2>1, <3>1 DEF TypeOK, ControlType, DataType
    <3> QED
      BY <2>1, <3>1, <3>2 DEF IInv
  <2> QED
    BY <2>1
<1>2. ASSUME NEW s \in Sockets, SessionSends(s) PROVE Sends(s)
  <2>1. place[s] # "none"
    BY <1>1, <1>2 DEF SessionSends, Unstarted
  <2>2. UNCHANGED <<stateVars, reading, asyncVars, writeQueue, wire, threadVars, packVars>>
    BY <1>2 DEF SessionSends
  <2> QED
    BY <1>1, <1>2, <2>1, <2>2 DEF asyncVars, SessionSends, ControlType, Loop, Still, InHand, Writable,
         stateVars, threadVars, packVars
<1>3. ASSUME NEW s \in Sockets, RefuseLink(s) PROVE Sends(s)
  <2>1. place[s] # "none"
    BY <1>1, <1>3 DEF RefuseLink, Unstarted
  <2> QED
    BY <1>1, <1>3, <2>1 DEF asyncVars, RefuseLink, ControlType, Loop, Still, InHand, Writable,
         Set, threadVars, packVars
<1>4. ASSUME NEW s \in Sockets, InitializeHandler(s) PROVE Sends(s)
  <2>1. place[s] # "none"
    BY <1>1, <1>4 DEF InitializeHandler, Unstarted
  <2> QED
    BY <1>1, <1>4, <2>1 DEF asyncVars, InitializeHandler, ControlType, Loop, Still, InHand, Writable,
         Set, threadVars, packVars
<1>5. ASSUME NEW s \in Sockets, HandleAuthSession(s) \/ HandleAuthContinuedSession(s) PROVE Sends(s)
  <2>1. place[s] # "none"
    BY <1>1, <1>5 DEF HandleAuthSession, HandleAuthContinuedSession, Unstarted
  <2>2. /\ UNCHANGED <<place, peer, closed, asyncVars, writeQueue, wire, threadVars, packVars>>
        /\ reading' = Set(reading, s, FALSE)
        /\ SendPacket(s) \/ UNCHANGED <<sent, bufferQueue>>
    BY <1>5 DEF HandleAuthSession, HandleAuthContinuedSession, dataVars
  <2>3. ControlType'
    <3>1. auth' = Set(auth, s, "query") \/ auth' = Set(auth, s, "refused")
      BY <1>5 DEF HandleAuthSession, HandleAuthContinuedSession
    <3>2. closing' = closing \/ closing' = Set(closing, s, TRUE)
      BY <1>5 DEF HandleAuthSession, HandleAuthContinuedSession
    <3> QED
      BY <1>1, <2>2, <3>1, <3>2 DEF asyncVars, ControlType, Set, threadVars
  <2>4. Loop'
    BY <1>1, <2>2 DEF asyncVars, Loop, threadVars
  <2>5. ASSUME NEW t \in Sockets PROVE Still(t)
    <3>1. auth' = Set(auth, s, "query") \/ auth' = Set(auth, s, "refused")
      BY <1>5 DEF HandleAuthSession, HandleAuthContinuedSession
    <3> QED
      BY <1>1, <2>1, <2>2, <3>1 DEF Still, InHand, Writable, ControlType, Set, threadVars
  <2> QED
    BY <2>1, <2>2, <2>3, <2>4, <2>5 DEF packVars
<1>6. ASSUME AuthAccepted PROVE cur \in Sockets /\ Sends(cur)
  <2>1. cur \in Sockets /\ place[cur] = "listed"
    BY <1>1, <1>6 DEF AuthAccepted, Loop
  <2>2. IsOpen(cur) \in BOOLEAN
    BY <1>1, <2>1 DEF IsOpen, ControlType
  <2> QED
    BY <1>1, <1>6, <2>1, <2>2 DEF asyncVars, AuthAccepted, EndUpdate, ControlType, Loop, Still, InHand,
         Writable, Set, packVars
<1>7. ASSUME AuthRefused PROVE cur \in Sockets /\ Sends(cur)
  <2>1. cur \in Sockets /\ place[cur] = "listed"
    BY <1>1, <1>7 DEF asyncVars, AuthRefused, Loop
  <2> QED
    BY <1>1, <1>7, <2>1 DEF asyncVars, AuthRefused, EndUpdate, ControlType, Loop, Still, InHand,
         Writable, Set, packVars
<1> QED
  BY <1>2, <1>3, <1>4, <1>5, <1>6, <1>7

-----------------------------------------------------------------------------
\* A step of WorldSocket::Update on socket s leaves the other sockets alone.
LEMMA PackFact ==
  ASSUME IInv, NEW s \in Sockets, place[s] = "listed", step = "pack" => cur = s, cur' = s,
         UNCHANGED <<stateVars, reading, asyncVars, sent, wire>>,
         \A t \in Sockets \ {s} :
           writeQueue'[t] = writeQueue[t] /\ bufferQueue'[t] = bufferQueue[t],
         ControlType', Loop', DataType', InOrder(s)'
  PROVE  IInv'
<1>1. /\ place' = place /\ closed' = closed /\ peer' = peer /\ auth' = auth
      /\ reading' = reading /\ sent' = sent /\ wire' = wire
  BY DEF stateVars
<1>2. ASSUME NEW t \in Sockets, t # s PROVE InOrder(t)' /\ Unstarted(t)'
  <2>1. InOrder(t) /\ Unstarted(t)
    BY DEF IInv
  <2>2. ~InHand(t) /\ ~InHand(t)'
    BY <1>2 DEF InHand
  <2>3. writeQueue'[t] = writeQueue[t] /\ bufferQueue'[t] = bufferQueue[t]
    BY <1>2
  <2>4. InOrder(t)'
    BY <1>1, <2>1, <2>2, <2>3, InOrderFrame DEF Writable
  <2> QED
    BY <1>1, <2>1, <2>3, <2>4 DEF Unstarted
<1>3. Unstarted(s)'
  BY <1>1 DEF Unstarted
<1>4. ASSUME NEW t \in Sockets PROVE Wire(t)'
  BY <1>1, WireFrame DEF IInv
<1>5. TypeOK'
  BY DEF TypeOK, ControlType, DataType
<1> QED
  BY <1>2, <1>3, <1>4, <1>5 DEF IInv

\* It takes the packets queued for s.
LEMMA TakeInv ==
  ASSUME IInv, NEW s \in Sockets, TakePackets(s)
  PROVE  IInv'
<1> USE SocketAssumption
<1>a. ControlType /\ DataType /\ Loop
  BY TypeSplit DEF IInv
<1>b. /\ UNCHANGED <<stateVars, reading, asyncVars, sent, wire, connections>>
      /\ place' = place /\ (Writable(s)' <=> Writable(s))
  BY DEF TakePackets, stateVars, asyncVars, threadVars, Writable
<1>c. ControlType' /\ Loop' /\ place[s] = "listed"
  BY <1>a, <1>b DEF asyncVars, TakePackets, ControlType, Loop, threadVars, stateVars
<1>2. /\ cur' = s /\ step' = "pack" /\ batch' = bufferQueue[s] /\ writeQueue' = writeQueue
      /\ bufferQueue' = Set(bufferQueue, s, <<>>)
      /\ buffer' = EmptyBuffer(IF batch' = <<>> THEN 0 ELSE Head(batch').lo, FirstCapacity)
  BY DEF TakePackets
<1>3. bufferQueue[s] \in Seq(Packet) /\ bufferQueue'[s] = <<>> /\ sent[s] \in Nat
  BY <1>a, <1>2 DEF DataType, Set
<1>4. bufferQueue[s] # <<>> => Head(bufferQueue[s]).lo \in Nat
  <2>1. ASSUME NEW q \in Seq(Packet), q # <<>> PROVE Head(q).lo \in Nat
    <3>1. Head(q) \in Packet
      BY <2>1
    <3> QED
      BY <3>1 DEF Packet
  <2> QED
    BY <1>3, <2>1
<1>5. DataType'
  <2>1. bufferQueue' \in [Sockets -> Seq(Packet)]
    BY <1>a, <1>2 DEF DataType, Set
  <2>2. buffer' \in [lo : Nat, hi : Nat, cap : Nat]
    BY <1>2, <1>4 DEF EmptyBuffer, SocketAssumption
  <2> QED
    BY <1>a, <1>b, <1>2, <1>3, <2>1, <2>2 DEF DataType
<1>6. InOrder(s)'
  <2> SUFFICES ASSUME Writable(s)' PROVE InOrder(s)'
    BY DEF InOrder
  <2>1. PICK a, b \in 0 .. sent[s] : /\ Chained(writeQueue[s], Len(wire[s]), a)
                                     /\ Chained(bufferQueue[s], b, sent[s])
                                     /\ Between(s, a, b)
    BY <1>b, <1>2 DEF InOrder, IInv
  <2>2. a = b
    BY <1>b, <1>c, <1>2, <2>1 DEF Between, InHand, TakePackets, Unstarted
  <2>3. Chained(bufferQueue'[s], sent[s], sent[s])
    BY <1>3 DEF Chained
  <2>4. batch' = <<>> => b = sent[s]
    BY <1>2, <2>1 DEF Chained
  <2>5. batch' # <<>> => Head(bufferQueue[s]).lo = b
    BY <1>2, <1>3, <2>1, ChainTail
  <2>6. InHand(s)'
    BY <1>2 DEF InHand
  <2>7. Between(s, a, sent[s])'
    <3>1. CASE batch' = <<>>
      <4>1. buffer'.lo = buffer'.hi
        BY <1>2, <3>1 DEF EmptyBuffer
      <4> QED
        BY <1>b, <2>2, <2>4, <2>6, <3>1, <4>1 DEF Between
    <3>2. CASE batch' # <<>>
      <4>1. buffer'.lo = b /\ buffer'.hi = b
        BY <1>2, <2>5, <3>2 DEF EmptyBuffer
      <4>2. b <= b
        OBVIOUS
      <4> QED
        BY <1>b, <1>2, <2>1, <2>2, <2>6, <4>1, <4>2 DEF Between
    <3> QED
      BY <3>1, <3>2
  <2>8. sent[s] \in 0 .. sent[s]
    BY <1>3
  <2> QED
    BY <1>b, <1>2, <2>1, <2>3, <2>7, <2>8 DEF InOrder
<1>7. \A t \in Sockets \ {s} : writeQueue'[t] = writeQueue[t] /\ bufferQueue'[t] = bufferQueue[t]
  BY <1>a, <1>2 DEF DataType, Set
<1> QED
  BY <1>b, <1>c, <1>2, <1>5, <1>6, <1>7, PackFact DEF TakePackets

\* It copies a packet to a buffer.
LEMMA PackInv ==
  ASSUME IInv, NEW s \in Sockets, cur = s, PackPacket
  PROVE  IInv'
<1> USE SocketAssumption
<1>a. ControlType /\ DataType /\ Loop
  BY TypeSplit DEF IInv
<1>b. /\ UNCHANGED <<stateVars, reading, asyncVars, sent, wire, connections>>
      /\ place' = place /\ (Writable(s)' <=> Writable(s))
  BY DEF PackPacket, stateVars, asyncVars, threadVars, Writable
<1>c. ControlType' /\ Loop' /\ place[s] = "listed"
  BY <1>a, <1>b DEF asyncVars, PackPacket, ControlType, Loop, threadVars, stateVars
<1> DEFINE p == Head(batch)
<1>1. /\ cur = s /\ cur' = s /\ step = "pack" /\ step' = "pack" /\ batch # <<>>
      /\ Pack(p) /\ batch' = Tail(batch) /\ bufferQueue' = bufferQueue
  BY <1>a DEF PackPacket, threadVars, p
<1>2. /\ batch \in Seq(Packet) /\ p \in Packet /\ Tail(batch) \in Seq(Packet)
      /\ p.lo \in Nat /\ p.hi \in Nat
  <2>1. batch \in Seq(Packet)
    BY <1>a DEF DataType
  <2>2. p \in Packet /\ Tail(batch) \in Seq(Packet)
    BY <1>1, <2>1
  <2> QED
    BY <2>1, <2>2 DEF Packet
<1> HIDE DEF p
<1>3. /\ buffer.lo \in Nat /\ buffer.hi \in Nat /\ buffer.cap \in Nat
      /\ buffer \in [lo : Nat, hi : Nat, cap : Nat]
  BY <1>a DEF DataType
<1> DEFINE w == writeQueue[s]
           f == Blocks(buffer)
<1>4. /\ w \in Seq(Packet) /\ f \in Packet /\ f.lo = buffer.lo /\ f.hi = buffer.hi
      /\ Append(w, f) \in Seq(Packet) /\ Append(Append(w, f), p) \in Seq(Packet)
  <2>1. w \in Seq(Packet)
    BY <1>a, <1>1 DEF DataType
  <2>2. f \in Packet /\ f.lo = buffer.lo /\ f.hi = buffer.hi
    BY <1>3 DEF Blocks, Packet
  <2> QED
    BY <1>2, <2>1, <2>2
<1>5. \/ /\ buffer' = [buffer EXCEPT !.hi = p.hi] /\ writeQueue' = writeQueue
      \/ /\ buffer' = [lo |-> p.lo, hi |-> p.hi, cap |-> Capacity]
         /\ writeQueue' = [writeQueue EXCEPT ![s] = Append(w, f)]
      \/ /\ buffer' = [lo |-> p.hi, hi |-> p.hi, cap |-> Capacity]
         /\ writeQueue' = [writeQueue EXCEPT ![s] = Append(Append(w, f), p)]
  BY <1>1 DEF Pack, Set, Flushed, EmptyBuffer
<1> HIDE DEF w, f
<1>6. DataType'
  <2>1. writeQueue' \in [Sockets -> Seq(Packet)]
    BY <1>a, <1>1, <1>4, <1>5 DEF DataType
  <2>2. buffer' \in [lo : Nat, hi : Nat, cap : Nat]
    BY <1>2, <1>3, <1>5 DEF SocketAssumption
  <2> QED
    BY <1>a, <1>b, <1>1, <1>2, <2>1, <2>2 DEF DataType
<1>7. InOrder(s)'
  <2> SUFFICES ASSUME Writable(s)' PROVE InOrder(s)'
    BY DEF InOrder
  <2>1. PICK a, b \in 0 .. sent[s] : /\ Chained(w, Len(wire[s]), a)
                                       /\ Chained(bufferQueue[s], b, sent[s])
                                       /\ Between(s, a, b)
    BY <1>b, <1>1 DEF InOrder, IInv, w
  <2>2. buffer.lo = a /\ buffer.lo <= buffer.hi /\ Chained(batch, buffer.hi, b)
    BY <1>1, <2>1 DEF Between, InHand
  <2>3. sent[s] \in Nat /\ Len(wire[s]) \in Nat /\ a \in Nat /\ b \in Nat
    BY <1>a, <1>1 DEF DataType
  <2>4. /\ p.lo = buffer.hi /\ p.lo <= p.hi /\ p.hi <= b /\ Chained(Tail(batch), p.hi, b)
    BY <1>1, <1>2, <1>3, <2>2, <2>3, ChainTail DEF p
  <2>5. Chained(Append(w, f), Len(wire[s]), buffer.hi)
    BY <1>2, <1>3, <1>4, <2>1, <2>2, <2>3, ChainAppend
  <2>6. Chained(Append(Append(w, f), p), Len(wire[s]), p.hi)
    BY <1>2, <1>3, <1>4, <2>3, <2>4, <2>5, ChainAppend
  <2>7. InHand(s)' /\ sent' = sent /\ wire' = wire
    BY <1>b, <1>1 DEF InHand
  <2> DEFINE Now(c) == /\ Chained(writeQueue'[s], Len(wire[s]), c)
                       /\ buffer'.lo = c /\ buffer'.lo <= buffer'.hi
                       /\ Chained(batch', buffer'.hi, b)
  <2>8. \E c \in 0 .. sent[s] : Now(c)
    <3>1. CASE buffer' = [buffer EXCEPT !.hi = p.hi] /\ writeQueue' = writeQueue
      <4>1. buffer'.lo = a /\ buffer'.hi = p.hi /\ buffer'.lo <= buffer'.hi
        BY <1>2, <1>3, <2>2, <2>4, <3>1
      <4> QED
        BY <1>1, <2>1, <2>4, <3>1, <4>1 DEF w
    <3>2. CASE /\ buffer' = [lo |-> p.lo, hi |-> p.hi, cap |-> Capacity]
               /\ writeQueue' = [writeQueue EXCEPT ![s] = Append(w, f)]
      <4>1. writeQueue'[s] = Append(w, f) /\ buffer'.lo = p.lo /\ buffer'.hi = p.hi
        BY <1>a, <1>1, <3>2 DEF DataType
      <4>2. p.lo \in 0 .. sent[s]
        BY <1>2, <2>1, <2>3, <2>4
      <4> QED
        BY <1>1, <2>4, <2>5, <4>1, <4>2
    <3>3. CASE /\ buffer' = [lo |-> p.hi, hi |-> p.hi, cap |-> Capacity]
               /\ writeQueue' = [writeQueue EXCEPT ![s] = Append(Append(w, f), p)]
      <4>1. /\ writeQueue'[s] = Append(Append(w, f), p)
            /\ buffer'.lo = p.hi /\ buffer'.hi = p.hi
        BY <1>a, <1>1, <3>3 DEF DataType
      <4>2. p.hi \in 0 .. sent[s] /\ p.hi <= p.hi
        BY <1>2, <2>1, <2>3, <2>4
      <4> QED
        BY <1>1, <2>4, <2>6, <4>1, <4>2
    <3> QED
      BY <1>5, <3>1, <3>2, <3>3
  <2>9. PICK c \in 0 .. sent[s] : Now(c)
    BY <2>8
  <2>10. Between(s, c, b)'
    BY <1>1, <2>7, <2>9 DEF Between
  <2> QED
    BY <1>1, <2>1, <2>7, <2>9, <2>10 DEF InOrder
<1>8. \A t \in Sockets \ {s} : writeQueue'[t] = writeQueue[t] /\ bufferQueue'[t] = bufferQueue[t]
  BY <1>a, <1>1, <1>5 DEF DataType, Set
<1> QED
  BY <1>b, <1>c, <1>1, <1>6, <1>7, <1>8, PackFact

\* It queues the last buffer.
LEMMA EndPackInv ==
  ASSUME IInv, NEW s \in Sockets, cur = s, EndPack
  PROVE  IInv'
<1> USE SocketAssumption
<1>a. ControlType /\ DataType /\ Loop
  BY TypeSplit DEF IInv
<1>b. /\ UNCHANGED <<stateVars, reading, asyncVars, sent, wire, connections>>
      /\ place' = place /\ (Writable(s)' <=> Writable(s))
  BY DEF EndPack, stateVars, asyncVars, threadVars, Writable
<1>c. ControlType' /\ Loop' /\ place[s] = "listed"
  BY <1>a, <1>b DEF asyncVars, EndPack, ControlType, Loop, threadVars, stateVars
<1>1. /\ cur = s /\ cur' = s /\ step = "pack" /\ step' = "write" /\ batch = <<>>
      /\ batch' = batch /\ bufferQueue' = bufferQueue
      /\ buffer' = [lo |-> 0, hi |-> 0, cap |-> FirstCapacity]
      /\ writeQueue' = IF Size(buffer) > 0
                       THEN [writeQueue EXCEPT ![s] = Append(writeQueue[s], Blocks(buffer))]
                       ELSE writeQueue
  BY <1>a DEF EndPack, EmptyBuffer, Flushed, Set
<1>2. /\ buffer.lo \in Nat /\ buffer.hi \in Nat /\ writeQueue[s] \in Seq(Packet)
      /\ Size(buffer) = buffer.hi - buffer.lo
  BY <1>a, <1>1 DEF DataType, Size
<1> DEFINE f == Blocks(buffer)
<1>3. f \in Packet /\ f.lo = buffer.lo /\ f.hi = buffer.hi
  BY <1>2 DEF Blocks, Packet
<1> HIDE DEF f
<1>4. Append(writeQueue[s], f) \in Seq(Packet)
  BY <1>2, <1>3
<1>5. DataType'
  <2>1. writeQueue' \in [Sockets -> Seq(Packet)]
    BY <1>a, <1>1, <1>4 DEF DataType, f
  <2>2. buffer' \in [lo : Nat, hi : Nat, cap : Nat]
    BY <1>1 DEF SocketAssumption
  <2> QED
    BY <1>a, <1>b, <1>1, <2>1, <2>2 DEF DataType
<1>6. InOrder(s)'
  <2> SUFFICES ASSUME Writable(s)' PROVE InOrder(s)'
    BY DEF InOrder
  <2>1. PICK a, b \in 0 .. sent[s] : /\ Chained(writeQueue[s], Len(wire[s]), a)
                                       /\ Chained(bufferQueue[s], b, sent[s])
                                       /\ Between(s, a, b)
    BY <1>b, <1>1 DEF InOrder, IInv
  <2>2. sent[s] \in Nat /\ Len(wire[s]) \in Nat /\ a \in Nat /\ b \in Nat
    BY <1>a, <1>1 DEF DataType
  <2>3. \/ buffer.lo = buffer.hi /\ a = b
        \/ buffer.lo = a /\ buffer.lo <= buffer.hi /\ buffer.hi = b
    BY <1>1, <2>1 DEF Between, InHand, Chained
  <2>4. Chained(writeQueue'[s], Len(wire[s]), b)
    <3>1. CASE Size(buffer) > 0
      <4>1. buffer.lo = a /\ buffer.lo <= buffer.hi /\ buffer.hi = b
        BY <1>2, <2>3, <3>1
      <4>2. writeQueue'[s] = Append(writeQueue[s], f)
        BY <1>a, <1>1, <3>1 DEF DataType, f
      <4> QED
        BY <1>2, <1>3, <2>1, <2>2, <4>1, <4>2, ChainAppend
    <3>2. CASE ~(Size(buffer) > 0)
      <4>1. a = b
        BY <1>2, <2>3, <3>2
      <4> QED
        BY <1>1, <2>1, <3>2, <4>1
    <3> QED
      BY <3>1, <3>2
  <2>5. Between(s, b, b)'
    BY <1>b, <1>c, <1>1 DEF Between, InHand
  <2> QED
    BY <1>b, <1>1, <2>1, <2>4, <2>5 DEF InOrder
<1>7. \A t \in Sockets \ {s} : writeQueue'[t] = writeQueue[t] /\ bufferQueue'[t] = bufferQueue[t]
  BY <1>a, <1>1 DEF DataType, Set
<1> QED
  BY <1>b, <1>c, <1>1, <1>5, <1>6, <1>7, PackFact

-----------------------------------------------------------------------------
\* The blocks that come next complete a longer prefix of the stream.
LEMMA WireFact ==
  ASSUME NEW n \in Nat, NEW k \in Nat
  PROVE  /\ Stream!Prefix(n) \in Seq(Block) /\ Len(Stream!Prefix(n)) = n
         /\ Stream!Prefix(n) \o Span(n, n + k) = Stream!Prefix(n + k)
<1>1. ASSUME NEW m \in Nat
      PROVE  /\ Stream!Prefix(m) \in Seq(Block) /\ Len(Stream!Prefix(m)) = m
             /\ \A i \in 1 .. m : Stream!Prefix(m)[i] = i
  <2>1. Stream!Prefix(m) \in [1 .. m -> Block]
    BY DEF Stream!Prefix, Block
  <2> QED
    BY <2>1, SeqDef DEF Stream!Prefix
<1>2. /\ Span(n, n + k) \in Seq(Block) /\ Len(Span(n, n + k)) = k
      /\ \A i \in 1 .. k : Span(n, n + k)[i] = n + i
  <2>1. Span(n, n + k) = [i \in 1 .. k |-> n + i]
    BY DEF Span
  <2>2. Span(n, n + k) \in [1 .. k -> Block]
    BY <2>1 DEF Block
  <2>3. Span(n, n + k) \in Seq(Block)
    BY <2>2, SeqDef
  <2> QED
    BY <2>1, <2>3
<1> DEFINE p == Stream!Prefix(n)
           r == Span(n, n + k)
           u == p \o r
<1>7. p \in Seq(Block) /\ Len(p) = n /\ \A i \in 1 .. n : p[i] = i
  BY <1>1
<1>8. r \in Seq(Block) /\ Len(r) = k /\ \A i \in 1 .. k : r[i] = n + i
  BY <1>2
<1> HIDE DEF p, r
<1>3. /\ u \in Seq(Block) /\ Len(u) = n + k
      /\ \A i \in 1 .. n + k : u[i] = IF i <= n THEN p[i] ELSE r[i - n]
  BY <1>7, <1>8, ConcatProperties
<1>4. \A i \in 1 .. n + k : u[i] = i
  BY <1>3, <1>7, <1>8
<1>5. n + k \in Nat
  OBVIOUS
<1> HIDE DEF u
<1>6. u = Stream!Prefix(n + k)
  BY <1>1, <1>3, <1>4, <1>5, SeqEqual
<1> QED
  BY <1>1, <1>6 DEF u, p, r

\* Writing the first k blocks of the queue of socket s lengthens its stream.
LEMMA WiredFact ==
  ASSUME IInv, NEW s \in Sockets, NEW k \in Nat, writeQueue[s] # <<>>, Writable(s),
         k <= Size(Head(writeQueue[s])), wire' = Wired(s, k), sent' = sent
  PROVE  /\ wire' \in [Sockets -> Seq(Block)]
         /\ Len(wire'[s]) = Len(wire[s]) + k /\ Wire(s)'
         /\ wire' = [wire EXCEPT ![s] = Stream!Prefix(Len(wire[s]) + k)]
         /\ \A t \in Sockets \ {s} : wire'[t] = wire[t]
         /\ Len(wire[s]) + k <= Head(writeQueue[s]).hi /\ Len(wire[s]) + k <= sent[s]
<1> DEFINE n == Len(wire[s])
           q == writeQueue[s]
<1>1. /\ n \in Nat /\ q \in Seq(Packet) /\ sent[s] \in Nat /\ q # <<>>
      /\ wire \in [Sockets -> Seq(Block)] /\ wire[s] = Stream!Prefix(n)
  BY DEF IInv, TypeOK, Wire
<1>2. PICK a \in 0 .. sent[s] : Chained(q, n, a)
  BY DEF IInv, InOrder
<1> HIDE DEF n, q
<1>3. Head(q).lo = n /\ Head(q).hi <= a /\ Head(q).hi \in Nat
  <2>1. a \in Nat /\ Head(q) \in Packet
    BY <1>1, HeadTailProperties
  <2> QED
    BY <1>1, <1>2, <2>1, ChainTail DEF Packet
<1>4. n + k <= Head(q).hi /\ n + k <= sent[s] /\ n + k \in Nat
  BY <1>1, <1>3 DEF Size, q
<1>5. wire' = [wire EXCEPT ![s] = Stream!Prefix(n + k)]
  BY <1>1, <1>3, WireFact DEF Wired, Set, q
<1>6. Stream!Prefix(n + k) \in Seq(Block) /\ Len(Stream!Prefix(n + k)) = n + k
  BY <1>4, WireFact
<1>7. wire'[s] = Stream!Prefix(n + k)
  BY <1>1, <1>5
<1>8. Wire(s)'
  <2>1. Len(wire'[s]) = n + k /\ sent'[s] = sent[s]
    BY <1>6, <1>7
  <2>2. wire'[s] = Stream!Prefix(Len(wire'[s]))
    BY <1>7, <2>1
  <2> QED
    BY <1>4, <2>1, <2>2 DEF Wire, Stream!Prefix
<1> QED
  BY <1>1, <1>4, <1>5, <1>6, <1>7, <1>8 DEF n, q

\* The effect of Socket::HandleQueue on the data of socket s.
LEMMA QueueFact ==
  ASSUME IInv, NEW s \in Sockets, NEW more \in BOOLEAN, NEW busy \in BOOLEAN,
         HandleQueue(s, more, busy),
         UNCHANGED <<place, auth, reading, sent, bufferQueue, batch, buffer>>,
         ~InHand(s), ~InHand(s)', writeQueue[s] # <<>>
  PROVE  /\ writeQueue' \in [Sockets -> Seq(Packet)] /\ wire' \in [Sockets -> Seq(Block)]
         /\ \A t \in Sockets \ {s} : wire'[t] = wire[t] /\ writeQueue'[t] = writeQueue[t]
         /\ InOrder(s)' /\ Wire(s)'
<1> DEFINE n == Len(wire[s])
           q == writeQueue[s]
<1>1. /\ n \in Nat /\ q \in Seq(Packet) /\ q # <<>> /\ sent[s] \in Nat
      /\ writeQueue \in [Sockets -> Seq(Packet)] /\ wire \in [Sockets -> Seq(Block)]
      /\ Wire(s) /\ closed \in [Sockets -> {"no", "begun", "done"}]
      /\ peer \in [Sockets -> {"open", "closed", "reset"}]
  BY DEF IInv, TypeOK
<1>2. Head(q) \in Packet /\ Tail(q) \in Seq(Packet) /\ Head(q).lo \in Nat /\ Head(q).hi \in Nat
  <2>1. Head(q) \in Packet /\ Tail(q) \in Seq(Packet)
    BY <1>1, HeadTailProperties
  <2> QED
    BY <2>1 DEF Packet
<1> HIDE DEF n, q
\* What is left is in order when it still follows what is written.
<1>3. ASSUME NEW w \in Seq(Packet), writeQueue' = Set(writeQueue, s, w),
             Writable(s)' => Writable(s),
             Writable(s)' => \A a \in 0 .. sent[s] : Chained(q, n, a) => Chained(w, Len(wire'[s]), a)
      PROVE  /\ writeQueue' \in [Sockets -> Seq(Packet)]
             /\ \A t \in Sockets \ {s} : writeQueue'[t] = writeQueue[t]
             /\ InOrder(s)'
  <2>1. /\ writeQueue' \in [Sockets -> Seq(Packet)] /\ writeQueue'[s] = w
        /\ \A t \in Sockets \ {s} : writeQueue'[t] = writeQueue[t]
    BY <1>1, <1>3 DEF Set
  <2>2. InOrder(s)'
    <3> SUFFICES ASSUME Writable(s)' PROVE InOrder(s)'
      BY DEF InOrder
    <3>1. PICK a, b \in 0 .. sent[s] : /\ Chained(q, n, a)
                                       /\ Chained(bufferQueue[s], b, sent[s])
                                       /\ Between(s, a, b)
      BY <1>3 DEF IInv, InOrder, n, q
    <3>2. Chained(writeQueue'[s], Len(wire'[s]), a)
      BY <1>3, <2>1, <3>1
    <3>3. Between(s, a, b)'
      BY <3>1 DEF Between
    <3> QED
      BY <3>1, <3>2, <3>3 DEF InOrder
  <2> QED
    BY <2>1, <2>2
\* A pop closes or leaves the socket as it is.
<1>4. ASSUME closed' = closed \/ closed' = Shut(s), peer' = peer
      PROVE  Writable(s)' => Writable(s)
  BY <1>1, <1>4 DEF Writable, Shut, Set
<1>5. ASSUME Pop(s) PROVE writeQueue' = Set(writeQueue, s, Tail(q)) /\ (closed' = closed \/ closed' = Shut(s))
  BY <1>5 DEF Pop, q
<1>6. CASE WouldBlock(s, more)
  <2>1. UNCHANGED <<peer, closed, writeQueue, wire>>
    BY <1>6 DEF WouldBlock
  <2>2. InOrder(s)'
    BY <2>1, InOrderFrame DEF Writable, IInv
  <2> QED
    BY <1>1, <2>1, <2>2, WireFrame
<1>7. CASE WriteFails(s, more)
  <2>1. ~Writable(s)' /\ UNCHANGED wire /\ Pop(s)
    BY <1>1, <1>7 DEF WriteFails, Writable, Set
  <2> QED
    BY <1>1, <1>2, <1>3, <1>5, <2>1, WireFrame
<1>8. CASE WriteEmpty(s, more)
  <2>1. Pop(s) /\ wire' = wire /\ peer' = peer /\ Head(q).hi = Head(q).lo
    BY <1>2, <1>8 DEF WriteEmpty, Size, q
  <2>2. \A a \in 0 .. sent[s] : Chained(q, n, a) => Chained(Tail(q), Len(wire'[s]), a)
    <3> SUFFICES ASSUME NEW a \in 0 .. sent[s], Chained(q, n, a)
                 PROVE  Chained(Tail(q), Len(wire'[s]), a)
      OBVIOUS
    <3>1. Chained(Tail(q), Head(q).hi, a) /\ Head(q).lo = n
      BY <1>1, ChainTail
    <3> QED
      BY <2>1, <3>1 DEF n
  <2> QED
    BY <1>1, <1>2, <1>3, <1>4, <1>5, <2>1, <2>2, WireFrame
<1>9. CASE WritePart(s, more)
  <2>1. PICK k \in 1 .. Size(Head(q)) - 1 :
          /\ wire' = Wired(s, k)
          /\ writeQueue' = Set(writeQueue, s, <<[Head(q) EXCEPT !.lo = @ + k]>> \o Tail(q))
    BY <1>9 DEF WritePart, q
  <2> DEFINE w == <<[Head(q) EXCEPT !.lo = @ + k]>> \o Tail(q)
  <2>2. Writable(s) /\ UNCHANGED <<peer, closed>> /\ k \in Nat /\ k <= Size(Head(q))
    BY <1>2, <1>9, <2>1 DEF WritePart, Size
  <2>3. /\ wire' \in [Sockets -> Seq(Block)] /\ Len(wire'[s]) = n + k /\ Wire(s)'
        /\ \A t \in Sockets \ {s} : wire'[t] = wire[t]
        /\ n + k <= Head(q).hi
    BY <1>1, <2>1, <2>2, WiredFact DEF n, q
  <2>4. w \in Seq(Packet)
    <3>1. [Head(q) EXCEPT !.lo = @ + k] \in Packet
      BY <1>2, <2>2, PartFact
    <3>2. <<[Head(q) EXCEPT !.lo = @ + k]>> \in Seq(Packet)
      BY <3>1
    <3> QED
      BY <1>2, <3>2, ConcatProperties
  <2>5. \A a \in 0 .. sent[s] : Chained(q, n, a) => Chained(w, Len(wire'[s]), a)
    <3> SUFFICES ASSUME NEW a \in 0 .. sent[s], Chained(q, n, a)
                 PROVE  Chained(w, n + k, a)
      BY <2>3
    <3>1. a \in Nat
      BY <1>1
    <3> QED
      BY <1>1, <2>2, <2>3, <3>1, ChainPart
  <2> HIDE DEF w
  <2>6. writeQueue' = Set(writeQueue, s, w)
    BY <2>1 DEF w
  <2>7. Writable(s)' => Writable(s)
    BY <2>2
  <2> QED
    BY <1>3, <2>3, <2>4, <2>5, <2>6, <2>7
<1>10. CASE WriteAll(s, more)
  <2> DEFINE k == Size(Head(q))
  <2>1. /\ Writable(s) /\ k > 0 /\ k = Head(q).hi - Head(q).lo /\ wire' = Wired(s, k)
        /\ Pop(s) /\ peer' = peer
    BY <1>10 DEF WriteAll, Size, q
  <2>2. k \in Nat /\ k <= Size(Head(q))
    BY <1>2, <2>1
  <2>3. /\ wire' \in [Sockets -> Seq(Block)] /\ Len(wire'[s]) = n + k /\ Wire(s)'
        /\ \A t \in Sockets \ {s} : wire'[t] = wire[t]
    BY <1>1, <2>1, <2>2, WiredFact DEF n, q
  <2>4. \A a \in 0 .. sent[s] : Chained(q, n, a) => Chained(Tail(q), Len(wire'[s]), a)
    <3> SUFFICES ASSUME NEW a \in 0 .. sent[s], Chained(q, n, a)
                 PROVE  Chained(Tail(q), n + k, a)
      BY <2>3
    <3>1. Chained(Tail(q), Head(q).hi, a) /\ Head(q).lo = n
      BY <1>1, ChainTail
    <3>2. n + k = Head(q).hi
      BY <1>1, <1>2, <2>1, <3>1
    <3> QED
      BY <3>1, <3>2
  <2> HIDE DEF k
  <2> QED
    BY <1>2, <1>3, <1>4, <1>5, <2>1, <2>3, <2>4
<1> QED
  BY <1>6, <1>7, <1>8, <1>9, <1>10 DEF HandleQueue, HandleNothing

\* Socket::HandleQueue, called by the write handler or by Socket::Update.
LEMMA HandleInv ==
  ASSUME IInv, NEW s \in Sockets, NEW more \in BOOLEAN, NEW busy \in BOOLEAN,
         HandleQueue(s, more, busy),
         UNCHANGED <<place, auth, closing, reading, sent, bufferQueue, batch, buffer,
                     connections, cur, todo>>,
         \/ step = "idle" /\ step' = "idle"
         \/ /\ step = "drain" /\ cur = s /\ ~busy
            /\ step' = IF more THEN "drain" ELSE "callbacks"
  PROVE  IInv'
<1>1. ControlType /\ DataType /\ Loop
  BY TypeSplit DEF IInv
<1>2. \A t \in Sockets : ~InHand(t) /\ ~InHand(t)'
  BY DEF InHand
<1>3. /\ peer' \in [Sockets -> {"open", "closed", "reset"}]
      /\ closed' \in [Sockets -> {"no", "begun", "done"}]
      /\ \A t \in Sockets \ {s} : peer'[t] = peer[t] /\ closed'[t] = closed[t]
  BY <1>1 DEF HandleQueue, HandleNothing, WouldBlock, WriteFails, WriteEmpty, WritePart,
       WriteAll, Pop, Shut, Set, ControlType
<1>4. /\ writing' \in [Sockets -> BOOLEAN] /\ pending' \in [Sockets -> BOOLEAN]
      /\ more /\ ~busy => ~writing'[s]
  BY <1>1 DEF HandleQueue, HandleNothing, WouldBlock, WriteFails, WriteEmpty, WritePart,
       WriteAll, AsyncProcessQueue, Set, ControlType
<1>5. ControlType'
  BY <1>1, <1>3, <1>4 DEF ControlType
<1>6. Loop'
  BY <1>1, <1>4 DEF Loop
<1>7. /\ writeQueue' \in [Sockets -> Seq(Packet)] /\ wire' \in [Sockets -> Seq(Block)]
      /\ \A t \in Sockets \ {s} : wire'[t] = wire[t] /\ writeQueue'[t] = writeQueue[t]
      /\ InOrder(s)' /\ Wire(s)' /\ Unstarted(s)'
  <2>1. CASE writeQueue[s] = <<>>
    <3>1. UNCHANGED <<peer, closed, writeQueue, wire>>
      BY <2>1 DEF HandleQueue, HandleNothing, WouldBlock, WriteFails, WriteEmpty, WritePart, WriteAll
    <3>2. InOrder(s)'
      BY <1>2, <3>1, InOrderFrame DEF Writable, IInv
    <3> QED
      BY <1>1, <3>1, <3>2, WireFrame DEF IInv, Unstarted, DataType
  <2>2. CASE writeQueue[s] # <<>>
    <3>1. Unstarted(s)'
      BY <2>2 DEF IInv, Unstarted
    <3> QED
      BY <1>2, <2>2, <3>1, QueueFact
  <2> QED
    BY <2>1, <2>2
<1>8. ASSUME NEW t \in Sockets, t # s PROVE InOrder(t)' /\ Wire(t)' /\ Unstarted(t)'
  <2>1. InOrder(t) /\ Wire(t) /\ Unstarted(t)
    BY DEF IInv
  <2>2. /\ wire'[t] = wire[t] /\ writeQueue'[t] = writeQueue[t]
        /\ peer'[t] = peer[t] /\ closed'[t] = closed[t]
    BY <1>3, <1>7, <1>8
  <2>3. InOrder(t)'
    BY <1>2, <2>1, <2>2, InOrderFrame DEF Writable
  <2>4. Wire(t)'
    BY <2>1, <2>2, WireFrame
  <2> QED
    BY <2>1, <2>2, <2>3, <2>4 DEF Unstarted
<1>9. TypeOK'
  BY <1>1, <1>5, <1>7 DEF TypeOK, ControlType, DataType
<1> QED
  BY <1>6, <1>7, <1>8, <1>9 DEF IInv

-----------------------------------------------------------------------------
\* The invariant holds at the start, ...
LEMMA InitInv == Init => IInv
<1> SUFFICES ASSUME Init PROVE IInv
  OBVIOUS
<1> USE SocketAssumption
<1>1. TypeOK
  BY DEF Init, TypeOK, EmptyBuffer
<1>2. Loop
  BY DEF Init, Loop
<1>3. ASSUME NEW s \in Sockets PROVE InOrder(s) /\ Wire(s) /\ Unstarted(s)
  <2>1. /\ sent[s] = 0 /\ writeQueue[s] = <<>> /\ bufferQueue[s] = <<>> /\ wire[s] = <<>>
        /\ place[s] = "none" /\ auth[s] = "initializing" /\ ~reading[s] /\ step = "idle"
    BY DEF Init
  <2>2. Chained(<<>>, 0, 0) /\ Len(<<>>) = 0 /\ 0 \in 0 .. 0 /\ Stream!Prefix(0) = <<>>
    BY DEF Chained, Stream!Prefix
  <2>3. Between(s, 0, 0)
    BY <2>1 DEF Between, InHand
  <2>4. InOrder(s)
    BY <2>1, <2>2, <2>3 DEF InOrder
  <2> QED
    BY <2>1, <2>2, <2>4 DEF Wire, Unstarted
<1> QED
  BY <1>1, <1>2, <1>3 DEF IInv

\* ... and every step keeps it.
LEMMA NextInv == IInv /\ [Next]_vars => IInv'
<1> SUFFICES ASSUME IInv, [Next]_vars PROVE IInv'
  OBVIOUS
<1>1. CASE UNCHANGED vars
  <2>1. UNCHANGED <<stateVars, reading, asyncVars, dataVars, threadVars, packVars>>
    BY <1>1 DEF vars
  <2>2. ControlType' /\ Loop' /\ \A t \in Sockets : Still(t)
    BY <2>1, TypeSplit DEF IInv, ControlType, Loop, Still, InHand, Writable,
         stateVars, asyncVars, threadVars
  <2>3. DataType' /\ \A t \in Sockets : InOrder(t)' /\ Wire(t)' /\ Unstarted(t)'
    BY <2>1, <2>2, StillFact
  <2>4. TypeOK'
    BY <2>2, <2>3 DEF TypeOK, ControlType, DataType
  <2> QED
    BY <2>2, <2>3, <2>4 DEF IInv
<1>2. CASE AddNewSockets \/ BeginWrite \/ RemoveClosed \/ NoCallback \/ EndThreadUpdate
  BY <1>2, QuietLoopInv
<1>3. CASE \E s \in Sockets : TakePackets(s)
  BY <1>3, TakeInv
<1>4. CASE PackPacket \/ EndPack
  <2>1. cur \in Sockets
    BY <1>4 DEF IInv, Loop, PackPacket, EndPack
  <2>2. PICK s \in Sockets : cur = s
    BY <2>1
  <2> QED
    BY <1>4, <2>2, PackInv, EndPackInv
<1>5. CASE Drain
  <2>1. cur \in Sockets
    BY <1>5 DEF IInv, Loop, Drain
  <2>2. PICK s \in Sockets, more \in BOOLEAN :
          /\ cur = s /\ HandleQueue(s, more, writing[cur])
          /\ step' = IF more THEN "drain" ELSE "callbacks"
    BY <1>5, <2>1 DEF Drain
  <2>3. UNCHANGED <<place, auth, closing, reading, sent, bufferQueue, batch, buffer,
                    connections, cur, todo>> /\ step = "drain"
    BY <1>5 DEF Drain, packVars
  <2>4. writing[cur] = FALSE
    BY <2>1, <2>3 DEF IInv, Loop, TypeOK
  <2>5. HandleQueue(s, more, FALSE)
    BY <2>2, <2>4
  <2> QED
    BY <2>2, <2>3, <2>5, HandleInv
<1>6. CASE AuthAccepted \/ AuthRefused
  BY <1>6, SendInv
<1>7. CASE \E s \in Sockets : Start(s) \/ QueueInitializer(s)
  BY <1>7, StartInv
<1>8. CASE \E s \in Sockets :
             \/ AddSocket(s) \/ KickPlayer(s) \/ FinishClose(s) \/ RefuseLinkClose(s)
             \/ ReadFails(s) \/ ReadIgnored(s) \/ HandleEnableEncryptionAck(s) \/ PeerCloses(s)
  BY <1>8, QuietSocketInv
<1>9. CASE \E s \in Sockets : \/ SessionSends(s) \/ RefuseLink(s)
                              \/ InitializeHandler(s) \/ HandleAuthSession(s)
                              \/ HandleAuthContinuedSession(s)
  BY <1>9, SendInv
<1>10. CASE \E s \in Sockets : WriteHandlerWrapper(s)
  <2>1. PICK s \in Sockets, more \in BOOLEAN : HandleQueue(s, more, FALSE) /\ WriteHandlerWrapper(s)
    BY <1>10 DEF WriteHandlerWrapper, NotAsync
  <2>2. UNCHANGED <<place, auth, closing, reading, sent, bufferQueue, batch, buffer,
                    connections, cur, todo>> /\ step = "idle" /\ step' = "idle"
    BY <2>1 DEF WriteHandlerWrapper, threadVars, packVars
  <2> QED
    BY <2>1, <2>2, HandleInv
<1> QED
  BY <1>1, <1>2, <1>3, <1>4, <1>5, <1>6, <1>7, <1>8, <1>9, <1>10
     DEF Next, Update, Reads, Others

(***************************************************************************)
(* The inductive invariant: what is written, queued, in hand and buffered  *)
(* for a socket that can still be written is all that was sent, in order.  *)
(***************************************************************************)
THEOREM Inductive == Spec => []IInv
  BY InitInv, NextInv, PTL DEF Spec

(***************************************************************************)
(* The state keeps its types: whatever is sent, packed and written, the    *)
(* offsets in packets and buffers are block numbers, the wire holds blocks *)
(* only, and the network thread updates a socket it owns.                  *)
(***************************************************************************)
THEOREM TypeCorrect == Spec => []TypeOK
<1>1. IInv => TypeOK
  BY DEF IInv
<1> QED
  BY <1>1, Inductive, PTL

-----------------------------------------------------------------------------
(* Every socket is a packet stream.                                        *)

Over == [s \in Sockets |-> closed[s] = "done"]
StreamStep == Stream!Next \/ UNCHANGED Stream!streamVars

\* A step that touches at most the closing of socket s, and never reopens it.
LEMMA CloseStep ==
  ASSUME NEW s \in Sockets, UNCHANGED <<sent, wire>>,
         \A t \in Sockets \ {s} : closed'[t] = closed[t],
         closed[s] = "done" => closed'[s] = "done"
  PROVE  StreamStep
<1>1. CASE closed'[s] = "done"
  <2>1. Over' = [Over EXCEPT ![s] = TRUE]
    BY <1>1 DEF Over
  <2>2. Stream!End(s)
    BY <2>1 DEF Stream!End, Over
  <2> QED
    BY <2>2 DEF StreamStep, Stream!Next
<1>2. CASE closed'[s] # "done"
  <2>1. Over' = Over
    BY <1>2 DEF Over
  <2> QED
    BY <2>1 DEF StreamStep, Stream!streamVars, Over
<1> QED
  BY <1>1, <1>2

\* SendPacket on socket s is an acceptance, or nothing.
LEMMA SendStep ==
  ASSUME IInv, NEW s \in Sockets, SendPacket(s) \/ UNCHANGED <<sent, bufferQueue>>,
         UNCHANGED <<wire, closed>>
  PROVE  StreamStep
<1>1. Over' = Over
  BY DEF Over
<1>2. CASE UNCHANGED sent
  BY <1>1, <1>2 DEF StreamStep, Stream!streamVars, Over
<1>3. CASE ~UNCHANGED sent
  <2>1. PICK n \in Sizes : sent' = [sent EXCEPT ![s] = sent[s] + n]
    BY <1>3 DEF SendPacket, Set
  <2>2. sent \in [Sockets -> Nat] /\ n \in Nat \ {0}
    BY SocketAssumption DEF IInv, TypeOK
  <2>3. sent'[s] \in Nat /\ sent'[s] > sent[s] /\ sent' = [sent EXCEPT ![s] = sent'[s]]
    BY <2>1, <2>2
  <2>4. Stream!Accept(s)
    BY <1>1, <2>3 DEF Stream!Accept, Over
  <2> QED
    BY <2>4 DEF StreamStep, Stream!Next
<1> QED
  BY <1>2, <1>3

\* Writing k blocks of socket s is a delivery, which may be the last.
LEMMA WriteStep ==
  ASSUME IInv, NEW s \in Sockets, NEW k \in Nat \ {0}, writeQueue[s] # <<>>, Writable(s),
         k <= Size(Head(writeQueue[s])), wire' = Wired(s, k), sent' = sent,
         \A t \in Sockets \ {s} : closed'[t] = closed[t]
  PROVE  StreamStep
<1> DEFINE n == Len(wire[s])
<1>1. n \in Nat /\ sent[s] \in Nat
  BY DEF IInv, TypeOK
<1>2. wire' = [wire EXCEPT ![s] = Stream!Prefix(n + k)] /\ n + k <= sent[s]
  BY WiredFact
<1>3. n + k \in n + 1 .. sent[s]
  BY <1>1, <1>2
<1>4. ~Over[s] /\ Over' = [Over EXCEPT ![s] = (closed'[s] = "done")]
  BY DEF Over, Writable
<1>5. \E end \in BOOLEAN : Over' = [Over EXCEPT ![s] = end]
  BY <1>4
<1>6. Stream!Deliver(s)
  BY <1>2, <1>3, <1>4, <1>5 DEF Stream!Deliver, Over
<1> QED
  BY <1>6 DEF StreamStep, Stream!Next

\* Socket::HandleQueue writes, or at most closes.
LEMMA HandleStep ==
  ASSUME IInv, NEW s \in Sockets, NEW more \in BOOLEAN, NEW busy \in BOOLEAN,
         HandleQueue(s, more, busy), sent' = sent
  PROVE  StreamStep
<1>1. closed \in [Sockets -> {"no", "begun", "done"}]
  BY DEF IInv, TypeOK
<1>2. /\ \A t \in Sockets \ {s} : closed'[t] = closed[t]
      /\ closed[s] = "done" => closed'[s] = "done"
  BY <1>1 DEF HandleQueue, HandleNothing, WouldBlock, WriteFails, WriteEmpty, WritePart,
       WriteAll, Pop, Shut, Set
<1>3. CASE wire' = wire
  BY <1>2, <1>3, CloseStep
<1>4. CASE wire' # wire
  <2>1. PICK k \in Nat \ {0} : k <= Size(Head(writeQueue[s])) /\ wire' = Wired(s, k)
    <3>1. writeQueue[s] # <<>>
      BY <1>4 DEF HandleQueue, HandleNothing, WouldBlock, WriteFails, WriteEmpty, WritePart, WriteAll
    <3>2. writeQueue[s] \in Seq(Packet)
      BY DEF IInv, TypeOK
    <3>3. Head(writeQueue[s]) \in Packet
      BY <3>1, <3>2, HeadTailProperties
    <3>4. Size(Head(writeQueue[s])) \in Int
      BY <3>3 DEF Packet, Size
    <3>5. CASE WritePart(s, more)
      BY <3>4, <3>5 DEF WritePart
    <3>6. CASE WriteAll(s, more)
      BY <3>4, <3>6 DEF WriteAll
    <3> QED
      BY <1>4, <3>5, <3>6 DEF HandleQueue, HandleNothing, WouldBlock, WriteFails, WriteEmpty
  <2>2. writeQueue[s] # <<>> /\ Writable(s)
    BY <1>4 DEF HandleQueue, HandleNothing, WouldBlock, WriteFails, WriteEmpty, WritePart, WriteAll
  <2> QED
    BY <1>2, <2>1, <2>2, WriteStep
<1> QED
  BY <1>3, <1>4

LEMMA StreamNext == IInv /\ [Next]_vars => StreamStep
<1> SUFFICES ASSUME IInv, [Next]_vars PROVE StreamStep
  OBVIOUS
<1>0. closed \in [Sockets -> {"no", "begun", "done"}]
  BY DEF IInv, TypeOK
<1>1. CASE UNCHANGED <<sent, wire, closed>>
  BY <1>1 DEF StreamStep, Stream!streamVars
<1>2. CASE \E s \in Sockets : Start(s)
  <2>1. PICK s \in Sockets : Start(s)
    BY <1>2
  <2>2. CASE sent' = sent
    BY <1>1, <2>1, <2>2 DEF Start
  <2>3. CASE sent' # sent
    <3>1. /\ sent' = [sent EXCEPT ![s] = 1] /\ sent[s] = 0
          /\ sent \in [Sockets -> Nat]
      BY <2>1, <2>3 DEF Start, Set, IInv, Unstarted, TypeOK
    <3>2. sent'[s] \in Nat /\ sent'[s] > sent[s] /\ sent' = [sent EXCEPT ![s] = sent'[s]]
      BY <3>1
    <3>3. UNCHANGED <<wire, closed>>
      BY <2>1 DEF Start
    <3>4. Stream!Accept(s)
      BY <3>2, <3>3 DEF Stream!Accept
    <3> QED
      BY <3>4 DEF StreamStep, Stream!Next
  <2> QED
    BY <2>2, <2>3
<1>3. CASE \E s \in Sockets : KickPlayer(s) \/ FinishClose(s) \/ ReadFails(s)
  <2>1. PICK s \in Sockets : KickPlayer(s) \/ FinishClose(s) \/ ReadFails(s)
    BY <1>3
  <2>2. /\ UNCHANGED <<sent, wire>> /\ \A t \in Sockets \ {s} : closed'[t] = closed[t]
        /\ closed[s] = "done" => closed'[s] = "done"
    BY <1>0, <2>1 DEF KickPlayer, FinishClose, ReadFails, Shut, Set, dataVars
  <2> QED
    BY <2>2, CloseStep
<1>4. CASE \E s \in Sockets : \/ SessionSends(s) \/ RefuseLink(s)
                              \/ InitializeHandler(s) \/ HandleAuthSession(s)
                              \/ HandleAuthContinuedSession(s)
  BY <1>4, SendStep DEF SessionSends, RefuseLink, InitializeHandler, HandleAuthSession,
       HandleAuthContinuedSession, stateVars, dataVars
<1>5. CASE AuthAccepted \/ AuthRefused
  <2>1. cur \in Sockets
    BY <1>5 DEF IInv, Loop, AuthAccepted, AuthRefused
  <2> QED
    BY <1>5, <2>1, SendStep DEF AuthAccepted, AuthRefused
<1>6. CASE \E s \in Sockets : WriteHandlerWrapper(s)
  BY <1>6, HandleStep DEF WriteHandlerWrapper, NotAsync
<1>7. CASE Drain
  <2>1. cur \in Sockets
    BY <1>7 DEF IInv, Loop, Drain
  <2>2. writing[cur] \in BOOLEAN
    BY <2>1 DEF IInv, TypeOK
  <2> QED
    BY <1>7, <2>1, <2>2, HandleStep DEF Drain
<1>8. CASE \/ UNCHANGED vars \/ AddNewSockets \/ (\E s \in Sockets : TakePackets(s))
           \/ PackPacket \/ EndPack \/ BeginWrite \/ RemoveClosed \/ NoCallback \/ EndThreadUpdate
  <2>1. UNCHANGED <<sent, wire, closed>>
    BY <1>8 DEF vars, AddNewSockets, TakePackets, PackPacket, EndPack, BeginWrite, RemoveClosed,
         NoCallback, EndThreadUpdate, dataVars, stateVars
  <2> QED
    BY <1>1, <2>1
<1>9. CASE \E s \in Sockets :
             \/ QueueInitializer(s) \/ AddSocket(s) \/ RefuseLinkClose(s) \/ ReadIgnored(s)
             \/ HandleEnableEncryptionAck(s) \/ PeerCloses(s)
  <2>1. UNCHANGED <<sent, wire, closed>>
    BY <1>9 DEF QueueInitializer, AddSocket, RefuseLinkClose, ReadIgnored,
         HandleEnableEncryptionAck, PeerCloses, dataVars, stateVars
  <2> QED
    BY <1>1, <2>1
<1> QED
  BY <1>2, <1>3, <1>4, <1>5, <1>6, <1>7, <1>8, <1>9 DEF Next, Update, Reads, Others

(***************************************************************************)
(* SocketLifecycle implements PacketStream: for any sockets, packet sizes, *)
(* buffer capacities and bound on the traffic, whoever sends and closes,   *)
(* the wire carries exactly a prefix of what SendPacket accepted.          *)
(***************************************************************************)
THEOREM StreamCorrect == Spec => WireIsStream
<1>1. Init => Stream!Init
  BY DEF Init, Stream!Init
<1>2. IInv /\ [Next]_vars => [Stream!Next]_(Stream!streamVars)
  BY StreamNext DEF StreamStep
<1> QED
  BY <1>1, <1>2, Inductive, PTL DEF Spec, WireIsStream, Stream!Spec

-----------------------------------------------------------------------------
(* What a delayed close waits for, and the count of connections.           *)

\* A step of HandleQueue that closes a marked socket has written the last
\* block that was moved to the write queue.
LEMMA DrainFact ==
  ASSUME IInv, NEW s \in Sockets, NEW more \in BOOLEAN, NEW busy \in BOOLEAN,
         HandleQueue(s, more, busy), sent' = sent, step # "pack", NEW t \in Sockets,
         closed[t] = "no", closed'[t] = "done", peer'[t] = "open"
  PROVE  Len(wire'[t]) = Moved(t)
<1> DEFINE n == Len(wire[s])  h == Head(writeQueue[s])
<1>1. /\ peer \in [Sockets -> {"open", "closed", "reset"}]
      /\ closed \in [Sockets -> {"no", "begun", "done"}]
      /\ n \in Nat /\ sent[s] \in Nat
      /\ writeQueue[s] \in Seq(Packet) /\ bufferQueue[s] \in Seq(Packet)
  BY DEF IInv, TypeOK
<1>2. t = s
  BY <1>1 DEF HandleQueue, HandleNothing, WouldBlock, WriteFails, WriteEmpty, WritePart,
       WriteAll, Pop, Shut, Set
<1>3. /\ Len(writeQueue[s]) = 1 /\ writeQueue[s] # <<>>
      /\ \/ WriteEmpty(s, more)
         \/ WriteAll(s, more)
  BY <1>1, <1>2 DEF HandleQueue, HandleNothing, WouldBlock, WriteFails, WriteEmpty, WritePart,
       WriteAll, Pop, Shut, Set
<1>4. peer[s] = "open" /\ Writable(s)
  BY <1>2, <1>3 DEF WriteEmpty, WriteAll, Writable
<1>5. place[s] # "starting" /\ ~InHand(s)
  BY <1>1, <1>3 DEF IInv, Unstarted, InHand
<1>6. PICK a \in 0 .. sent[s] : /\ Chained(writeQueue[s], n, a)
                                /\ Chained(bufferQueue[s], a, sent[s])
  BY <1>4, <1>5 DEF IInv, InOrder, Between
<1>7. h \in Packet /\ h.lo = n /\ h.hi = a
  <2>1. h = writeQueue[s][1] /\ h \in Packet
    BY <1>1, <1>3, HeadTailProperties
  <2>2. writeQueue[s][1].lo = n /\ writeQueue[s][1].hi = a
    BY <1>3, <1>6 DEF Chained
  <2> QED
    BY <2>1, <2>2
<1>8. Moved(s) = a
  <2>1. CASE bufferQueue[s] = <<>>
    BY <1>6, <2>1 DEF Moved, Chained
  <2>2. CASE bufferQueue[s] # <<>>
    <3>1. Head(bufferQueue[s]) = bufferQueue[s][1]
      BY <1>1, <2>2
    <3> QED
      BY <1>6, <2>2, <3>1 DEF Moved, Chained
  <2> QED
    BY <2>1, <2>2
<1>9. Len(wire'[s]) = a
  <2>1. CASE WriteEmpty(s, more)
    BY <1>1, <1>7, <2>1 DEF WriteEmpty, Size, Packet
  <2>2. CASE WriteAll(s, more)
    <3>1. Size(h) \in Nat \ {0} /\ n + Size(h) = a /\ wire' = Wired(s, Size(h))
      BY <1>1, <1>6, <1>7, <2>2 DEF WriteAll, Size, Packet
    <3>2. PICK k \in Nat : /\ k = Size(h) /\ wire' = Wired(s, k)
                          /\ k <= Size(Head(writeQueue[s]))
      BY <3>1
    <3> HIDE DEF n, h
    <3>3. Len(wire'[s]) = Len(wire[s]) + k
      BY <1>3, <1>4, <3>2, WiredFact
    <3> QED
      BY <3>1, <3>2, <3>3 DEF n
  <2> QED
    BY <1>3, <2>1, <2>2
<1> QED
  BY <1>2, <1>8, <1>9

\* Only HandleQueue closes a marked socket whose peer is there.
LEMMA DrainNext == IInv /\ [Next]_vars => ClosesDrained
<1> SUFFICES ASSUME IInv, [Next]_vars, NEW t \in Sockets,
                    closing[t], closed[t] = "no", closed'[t] = "done", peer'[t] = "open"
             PROVE  Len(wire'[t]) = Moved(t)
  BY DEF ClosesDrained
<1>0. closed \in [Sockets -> {"no", "begun", "done"}] /\ peer \in [Sockets -> {"open", "closed", "reset"}]
  BY DEF IInv, TypeOK
<1>1. CASE closed' = closed
  BY <1>1
<1>2. CASE \E s \in Sockets : KickPlayer(s) \/ FinishClose(s)
  BY <1>0, <1>2 DEF KickPlayer, FinishClose, Set
<1>3. CASE \E s \in Sockets : ReadFails(s)
  BY <1>0, <1>3 DEF ReadFails, Shut, Set, IsOpen
<1>4. CASE \E s \in Sockets : WriteHandlerWrapper(s)
  <2>1. PICK s \in Sockets, more \in BOOLEAN :
          HandleQueue(s, more, FALSE) /\ sent' = sent /\ step = "idle"
    BY <1>4 DEF WriteHandlerWrapper, NotAsync
  <2> QED
    BY <2>1, DrainFact
<1>5. CASE Drain
  <2>1. cur \in Sockets
    BY <1>5 DEF IInv, Loop, Drain
  <2>2. PICK s \in Sockets, more \in BOOLEAN :
          s = cur /\ HandleQueue(s, more, writing[s]) /\ sent' = sent /\ step = "drain"
    BY <1>5, <2>1 DEF Drain
  <2>3. writing[s] \in BOOLEAN
    BY DEF IInv, TypeOK
  <2>4. PICK busy \in BOOLEAN : HandleQueue(s, more, busy)
    BY <2>2, <2>3
  <2> QED
    BY <2>2, <2>4, DrainFact
<1>6. CASE AddNewSockets \/ (\E s \in Sockets : TakePackets(s)) \/ PackPacket \/ EndPack
           \/ BeginWrite \/ RemoveClosed \/ NoCallback \/ EndThreadUpdate
  BY <1>1, <1>6 DEF AddNewSockets, TakePackets, PackPacket, EndPack, BeginWrite, RemoveClosed,
       NoCallback, EndThreadUpdate, stateVars
<1>7. CASE AuthAccepted \/ AuthRefused
  BY <1>1, <1>7 DEF AuthAccepted, AuthRefused
<1>8. CASE \E s \in Sockets : \/ Start(s) \/ QueueInitializer(s) \/ AddSocket(s)
                              \/ ReadIgnored(s) \/ InitializeHandler(s)
                              \/ HandleAuthSession(s) \/ HandleAuthContinuedSession(s)
                              \/ HandleEnableEncryptionAck(s) \/ SessionSends(s)
                              \/ RefuseLink(s) \/ RefuseLinkClose(s) \/ PeerCloses(s)
  BY <1>1, <1>8 DEF Start, QueueInitializer, AddSocket, ReadIgnored, InitializeHandler,
       HandleAuthSession, HandleAuthContinuedSession, HandleEnableEncryptionAck, SessionSends,
       RefuseLink, RefuseLinkClose, PeerCloses, stateVars
<1>9. CASE UNCHANGED vars
  BY <1>1, <1>9 DEF vars, stateVars
<1> QED
  BY <1>2, <1>3, <1>4, <1>5, <1>6, <1>7, <1>8, <1>9 DEF Next, Update, Reads, Others

(***************************************************************************)
(* A socket marked by DelayedCloseSocket whose peer is still there closes  *)
(* only when all that was moved to _writeQueue is on the wire: the pop that*)
(* closes it pops the last buffer, whatever the buffers and the writes.    *)
(***************************************************************************)
THEOREM DrainCorrect == Spec => DelayedCloseDrains
<1>1. IInv /\ [Next]_vars => [ClosesDrained]_vars
  BY DrainNext
<1> QED
  BY <1>1, Inductive, PTL DEF Spec, DelayedCloseDrains

\* The sockets _connections counts.
Counted == In("new") \cup In("listed")

LEMMA CountedFinite == IsFiniteSet(Counted)
<1>1. Counted \in SUBSET Sockets
  BY DEF Counted, In
<1> QED
  BY <1>1, SocketAssumption, FS_Subset

\* Every step that hands a socket over or drops it is counted, once.
LEMMA ConnectionsNext == IInv /\ ConnectionsCounted /\ [Next]_vars => ConnectionsCounted'
<1> SUFFICES ASSUME IInv, connections = Cardinality(Counted), [Next]_vars
             PROVE  connections' = Cardinality(Counted')
  BY DEF ConnectionsCounted, Counted
<1>0. place \in [Sockets -> {"none", "starting", "started", "new", "listed", "gone"}]
  BY DEF IInv, TypeOK
<1>1. CASE connections' = connections /\ place' = place
  BY <1>1 DEF Counted, In
<1>2. CASE \E s \in Sockets : Start(s) \/ QueueInitializer(s)
  <2>1. Counted' = Counted
    BY <1>0, <1>2 DEF Start, QueueInitializer, Set, Counted, In
  <2>2. connections' = connections
    BY <1>2 DEF Start, QueueInitializer, threadVars
  <2> QED
    BY <2>1, <2>2
<1>3. CASE \E s \in Sockets : AddSocket(s)
  <2>1. PICK s \in Sockets : AddSocket(s)
    BY <1>3
  <2>2. Counted' = Counted \cup {s} /\ s \notin Counted
    BY <1>0, <2>1 DEF AddSocket, Set, Counted, In
  <2>3. connections' = connections + 1
    BY <2>1 DEF AddSocket
  <2>4. Cardinality(Counted \cup {s}) = Cardinality(Counted) + 1
    BY <2>2, CountedFinite, FS_AddElement
  <2> QED
    BY <2>2, <2>3, <2>4
<1>4. CASE AddNewSockets
  <2> DEFINE Dropped == {s \in In("new") : ~IsOpen(s)}
  <2>1. Counted' = Counted \ Dropped /\ Counted \cap Dropped = Dropped
    BY <1>0, <1>4 DEF AddNewSockets, Counted, In
  <2>2. connections' = connections - Cardinality(Dropped)
    BY <1>4 DEF AddNewSockets
  <2>3. Cardinality(Counted \ Dropped) = Cardinality(Counted) - Cardinality(Counted \cap Dropped)
    BY CountedFinite, FS_Difference
  <2> QED
    BY <2>1, <2>2, <2>3
<1>5. CASE RemoveClosed
  <2>1. cur \in Sockets /\ place[cur] = "listed"
    BY <1>5 DEF IInv, Loop, RemoveClosed
  <2>2. Counted' = Counted \ {cur} /\ cur \in Counted
    BY <1>0, <1>5, <2>1 DEF RemoveClosed, Set, Counted, In
  <2>3. connections' = connections - 1
    BY <1>5 DEF RemoveClosed
  <2>4. Cardinality(Counted \ {cur}) = Cardinality(Counted) - 1
    BY <2>2, CountedFinite, FS_RemoveElement
  <2> QED
    BY <2>2, <2>3, <2>4
<1>6. CASE (\E s \in Sockets : TakePackets(s)) \/ PackPacket \/ EndPack
           \/ BeginWrite \/ Drain \/ NoCallback \/ EndThreadUpdate
  BY <1>1, <1>6 DEF TakePackets, PackPacket, EndPack, BeginWrite, Drain,
       NoCallback, EndThreadUpdate, stateVars, threadVars
<1>7. CASE AuthAccepted \/ AuthRefused
  BY <1>1, <1>7 DEF AuthAccepted, AuthRefused
<1>8. CASE \E s \in Sockets : \/ ReadIgnored(s) \/ InitializeHandler(s) \/ ReadFails(s)
                              \/ HandleAuthSession(s) \/ HandleAuthContinuedSession(s)
                              \/ HandleEnableEncryptionAck(s) \/ SessionSends(s)
  BY <1>1, <1>8 DEF ReadIgnored, InitializeHandler, ReadFails,
       HandleAuthSession, HandleAuthContinuedSession, HandleEnableEncryptionAck, SessionSends,
       stateVars, threadVars
<1>9. CASE \E s \in Sockets : \/ RefuseLink(s) \/ RefuseLinkClose(s) \/ PeerCloses(s)
                              \/ KickPlayer(s) \/ FinishClose(s) \/ WriteHandlerWrapper(s)
  BY <1>1, <1>9 DEF RefuseLink, RefuseLinkClose, PeerCloses, KickPlayer, FinishClose,
       WriteHandlerWrapper, stateVars, threadVars
<1>10. CASE UNCHANGED vars
  BY <1>1, <1>10 DEF vars, stateVars, threadVars
<1> QED
  BY <1>2, <1>3, <1>4, <1>5, <1>6, <1>7, <1>8, <1>9, <1>10 DEF Next, Update, Reads, Others

(***************************************************************************)
(* _connections counts the sockets handed to the network thread and not    *)
(* yet dropped by it, for any number of sockets, whoever closes them.      *)
(***************************************************************************)
THEOREM ConnectionsCorrect == Spec => []ConnectionsCounted
<1>1. Init => ConnectionsCounted
  <2> SUFFICES ASSUME Init PROVE ConnectionsCounted
    OBVIOUS
  <2>1. Counted = {}
    BY DEF Init, Counted, In
  <2> QED
    BY <2>1, FS_EmptySet DEF Init, ConnectionsCounted, Counted
<1> QED
  BY <1>1, ConnectionsNext, Inductive, PTL DEF Spec

-----------------------------------------------------------------------------
(* Nothing is left lying: the write handler or the next update has it.     *)

Registered == \A s \in Sockets : writing[s] <=> pending[s]

\* HandleQueue of a socket that was not waiting for the write handler.
LEMMA HandleRegistered ==
  ASSUME TypeOK, Registered, NEW s \in Sockets, NEW more \in BOOLEAN, HandleQueue(s, more, FALSE)
  PROVE  Registered'
<1>1. \/ writing' = [writing EXCEPT ![s] = FALSE] /\ pending' = [pending EXCEPT ![s] = FALSE]
      \/ writing' = [writing EXCEPT ![s] = TRUE] /\ pending' = [pending EXCEPT ![s] = TRUE]
  BY DEF HandleQueue, AsyncProcessQueue, Set
<1>2. writing \in [Sockets -> BOOLEAN] /\ pending \in [Sockets -> BOOLEAN]
  BY DEF TypeOK
<1> QED
  BY <1>1, <1>2 DEF Registered

\* Only HandleQueue touches them.
LEMMA OthersRegistered ==
  ASSUME [Next]_vars
  PROVE  \/ UNCHANGED <<writing, pending>>
         \/ Drain
         \/ \E s \in Sockets : WriteHandlerWrapper(s)
<1>1. ASSUME Update PROVE Drain \/ UNCHANGED <<writing, pending>>
  BY <1>1 DEF Update, AddNewSockets, TakePackets, PackPacket, EndPack, BeginWrite, RemoveClosed,
       NoCallback, AuthAccepted, AuthRefused, EndThreadUpdate, asyncVars
<1>2. ASSUME NEW s \in Sockets, Start(s) \/ QueueInitializer(s) \/ AddSocket(s) \/ PeerCloses(s)
      PROVE  UNCHANGED <<writing, pending>>
  BY <1>2 DEF Start, QueueInitializer, AddSocket, PeerCloses, asyncVars
<1>3. ASSUME NEW s \in Sockets, Reads(s) PROVE UNCHANGED <<writing, pending>>
  BY <1>3 DEF Reads, ReadFails, ReadIgnored, InitializeHandler, HandleAuthSession,
       HandleAuthContinuedSession, HandleEnableEncryptionAck, asyncVars
<1>4. ASSUME NEW s \in Sockets, Others(s) PROVE UNCHANGED <<writing, pending>>
  BY <1>4 DEF Others, SessionSends, KickPlayer, FinishClose, RefuseLink, RefuseLinkClose, asyncVars
<1>5. UNCHANGED vars => UNCHANGED <<writing, pending>>
  BY DEF vars, asyncVars
<1> QED
  BY <1>1, <1>2, <1>3, <1>4, <1>5 DEF Next

LEMMA NextRegistered == IInv /\ Registered /\ [Next]_vars => Registered'
<1> SUFFICES ASSUME IInv, Registered, [Next]_vars PROVE Registered'
  OBVIOUS
<1>1. TypeOK /\ Loop
  BY DEF IInv
<1>2. CASE UNCHANGED <<writing, pending>>
  BY <1>2 DEF Registered
<1>3. CASE Drain
  <2>1. cur \in Sockets /\ ~writing[cur]
    BY <1>1, <1>3 DEF Loop, Drain
  <2>2. PICK more \in BOOLEAN : HandleQueue(cur, more, writing[cur])
    BY <1>3 DEF Drain
  <2>3. writing[cur] = FALSE
    BY <1>1, <2>1 DEF TypeOK
  <2>4. HandleQueue(cur, more, FALSE)
    BY <2>2, <2>3
  <2> QED
    BY <1>1, <2>1, <2>4, HandleRegistered
<1>4. CASE \E s \in Sockets : WriteHandlerWrapper(s)
  <2>1. PICK s \in Sockets, more \in BOOLEAN : HandleQueue(s, more, FALSE)
    BY <1>4 DEF WriteHandlerWrapper, NotAsync
  <2> QED
    BY <1>1, <2>1, HandleRegistered
<1> QED
  BY <1>2, <1>3, <1>4, OthersRegistered

\* What is not on the wire is in a queue or in hand.
LEMMA UnsentIsHeld ==
  ASSUME IInv, NEW s \in Sockets, HasUnsent(s)
  PROVE  writeQueue[s] # <<>> \/ bufferQueue[s] # <<>> \/ InHand(s)
<1> SUFFICES ASSUME bufferQueue[s] = <<>>, ~InHand(s) PROVE writeQueue[s] # <<>>
  OBVIOUS
<1>1. Writable(s) /\ place[s] # "starting" /\ Len(wire[s]) < sent[s]
  BY DEF HasUnsent, IsOpen, Writable
<1>2. PICK a, b \in 0 .. sent[s] :
        /\ Chained(writeQueue[s], Len(wire[s]), a)
        /\ Chained(bufferQueue[s], b, sent[s])
        /\ Between(s, a, b)
  BY <1>1 DEF IInv, InOrder
<1>3. a = b /\ b = sent[s]
  BY <1>1, <1>2 DEF Between, Chained
<1>4. sent[s] \in Nat /\ Len(wire[s]) \in Nat
  BY DEF IInv, TypeOK
<1> QED
  BY <1>1, <1>2, <1>3, <1>4 DEF Chained

(***************************************************************************)
(* For every set of sockets and all sizes, _isWritingAsync is set exactly  *)
(* while the write handler is registered, and no block that was sent on an *)
(* open connection waits without the handler or the next update having it: *)
(* what SentArrives needs besides fairness.                                *)
(***************************************************************************)
THEOREM NothingStalls == Spec => []NobodyStalls
<1>1. Init => Registered
  BY DEF Init, Registered
<1>2. IInv /\ Registered => NobodyStalls
  <2> SUFFICES ASSUME IInv, Registered, NEW s \in Sockets
               PROVE  /\ writing[s] <=> pending[s]
                      /\ HasUnsent(s) => \/ pending[s]
                                         \/ bufferQueue[s] # <<>> \/ (cur = s /\ step = "pack")
                                         \/ writeQueue[s] # <<>> /\ ~SkipWrite(s)
    BY DEF NobodyStalls
  <2>1. writing[s] <=> pending[s]
    BY DEF Registered
  <2> QED
    BY <2>1, UnsentIsHeld DEF InHand, SkipWrite
<1> QED
  BY <1>1, <1>2, NextRegistered, Inductive, PTL DEF Spec
=============================================================================
