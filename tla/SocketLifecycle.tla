-------------------------- MODULE SocketLifecycle --------------------------
(***************************************************************************)
(* A game connection from accept to close: Socket<T>, WorldSocket and the  *)
(* NetworkThread that owns it, as built without IOCP.                      *)
(*                                                                         *)
(* The acceptor's thread starts a socket and hands it to the network       *)
(* thread, which every 10 ms takes new sockets in and, socket by socket,   *)
(* moves packets from _bufferQueue to buffers, the buffers to _writeQueue  *)
(* and as much as the kernel takes from there to the wire; between two     *)
(* updates it runs the read and write handlers.  Any thread that knows the *)
(* session may send a packet or close the socket meanwhile.                *)
(*                                                                         *)
(* Data is counted in blocks.  Block i is the i-th ever sent on a socket,  *)
(* and a packet or a buffer holds the blocks lo + 1 .. hi.                 *)
(***************************************************************************)
EXTENDS Integers, FiniteSets, Sequences

CONSTANTS
  Sockets,        \* sockets the acceptor may open
  Sizes,          \* sizes of packets, in blocks
  FirstCapacity,  \* size of the first buffer of an update (MessageBuffer())
  Capacity,       \* size of the next ones (Resize(4096))
  MaxBlocks,      \* bound on the blocks sent on one socket
  None

ASSUME SocketAssumption ==
  /\ IsFiniteSet(Sockets) /\ None \notin Sockets
  /\ Sizes \subseteq Nat \ {0}
  /\ FirstCapacity \in Nat /\ Capacity \in Nat /\ MaxBlocks \in Nat

VARIABLES
  place,        \* in _newSockets, in _sockets, or where else the socket is
  auth,         \* how far the handshake of WorldSocket is
  peer,         \* the other end: open, has closed, has reset the connection
  closing,      \* _closing
  closed,       \* _closed; CloseSocket has "begun" or is "done"
  reading,      \* an asynchronous read is pending
  writing,      \* _isWritingAsync
  pending,      \* the write handler is registered
  sent,         \* blocks SendPacket and QueuePacket have accepted
  bufferQueue,  \* _bufferQueue
  writeQueue,   \* _writeQueue
  wire,         \* the blocks written to the kernel
  connections,  \* _connections
  step,         \* where the network thread is
  cur,          \* the socket it updates
  todo,         \* the sockets of _sockets still to update
  batch,        \* _aBufferQueue of WorldSocket::Update
  buffer        \* buffer of WorldSocket::Update

stateVars  == <<place, auth, peer, closing, closed>>
asyncVars  == <<writing, pending>>
dataVars   == <<sent, bufferQueue, writeQueue, wire>>
threadVars == <<connections, step, cur, todo>>
packVars   == <<batch, buffer>>
vars == <<stateVars, reading, asyncVars, dataVars, threadVars, packVars>>

IsOpen(s) == ~closing[s] /\ closed[s] = "no"
Set(f, s, x) == [f EXCEPT ![s] = x]
Blocks(b) == [lo |-> b.lo, hi |-> b.hi]
Size(b) == b.hi - b.lo
Span(lo, hi) == [i \in 1 .. hi - lo |-> lo + i]
EmptyBuffer(at, cap) == [lo |-> at, hi |-> at, cap |-> cap]

Init ==
  /\ place = [s \in Sockets |-> "none"]
  /\ auth = [s \in Sockets |-> "initializing"]
  /\ peer = [s \in Sockets |-> "open"]
  /\ closing = [s \in Sockets |-> FALSE]
  /\ closed = [s \in Sockets |-> "no"]
  /\ reading = [s \in Sockets |-> FALSE]
  /\ writing = [s \in Sockets |-> FALSE]
  /\ pending = [s \in Sockets |-> FALSE]
  /\ sent = [s \in Sockets |-> 0]
  /\ bufferQueue = [s \in Sockets |-> <<>>]
  /\ writeQueue = [s \in Sockets |-> <<>>]
  /\ wire = [s \in Sockets |-> <<>>]
  /\ connections = 0
  /\ step = "idle" /\ cur = None /\ todo = {}
  /\ batch = <<>> /\ buffer = EmptyBuffer(0, FirstCapacity)

-----------------------------------------------------------------------------
(* Acceptor's thread.                                                      *)

\* WorldSocket::Start begins to read before it queues the initializer, which
\* is block 1; a banned address is closed without a word.
Start(s) ==
  /\ place[s] = "none" /\ MaxBlocks > 0
  /\ \/ /\ place' = Set(place, s, "started")
        /\ closing' = Set(closing, s, TRUE)
        /\ UNCHANGED <<reading, sent>>
     \/ /\ place' = Set(place, s, "starting")
        /\ reading' = Set(reading, s, TRUE)
        /\ sent' = Set(sent, s, 1)
        /\ UNCHANGED closing
  /\ UNCHANGED <<auth, peer, closed, asyncVars, bufferQueue, writeQueue, wire,
                 threadVars, packVars>>

QueueInitializer(s) ==
  /\ place[s] = "starting"
  /\ place' = Set(place, s, "started")
  /\ writeQueue' = Set(writeQueue, s, <<[lo |-> 0, hi |-> 1]>>)
  /\ UNCHANGED <<auth, peer, closing, closed, reading, asyncVars, sent,
                 bufferQueue, wire, threadVars, packVars>>

\* NetworkThread::AddSocket.
AddSocket(s) ==
  /\ place[s] = "started"
  /\ place' = Set(place, s, "new")
  /\ connections' = connections + 1
  /\ UNCHANGED <<auth, peer, closing, closed, reading, asyncVars, dataVars,
                 step, cur, todo, packVars>>

-----------------------------------------------------------------------------
(* Sending and closing.                                                    *)

\* The tail of WorldSocket::SendPacket: a packet of n blocks.
Pushed(s, n) == Append(bufferQueue[s], [lo |-> sent[s], hi |-> sent[s] + n])
SendPacket(s) ==
  \/ ~IsOpen(s) /\ UNCHANGED <<sent, bufferQueue>>
  \/ \E n \in Sizes :
       /\ IsOpen(s) /\ sent[s] + n <= MaxBlocks
       /\ bufferQueue' = Set(bufferQueue, s, Pushed(s, n))
       /\ sent' = Set(sent, s, sent[s] + n)

\* A thread that found the socket through the session sends a packet.
SessionSends(s) ==
  /\ auth[s] = "authed" /\ IsOpen(s) /\ SendPacket(s)
  /\ UNCHANGED <<stateVars, reading, asyncVars, writeQueue, wire, threadVars, packVars>>

\* WorldSession::KickPlayer and the others who call CloseSocket from a
\* session: first the exchange of _closed ...
KickPlayer(s) ==
  /\ auth[s] = "authed" /\ closed[s] = "no"
  /\ closed' = Set(closed, s, "begun")
  /\ UNCHANGED <<place, auth, peer, closing, reading, asyncVars, dataVars, threadVars, packVars>>

\* ... then shutdown(shutdown_send) and OnClose.
FinishClose(s) ==
  /\ closed[s] = "begun"
  /\ closed' = Set(closed, s, "done")
  /\ UNCHANGED <<place, auth, peer, closing, reading, asyncVars, dataVars, threadVars, packVars>>

\* World::ProcessLinkInstanceSocket refuses the socket: the error ...
RefuseLink(s) ==
  /\ auth[s] = "authed" /\ IsOpen(s) /\ SendPacket(s)
  /\ auth' = Set(auth, s, "refused")
  /\ UNCHANGED <<place, peer, closing, closed, reading, asyncVars, writeQueue,
                 wire, threadVars, packVars>>

\* ... and DelayedCloseSocket.
RefuseLinkClose(s) ==
  /\ auth[s] = "refused" /\ ~closing[s]
  /\ closing' = Set(closing, s, TRUE)
  /\ UNCHANGED <<place, auth, peer, closed, reading, asyncVars, dataVars, threadVars, packVars>>

-----------------------------------------------------------------------------
(* Handlers the network thread runs between two updates.                   *)

\* Socket::CloseSocket on the network thread.
Shut(s) == Set(closed, s, IF closed[s] = "no" THEN "done" ELSE closed[s])

\* The read fails, or ReadHandler meets a malformed packet.
ReadFails(s) ==
  /\ step = "idle" /\ reading[s]
  /\ peer[s] # "open" \/ IsOpen(s)
  /\ reading' = Set(reading, s, FALSE)
  /\ closed' = Shut(s)
  /\ UNCHANGED <<place, auth, peer, closing, asyncVars, dataVars, threadVars, packVars>>

\* ReadHandler of a socket that is not open does not read on.
ReadIgnored(s) ==
  /\ step = "idle" /\ reading[s] /\ ~IsOpen(s)
  /\ reading' = Set(reading, s, FALSE)
  /\ UNCHANGED <<stateVars, asyncVars, dataVars, threadVars, packVars>>

\* InitializeHandler: the peer's initializer is in, send the challenge.
InitializeHandler(s) ==
  /\ step = "idle" /\ reading[s] /\ auth[s] = "initializing" /\ IsOpen(s)
  /\ SendPacket(s)
  /\ auth' = Set(auth, s, "challenged")
  /\ UNCHANGED <<place, peer, closing, closed, reading, asyncVars, writeQueue,
                 wire, threadVars, packVars>>

\* The account is looked up: WaitingForQuery, no further read.
HandleAuthSession(s) ==
  /\ step = "idle" /\ reading[s] /\ auth[s] = "challenged" /\ IsOpen(s)
  /\ reading' = Set(reading, s, FALSE)
  /\ auth' = Set(auth, s, "query")
  /\ UNCHANGED <<place, peer, closing, closed, asyncVars, dataVars, threadVars, packVars>>

\* The same on a connection to the instance; a wrong connection type is
\* refused at once.
HandleAuthContinuedSession(s) ==
  \/ HandleAuthSession(s)
  \/ /\ step = "idle" /\ reading[s] /\ auth[s] = "challenged" /\ IsOpen(s)
     /\ reading' = Set(reading, s, FALSE)
     /\ SendPacket(s)
     /\ auth' = Set(auth, s, "refused")
     /\ closing' = Set(closing, s, TRUE)
     /\ UNCHANGED <<place, peer, closed, asyncVars, writeQueue, wire, threadVars, packVars>>

\* HandleEnableEncryptionAck: the world gets to know the socket.
HandleEnableEncryptionAck(s) ==
  /\ step = "idle" /\ reading[s] /\ auth[s] = "accepted" /\ IsOpen(s)
  /\ auth' = Set(auth, s, "authed")
  /\ UNCHANGED <<place, peer, closing, closed, reading, asyncVars, dataVars, threadVars, packVars>>

\* The kernel takes k blocks of the first buffer.
\* Mutant: the read pointer is one block behind.
WiredBehind(s, k) ==
  Set(wire, s, wire[s] \o Span(Head(writeQueue[s]).lo - 1, Head(writeQueue[s]).lo + k - 1))
Wired(s, k) ==
  Set(wire, s, wire[s] \o Span(Head(writeQueue[s]).lo, Head(writeQueue[s]).lo + k))

\* pop, and close if _closing and nothing is left.
\* Mutant: close as soon as one buffer has been popped.
PopThenClose(s) ==
  /\ writeQueue' = Set(writeQueue, s, Tail(writeQueue[s]))
  /\ closed' = IF closing[s] THEN Shut(s) ELSE closed
Pop(s) ==
  /\ writeQueue' = Set(writeQueue, s, Tail(writeQueue[s]))
  /\ closed' = IF closing[s] /\ Len(writeQueue[s]) = 1 THEN Shut(s) ELSE closed

\* What WriteHandlerWrapper leaves in _isWritingAsync before HandleQueue.
\* Mutant: what it finds there.
StaysAsync(s) == writing[s]
NotAsync(s) == FALSE

\* Socket::AsyncProcessQueue registers the write handler unless busy.
AsyncProcessQueue(s, busy) ==
  /\ writing' = Set(writing, s, TRUE)
  /\ pending' = Set(pending, s, ~busy)

Writable(s) == closed[s] # "done" /\ peer[s] # "reset"

(***************************************************************************)
(* Socket::HandleQueue; more is its result.  Once a write has failed the   *)
(* connection is lost for good.  A buffer is empty when WorldSocket::Update*)
(* met a packet larger than the buffer it had not written to yet.          *)
(***************************************************************************)
HandleNothing(s, more) ==
  /\ writeQueue[s] = <<>> /\ ~more
  /\ UNCHANGED <<peer, closed, writeQueue, wire>>

WouldBlock(s, more) ==
  /\ writeQueue[s] # <<>> /\ Size(Head(writeQueue[s])) > 0
  /\ Writable(s) /\ ~more
  /\ UNCHANGED <<peer, closed, writeQueue, wire>>

WriteFails(s, more) ==
  /\ writeQueue[s] # <<>> /\ Size(Head(writeQueue[s])) > 0 /\ ~more
  /\ closed[s] = "done" \/ peer[s] # "open"
  /\ peer' = Set(peer, s, "reset")
  /\ Pop(s)
  /\ UNCHANGED wire

WriteEmpty(s, more) ==
  /\ writeQueue[s] # <<>> /\ Size(Head(writeQueue[s])) = 0 /\ ~more
  /\ Pop(s)
  /\ UNCHANGED <<peer, wire>>

WritePart(s, more) ==
  /\ writeQueue[s] # <<>> /\ Writable(s) /\ ~more
  /\ \E k \in 1 .. Size(Head(writeQueue[s])) - 1 :
       /\ wire' = Wired(s, k)
       /\ writeQueue' = Set(writeQueue, s,
            <<[Head(writeQueue[s]) EXCEPT !.lo = @ + k]>> \o Tail(writeQueue[s]))
  /\ UNCHANGED <<peer, closed>>

WriteAll(s, more) ==
  /\ writeQueue[s] # <<>> /\ Size(Head(writeQueue[s])) > 0 /\ Writable(s)
  /\ wire' = Wired(s, Size(Head(writeQueue[s])))
  /\ Pop(s)
  /\ more <=> Len(writeQueue[s]) > 1
  /\ UNCHANGED peer

\* busy is _isWritingAsync when it is called.
HandleQueue(s, more, busy) ==
  \/ /\ HandleNothing(s, more) \/ WriteFails(s, more) \/ WriteEmpty(s, more) \/ WriteAll(s, more)
     /\ writing' = Set(writing, s, busy) /\ pending' = Set(pending, s, FALSE)
  \/ /\ WouldBlock(s, more) \/ WritePart(s, more)
     /\ AsyncProcessQueue(s, busy)

\* The kernel has room again, or the connection is lost.
WriteHandlerWrapper(s) ==
  /\ step = "idle" /\ pending[s]
  /\ \E more \in BOOLEAN : HandleQueue(s, more, NotAsync(s))
  /\ UNCHANGED <<place, auth, closing, reading, sent, bufferQueue, threadVars, packVars>>

-----------------------------------------------------------------------------
(* NetworkThread::Update.                                                  *)

In(p) == {s \in Sockets : place[s] = p}

\* AddNewSockets: a socket that closed meanwhile is dropped at once.
\* Mutant: it keeps its place in _connections.
AddNewAndKeepCount ==
  /\ step = "idle"
  /\ place' = [s \in Sockets |-> IF place[s] # "new" THEN place[s]
                                 ELSE IF IsOpen(s) THEN "listed" ELSE "gone"]
  /\ todo' = In("listed") \cup {s \in In("new") : IsOpen(s)}
  /\ step' = "next"
  /\ UNCHANGED <<auth, peer, closing, closed, reading, asyncVars, dataVars, cur, packVars, connections>>
AddNewSockets ==
  /\ step = "idle"
  /\ place' = [s \in Sockets |-> IF place[s] # "new" THEN place[s]
                                 ELSE IF IsOpen(s) THEN "listed" ELSE "gone"]
  /\ connections' = connections - Cardinality({s \in In("new") : ~IsOpen(s)})
  /\ todo' = In("listed") \cup {s \in In("new") : IsOpen(s)}
  /\ step' = "next"
  /\ UNCHANGED <<auth, peer, closing, closed, reading, asyncVars, dataVars, cur, packVars>>

\* WorldSocket::Update takes the packets queued for the socket.
TakePackets(s) ==
  /\ step = "next" /\ s \in todo
  /\ cur' = s /\ todo' = todo \ {s} /\ step' = "pack"
  /\ batch' = bufferQueue[s]
  /\ bufferQueue' = Set(bufferQueue, s, <<>>)
  /\ buffer' = EmptyBuffer(IF batch' = <<>> THEN 0 ELSE Head(batch').lo, FirstCapacity)
  /\ UNCHANGED <<stateVars, reading, asyncVars, sent, writeQueue, wire, connections>>

Fits(p, b) == b.cap - Size(b) >= Size(p)
Flushed == Append(writeQueue[cur], Blocks(buffer))

(***************************************************************************)
(* The next packet p is copied to the buffer; if it does not fit there the *)
(* buffer is queued and a new one begun, and if it does not fit there      *)
(* either it is queued in a buffer of its own.                             *)
(***************************************************************************)
\* Mutant: the large packet is queued ahead of the buffer.
PackAhead(p) ==
  IF Fits(p, buffer)
  THEN /\ buffer' = [buffer EXCEPT !.hi = p.hi]
       /\ UNCHANGED writeQueue
  ELSE IF Fits(p, EmptyBuffer(0, Capacity))
  THEN /\ writeQueue' = Set(writeQueue, cur, Flushed)
       /\ buffer' = [EmptyBuffer(p.lo, Capacity) EXCEPT !.hi = p.hi]
  ELSE /\ writeQueue' = Set(writeQueue, cur,
                            Append(Append(writeQueue[cur], p), Blocks(buffer)))
       /\ buffer' = EmptyBuffer(p.hi, Capacity)
Pack(p) ==
  IF Fits(p, buffer)
  THEN /\ buffer' = [buffer EXCEPT !.hi = p.hi]
       /\ UNCHANGED writeQueue
  ELSE IF Fits(p, EmptyBuffer(0, Capacity))
  THEN /\ writeQueue' = Set(writeQueue, cur, Flushed)
       /\ buffer' = [EmptyBuffer(p.lo, Capacity) EXCEPT !.hi = p.hi]
  ELSE /\ writeQueue' = Set(writeQueue, cur, Append(Flushed, p))
       /\ buffer' = EmptyBuffer(p.hi, Capacity)

PackPacket ==
  /\ step = "pack" /\ batch # <<>>
  /\ Pack(Head(batch))
  /\ batch' = Tail(batch)
  /\ UNCHANGED <<stateVars, reading, asyncVars, sent, bufferQueue, wire, threadVars>>

\* The last buffer is queued if it holds anything.
EndPack ==
  /\ step = "pack" /\ batch = <<>>
  /\ writeQueue' = IF Size(buffer) > 0 THEN Set(writeQueue, cur, Flushed) ELSE writeQueue
  /\ buffer' = EmptyBuffer(0, FirstCapacity)
  /\ step' = "write"
  /\ UNCHANGED <<stateVars, reading, asyncVars, sent, bufferQueue, wire,
                 connections, cur, todo, batch>>

\* Socket::Update.
SkipWrite(s) == writing[s] \/ (writeQueue[s] = <<>> /\ ~closing[s])

BeginWrite ==
  /\ step = "write" /\ closed[cur] = "no"
  /\ step' = IF SkipWrite(cur) THEN "callbacks" ELSE "drain"
  /\ UNCHANGED <<stateVars, reading, asyncVars, dataVars, connections, cur, todo, packVars>>

\* Update returned false: the socket leaves _sockets.
\* Mutant: only once its queue is empty.
RemoveDrained ==
  /\ step = "write" /\ closed[cur] # "no"
  /\ IF writeQueue[cur] = <<>>
     THEN place' = Set(place, cur, "gone") /\ connections' = connections - 1
     ELSE UNCHANGED <<place, connections>>
  /\ step' = "next" /\ cur' = None
  /\ UNCHANGED <<auth, peer, closing, closed, reading, asyncVars, dataVars, todo, packVars>>
RemoveClosed ==
  /\ step = "write" /\ closed[cur] # "no"
  /\ place' = Set(place, cur, "gone")
  /\ connections' = connections - 1
  /\ step' = "next" /\ cur' = None
  /\ UNCHANGED <<auth, peer, closing, closed, reading, asyncVars, dataVars, todo, packVars>>

Drain ==
  /\ step = "drain"
  /\ \E more \in BOOLEAN :
       /\ HandleQueue(cur, more, writing[cur])
       /\ step' = IF more THEN "drain" ELSE "callbacks"
  /\ UNCHANGED <<place, auth, closing, reading, sent, bufferQueue, connections,
                 cur, todo, packVars>>

EndUpdate == step' = "next" /\ cur' = None

NoCallback ==
  /\ step = "callbacks" /\ EndUpdate
  /\ UNCHANGED <<stateVars, reading, asyncVars, dataVars, connections, todo, packVars>>

\* HandleAuthSessionCallback or HandleAuthContinuedSessionCallback accepts.
AuthAccepted ==
  /\ step = "callbacks" /\ auth[cur] = "query"
  /\ auth' = Set(auth, cur, "accepted")
  /\ reading' = Set(reading, cur, IsOpen(cur))
  /\ SendPacket(cur)
  /\ EndUpdate
  /\ UNCHANGED <<place, peer, closing, closed, asyncVars, writeQueue, wire,
                 connections, todo, packVars>>

\* It refuses: an error is sent, except for an unknown account or a wrong
\* digest.
AuthRefused ==
  /\ step = "callbacks" /\ auth[cur] = "query"
  /\ auth' = Set(auth, cur, "refused")
  /\ SendPacket(cur) \/ UNCHANGED <<sent, bufferQueue>>
  /\ closing' = Set(closing, cur, TRUE)
  /\ EndUpdate
  /\ UNCHANGED <<place, peer, closed, reading, asyncVars, writeQueue, wire,
                 connections, todo, packVars>>

\* The timer is armed for the next update.
EndThreadUpdate ==
  /\ step = "next" /\ todo = {}
  /\ step' = "idle"
  /\ UNCHANGED <<stateVars, reading, asyncVars, dataVars, connections, cur, todo, packVars>>

-----------------------------------------------------------------------------
\* The other end closes the connection, at any time.
PeerCloses(s) ==
  /\ peer[s] = "open" /\ place[s] # "none"
  /\ peer' = Set(peer, s, "closed")
  /\ UNCHANGED <<place, auth, closing, closed, reading, asyncVars, dataVars, threadVars, packVars>>

Update ==
  \/ AddNewSockets \/ (\E s \in Sockets : TakePackets(s))
  \/ PackPacket \/ EndPack \/ BeginWrite \/ RemoveClosed \/ Drain
  \/ NoCallback \/ AuthAccepted \/ AuthRefused \/ EndThreadUpdate

Reads(s) ==
  \/ ReadFails(s) \/ ReadIgnored(s) \/ InitializeHandler(s)
  \/ HandleAuthSession(s) \/ HandleAuthContinuedSession(s)
  \/ HandleEnableEncryptionAck(s)
Others(s) ==
  \/ SessionSends(s) \/ KickPlayer(s) \/ FinishClose(s) \/ RefuseLink(s) \/ RefuseLinkClose(s)

Next ==
  \/ Update
  \/ \E s \in Sockets : \/ Start(s) \/ QueueInitializer(s) \/ AddSocket(s) \/ Reads(s)
                        \/ WriteHandlerWrapper(s) \/ Others(s) \/ PeerCloses(s)

Spec == Init /\ [][Next]_vars

\* The kernel or the loss of the connection moves the write queue on.
Progress(s) ==
  /\ WriteHandlerWrapper(s) \/ (cur = s /\ Drain)
  /\ writeQueue'[s] # writeQueue[s]

(***************************************************************************)
(* The timer of the network thread is re-armed by every update, the        *)
(* acceptor goes on, a CloseSocket that has begun ends, and a peer that    *)
(* stays connected reads what it is sent: a queue that is tried again and  *)
(* again moves on.  Nothing forces a peer to send, or anyone to close.     *)
(***************************************************************************)
Fairness ==
  /\ WF_vars(Update)
  /\ \A s \in Sockets : /\ WF_vars(QueueInitializer(s) \/ AddSocket(s))
                        /\ WF_vars(FinishClose(s))
                        /\ SF_vars(Progress(s))

FairSpec == Spec /\ Fairness

-----------------------------------------------------------------------------
(* Properties.                                                             *)

Packet == [lo : Nat, hi : Nat]
Block == Nat \ {0}

\* Types: blocks are numbered from 1, packets and buffers hold offsets of them.
TypeOK ==
  /\ place \in [Sockets -> {"none", "starting", "started", "new", "listed", "gone"}]
  /\ auth \in [Sockets -> {"initializing", "challenged", "query", "accepted",
                           "authed", "refused"}]
  /\ peer \in [Sockets -> {"open", "closed", "reset"}]
  /\ closing \in [Sockets -> BOOLEAN]
  /\ closed \in [Sockets -> {"no", "begun", "done"}]
  /\ reading \in [Sockets -> BOOLEAN]
  /\ writing \in [Sockets -> BOOLEAN]
  /\ pending \in [Sockets -> BOOLEAN]
  /\ sent \in [Sockets -> Nat]
  /\ bufferQueue \in [Sockets -> Seq(Packet)]
  /\ writeQueue \in [Sockets -> Seq(Packet)]
  /\ wire \in [Sockets -> Seq(Block)]
  /\ connections \in Int
  /\ step \in {"idle", "next", "pack", "write", "drain", "callbacks"}
  /\ cur \in Sockets \cup {None}
  /\ todo \subseteq Sockets
  /\ batch \in Seq(Packet)
  /\ buffer \in [lo : Nat, hi : Nat, cap : Nat]

\* Every socket, seen by those who send on it, is a packet stream.
Stream == INSTANCE PacketStream
            WITH Conns <- Sockets, accepted <- sent, delivered <- wire,
                 over <- [s \in Sockets |-> closed[s] = "done"]

(***************************************************************************)
(* The blocks of a socket reach the wire in the order they were sent, each *)
(* once and none skipped, whatever the sizes of the packets, the partial   *)
(* writes, the threads that send and the moment somebody closes; nothing   *)
(* is written after the shutdown.  Headers are encrypted in this order.    *)
(***************************************************************************)
WireIsStream == Stream!Spec

(***************************************************************************)
(* _connections, by which the acceptor chooses a thread, counts the sockets*)
(* handed to the thread and not yet dropped by it.                         *)
(***************************************************************************)
ConnectionsCounted == connections = Cardinality(In("new") \cup In("listed"))

\* The end of what WorldSocket::Update has moved to the write queue.
Moved(s) == IF bufferQueue[s] = <<>> THEN sent[s] ELSE Head(bufferQueue[s]).lo

\* What has been written when a marked socket closes and its peer is there.
ClosesDrained ==
  \A s \in Sockets :
    closing[s] /\ closed[s] = "no" /\ closed'[s] = "done" /\ peer'[s] = "open" =>
      Len(wire'[s]) = Moved(s)

(***************************************************************************)
(* A socket marked by DelayedCloseSocket whose peer is still there closes  *)
(* only when all that was moved to the write queue is on the wire.         *)
(***************************************************************************)
DelayedCloseDrains == [][ClosesDrained]_vars

(***************************************************************************)
(* On a connection that stays open at both ends every block that was sent  *)
(* reaches the wire: no partial or blocked write leaves _isWritingAsync    *)
(* set with nobody to resume, and no buffer waits for the next packet.     *)
(***************************************************************************)
SentArrives ==
  \A s \in Sockets : \A n \in 1 .. MaxBlocks :
    sent[s] >= n ~> Len(wire[s]) >= n \/ ~IsOpen(s) \/ peer[s] # "open"

(***************************************************************************)
(* What is behind SentArrives: _isWritingAsync is set exactly while the    *)
(* write handler is registered, and as long as a socket that is open at    *)
(* both ends has blocks that are not on the wire, the write handler or the *)
(* next update of the network thread is going to move them.                *)
(***************************************************************************)
HasUnsent(s) ==
  /\ place[s] \in {"started", "new", "listed"} /\ IsOpen(s) /\ peer[s] = "open"
  /\ Len(wire[s]) < sent[s]
NobodyStalls ==
  \A s \in Sockets :
    /\ writing[s] <=> pending[s]
    /\ HasUnsent(s) => \/ pending[s]
                       \/ bufferQueue[s] # <<>> \/ (cur = s /\ step = "pack")
                       \/ writeQueue[s] # <<>> /\ ~SkipWrite(s)

(***************************************************************************)
(* A socket that is closed leaves the network thread's list, whoever       *)
(* closed it and whatever is still queued on it.                           *)
(***************************************************************************)
ClosedLeaves ==
  \A s \in Sockets : closed[s] # "no" ~> place[s] = "gone"

(***************************************************************************)
(* Socket.h, DelayedCloseSocket: "Marks the socket for closing after write *)
(* buffer becomes empty".  So a marked socket closes.                      *)
(***************************************************************************)
DelayedCloseCloses ==
  \A s \in Sockets : closing[s] ~> closed[s] # "no" \/ place[s] = "gone"

=============================================================================
