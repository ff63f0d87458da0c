---------------------------- MODULE PacketStream ----------------------------
(***************************************************************************)
(* What a connection promises to the code that sends packets on it: the    *)
(* blocks accepted for it, numbered from 1, reach the peer in that order,  *)
(* each at most once and without a gap, and nothing reaches the peer once  *)
(* the connection is over.  Blocks not delivered by then are lost.         *)
(***************************************************************************)
EXTENDS Integers, Sequences

CONSTANT Conns

VARIABLES
  accepted,    \* how many blocks have been accepted
  delivered,   \* the blocks the peer has been given
  over         \* sending is shut down

streamVars == <<accepted, delivered, over>>

\* The first n blocks, in order.
Prefix(n) == [i \in 1 .. n |-> i]

Init ==
  /\ accepted = [c \in Conns |-> 0]
  /\ delivered = [c \in Conns |-> <<>>]
  /\ over = [c \in Conns |-> FALSE]

Accept(c) ==
  /\ accepted'[c] \in Nat /\ accepted'[c] > accepted[c]
  /\ accepted' = [accepted EXCEPT ![c] = accepted'[c]]
  /\ UNCHANGED <<delivered, over>>

\* The last delivery may end the connection.
Deliver(c) ==
  /\ ~over[c]
  /\ \E n \in Len(delivered[c]) + 1 .. accepted[c] :
       delivered' = [delivered EXCEPT ![c] = Prefix(n)]
  /\ \E end \in BOOLEAN : over' = [over EXCEPT ![c] = end]
  /\ UNCHANGED accepted

End(c) ==
  /\ over' = [over EXCEPT ![c] = TRUE]
  /\ UNCHANGED <<accepted, delivered>>

Next == \E c \in Conns : Accept(c) \/ Deliver(c) \/ End(c)

Spec == Init /\ [][Next]_streamVars
=============================================================================
