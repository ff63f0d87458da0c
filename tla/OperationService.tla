-------------------------- MODULE OperationService --------------------------
(***************************************************************************)
(* What an asynchronous database pool promises those who enqueue           *)
(* operations: operations begin in the order they were accepted, each runs *)
(* at most once, no more than Limit are under way at a time, and when the  *)
(* service closes the ones that have not begun never do.                   *)
(***************************************************************************)
EXTENDS Naturals, FiniteSets

CONSTANTS
  Ops,    \* numbers of the operations, in the order of acceptance
  Limit   \* number of workers

VARIABLES
  accepted,  \* operations 1 .. accepted have been accepted
  begun,     \* operations 1 .. begun have begun
  ran,       \* how often each operation has run
  open       \* the service is open

serviceVars == <<accepted, begun, ran, open>>

Unfinished == {o \in Ops : o <= begun /\ ran[o] = 0}

Init ==
  /\ accepted = 0 /\ begun = 0
  /\ ran = [o \in Ops |-> 0]
  /\ open = TRUE

Accept ==
  /\ open
  /\ accepted' = accepted + 1
  /\ UNCHANGED <<begun, ran, open>>

Begin ==
  /\ open /\ begun < accepted
  /\ Cardinality(Unfinished) < Limit
  /\ begun' = begun + 1
  /\ UNCHANGED <<accepted, ran, open>>

Finish(o) ==
  /\ o <= begun /\ ran[o] = 0
  /\ ran' = [ran EXCEPT ![o] = 1]
  /\ UNCHANGED <<accepted, begun, open>>

Stop ==
  /\ open
  /\ open' = FALSE
  /\ UNCHANGED <<accepted, begun, ran>>

Next == Accept \/ Begin \/ Stop \/ \E o \in Ops : Finish(o)

Spec == Init /\ [][Next]_serviceVars

\* An operation that has run has overtaken fewer than Limit earlier ones: with
\* a single worker everything before it has run.
FewOvertaken ==
  \A o \in Ops : ran[o] > 0 => Cardinality({p \in Ops : p < o /\ ran[p] = 0}) < Limit

=============================================================================
