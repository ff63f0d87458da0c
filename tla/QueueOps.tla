------------------------------ MODULE QueueOps ------------------------------
(***************************************************************************)
(* Operators on the lists and deques of the program: std::list, std::deque *)
(* and std::vector, as sequences.                                          *)
(***************************************************************************)
EXTENDS Naturals, Sequences, Functions

Distinct(q) == \A i, j \in DOMAIN q : q[i] = q[j] => i = j

\* The place of the first occurrence of s, as std::find returns it.
Position(q, s) == CHOOSE i \in DOMAIN q :
                    q[i] = s /\ \A j \in DOMAIN q : j < i => q[j] # s

\* Mutant: erase by moving the last element into the hole.
WithoutBySwap(q, s) ==
  IF s \notin Range(q) THEN q
  ELSE [i \in 1 .. Len(q) - 1 |-> IF i = Position(q, s) THEN q[Len(q)] ELSE q[i]]
\* Mutant: the erase is forgotten.
WithoutErase(q, s) == q

\* The first occurrence of s erased, if there is one.
Without(q, s) ==
  IF s \notin Range(q) THEN q
  ELSE LET p == Position(q, s)
       IN  [i \in 1 .. Len(q) - 1 |-> IF i < p THEN q[i] ELSE q[i + 1]]
=============================================================================
