-------------------------- MODULE MCDatabaseQueue --------------------------
(* DatabaseQueue on small instances.                                       *)
EXTENDS DatabaseQueue

=============================================================================
