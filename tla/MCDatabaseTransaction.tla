----------------------- MODULE MCDatabaseTransaction -----------------------
(* DatabaseTransaction on small instances.                                 *)
EXTENDS DatabaseTransaction

=============================================================================
