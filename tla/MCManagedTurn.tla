---------------------------- MODULE MCManagedTurn ----------------------------
EXTENDS ManagedTurn

(* The user types the same line again. *)
Again == [t \in Lines |-> "again"]

=============================================================================
