----------------------------- MODULE MCLeanIpc -----------------------------
EXTENDS LeanIpc

(* A directory, and one inside it. *)
Nested == [p \in Places |-> IF p = "root" THEN {"root"} ELSE {"root", p}]
=============================================================================
