---------------------------- MODULE MCSupervisorPool ----------------------------
EXTENDS SupervisorPool, TLC

CONSTANTS s1, s2

(* The second shell runs an updated aishe. *)
Updated == s1 :> 1 @@ s2 :> 2

=============================================================================
