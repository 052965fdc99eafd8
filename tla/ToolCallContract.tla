--------------------------- MODULE ToolCallContract ---------------------------
(***************************************************************************)
(* What the bridge promises about tool calls, without leases, journals or  *)
(* processes: the tool of a call key runs at most once, and everyone who is *)
(* told a result is told the result of that run.                           *)
(***************************************************************************)
EXTENDS Sequences

CONSTANTS Calls, Workers

VARIABLES
    ran,   \* call -> the workers that ran its tool
    told   \* call -> the workers whose result has been reported for it

Init ==
    /\ ran = [c \in Calls |-> <<>>]
    /\ told = [c \in Calls |-> {}]

Run(c, w) ==
    /\ ran[c] = <<>>
    /\ ran' = [ran EXCEPT ![c] = <<w>>]
    /\ UNCHANGED told

Tell(c, w) ==
    /\ ran[c] = <<w>>
    /\ told' = [told EXCEPT ![c] = @ \cup {w}]
    /\ UNCHANGED ran

Next == \E c \in Calls, w \in Workers : Run(c, w) \/ Tell(c, w)

Spec == Init /\ [][Next]_<<ran, told>>

=============================================================================
