---- MODULE MCAgentTurn ----
(* One gated and one free action, so that a denial of each can be told apart. *)
EXTENDS AgentTurn
====
