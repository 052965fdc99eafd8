----------------------------- MODULE MCToolBridge -----------------------------
\* An instance of ToolBridge for TLC.
EXTENDS ToolBridge, TLC

CONSTANTS s1, s2, c1, c2, w1, w2, r1, r2

\* Two calls of one session, beside a session that may become its parent or its child.
OneSession == (c1 :> s1) @@ (c2 :> s1)

=============================================================================
