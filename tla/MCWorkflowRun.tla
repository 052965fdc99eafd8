--------------------------- MODULE MCWorkflowRun ---------------------------
EXTENDS WorkflowRun

\* The second stage builds on the first; a third stands alone.
Chain == [s \in Stages |-> IF s = 2 THEN {1} ELSE {}]

============================================================================
