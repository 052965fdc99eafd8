-------------------------- MODULE MCTaskLifecycle --------------------------
\* A small instance of TaskLifecycle for TLC.
EXTENDS TaskLifecycle, TLC

\* Attempts start alike and no action tells one from another.
Attempts == Permutations(Workers)
=============================================================================
