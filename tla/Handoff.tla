-------------------------------- MODULE Handoff --------------------------------
(***************************************************************************)
(* Execution ownership of one native checkpoint (agent/handoff.rs) and the *)
(* boundaries of the run loop that honour a queued handoff (modes/yolo.rs). *)
(*                                                                         *)
(* An attempt is one process that runs or resumes the checkpoint; its lease *)
(* nonce is its name.  A user is a terminal that asks the running attempt  *)
(* to park, waits until the run lock is free, and takes over the exports a *)
(* parked worker left.  Attempts start at any time: what admits them       *)
(* (background records, `aishe resume') is not in this module.             *)
(*                                                                         *)
(* What happens under control.lock is one step.  The run lock is a kernel  *)
(* lock, so a process that dies drops it.  A lease has two possible        *)
(* directions, so a request is always for the other one.  Turns whose      *)
(* workspace cannot be transferred refuse every request and are left out.  *)
(***************************************************************************)
EXTENDS FiniteSets

CONSTANTS
    Attempts,      \* processes that may own the checkpoint
    Detached,      \* those that run in the background: a request asks for foreground
    Users,         \* terminals
    None

ASSUME Apart ==
    /\ Detached \subseteq Attempts
    /\ Attempts \cap Users = {}
    /\ None \notin Attempts \cup Users

VARIABLES
    lock,        \* holder of run.lock
    owner,       \* nonce in the state file
    status,      \* status in the state file
    requested,   \* whether the state file carries a request
    exports,     \* attempts whose transfer file exists
    pc,          \* where each attempt is
    user,        \* where each user is
    expected,    \* the nonce a user has read
    acked,       \* history: nonces for which a request was acknowledged
    completed    \* history: attempts that closed their requests and completed

stateFile == <<owner, status, requested>>
histories == <<acked, completed>>
vars == <<lock, stateFile, exports, pc, user, expected, histories>>

Init ==
    /\ lock = None
    /\ owner = None /\ status = "Finished" /\ requested = FALSE
    /\ exports = {}
    /\ pc = [p \in Attempts |-> "idle"]
    /\ user = [u \in Users |-> "idle"]
    /\ expected = [u \in Users |-> None]
    /\ acked = {} /\ completed = {}

Goto(p, place) == pc' = [pc EXCEPT ![p] = place]
Turn(u, place) == user' = [user EXCEPT ![u] = place]

---------------------------------------------------------------------------
(* An attempt: load the checkpoint, acquire, run, park or complete, drop.  *)

\* resume_checkpoint: the record that yolo::resume will continue.
Load(p) ==
    /\ pc[p] = "idle"
    /\ Goto(p, "loaded")
    /\ UNCHANGED <<lock, stateFile, exports, user, expected, histories>>

\* Lease::acquire, first half: the run lock is tried once.
TryLock(p) ==
    /\ pc[p] = "loaded"
    /\ IF lock = None
       THEN lock' = p /\ Goto(p, "locked")
       ELSE Goto(p, "refused") /\ UNCHANGED lock
    /\ UNCHANGED <<stateFile, exports, user, expected, histories>>

\* A faulty publication that leaves a retired transfer behind.
PublishKeeps(p) ==
    /\ pc[p] = "locked"
    /\ owner' = p /\ status' = "Active" /\ requested' = FALSE
    /\ Goto(p, "running")
    /\ UNCHANGED <<lock, exports, user, expected, histories>>

\* Lease::acquire, second half: the retired transfer is removed and the lease published;
\* Active::resume then writes the loaded record back.
Publish(p) ==
    /\ pc[p] = "locked"
    /\ exports' = exports \ {owner}
    /\ owner' = p /\ status' = "Active" /\ requested' = FALSE
    /\ Goto(p, "running")
    /\ UNCHANGED <<lock, user, expected, histories>>

\* A faulty boundary that goes on whatever was requested.
BoundaryIgnores(p) ==
    /\ pc[p] = "running"
    /\ Goto(p, "working")
    /\ UNCHANGED <<lock, stateFile, exports, user, expected, histories>>

\* park_requested_handoff at a boundary: the checkpoint is finished as handed off and a
\* background attempt writes its exports for the one who asked.
Boundary(p) ==
    /\ pc[p] = "running"
    /\ IF requested /\ status \in {"Active", "Queued"}
       THEN /\ Goto(p, "parking")
            /\ exports' = exports \cup ({p} \cap Detached)
       ELSE /\ Goto(p, "working")
            /\ UNCHANGED exports
    /\ UNCHANGED <<lock, stateFile, user, expected, histories>>

\* A provider turn or a tool, recorded in the checkpoint.
Work(p) ==
    /\ pc[p] = "working"
    /\ Goto(p, "running")
    /\ UNCHANGED <<lock, stateFile, exports, user, expected, histories>>

\* Lease::park: released to the other side, unless the task was cancelled meanwhile.
Park(p) ==
    /\ pc[p] = "parking"
    /\ \/ status' = "Parked" /\ Goto(p, "parked")
       \/ Goto(p, "ending") /\ UNCHANGED status
    /\ UNCHANGED <<lock, owner, requested, exports, user, expected, histories>>

\* A faulty completion that looked for a request before it took the control lock.
CloseUnseen(p) ==
    /\ pc[p] = "working"
    /\ status' = "Finished" /\ Goto(p, "closed")
    /\ completed' = completed \cup {p}
    /\ UNCHANGED <<lock, owner, requested, exports, user, expected, acked>>

\* close_requests_if_unrequested after the final answer: completion, or the queued handoff.
Close(p) ==
    /\ pc[p] = "working"
    /\ IF requested
       THEN /\ Goto(p, "running")
            /\ UNCHANGED <<status, completed>>
       ELSE /\ status' = "Finished" /\ Goto(p, "closed")
            /\ completed' = completed \cup {p}
    /\ UNCHANGED <<lock, owner, requested, exports, user, expected, acked>>

\* Every other end of the turn: failed, cancelled, waiting, out of budget or iterations.
End(p) ==
    /\ pc[p] \in {"running", "working"}
    /\ Goto(p, "ending")
    /\ UNCHANGED <<lock, stateFile, exports, user, expected, histories>>

\* Lease::drop: a lease that did not park is finished and its transfer removed.
Drop(p) ==
    /\ pc[p] \in {"closed", "ending", "parked"}
    /\ IF pc[p] = "parked"
       THEN UNCHANGED <<status, exports>>
       ELSE /\ status' = IF owner = p THEN "Finished" ELSE status
            /\ exports' = exports \ {p}
    /\ lock' = None
    /\ Goto(p, "gone")
    /\ UNCHANGED <<owner, requested, user, expected, histories>>

Crash(p) ==
    /\ pc[p] \notin {"gone", "refused"}
    /\ lock' = IF lock = p THEN None ELSE lock
    /\ Goto(p, "gone")
    /\ UNCHANGED <<stateFile, exports, user, expected, histories>>

---------------------------------------------------------------------------
(* A user.                                                                 *)

\* request_task, request_control and discard_environment first read a snapshot.
Read(u) ==
    /\ user[u] = "idle"
    /\ owner # None
    /\ expected' = [expected EXCEPT ![u] = owner]
    /\ Turn(u, "read")
    /\ UNCHANGED <<lock, stateFile, exports, pc, histories>>

\* request_in: queued for the very lease that was read, if it still runs.
Request(u) ==
    /\ user[u] = "read"
    /\ IF owner = expected[u] /\ status \in {"Active", "Queued"} /\ lock # None
       THEN /\ requested' = TRUE /\ status' = "Queued"
            /\ acked' = acked \cup {expected[u]}
       ELSE UNCHANGED <<requested, status, acked>>
    /\ Turn(u, "idle")
    /\ UNCHANGED <<lock, owner, exports, pc, expected, completed>>

\* wait_stopped: it tries the run lock and gives it back.
Probe(u) ==
    /\ user[u] = "idle"
    /\ lock = None
    /\ lock' = u
    /\ Turn(u, "probing")
    /\ UNCHANGED <<stateFile, exports, pc, expected, histories>>

Stopped(u) ==
    /\ user[u] = "probing"
    /\ lock' = None
    /\ Turn(u, "idle")
    /\ UNCHANGED <<stateFile, exports, pc, expected, histories>>

\* take_environment: the exports of a parked worker whose run lock is free.
Take(u) ==
    /\ user[u] = "idle"
    /\ status = "Parked" /\ owner \in Detached /\ lock = None
    /\ owner \in exports
    /\ exports' = exports \ {owner}
    /\ UNCHANGED <<lock, stateFile, pc, user, expected, histories>>

\* discard_environment, after a cancellation or a refused claim.
Discard(u) ==
    /\ user[u] = "read"
    /\ exports' = exports \ {expected[u]}
    /\ Turn(u, "idle")
    /\ UNCHANGED <<lock, stateFile, pc, expected, histories>>

Proceed(p) == Load(p) \/ TryLock(p) \/ Publish(p) \/ Boundary(p) \/ Work(p) \/ Park(p)
              \/ Close(p) \/ End(p) \/ Drop(p)

UserStep(u) == Read(u) \/ Request(u) \/ Probe(u) \/ Stopped(u) \/ Take(u) \/ Discard(u)

Next ==
    \/ \E p \in Attempts : Proceed(p) \/ Crash(p)
    \/ \E u \in Users : UserStep(u)

Spec == Init /\ [][Next]_vars

\* Turns and tools have deadlines, so a process that runs reaches its next boundary.
FairSpec == Spec /\ \A p \in Attempts : WF_vars(Proceed(p))

---------------------------------------------------------------------------
(* Properties.                                                             *)

\* Between admission and the end of the turn; with the lock; with the published lease.
Executing == {"running", "working"}
Published == Executing \cup {"parking", "parked", "closed", "ending"}
Owning == Published \cup {"locked"}

\* Every variable has its type, and the run lock is held by exactly those who believe so.
TypeOK ==
    /\ lock \in Attempts \cup Users \cup {None}
    /\ owner \in Attempts \cup {None}
    /\ status \in {"Active", "Queued", "Parked", "Finished"}
    /\ requested \in BOOLEAN
    /\ exports \subseteq Detached
    /\ pc \in [Attempts -> Owning \cup {"idle", "loaded", "refused", "gone"}]
    /\ user \in [Users -> {"idle", "read", "probing"}]
    /\ expected \in [Users -> Attempts \cup {None}]
    /\ acked \subseteq Attempts /\ completed \subseteq Attempts
    /\ \A p \in Attempts : pc[p] \in Owning <=> lock = p
    /\ \A u \in Users : user[u] = "probing" <=> lock = u
    /\ \A u \in Users : user[u] = "read" => expected[u] # None

\* One lease is published at a time and it stays published until its process is done, so
\* the loop never finds its lease "replaced while task was running" (handoff.rs:216).
LeaseStands == \A p \in Attempts : pc[p] \in Published => owner = p

\* handoff.rs:226: completion and an acknowledged handoff exclude each other.
NeverBoth == acked \cap completed = {}

\* handoff.rs:4: only a lease that a terminal named is ever parked; a request to an earlier
\* lease does not interrupt a later continuation.
ParkedWasAsked == \A p \in Attempts : pc[p] \in {"parking", "parked"} => p \in acked

\* handoff.rs:334: exports survive only for the latest lease, whoever died where; a later
\* lease cannot inherit a retired transfer.
ExportsCurrent == exports \subseteq {owner}

\* The inductive invariant.
IInv ==
    /\ TypeOK /\ LeaseStands /\ NeverBoth /\ ParkedWasAsked /\ ExportsCurrent
    /\ owner \in completed => status = "Finished"
    /\ requested <=> owner \in acked
    /\ status = "Active" => owner # None
    /\ owner = None => acked = {} /\ completed = {}
    /\ \A p \in Attempts : pc[p] \in {"idle", "loaded", "locked", "refused"}
                           => p \notin acked \cup completed /\ p # owner

\* An acknowledged handoff is taken up at the next boundary: its lease parks or ends.
HandoffTakenUp == \A p \in Attempts : p \in acked ~> pc[p] \in {"parked", "gone"}
=============================================================================
