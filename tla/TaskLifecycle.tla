--------------------------- MODULE TaskLifecycle ---------------------------
(***************************************************************************)
(* One background task (src/background.rs): the JSON record that clients   *)
(* and workers change under record.lock, the worker processes started for  *)
(* it, the native checkpoint journal, and the kernel lock of               *)
(* agent/handoff.rs that lets one process execute a checkpoint.            *)
(*                                                                         *)
(* A client is one CLI, shell or scheduler process acting on the task; it  *)
(* may die between two of its steps.  A worker is one process started by a *)
(* client; it may die at any point, which is all a crash is here.  A       *)
(* worker that starts without a checkpoint creates one, so a checkpoint is *)
(* named by the worker that created it.                                    *)
(*                                                                         *)
(* Abstracted: exit code and error text are `result'; the change budget,   *)
(* required checks and follow-ups that turn one finish into another are a  *)
(* choice of verdict; whether a waiting task has its answer is left open;  *)
(* the 5 s grace of a Starting task may have passed at any look.  The      *)
(* worker is the native one; foreground claims are not in this module.     *)
(***************************************************************************)
EXTENDS Naturals, FiniteSets

CONSTANTS
    Workers,       \* worker processes: the bound on attempts
    Clients,       \* processes that act on the task
    None,          \* no process, no checkpoint
    MaxRevision,   \* bound: no resume begins at this result revision
    ClientsDie     \* whether a client may die between two of its steps

ASSUME NoneApart == None \notin Workers
ASSUME BoundsTyped == MaxRevision \in Nat /\ ClientsDie \in BOOLEAN

VARIABLES
    record,     \* record.json: state, result, pid, native checkpoint, result_revision
    partial,    \* the apply ledger holds applied or uncertain hunks
    steered,    \* rework instructions the checkpoint has not taken yet
    journal,    \* status of each native checkpoint
    lock,       \* holder of each checkpoint's run lock
    worker,     \* where each worker process is
    job,        \* the checkpoint a worker works on
    outcome,    \* the outcome a worker is about to publish
    signalled,  \* workers that received SIGINT
    client,     \* where each client is
    child,      \* the process a client spawned or is stopping
    executed,   \* history: checkpoints under which a tool effect took place
    named       \* history: the first settled outcome saved under the newest result revision

recordVars == <<record, named>>
workerVars == <<worker, job, outcome>>
clientVars == <<client, child>>
vars == <<record, partial, steered, journal, lock, workerVars, signalled,
          clientVars, executed, named>>

Active == {"Starting", "Running"}
Resumable == {"Waiting", "Interrupted", "Failed", "Cancelled"}
Final == {"Completed", "Failed", "Cancelled", "Applied", "Discarded"}
States == Active \cup Resumable \cup Final

Record == [state : States,
           result : {"none", "finished", "cancelled", "lost", "rework", "uncertain"},
           pid : Workers \cup {None},
           native : Workers \cup {None},
           rev : Nat]

Init ==
    /\ record = [state |-> "Starting", result |-> "none", pid |-> None,
                 native |-> None, rev |-> 0]
    /\ partial = FALSE
    /\ steered = FALSE
    /\ journal = [n \in Workers |-> "none"]
    /\ lock = [n \in Workers |-> None]
    /\ worker = [w \in Workers |-> "unborn"]
    /\ job = [w \in Workers |-> None]
    /\ outcome = [w \in Workers |-> "none"]
    /\ signalled = {}
    /\ \E c \in Clients : client = [d \in Clients |-> IF d = c THEN "claimed" ELSE "idle"]
    /\ child = [c \in Clients |-> None]
    /\ executed = {}
    /\ named = [rev |-> 0, as |-> <<>>]

---------------------------------------------------------------------------
(* The record.                                                             *)

\* same_process: the recorded pid with its start time still names a running process.
Live(pid) == pid # None /\ worker[pid] \notin {"unborn", "dead"}

Settled(state) == state \notin {"Starting", "Running", "Waiting"}

\* What a result revision stands for.
Result(r) == <<r.state, r.result, r.native>>

\* A faulty advance that compares only the state.
NextRevisionByState(r) ==
    IF Settled(r.state) /\ r.state # record.state THEN r.rev + 1 ELSE r.rev

NextRevision(r) ==
    IF Settled(r.state) /\ Result(r) # Result(record) THEN r.rev + 1 ELSE r.rev

\* update + save: the changed record, under the lock, with its revision advanced.
Save(r) ==
    LET stored == [r EXCEPT !.rev = NextRevision(r)]
    IN  /\ record' = stored
        /\ named' = IF Settled(stored.state)
                       /\ stored.rev > named.rev
                    THEN [rev |-> stored.rev, as |-> Result(stored)]
                    ELSE named

\* finish_record: only a Starting, Running or Interrupted task takes a final outcome.
\* The verdict is the outcome after required checks, change budget and late follow-ups.
Finished(r, state, verdict) ==
    IF r.state \notin Active \cup {"Interrupted"}
    THEN r
    ELSE [r EXCEPT !.state = verdict, !.result = "finished",
                   !.pid = IF state = "Waiting" THEN @ ELSE None]

Verdicts(state) ==
    {state, "Failed"} \cup (IF state = "Completed" THEN {"Interrupted"} ELSE {})

\* attach_native_task: links the checkpoint once, and a Starting task becomes Running.
Attachable(r, n) == r.state \in Active /\ r.native \in {None, n}

Attached(r, w, n) ==
    [r EXCEPT !.native = n,
              !.pid = IF r.state = "Starting" THEN w ELSE @,
              !.state = "Running"]

Goto(w, where) == worker' = [worker EXCEPT ![w] = where]
Step(c, where) == client' = [client EXCEPT ![c] = where]

Release(w) == lock' = [n \in Workers |-> IF lock[n] = w THEN None ELSE lock[n]]

\* A process that ends leaves nothing of its own behind.
Gone(w) ==
    /\ Goto(w, "dead")
    /\ Release(w)
    /\ job' = [job EXCEPT ![w] = None]
    /\ outcome' = [outcome EXCEPT ![w] = "none"]
    /\ signalled' = signalled \ {w}

---------------------------------------------------------------------------
(* Clients: start, resume, reconcile, cancel, rework, discard, apply.      *)

\* A faulty look that trusts a task without a pid to be starting.
LookRecorded(c) ==
    /\ client[c] = "idle"
    /\ record.state \in Active
    /\ record.pid # None
    /\ ~Live(record.pid)
    /\ Step(c, "reconciling")
    /\ UNCHANGED <<record, partial, steered, journal, lock, workerVars, signalled,
                   child, executed, named>>

\* reconcile on the caller's snapshot: an active task whose process looks dead.
Look(c) ==
    /\ client[c] = "idle"
    /\ record.state \in Active
    /\ ~Live(record.pid)
    /\ Step(c, "reconciling")
    /\ UNCHANGED <<record, partial, steered, journal, lock, workerVars, signalled,
                   child, executed, named>>

\* A faulty reconciliation that decides from the snapshot.
ReconciledStale(r) ==
    [r EXCEPT !.state = "Interrupted", !.result = "lost", !.pid = None]

\* reconcile under the lock: the fresh record decides.
Reconciled(r) ==
    IF r.state \in Active /\ ~Live(r.pid)
    THEN IF r.native # None /\ journal[r.native] = "waiting"
         THEN [r EXCEPT !.state = "Waiting", !.result = "none", !.pid = None]
         ELSE [r EXCEPT !.state = "Interrupted", !.result = "lost", !.pid = None]
    ELSE r

Reconcile(c) ==
    /\ client[c] = "reconciling"
    /\ Save(Reconciled(record))
    /\ Step(c, "idle")
    /\ UNCHANGED <<partial, steered, journal, lock, workerVars, signalled, child,
                   executed>>

\* resume on its snapshot.
Resume(c) ==
    /\ client[c] = "idle"
    /\ record.state \in Resumable
    /\ ~Live(record.pid)
    /\ ~partial
    /\ record.native # None
    /\ record.rev < MaxRevision
    /\ Step(c, "resuming")
    /\ UNCHANGED <<record, partial, steered, journal, lock, workerVars, signalled,
                   child, executed, named>>

\* A faulty claim that relies on the snapshot's apply ledger.
ClaimableStale(r) == r.state \in Resumable

\* claim_slot's closure: the fresh record must still be resumable; its pid is not rechecked.
Claimable(r) == r.state \in Resumable /\ ~partial

Claim(c) ==
    /\ client[c] = "resuming"
    /\ IF Claimable(record)
       THEN /\ Save([record EXCEPT !.state = "Starting", !.result = "none", !.pid = None])
            /\ Step(c, "claimed")
       ELSE /\ Step(c, "idle")
            /\ UNCHANGED recordVars
    /\ UNCHANGED <<partial, steered, journal, lock, workerVars, signalled, child,
                   executed>>

Spawn(c, w) ==
    /\ client[c] = "claimed"
    /\ worker[w] = "unborn"
    /\ Goto(w, "spawned")
    /\ child' = [child EXCEPT ![c] = w]
    /\ Step(c, "spawned")
    /\ UNCHANGED <<record, partial, steered, journal, lock, job, outcome, signalled,
                   executed, named>>

SpawnFails(c) ==
    /\ client[c] = "claimed"
    /\ Save(Finished(record, "Failed", "Failed"))
    /\ Step(c, "idle")
    /\ UNCHANGED <<partial, steered, journal, lock, workerVars, signalled, child,
                   executed>>

\* The parent's update after spawn, unless the worker or someone else was faster.
WithChild(r, w) ==
    IF r.state = "Starting" THEN [r EXCEPT !.pid = w, !.state = "Running"] ELSE r

RecordChild(c) ==
    /\ client[c] = "spawned"
    /\ Save(WithChild(record, child[c]))
    /\ Step(c, "idle")
    /\ child' = [child EXCEPT ![c] = None]
    /\ UNCHANGED <<partial, steered, journal, lock, workerVars, signalled, executed>>

ClientDies(c) ==
    /\ ClientsDie
    /\ client[c] # "idle"
    /\ Step(c, "idle")
    /\ child' = [child EXCEPT ![c] = None]
    /\ UNCHANGED <<record, partial, steered, journal, lock, workerVars, signalled,
                   executed, named>>

\* mark_background_cancelled: the checkpoint is aligned with the cancelled record.
MarkCancelled == journal' = [journal EXCEPT ![record.native] = "stopped"]

\* cancel, first update: SIGINT to a live recorded worker, whose pid stays on record.
CancelRequest(c) ==
    LET known  == record.pid # None /\ (record.state # "Waiting" \/ Live(record.pid))
        target == IF known THEN record.pid ELSE None
    IN  /\ client[c] = "idle"
        /\ record.state \in Active \cup {"Waiting"}
        /\ known => Live(target)
        /\ Save([record EXCEPT !.state = "Cancelled", !.result = "cancelled",
                               !.pid = target])
        /\ IF known
           THEN /\ signalled' = signalled \cup {target}
                /\ child' = [child EXCEPT ![c] = target]
                /\ Step(c, "stopping")
                /\ UNCHANGED journal
           ELSE /\ UNCHANGED <<signalled, clientVars>>
                /\ IF record.native = None THEN UNCHANGED journal ELSE MarkCancelled
        /\ UNCHANGED <<partial, steered, lock, workerVars, executed>>

\* cancel, second update: SIGTERM if the same worker is still there.
CancelTerm(c) ==
    /\ client[c] = "stopping"
    /\ Step(c, "clearing")
    /\ IF record.state = "Cancelled" /\ record.pid = child[c] /\ Live(child[c])
       THEN Gone(child[c])
       ELSE UNCHANGED <<workerVars, signalled, lock>>
    /\ UNCHANGED <<record, partial, steered, journal, child, executed, named>>

\* cancel, third update: forget the pid only once that process is gone.
CancelClear(c) ==
    /\ client[c] = "clearing"
    /\ Step(c, "idle")
    /\ child' = [child EXCEPT ![c] = None]
    /\ IF record.state = "Cancelled" /\ record.pid = child[c] /\ ~Live(child[c])
       THEN /\ Save([record EXCEPT !.pid = None])
            /\ IF record.native = None THEN UNCHANGED journal ELSE MarkCancelled
       ELSE UNCHANGED <<recordVars, journal>>
    /\ UNCHANGED <<partial, steered, lock, workerVars, signalled, executed>>

\* rework up to its resume, which is Resume.
Rework ==
    /\ record.state \notin Active \cup {"Waiting", "Applied", "Discarded"}
    /\ ~partial
    /\ record.native # None
    /\ Save([record EXCEPT !.state = "Interrupted", !.result = "rework"])
    /\ steered' = TRUE
    /\ UNCHANGED <<partial, journal, lock, workerVars, signalled, clientVars, executed>>

Discard ==
    /\ record.state \notin Active \cup {"Waiting"}
    /\ Save([record EXCEPT !.state = "Discarded"])
    /\ UNCHANGED <<partial, steered, journal, lock, workerVars, signalled, clientVars,
                   executed>>

\* apply_task_changes: all hunks, some of them, or an uncertain application.
Apply ==
    /\ record.state \in {"Completed", "Failed", "Interrupted"}
    /\ record.result # "uncertain"
    /\ \/ Save([record EXCEPT !.state = "Applied"])
       \/ Save(record)
       \/ Save([record EXCEPT !.state = "Failed", !.result = "uncertain"])
    /\ partial' = TRUE
    /\ UNCHANGED <<steered, journal, lock, workerVars, signalled, clientVars, executed>>

---------------------------------------------------------------------------
(* The worker process.                                                     *)

\* request: the worker may run only for a live or interrupted task.
Request(w) ==
    /\ worker[w] = "spawned"
    /\ IF record.state \in Active \cup {"Interrupted"}
       THEN Goto(w, "admitted") /\ UNCHANGED <<job, outcome, signalled, lock>>
       ELSE Gone(w)
    /\ UNCHANGED <<record, partial, steered, journal, clientVars, executed, named>>

\* resume_checkpoint: fresh, or the linked checkpoint; a completed one reopens only
\* for new instructions, and is refused by yolo::resume otherwise.
Load(w) ==
    /\ worker[w] = "admitted"
    /\ job' = [job EXCEPT ![w] = record.native]
    /\ Goto(w, IF record.native # None /\ journal[record.native] = "completed" /\ ~steered
               THEN "failing" ELSE "loaded")
    /\ UNCHANGED <<record, partial, steered, journal, lock, outcome, signalled,
                   clientVars, executed, named>>

\* A fresh worker creates its checkpoint and links it; refused, it has nothing to publish.
Link(w) ==
    /\ worker[w] = "loaded"
    /\ job[w] = None
    /\ IF Attachable(record, w)
       THEN /\ Save(Attached(record, w, w))
            /\ journal' = [journal EXCEPT ![w] = "active"]
            /\ job' = [job EXCEPT ![w] = w]
            /\ UNCHANGED <<worker, outcome, signalled, lock>>
       ELSE /\ Gone(w)
            /\ UNCHANGED <<recordVars, journal>>
    /\ UNCHANGED <<partial, steered, clientVars, executed>>

\* A faulty acquisition that does not look at the lock.
AcquireUnlocked(w) ==
    /\ worker[w] = "loaded"
    /\ job[w] # None
    /\ lock' = [lock EXCEPT ![job[w]] = w]
    /\ journal' = [journal EXCEPT ![job[w]] = "active"]
    /\ steered' = FALSE
    /\ Goto(w, "running")
    /\ UNCHANGED <<record, partial, job, outcome, signalled, clientVars, executed, named>>

\* Lease::acquire: the run lock is tried once.
Acquire(w) ==
    /\ worker[w] = "loaded"
    /\ job[w] # None
    /\ IF lock[job[w]] = None
       THEN /\ lock' = [lock EXCEPT ![job[w]] = w]
            /\ journal' = [journal EXCEPT ![job[w]] = "active"]
            /\ steered' = FALSE
            /\ Goto(w, "running")
       ELSE /\ Goto(w, "failing")
            /\ UNCHANGED <<lock, journal, steered>>
    /\ UNCHANGED <<record, partial, job, outcome, signalled, clientVars, executed, named>>

Stop(w, state) ==
    /\ outcome' = [outcome EXCEPT ![w] = state]
    /\ journal' = [journal EXCEPT ![job[w]] =
                      CASE state = "Completed" -> "completed"
                        [] state = "Waiting"   -> "waiting"
                        [] OTHER               -> "stopped"]
    /\ Goto(w, "finishing")
    /\ Release(w)

\* A faulty turn that ignores a refused attachment.
PersistIgnores(w) ==
    /\ worker[w] = "running"
    /\ Goto(w, "armed")
    /\ IF Attachable(record, job[w])
       THEN Save(Attached(record, w, job[w]))
       ELSE UNCHANGED recordVars
    /\ UNCHANGED <<partial, steered, journal, lock, job, outcome, signalled, clientVars,
                   executed>>

\* ensure_persisted before every provider turn and tool: attach, or stop without an effect.
Persist(w) ==
    /\ worker[w] = "running"
    /\ IF Attachable(record, job[w])
       THEN /\ Save(Attached(record, w, job[w]))
            /\ Goto(w, "armed")
            /\ UNCHANGED <<outcome, journal, lock>>
       ELSE /\ Stop(w, IF w \in signalled \/ record.state = "Cancelled"
                       THEN "Cancelled" ELSE "Failed")
            /\ UNCHANGED recordVars
    /\ UNCHANGED <<partial, steered, job, signalled, clientVars, executed>>

Execute(w) ==
    /\ worker[w] = "armed"
    /\ executed' = executed \cup {job[w]}
    /\ Goto(w, "running")
    /\ UNCHANGED <<record, partial, steered, journal, lock, job, outcome, signalled,
                   clientVars, named>>

\* The turn ends: its checkpoint is final and the run lock released.
EndTurn(w) ==
    /\ worker[w] = "running"
    /\ \E state \in {"Completed", "Waiting", "Interrupted", "Failed"} \cup
                    (IF w \in signalled \/ record.state = "Cancelled"
                     THEN {"Cancelled"} ELSE {}) :
           Stop(w, state)
    /\ UNCHANGED <<record, partial, steered, job, signalled, clientVars, executed, named>>

Exiting(w) ==
    /\ Goto(w, "exiting")
    /\ job' = [job EXCEPT ![w] = None]
    /\ outcome' = [outcome EXCEPT ![w] = "none"]

\* finish_native.
FinishNative(w) ==
    /\ worker[w] = "finishing"
    /\ Exiting(w)
    /\ IF record.native # job[w]
       THEN UNCHANGED <<recordVars, journal>>
       ELSE IF record.state = "Cancelled"
       THEN MarkCancelled /\ UNCHANGED recordVars
       ELSE /\ \E verdict \in Verdicts(outcome[w]) :
                   Save(Finished(record, outcome[w], verdict))
            /\ UNCHANGED journal
    /\ UNCHANGED <<partial, steered, lock, signalled, clientVars, executed>>

\* finish(Err): no run lock, or a completed checkpoint.
FinishError(w) ==
    /\ worker[w] = "failing"
    /\ Save(Finished(record, "Failed", "Failed"))
    /\ Exiting(w)
    /\ UNCHANGED <<partial, steered, journal, lock, signalled, clientVars, executed>>

\* A worker exits, crashes or is killed: the kernel drops its lock.
Die(w) ==
    /\ worker[w] \notin {"unborn", "dead"}
    /\ Gone(w)
    /\ UNCHANGED <<record, partial, steered, journal, clientVars, executed, named>>

ClientStep(c) ==
    \/ Look(c) \/ Reconcile(c) \/ Resume(c) \/ Claim(c) \/ SpawnFails(c)
    \/ \E w \in Workers : Spawn(c, w)
    \/ RecordChild(c) \/ ClientDies(c)
    \/ CancelRequest(c) \/ CancelTerm(c) \/ CancelClear(c)

WorkerStep(w) ==
    \/ Request(w) \/ Load(w) \/ Link(w) \/ Acquire(w) \/ Persist(w) \/ Execute(w)
    \/ EndTurn(w) \/ FinishNative(w) \/ FinishError(w)

Next ==
    \/ \E c \in Clients : ClientStep(c)
    \/ \E w \in Workers : WorkerStep(w) \/ Die(w)
    \/ Rework \/ Discard \/ Apply

Spec == Init /\ [][Next]_vars

\* Every worker step is bounded by the task's deadlines, and clients that are not killed
\* finish what they began; shells and the scheduler poll every task (Look).
FairSteps ==
    /\ \A w \in Workers : /\ WF_vars(WorkerStep(w))
                          /\ WF_vars(worker[w] = "exiting" /\ Die(w))
    /\ \A c \in Clients :
           /\ WF_vars(Look(c))
           /\ WF_vars(client[c] # "idle" /\ ClientStep(c))
           /\ SF_vars(Reconcile(c))

FairSpec == Spec /\ FairSteps

\* max_yolo_iterations ends the loop of turns.
BoundedTurns == \A w \in Workers : SF_vars(EndTurn(w))

---------------------------------------------------------------------------
(* Properties.                                                             *)

Places == {"unborn", "spawned", "admitted", "loaded", "running", "armed", "finishing",
           "failing", "exiting", "dead"}
Holding == {"running", "armed"}
WithChildPlaces == {"spawned", "stopping", "clearing"}

\* Every variable has its type; a client remembers a process exactly while it needs it,
\* and a worker past the run lock works on a checkpoint.
TypeOK ==
    /\ record \in Record
    /\ partial \in BOOLEAN /\ steered \in BOOLEAN
    /\ journal \in [Workers -> {"none", "active", "completed", "waiting", "stopped"}]
    /\ lock \in [Workers -> Workers \cup {None}]
    /\ worker \in [Workers -> Places]
    /\ job \in [Workers -> Workers \cup {None}]
    /\ outcome \in [Workers -> {"none", "Completed", "Waiting", "Interrupted", "Failed",
                                "Cancelled"}]
    /\ signalled \subseteq Workers
    /\ client \in [Clients -> {"idle", "reconciling", "resuming", "claimed"} \cup
                              WithChildPlaces]
    /\ child \in [Clients -> Workers \cup {None}]
    /\ executed \subseteq Workers
    /\ named.rev \in 0..record.rev
    /\ \A c \in Clients : child[c] # None <=> client[c] \in WithChildPlaces
    /\ \A w \in Workers :
           /\ worker[w] \in Holding \cup {"finishing"} => job[w] \in Workers
           /\ worker[w] = "finishing" => outcome[w] # "none"

\* The inductive invariant: every checkpoint a worker knows is the one its record names,
\* and a worker between admission and the end of its turn holds that checkpoint's lock.
IInv ==
    /\ TypeOK
    /\ \A w \in Workers : job[w] # None => job[w] = record.native
    /\ \A w \in Workers :
           worker[w] \in Holding => job[w] \in Workers /\ lock[job[w]] = w
    /\ executed \subseteq {record.native}

\* Whatever attempts were started, however late or forgotten, no two of them are between
\* admission and the end of their turn at once (handoff::Lease over attach_native_task).
OneExecutor == \A v, w \in Workers : worker[v] \in Holding /\ worker[w] \in Holding => v = w

\* Every tool effect ever made for the task was made under the one checkpoint its record
\* names: no attempt restarted the objective from scratch (attach_native_task).
OneCheckpoint == executed \subseteq {record.native}

\* A result revision names one settled outcome for ever, so a reviewer who approved a
\* revision approved that outcome (advance_result_revision, whichever client saved).
RevisionNamesOutcome ==
    Settled(record.state) => named = [rev |-> record.rev, as |-> Result(record)]

\* Once changes were applied, wholly, partly or uncertainly, the task never runs again
\* (ensure_no_partial_apply, read again under the record lock).
AppliedNeverRuns == partial => record.state \notin Active

\* A final outcome is only replaced by a user's command: no late worker, parent update or
\* reconciliation of a stale snapshot overwrites it (finish_record, reconcile, cancel).
UserCommand == (\E c \in Clients : Claim(c)) \/ Rework \/ Discard \/ Apply
OutcomeStands ==
    [][record.state \in Final /\ Result(record') # Result(record) => UserCommand]_vars

\* If turns are bounded, a task that is starting or running settles, although clients and
\* workers may die at any step: somebody finishes it or a poll interrupts it (reconcile).
Settles == BoundedTurns => (record.state \in Active ~> record.state \notin Active)

\* After a cancellation no worker, recorded or not, goes on executing, even one whose
\* turn would never end by itself (attach_native_task before each effect).
CancelledStops ==
    record.state = "Cancelled"
        ~> record.state # "Cancelled" \/ \A w \in Workers : worker[w] \notin Holding
=============================================================================
