---------------------------- MODULE WorkflowRun ----------------------------
(***************************************************************************)
(* One workflow run (src/background/scheduler.rs, workflows.rs): a graph   *)
(* of stages, each a background task with its own worktree, the run's      *)
(* journal, the detached scheduler that captures results and releases      *)
(* stages, the wake-ups that start a scheduler, and the users who resume,  *)
(* rework, claim, discard, apply or cancel stages meanwhile.               *)
(*                                                                         *)
(* The scheduler is one process at a time, elected by scheduler.lock; its  *)
(* tick is split where it reads or writes a file someone else changes.     *)
(* pc names its next step and "off" means that nobody holds the lock.      *)
(*                                                                         *)
(* Abstracted: a result is named by its revision and a Git commit by what  *)
(* it is made of and the second it is made in; a flawed result is one that *)
(* cannot be captured (checks, size, paths), every time that it is tried.  *)
(* Which process executes a stage is TaskLifecycle's matter: here a stage  *)
(* has at most one worker.                                                 *)
(***************************************************************************)
EXTENDS Naturals, FiniteSets

CONSTANTS
    N,              \* stages are numbered in the order of run.stages
    DependsOn,      \* the stages each stage depends on
    MaxParallel,    \* max_parallel of the template
    Seconds,        \* the clock readings a commit may carry
    NoCommit,       \* no snapshot, no worktree
    Outcomes,       \* the outcomes a worker may publish
    MaxEdits,       \* bound on what users do
    MaxFaults,      \* bound on deaths and failures
    MaxSpawned      \* bound on schedulers started and not yet at the lock

Stages == 1..N

ASSUME GraphTyped ==
    /\ N \in Nat \ {0}
    /\ DependsOn \in [Stages -> SUBSET Stages]
    /\ \A s \in Stages : \A d \in DependsOn[s] : d < s
ASSUME LimitsTyped ==
    /\ MaxParallel \in Nat \ {0} /\ Seconds # {}
    /\ Outcomes \subseteq {"Completed", "Waiting", "Interrupted", "Failed", "Cancelled"}
    /\ MaxEdits \in Nat /\ MaxFaults \in Nat /\ MaxSpawned \in Nat \ {0}

VARIABLES
    state,      \* state of each stage's record
    revision,   \* its result_revision
    frozen,     \* stages marked workflow_frozen
    partial,    \* stages with applied or uncertain hunks in their ledger
    saved,      \* stages with a native checkpoint
    flawed,     \* stages whose latest result cannot be captured
    worker,     \* "none", "due" once a resume has claimed the stage, or "live"
    tree,       \* what the stage's worktree was made from
    runState,   \* state of the run's journal
    head,       \* the snapshot of each stage in the journal
    spawned,    \* scheduler processes that have not tried the lock
    wakers,     \* stages whose worker or client has yet to call ensure_running
    pc,         \* the scheduler's next step
    at,         \* the stage it is at
    seen,       \* the records it has read in this tick
    kept,       \* its copy of the snapshots
    active,     \* the slots it counts as taken
    stopping,   \* stages cancel_run has yet to cancel
    edits,      \* what users have done so far
    faults      \* deaths and failures so far

recordVars == <<state, revision>>
stageVars == <<frozen, partial, saved, flawed, tree>>
runVars == <<runState, head>>
wakeVars == <<spawned, wakers>>
tickVars == <<at, seen, kept, active>>
userVars == <<stopping, edits>>
vars == <<recordVars, stageVars, worker, runVars, wakeVars, pc, tickVars, userVars, faults>>

Working == {"Starting", "Running"}
Holding == Working \cup {"Waiting"}
Done == {"Completed", "Applied"}
Broken == {"Failed", "Cancelled", "Interrupted", "Discarded"}
Resumable == {"Waiting", "Interrupted", "Failed", "Cancelled"}
States == {"Blocked"} \cup Holding \cup Done \cup Broken

Heads == [rev : Nat, second : Seconds]
Pcs == {"off", "top", "observe", "capture", "snapshot", "unfreeze", "release",
        "prepare", "claim", "launch", "refused", "reread", "publish", "leave"}

Unread == [s \in Stages |-> [state |-> "Blocked", rev |-> 0]]

Init ==
    /\ state = [s \in Stages |-> "Blocked"]
    /\ revision = [s \in Stages |-> 0]
    /\ frozen = {}
    /\ partial = {}
    /\ saved = {}
    /\ flawed = {}
    /\ worker = [s \in Stages |-> "none"]
    /\ tree = [s \in Stages |-> NoCommit]
    /\ runState = "Running"
    /\ head = [s \in Stages |-> NoCommit]
    /\ spawned = 1
    /\ wakers = {}
    /\ pc = "off"
    /\ at = 1
    /\ seen = Unread
    /\ kept = [s \in Stages |-> NoCommit]
    /\ active = 0
    /\ stopping = {}
    /\ edits = 0
    /\ faults = 0

---------------------------------------------------------------------------
(* Records and slots.                                                      *)

\* save: a result that settles differently takes the next revision.
Put(s, to) ==
    /\ state' = [state EXCEPT ![s] = to]
    /\ revision' = [revision EXCEPT ![s] =
                      IF to \notin Holding \cup {"Blocked", state[s]} THEN @ + 1 ELSE @]

\* A faulty admission that forgets that paused work keeps its slot.
FreeOfWorkers(s) ==
    /\ runState # "Cancelled"
    /\ Cardinality({t \in Stages \ {s} : state[t] = "Running"}) < MaxParallel

\* claim_slot, under the run's lock: not cancelled, and a slot left by the other stages.
Free(s) ==
    /\ runState # "Cancelled"
    /\ Cardinality({t \in Stages \ {s} : state[t] \in Holding}) < MaxParallel

Faulty == faults < MaxFaults /\ faults' = faults + 1

\* The stages of a set are taken in the order of the graph.
First(s, S) == s \in S /\ \A t \in S : s <= t

Goto(step, s) == pc' = step /\ at' = s

\* What a tick knows goes with it.
Forget ==
    /\ at' = 1
    /\ seen' = Unread
    /\ kept' = [s \in Stages |-> NoCommit]
    /\ active' = 0

\* Someone has claimed the stage and is about to record its worker.
Claimed(s) == state[s] = "Starting" /\ (worker[s] = "due" \/ (pc = "launch" /\ at = s))

\* The record as this step leaves it.
Fresh(s) == [state |-> state'[s], rev |-> revision'[s]]

\* reconcile: a starting or running task without a live process.
Lost(s) == state[s] \in Working /\ worker[s] # "live" /\ ~Claimed(s)

\* Whether a question is pending decides between Waiting and Interrupted.
Reconciles(s) ==
    \/ Put(s, "Interrupted")
    \/ s \in saved /\ Put(s, "Waiting")

---------------------------------------------------------------------------
(* Starting a scheduler.                                                   *)

\* ensure_running: nothing for a cancelled run or while the lock is taken.  The probe
\* holds the lock until just before it spawns.
EnsureRunning ==
    IF runState = "Cancelled" \/ pc # "off"
    THEN UNCHANGED spawned
    ELSE spawned < MaxSpawned /\ spawned' = spawned + 1

\* finish_native, finish_foreground and resume call it after their last update.
Wake(s) ==
    /\ s \in wakers
    /\ wakers' = wakers \ {s}
    /\ EnsureRunning
    /\ UNCHANGED <<recordVars, stageVars, worker, runVars, pc, tickVars, userVars, faults>>

\* A faulty watcher that takes a paused run for one that needs no scheduler.
WatchRunning ==
    /\ runState = "Running"
    /\ pc = "off" /\ spawned < MaxSpawned
    /\ spawned' = spawned + 1
    /\ UNCHANGED <<recordVars, stageVars, worker, runVars, wakers, pc, tickVars, userVars, faults>>

\* wake_pending_workflows: a shell's watcher finds a run without a live scheduler.
Watch ==
    /\ runState \in {"Running", "Waiting"}
    /\ pc = "off" /\ spawned < MaxSpawned
    /\ spawned' = spawned + 1
    /\ UNCHANGED <<recordVars, stageVars, worker, runVars, wakers, pc, tickVars, userVars, faults>>

\* run: the lock arbitrates; the loser exits.
TryLock ==
    /\ spawned > 0
    /\ spawned' = spawned - 1
    /\ pc' = IF pc = "off" THEN "top" ELSE pc
    /\ UNCHANGED <<recordVars, stageVars, worker, runVars, wakers, tickVars, userVars, faults>>

\* The scheduler dies, or a read or write of its tick fails: the lock goes with it.
SchedulerDies ==
    /\ Faulty
    /\ pc # "off"
    /\ pc' = "off"
    /\ Forget
    /\ UNCHANGED <<recordVars, stageVars, worker, runVars, wakeVars, userVars>>

---------------------------------------------------------------------------
(* One tick.                                                               *)

\* The loop reloads the run; a cancellation ends it.
Reload ==
    /\ pc = "top"
    /\ IF runState = "Cancelled"
       THEN pc' = "leave" /\ UNCHANGED <<at, kept>>
       ELSE Goto("observe", 1) /\ kept' = head
    /\ UNCHANGED <<recordVars, stageVars, worker, runVars, wakeVars, seen, active,
                   userVars, faults>>

\* A snapshot stands while its stage is Completed at that revision, or Applied.
Standing(s, read) ==
    \/ read.state = "Applied"
    \/ /\ read.state = "Completed"
       /\ kept[s] # NoCommit => kept[s].rev = read.rev

\* Load and reconcile the next record; after the last, drop the snapshots of results gone.
Observe ==
    /\ pc = "observe"
    /\ \/ Lost(at) /\ Reconciles(at)
       \/ /\ Lost(at) => state[at] = "Starting"    \* its 5 s have not passed
          /\ UNCHANGED recordVars
    /\ seen' = [seen EXCEPT ![at] = Fresh(at)]
    /\ IF at < N
       THEN Goto("observe", at + 1) /\ UNCHANGED kept
       ELSE /\ Goto("capture", 1)
            /\ kept' = [s \in Stages |-> IF Standing(s, seen'[s]) THEN kept[s] ELSE NoCommit]
    /\ UNCHANGED <<stageVars, worker, runVars, wakeVars, active, userVars, faults>>

\* Completed results, from here on, that have no snapshot.
Wanted == {s \in at..N : seen[s].state \in Done /\ kept[s] = NoCommit}

\* A faulty freeze that trusts the record read at the start of the tick.
FreezableSeen(s) == TRUE

\* The fresh record must still hold the result that was read.
Freezable(s) == state[s] \in Done /\ revision[s] = seen[s].rev

\* Freeze the next result; with none left, count the slots taken.
Capture ==
    /\ pc = "capture"
    /\ \/ /\ Wanted = {}
          /\ Goto("release", 1)
          /\ active' = Cardinality({s \in Stages : seen[s].state \in Holding})
          /\ UNCHANGED frozen
       \/ /\ \E s \in Stages :
                /\ First(s, Wanted)
                /\ IF Freezable(s)
                   THEN Goto("snapshot", s) /\ frozen' = frozen \cup {s}
                   ELSE Goto("unfreeze", s) /\ UNCHANGED frozen
          /\ UNCHANGED active
    /\ UNCHANGED <<recordVars, partial, saved, flawed, tree, worker, runVars, wakeVars,
                   seen, kept, userVars, faults>>

\* Commit the worktree as it is now.
Snapshot ==
    /\ pc = "snapshot"
    /\ IF state[at] # "Discarded" /\ at \notin flawed
       THEN /\ \E t \in Seconds : kept' = [kept EXCEPT ![at] = [rev |-> seen[at].rev, second |-> t]]
            /\ Goto("capture", at + 1)
       ELSE Goto("unfreeze", at) /\ UNCHANGED kept
    /\ UNCHANGED <<recordVars, stageVars, worker, runVars, wakeVars, seen, active,
                   userVars, faults>>

\* A result that cannot be captured is handed back as a failure.
Unfreeze ==
    /\ pc = "unfreeze"
    /\ frozen' = frozen \ {at}
    /\ IF state[at] = "Completed" THEN Put(at, "Failed") ELSE UNCHANGED recordVars
    /\ seen' = [seen EXCEPT ![at] = Fresh(at)]
    /\ Goto("capture", at + 1)
    /\ UNCHANGED <<partial, saved, flawed, tree, worker, runVars, wakeVars, kept, active,
                   userVars, faults>>

Available(d) == seen[d].state \in Done /\ kept[d] # NoCommit

\* Blocked stages, from here on, whose dependencies all have a snapshot.
Ready == {s \in at..N : seen[s].state = "Blocked" /\ \A d \in DependsOn[s] : Available(d)}

\* The next stage to start, if a slot is left, and unless the run was cancelled meanwhile.
Release ==
    /\ pc = "release"
    /\ \/ /\ active >= MaxParallel \/ Ready = {}
          /\ Goto("reread", 1)
          /\ UNCHANGED <<seen, kept, active>>
       \/ /\ active < MaxParallel /\ Ready # {}
          /\ IF runState = "Cancelled"
             THEN pc' = "top" /\ Forget
             ELSE /\ \E s \in Stages : First(s, Ready) /\ Goto("prepare", s)
                  /\ UNCHANGED <<seen, kept, active>>
    /\ UNCHANGED <<recordVars, stageVars, worker, runVars, wakeVars, userVars, faults>>

\* The commit a stage starts from: merging two or more snapshots makes a new one.
Base(s, t) == [from |-> [d \in DependsOn[s] |-> kept[d]], second |-> t]

Merges(s) == Cardinality(DependsOn[s]) > 1

Epoch == CHOOSE t \in Seconds : TRUE

\* Make the worktree, or find one that must already be at that commit.
Prepare ==
    /\ pc = "prepare"
    /\ \/ \E t \in IF Merges(at) THEN Seconds ELSE {Epoch} :
            /\ tree' = [tree EXCEPT ![at] = IF @ = NoCommit THEN Base(at, t) ELSE @]
            /\ Goto(IF tree'[at] = Base(at, t) THEN "claim" ELSE "refused", at)
            /\ UNCHANGED faults
       \/ /\ Faulty      \* a merge conflict, or git fails
          /\ Goto("refused", at)
          /\ UNCHANGED tree
    /\ UNCHANGED <<recordVars, frozen, partial, saved, flawed, worker, runVars, wakeVars,
                   seen, kept, active, userVars>>

\* A faulty claim that relies on the look at the journal before the worktree was made.
ClaimsLoosely(s) ==
    /\ state[s] = "Blocked"
    /\ Cardinality({t \in Stages \ {s} : state[t] \in Holding}) < MaxParallel

\* claim_slot with the scheduler's own condition.
Claims(s) == Free(s) /\ state[s] = "Blocked"

ClaimStage ==
    /\ pc = "claim"
    /\ IF Claims(at)
       THEN Put(at, "Starting") /\ Goto("launch", at)
       ELSE UNCHANGED recordVars /\ Goto("refused", at)
    /\ UNCHANGED <<stageVars, worker, runVars, wakeVars, seen, kept, active, userVars, faults>>

\* launch_stage: only a fresh claimed task gets a worker.
Launch ==
    /\ pc = "launch"
    /\ \/ /\ state[at] = "Starting" /\ at \notin saved
          /\ Put(at, "Running")
          /\ worker' = [worker EXCEPT ![at] = "live"]
          /\ active' = active + 1
          /\ Goto("release", at + 1)
          /\ UNCHANGED faults
       \/ /\ IF state[at] = "Starting" /\ at \notin saved THEN Faulty ELSE UNCHANGED faults
          /\ Goto("refused", at)
          /\ UNCHANGED <<recordVars, worker, active>>
    /\ UNCHANGED <<stageVars, runVars, wakeVars, seen, kept, userVars>>

\* A stage that could not be prepared, claimed or launched stays queued.
PutBack ==
    /\ pc = "refused"
    /\ IF state[at] \in {"Blocked", "Starting"} THEN Put(at, "Blocked") ELSE UNCHANGED recordVars
    /\ Goto("release", at + 1)
    /\ UNCHANGED <<stageVars, worker, runVars, wakeVars, seen, kept, active, userVars, faults>>

\* Read the states once more, for the journal.
Reread ==
    /\ pc = "reread"
    /\ UNCHANGED recordVars
    /\ seen' = [seen EXCEPT ![at] = Fresh(at)]
    /\ IF at < N THEN Goto("reread", at + 1) ELSE Goto("publish", 1)
    /\ UNCHANGED <<stageVars, worker, runVars, wakeVars, kept, active, userVars, faults>>

Verdict ==
    IF \A s \in Stages : kept[s] # NoCommit THEN "Completed"
    ELSE IF \E s \in Stages : \/ seen[s].state \in Working
                              \/ seen[s].state = "Completed" /\ kept[s] = NoCommit
    THEN "Running"
    ELSE IF \E s \in Stages : seen[s].state = "Waiting" THEN "Waiting"
    ELSE "Blocked"

\* The journal takes the verdict unless it was cancelled; the loop follows the verdict.
Publish ==
    /\ pc = "publish"
    /\ IF runState = "Cancelled"
       THEN UNCHANGED runVars
       ELSE runState' = Verdict /\ head' = kept
    /\ pc' = IF Verdict \in {"Running", "Waiting"} THEN "top" ELSE "leave"
    /\ Forget
    /\ UNCHANGED <<recordVars, stageVars, worker, wakeVars, userVars, faults>>

\* Clear the recorded pid and exit; the lock is held until then.
Leave ==
    /\ pc = "leave"
    /\ pc' = "off"
    /\ UNCHANGED <<recordVars, stageVars, worker, runVars, wakeVars, tickVars, userVars, faults>>

Tick ==
    \/ Reload \/ Observe \/ Capture \/ Snapshot \/ Unfreeze \/ Release \/ Prepare
    \/ ClaimStage \/ Launch \/ PutBack \/ Reread \/ Publish \/ Leave

---------------------------------------------------------------------------
(* Workers.                                                                *)

\* attach_native_task
Attach(s) ==
    /\ worker[s] = "live" /\ s \notin saved /\ state[s] = "Running"
    /\ saved' = saved \cup {s}
    /\ UNCHANGED <<recordVars, frozen, partial, flawed, tree, worker, runVars, wakeVars, pc,
                   tickVars, userVars, faults>>

\* finish_record: cancellation, review and earlier results win over a late callback.
Finishes(s, to) ==
    IF state[s] \in Working \cup {"Interrupted"} THEN Put(s, to) ELSE UNCHANGED recordVars

Completes(s) == state[s] # "Completed" /\ state'[s] = "Completed"

\* finish_native and finish_foreground: publish the outcome, then wake the scheduler.
Finish(s) ==
    /\ worker[s] = "live" /\ s \in saved
    /\ \E to \in Outcomes : Finishes(s, to)
    /\ \/ flawed' = flawed \ {s} /\ UNCHANGED faults
       \/ Completes(s) /\ flawed' = flawed \cup {s} /\ Faulty
    /\ worker' = [worker EXCEPT ![s] = "none"]
    /\ wakers' = wakers \cup {s}
    /\ UNCHANGED <<frozen, partial, saved, tree, runVars, spawned, pc, tickVars, userVars>>

\* finish, for a worker that failed outside its native turn: nobody is woken.
FinishError(s) ==
    /\ Faulty
    /\ worker[s] = "live"
    /\ Finishes(s, "Failed")
    /\ worker' = [worker EXCEPT ![s] = "none"]
    /\ UNCHANGED <<stageVars, runVars, wakeVars, pc, tickVars, userVars>>

\* Killed, by SIGTERM or a crash.
WorkerDies(s) ==
    /\ IF state[s] = "Cancelled" THEN UNCHANGED faults ELSE Faulty
    /\ worker[s] = "live"
    /\ worker' = [worker EXCEPT ![s] = "none"]
    /\ UNCHANGED <<recordVars, stageVars, runVars, wakeVars, pc, tickVars, userVars>>

---------------------------------------------------------------------------
(* Users.                                                                  *)

Edit == edits < MaxEdits /\ edits' = edits + 1

Resumes(s) == state[s] \in Resumable /\ s \notin partial \cup frozen

\* Every client that looks at a task reconciles it first.
Reconcile(s) ==
    /\ Lost(s)
    /\ Reconciles(s)
    /\ UNCHANGED <<stageVars, worker, runVars, wakeVars, pc, tickVars, userVars, faults>>

\* A claim whose worker is not recorded within 5 s counts as lost.
ClaimStalls(s) ==
    /\ Faulty
    /\ Claimed(s)
    /\ Reconciles(s)
    /\ UNCHANGED <<stageVars, worker, runVars, wakeVars, pc, tickVars, userVars>>

\* resume: snapshot, claim_slot and the fresh record's own conditions.
Resume(s) ==
    /\ Edit
    /\ worker[s] = "none" /\ s \in saved
    /\ Resumes(s) /\ Free(s)
    /\ Put(s, "Starting")
    /\ worker' = [worker EXCEPT ![s] = "due"]
    /\ UNCHANGED <<stageVars, runVars, wakeVars, pc, tickVars, stopping, faults>>

\* Spawn the worker, record it unless the stage has left Starting, wake the scheduler.
Spawn(s) ==
    /\ worker[s] = "due"
    /\ worker' = [worker EXCEPT ![s] = "live"]
    /\ IF state[s] = "Starting" THEN Put(s, "Running") ELSE UNCHANGED recordVars
    /\ wakers' = wakers \cup {s}
    /\ UNCHANGED <<stageVars, runVars, spawned, pc, tickVars, userVars, faults>>

\* The resuming process dies before it spawns.
ResumeDies(s) ==
    /\ Faulty
    /\ worker[s] = "due"
    /\ worker' = [worker EXCEPT ![s] = "none"]
    /\ UNCHANGED <<recordVars, stageVars, runVars, wakeVars, pc, tickVars, userVars>>

\* claim_foreground: a parked stage continues in a terminal.
ClaimForeground(s) ==
    /\ Edit
    /\ worker[s] = "none" /\ s \in saved
    /\ state[s] \in {"Waiting", "Interrupted", "Failed"}
    /\ Free(s)
    /\ Put(s, "Running")
    /\ worker' = [worker EXCEPT ![s] = "live"]
    /\ UNCHANGED <<stageVars, runVars, wakeVars, pc, tickVars, stopping, faults>>

\* rework up to its resume, which is Resume.
Rework(s) ==
    /\ Edit
    /\ s \in saved \ (partial \cup frozen)
    /\ state[s] \notin Holding \cup {"Applied", "Discarded"}
    /\ state' = [state EXCEPT ![s] = "Interrupted"]
    /\ revision' = [revision EXCEPT ![s] = @ + 1]
    /\ UNCHANGED <<stageVars, worker, runVars, wakeVars, pc, tickVars, stopping, faults>>

\* discard removes the worktree of a stage that is not at work.
Discard(s) ==
    /\ Edit
    /\ tree[s] # NoCommit
    /\ state[s] \notin Holding \cup {"Discarded"}
    /\ Put(s, "Discarded")
    /\ UNCHANGED <<stageVars, worker, runVars, wakeVars, pc, tickVars, stopping, faults>>

\* apply: all hunks, some of them, or an application that is left uncertain.
Apply(s) ==
    /\ Edit
    /\ state[s] \in {"Completed", "Failed", "Interrupted"}
    /\ tree[s] # NoCommit
    /\ \/ Put(s, "Applied")
       \/ UNCHANGED recordVars
       \/ Put(s, "Failed")
    /\ partial' = partial \cup {s}
    /\ UNCHANGED <<frozen, saved, flawed, tree, worker, runVars, wakeVars, pc, tickVars,
                   stopping, faults>>

\* cancel: reconcile, then stop what is queued, at work or paused.  A live worker is
\* signalled and may still be stopping.
Cancels(s) ==
    \/ /\ state[s] \in Holding \cup {"Blocked"}
       /\ Lost(s) => state[s] = "Starting" \/ s \in saved
       /\ Put(s, "Cancelled")
    \/ Lost(s) /\ Put(s, "Interrupted")
    \/ state[s] \notin Holding \cup {"Blocked"} /\ UNCHANGED recordVars

CancelStage(s) ==
    /\ Edit
    /\ state[s] \in Holding \cup {"Blocked"}
    /\ Cancels(s)
    /\ UNCHANGED <<stageVars, worker, runVars, wakeVars, pc, tickVars, stopping, faults>>

\* cancel_run: the journal first, then every stage.
CancelRun ==
    /\ Edit
    /\ runState # "Cancelled"
    /\ runState' = "Cancelled"
    /\ stopping' = Stages
    /\ UNCHANGED <<recordVars, stageVars, worker, head, wakeVars, pc, tickVars, faults>>

CancelNext ==
    /\ \E s \in Stages : First(s, stopping) /\ Cancels(s) /\ stopping' = stopping \ {s}
    /\ UNCHANGED <<stageVars, worker, runVars, wakeVars, pc, tickVars, edits, faults>>

\* The process dies, or one stage cannot be signalled: the rest are not cancelled.
CancelStops ==
    /\ Faulty
    /\ stopping # {}
    /\ stopping' = {}
    /\ UNCHANGED <<recordVars, stageVars, worker, runVars, wakeVars, pc, tickVars, edits>>

\* resume_run
ResumeRun ==
    /\ Edit
    /\ runState # "Cancelled"
    /\ EnsureRunning
    /\ UNCHANGED <<recordVars, stageVars, worker, runVars, wakers, pc, tickVars, stopping, faults>>

---------------------------------------------------------------------------
Start == Watch \/ TryLock \/ \E s \in Stages : Wake(s)

Work(s) == Attach(s) \/ Finish(s) \/ Spawn(s)

User ==
    \/ \E s \in Stages : \/ Resume(s) \/ ClaimForeground(s) \/ Rework(s) \/ Discard(s)
                         \/ Apply(s) \/ CancelStage(s) \/ Reconcile(s)
    \/ CancelRun \/ CancelNext \/ ResumeRun

Fault ==
    \/ SchedulerDies \/ CancelStops
    \/ \E s \in Stages : FinishError(s) \/ WorkerDies(s) \/ ResumeDies(s) \/ ClaimStalls(s)

Next == Tick \/ Start \/ (\E s \in Stages : Work(s)) \/ User \/ Fault

\* The scheduler and the processes it waits for keep going; a shell's watcher looks at
\* least once a minute while a shell is open.  Users and faults owe nothing.
Fairness ==
    /\ WF_vars(Tick) /\ WF_vars(Watch) /\ WF_vars(TryLock) /\ WF_vars(CancelNext)
    /\ \A s \in Stages : WF_vars(Wake(s)) /\ WF_vars(Work(s))

Spec == Init /\ [][Next]_vars /\ Fairness

---------------------------------------------------------------------------
(* Properties.                                                             *)

TypeOK ==
    /\ state \in [Stages -> States]
    /\ revision \in [Stages -> Nat]
    /\ frozen \subseteq Stages /\ flawed \subseteq Stages
    /\ partial \subseteq Stages /\ saved \subseteq Stages
    /\ worker \in [Stages -> {"none", "due", "live"}]
    /\ DOMAIN tree = Stages
    /\ \A s \in Stages :
          tree[s] = NoCommit \/ tree[s] \in [from : [DependsOn[s] -> Heads], second : Seconds]
    /\ runState \in {"Running", "Waiting", "Blocked", "Completed", "Cancelled"}
    /\ head \in [Stages -> Heads \cup {NoCommit}]
    /\ spawned \in 0..MaxSpawned
    /\ wakers \subseteq Stages
    /\ pc \in Pcs
    /\ at \in 1..N + 1
    /\ seen \in [Stages -> [state : States, rev : Nat]]
    /\ kept \in [Stages -> Heads \cup {NoCommit}]
    /\ active \in Nat
    /\ stopping \subseteq Stages
    /\ edits \in 0..MaxEdits /\ faults \in 0..MaxFaults

\* The scheduler is at a stage whenever its step needs one, and starts none whose
\* dependencies it has no snapshot of.
PlaceOK ==
    /\ pc \in {"observe", "snapshot", "unfreeze", "prepare", "claim", "launch", "refused",
              "reread"} => at \in Stages
    /\ pc = "prepare" => \A d \in DependsOn[at] : Available(d)

\* Beyond the reach of anything that would run the stage again.
Settled(d) == state[d] \in {"Applied", "Discarded"} \/ d \in partial

\* The result captured at a revision stands, and would be captured again.
Stands(d, rev) ==
    /\ rev <= revision[d]
    /\ Settled(d) \/ (state[d] = "Completed" /\ revision[d] = rev /\ d \in frozen \ flawed)

\* Every snapshot in the journal, in the scheduler's copy and under a worktree stands.
HeadsOK == \A d \in Stages : head[d] # NoCommit => Stands(d, head[d].rev)
KeptOK == \A d \in Stages : kept[d] # NoCommit => Stands(d, kept[d].rev)
TreesOK ==
    \A s \in Stages : tree[s] # NoCommit =>
        \A d \in DependsOn[s] : Stands(d, tree[s].from[d].rev)

\* What a tick has read is not newer than the record, and no older than what was taken
\* from the stage before this tick.
SeenOK == \A d \in Stages : seen[d].rev <= revision[d]
ReadOK ==
    \A d \in Stages :
        \/ pc \in {"capture", "snapshot", "unfreeze"}
        \/ pc = "observe" /\ d < at
      => /\ head[d] # NoCommit => head[d].rev <= seen[d].rev
         /\ \A s \in Stages : d \in DependsOn[s] /\ tree[s] # NoCommit
                                => tree[s].from[d].rev <= seen[d].rev

\* While a result is captured it is the one that was read, and cannot run again.
SnapshotOK ==
    pc = "snapshot" =>
        /\ at \in frozen
        /\ Settled(at) \/ (state[at] = "Completed" /\ revision[at] = seen[at].rev)

\* A stage is handed back only if nothing was started from it, or nothing can run it.
Unhanded(d) ==
    /\ head[d] = NoCommit /\ kept[d] = NoCommit
    /\ \A s \in Stages : d \in DependsOn[s] => tree[s] = NoCommit

UnfreezeOK == pc = "unfreeze" => Settled(at) \/ Unhanded(at)

\* The scheduler, resumes and foreground claims admit stages concurrently, yet never more
\* than max_parallel of them are starting or running.
SlotsKept == Cardinality({s \in Stages : state[s] \in Working}) <= MaxParallel

\* What a stage was started from stands: each dependency is still the result that was
\* captured, or was applied or discarded, or its application is uncertain.
DependenciesStand ==
    \A s \in Stages : tree[s] # NoCommit =>
        \A d \in DependsOn[s] :
            \/ state[d] = "Completed" /\ revision[d] = tree[s].from[d].rev
            \/ state[d] \in {"Applied", "Discarded"}
            \/ d \in partial

\* The inductive invariant.
IInv ==
    /\ TypeOK /\ PlaceOK /\ SlotsKept
    /\ HeadsOK /\ KeptOK /\ TreesOK
    /\ SeenOK /\ ReadOK /\ SnapshotOK /\ UnfreezeOK

\* Once the journal says Cancelled, no stage starts: not by the scheduler's release that
\* was under way, not by a resume or a foreground claim.
CancelledStartsNothing ==
    [][runState = "Cancelled" =>
         \A s \in Stages : state'[s] \in Working => state[s] \in Working]_vars

\* A run recorded as active with nothing at work is looked at again, whoever died: its
\* journal changes, or a stage starts.
StatusSettles ==
    (runState \in {"Running", "Waiting"} /\ \A s \in Stages : state[s] \notin Holding)
      ~> \/ runState \notin {"Running", "Waiting"}
         \/ \E s \in Stages : state[s] \in Holding

============================================================================
