------------------------- MODULE WorkflowRunProofs -------------------------
(***************************************************************************)
(* Proofs about WorkflowRun: its inductive invariant, that slots are       *)
(* bounded, that a result handed forward stands under the stages that      *)
(* build on it, and that a cancelled run starts nothing.  Each variable    *)
(* has few writers, which the frame lemmas name: a lemma about a variable  *)
(* then has one leaf per writer and not one per action.                    *)
(***************************************************************************)
EXTENDS WorkflowRun, TLAPS, FiniteSetTheorems

---------------------------------------------------------------------------
(* What writes what.                                                       *)

\* What writes the state and the revision of a stage.
LEMMA RecordFrame ==
  [Next]_vars => \/ UNCHANGED recordVars
                 \/ Observe
                 \/ Unfreeze
                 \/ ClaimStage
                 \/ Launch
                 \/ PutBack
                 \/ (\E s \in Stages : Finish(s))
                 \/ (\E s \in Stages : Spawn(s))
                 \/ (\E s \in Stages : Resume(s))
                 \/ (\E s \in Stages : ClaimForeground(s))
                 \/ (\E s \in Stages : Rework(s))
                 \/ (\E s \in Stages : Discard(s))
                 \/ (\E s \in Stages : Apply(s))
                 \/ (\E s \in Stages : CancelStage(s))
                 \/ (\E s \in Stages : Reconcile(s))
                 \/ CancelNext
                 \/ (\E s \in Stages : FinishError(s))
                 \/ (\E s \in Stages : ClaimStalls(s))
<1> USE DEF vars, recordVars, stageVars, runVars, wakeVars, tickVars,
            userVars, Goto, Forget, Faulty, Edit, EnsureRunning, Put,
            Reconciles, Finishes, Cancels
<1>1. CASE Tick
  BY <1>1 DEF Tick, Reload, Capture, Snapshot, Release, Prepare, Reread,
         Publish, Leave
<1>2. CASE Start
  BY <1>2 DEF Start, Watch, TryLock, Wake
<1>3. CASE \E s \in Stages : Work(s)
  BY <1>3 DEF Work, Attach
<1>4. CASE User
  BY <1>4 DEF User, CancelRun, ResumeRun
<1>5. CASE Fault
  BY <1>5 DEF Fault, SchedulerDies, CancelStops, WorkerDies, ResumeDies
<1>6. CASE UNCHANGED vars
  BY <1>6
<1> QED
  BY <1>1, <1>2, <1>3, <1>4, <1>5, <1>6 DEF Next

\* What writes the mark of work handed forward.
LEMMA FrozenFrame ==
  [Next]_vars => \/ UNCHANGED frozen
                 \/ Capture
                 \/ Unfreeze
<1> USE DEF vars, recordVars, stageVars, runVars, wakeVars, tickVars,
            userVars, Goto, Forget, Faulty, Edit, EnsureRunning, Put,
            Reconciles, Finishes, Cancels
<1>1. CASE Tick
  BY <1>1 DEF Tick, Reload, Observe, Snapshot, Release, Prepare, ClaimStage,
         Launch, PutBack, Reread, Publish, Leave
<1>2. CASE Start
  BY <1>2 DEF Start, Watch, TryLock, Wake
<1>3. CASE \E s \in Stages : Work(s)
  BY <1>3 DEF Work, Attach, Finish, Spawn
<1>4. CASE User
  BY <1>4 DEF User, Resume, ClaimForeground, Rework, Discard, Apply,
         CancelStage, Reconcile, CancelRun, CancelNext, ResumeRun
<1>5. CASE Fault
  BY <1>5 DEF Fault, SchedulerDies, CancelStops, FinishError, WorkerDies,
         ResumeDies, ClaimStalls
<1>6. CASE UNCHANGED vars
  BY <1>6
<1> QED
  BY <1>1, <1>2, <1>3, <1>4, <1>5, <1>6 DEF Next

\* What writes the apply ledgers.
LEMMA LedgerFrame ==
  [Next]_vars => \/ UNCHANGED partial
                 \/ (\E s \in Stages : Apply(s))
<1> USE DEF vars, recordVars, stageVars, runVars, wakeVars, tickVars,
            userVars, Goto, Forget, Faulty, Edit, EnsureRunning, Put,
            Reconciles, Finishes, Cancels
<1>1. CASE Tick
  BY <1>1 DEF Tick, Reload, Observe, Capture, Snapshot, Unfreeze, Release,
         Prepare, ClaimStage, Launch, PutBack, Reread, Publish, Leave
<1>2. CASE Start
  BY <1>2 DEF Start, Watch, TryLock, Wake
<1>3. CASE \E s \in Stages : Work(s)
  BY <1>3 DEF Work, Attach, Finish, Spawn
<1>4. CASE User
  BY <1>4 DEF User, Resume, ClaimForeground, Rework, Discard, CancelStage,
         Reconcile, CancelRun, CancelNext, ResumeRun
<1>5. CASE Fault
  BY <1>5 DEF Fault, SchedulerDies, CancelStops, FinishError, WorkerDies,
         ResumeDies, ClaimStalls
<1>6. CASE UNCHANGED vars
  BY <1>6
<1> QED
  BY <1>1, <1>2, <1>3, <1>4, <1>5, <1>6 DEF Next

\* What links a checkpoint.
LEMMA SavedFrame ==
  [Next]_vars => \/ UNCHANGED saved
                 \/ (\E s \in Stages : Attach(s))
<1> USE DEF vars, recordVars, stageVars, runVars, wakeVars, tickVars,
            userVars, Goto, Forget, Faulty, Edit, EnsureRunning, Put,
            Reconciles, Finishes, Cancels
<1>1. CASE Tick
  BY <1>1 DEF Tick, Reload, Observe, Capture, Snapshot, Unfreeze, Release,
         Prepare, ClaimStage, Launch, PutBack, Reread, Publish, Leave
<1>2. CASE Start
  BY <1>2 DEF Start, Watch, TryLock, Wake
<1>3. CASE \E s \in Stages : Work(s)
  BY <1>3 DEF Work, Finish, Spawn
<1>4. CASE User
  BY <1>4 DEF User, Resume, ClaimForeground, Rework, Discard, Apply,
         CancelStage, Reconcile, CancelRun, CancelNext, ResumeRun
<1>5. CASE Fault
  BY <1>5 DEF Fault, SchedulerDies, CancelStops, FinishError, WorkerDies,
         ResumeDies, ClaimStalls
<1>6. CASE UNCHANGED vars
  BY <1>6
<1> QED
  BY <1>1, <1>2, <1>3, <1>4, <1>5, <1>6 DEF Next

\* What makes a new result.
LEMMA FlawedFrame ==
  [Next]_vars => \/ UNCHANGED flawed
                 \/ (\E s \in Stages : Finish(s))
<1> USE DEF vars, recordVars, stageVars, runVars, wakeVars, tickVars,
            userVars, Goto, Forget, Faulty, Edit, EnsureRunning, Put,
            Reconciles, Finishes, Cancels
<1>1. CASE Tick
  BY <1>1 DEF Tick, Reload, Observe, Capture, Snapshot, Unfreeze, Release,
         Prepare, ClaimStage, Launch, PutBack, Reread, Publish, Leave
<1>2. CASE Start
  BY <1>2 DEF Start, Watch, TryLock, Wake
<1>3. CASE \E s \in Stages : Work(s)
  BY <1>3 DEF Work, Attach, Spawn
<1>4. CASE User
  BY <1>4 DEF User, Resume, ClaimForeground, Rework, Discard, Apply,
         CancelStage, Reconcile, CancelRun, CancelNext, ResumeRun
<1>5. CASE Fault
  BY <1>5 DEF Fault, SchedulerDies, CancelStops, FinishError, WorkerDies,
         ResumeDies, ClaimStalls
<1>6. CASE UNCHANGED vars
  BY <1>6
<1> QED
  BY <1>1, <1>2, <1>3, <1>4, <1>5, <1>6 DEF Next

\* What makes a worktree.
LEMMA TreeFrame ==
  [Next]_vars => \/ UNCHANGED tree
                 \/ Prepare
<1> USE DEF vars, recordVars, stageVars, runVars, wakeVars, tickVars,
            userVars, Goto, Forget, Faulty, Edit, EnsureRunning, Put,
            Reconciles, Finishes, Cancels
<1>1. CASE Tick
  BY <1>1 DEF Tick, Reload, Observe, Capture, Snapshot, Unfreeze, Release,
         ClaimStage, Launch, PutBack, Reread, Publish, Leave
<1>2. CASE Start
  BY <1>2 DEF Start, Watch, TryLock, Wake
<1>3. CASE \E s \in Stages : Work(s)
  BY <1>3 DEF Work, Attach, Finish, Spawn
<1>4. CASE User
  BY <1>4 DEF User, Resume, ClaimForeground, Rework, Discard, Apply,
         CancelStage, Reconcile, CancelRun, CancelNext, ResumeRun
<1>5. CASE Fault
  BY <1>5 DEF Fault, SchedulerDies, CancelStops, FinishError, WorkerDies,
         ResumeDies, ClaimStalls
<1>6. CASE UNCHANGED vars
  BY <1>6
<1> QED
  BY <1>1, <1>2, <1>3, <1>4, <1>5, <1>6 DEF Next

\* What writes the snapshots of the journal.
LEMMA HeadFrame ==
  [Next]_vars => \/ UNCHANGED head
                 \/ Publish
<1> USE DEF vars, recordVars, stageVars, runVars, wakeVars, tickVars,
            userVars, Goto, Forget, Faulty, Edit, EnsureRunning, Put,
            Reconciles, Finishes, Cancels
<1>1. CASE Tick
  BY <1>1 DEF Tick, Reload, Observe, Capture, Snapshot, Unfreeze, Release,
         Prepare, ClaimStage, Launch, PutBack, Reread, Leave
<1>2. CASE Start
  BY <1>2 DEF Start, Watch, TryLock, Wake
<1>3. CASE \E s \in Stages : Work(s)
  BY <1>3 DEF Work, Attach, Finish, Spawn
<1>4. CASE User
  BY <1>4 DEF User, Resume, ClaimForeground, Rework, Discard, Apply,
         CancelStage, Reconcile, CancelRun, CancelNext, ResumeRun
<1>5. CASE Fault
  BY <1>5 DEF Fault, SchedulerDies, CancelStops, FinishError, WorkerDies,
         ResumeDies, ClaimStalls
<1>6. CASE UNCHANGED vars
  BY <1>6
<1> QED
  BY <1>1, <1>2, <1>3, <1>4, <1>5, <1>6 DEF Next

\* What writes the scheduler's copy of them.
LEMMA KeptFrame ==
  [Next]_vars => \/ UNCHANGED kept
                 \/ Reload
                 \/ Observe
                 \/ Snapshot
                 \/ Release
                 \/ Publish
                 \/ SchedulerDies
<1> USE DEF vars, recordVars, stageVars, runVars, wakeVars, tickVars,
            userVars, Goto, Forget, Faulty, Edit, EnsureRunning, Put,
            Reconciles, Finishes, Cancels
<1>1. CASE Tick
  BY <1>1 DEF Tick, Capture, Unfreeze, Prepare, ClaimStage, Launch, PutBack,
         Reread, Leave
<1>2. CASE Start
  BY <1>2 DEF Start, Watch, TryLock, Wake
<1>3. CASE \E s \in Stages : Work(s)
  BY <1>3 DEF Work, Attach, Finish, Spawn
<1>4. CASE User
  BY <1>4 DEF User, Resume, ClaimForeground, Rework, Discard, Apply,
         CancelStage, Reconcile, CancelRun, CancelNext, ResumeRun
<1>5. CASE Fault
  BY <1>5 DEF Fault, CancelStops, FinishError, WorkerDies, ResumeDies,
         ClaimStalls
<1>6. CASE UNCHANGED vars
  BY <1>6
<1> QED
  BY <1>1, <1>2, <1>3, <1>4, <1>5, <1>6 DEF Next

\* What the scheduler reads.
LEMMA SeenFrame ==
  [Next]_vars => \/ UNCHANGED seen
                 \/ Observe
                 \/ Unfreeze
                 \/ Release
                 \/ Reread
                 \/ Publish
                 \/ SchedulerDies
<1> USE DEF vars, recordVars, stageVars, runVars, wakeVars, tickVars,
            userVars, Goto, Forget, Faulty, Edit, EnsureRunning, Put,
            Reconciles, Finishes, Cancels
<1>1. CASE Tick
  BY <1>1 DEF Tick, Reload, Capture, Snapshot, Prepare, ClaimStage, Launch,
         PutBack, Leave
<1>2. CASE Start
  BY <1>2 DEF Start, Watch, TryLock, Wake
<1>3. CASE \E s \in Stages : Work(s)
  BY <1>3 DEF Work, Attach, Finish, Spawn
<1>4. CASE User
  BY <1>4 DEF User, Resume, ClaimForeground, Rework, Discard, Apply,
         CancelStage, Reconcile, CancelRun, CancelNext, ResumeRun
<1>5. CASE Fault
  BY <1>5 DEF Fault, CancelStops, FinishError, WorkerDies, ResumeDies,
         ClaimStalls
<1>6. CASE UNCHANGED vars
  BY <1>6
<1> QED
  BY <1>1, <1>2, <1>3, <1>4, <1>5, <1>6 DEF Next

\* What moves the scheduler.
LEMMA PlaceFrame ==
  [Next]_vars => \/ UNCHANGED <<pc, at>>
                 \/ TryLock
                 \/ SchedulerDies
                 \/ Reload
                 \/ Observe
                 \/ Capture
                 \/ Snapshot
                 \/ Unfreeze
                 \/ Release
                 \/ Prepare
                 \/ ClaimStage
                 \/ Launch
                 \/ PutBack
                 \/ Reread
                 \/ Publish
                 \/ Leave
<1> USE DEF vars, recordVars, stageVars, runVars, wakeVars, tickVars,
            userVars, Goto, Forget, Faulty, Edit, EnsureRunning, Put,
            Reconciles, Finishes, Cancels
<1>1. CASE Tick
  BY <1>1 DEF Tick
<1>2. CASE Start
  BY <1>2 DEF Start, Watch, Wake
<1>3. CASE \E s \in Stages : Work(s)
  BY <1>3 DEF Work, Attach, Finish, Spawn
<1>4. CASE User
  BY <1>4 DEF User, Resume, ClaimForeground, Rework, Discard, Apply,
         CancelStage, Reconcile, CancelRun, CancelNext, ResumeRun
<1>5. CASE Fault
  BY <1>5 DEF Fault, CancelStops, FinishError, WorkerDies, ResumeDies,
         ClaimStalls
<1>6. CASE UNCHANGED vars
  BY <1>6
<1> QED
  BY <1>1, <1>2, <1>3, <1>4, <1>5, <1>6 DEF Next

\* What asks for a scheduler,
LEMMA WakersFrame ==
  [Next]_vars => \/ UNCHANGED wakers
                 \/ (\E s \in Stages : Wake(s))
                 \/ (\E s \in Stages : Finish(s))
                 \/ (\E s \in Stages : Spawn(s))
<1> USE DEF vars, recordVars, stageVars, runVars, wakeVars, tickVars,
            userVars, Goto, Forget, Faulty, Edit, EnsureRunning, Put,
            Reconciles, Finishes, Cancels
<1>1. CASE Tick
  BY <1>1 DEF Tick, Reload, Observe, Capture, Snapshot, Unfreeze, Release,
         Prepare, ClaimStage, Launch, PutBack, Reread, Publish, Leave
<1>2. CASE Start
  BY <1>2 DEF Start, Watch, TryLock
<1>3. CASE \E s \in Stages : Work(s)
  BY <1>3 DEF Work, Attach
<1>4. CASE User
  BY <1>4 DEF User, Resume, ClaimForeground, Rework, Discard, Apply,
         CancelStage, Reconcile, CancelRun, CancelNext, ResumeRun
<1>5. CASE Fault
  BY <1>5 DEF Fault, SchedulerDies, CancelStops, FinishError, WorkerDies,
         ResumeDies, ClaimStalls
<1>6. CASE UNCHANGED vars
  BY <1>6
<1> QED
  BY <1>1, <1>2, <1>3, <1>4, <1>5, <1>6 DEF Next

\* what a cancellation of the run has left to do,
LEMMA StoppingFrame ==
  [Next]_vars => \/ UNCHANGED stopping
                 \/ CancelRun
                 \/ CancelNext
                 \/ CancelStops
<1> USE DEF vars, recordVars, stageVars, runVars, wakeVars, tickVars,
            userVars, Goto, Forget, Faulty, Edit, EnsureRunning, Put,
            Reconciles, Finishes, Cancels
<1>1. CASE Tick
  BY <1>1 DEF Tick, Reload, Observe, Capture, Snapshot, Unfreeze, Release,
         Prepare, ClaimStage, Launch, PutBack, Reread, Publish, Leave
<1>2. CASE Start
  BY <1>2 DEF Start, Watch, TryLock, Wake
<1>3. CASE \E s \in Stages : Work(s)
  BY <1>3 DEF Work, Attach, Finish, Spawn
<1>4. CASE User
  BY <1>4 DEF User, Resume, ClaimForeground, Rework, Discard, Apply,
         CancelStage, Reconcile, ResumeRun
<1>5. CASE Fault
  BY <1>5 DEF Fault, SchedulerDies, FinishError, WorkerDies, ResumeDies,
         ClaimStalls
<1>6. CASE UNCHANGED vars
  BY <1>6
<1> QED
  BY <1>1, <1>2, <1>3, <1>4, <1>5, <1>6 DEF Next

\* what starts and ends workers,
LEMMA WorkerFrame ==
  [Next]_vars => \/ UNCHANGED worker
                 \/ Launch
                 \/ (\E s \in Stages : Finish(s))
                 \/ (\E s \in Stages : FinishError(s))
                 \/ (\E s \in Stages : WorkerDies(s))
                 \/ (\E s \in Stages : Spawn(s))
                 \/ (\E s \in Stages : Resume(s))
                 \/ (\E s \in Stages : ResumeDies(s))
                 \/ (\E s \in Stages : ClaimForeground(s))
<1> USE DEF vars, recordVars, stageVars, runVars, wakeVars, tickVars,
            userVars, Goto, Forget, Faulty, Edit, EnsureRunning, Put,
            Reconciles, Finishes, Cancels
<1>1. CASE Tick
  BY <1>1 DEF Tick, Reload, Observe, Capture, Snapshot, Unfreeze, Release,
         Prepare, ClaimStage, PutBack, Reread, Publish, Leave
<1>2. CASE Start
  BY <1>2 DEF Start, Watch, TryLock, Wake
<1>3. CASE \E s \in Stages : Work(s)
  BY <1>3 DEF Work, Attach
<1>4. CASE User
  BY <1>4 DEF User, Rework, Discard, Apply, CancelStage, Reconcile, CancelRun,
         CancelNext, ResumeRun
<1>5. CASE Fault
  BY <1>5 DEF Fault, SchedulerDies, CancelStops, ClaimStalls
<1>6. CASE UNCHANGED vars
  BY <1>6
<1> QED
  BY <1>1, <1>2, <1>3, <1>4, <1>5, <1>6 DEF Next

\* what writes the state of the run,
LEMMA RunFrame ==
  [Next]_vars => \/ UNCHANGED runState
                 \/ Publish
                 \/ CancelRun
<1> USE DEF vars, recordVars, stageVars, runVars, wakeVars, tickVars,
            userVars, Goto, Forget, Faulty, Edit, EnsureRunning, Put,
            Reconciles, Finishes, Cancels
<1>1. CASE Tick
  BY <1>1 DEF Tick, Reload, Observe, Capture, Snapshot, Unfreeze, Release,
         Prepare, ClaimStage, Launch, PutBack, Reread, Leave
<1>2. CASE Start
  BY <1>2 DEF Start, Watch, TryLock, Wake
<1>3. CASE \E s \in Stages : Work(s)
  BY <1>3 DEF Work, Attach, Finish, Spawn
<1>4. CASE User
  BY <1>4 DEF User, Resume, ClaimForeground, Rework, Discard, Apply,
         CancelStage, Reconcile, CancelNext, ResumeRun
<1>5. CASE Fault
  BY <1>5 DEF Fault, SchedulerDies, CancelStops, FinishError, WorkerDies,
         ResumeDies, ClaimStalls
<1>6. CASE UNCHANGED vars
  BY <1>6
<1> QED
  BY <1>1, <1>2, <1>3, <1>4, <1>5, <1>6 DEF Next

\* what starts a scheduler,
LEMMA SpawnedFrame ==
  [Next]_vars => \/ UNCHANGED spawned
                 \/ Watch
                 \/ TryLock
                 \/ (\E s \in Stages : Wake(s))
                 \/ ResumeRun
<1> USE DEF vars, recordVars, stageVars, runVars, wakeVars, tickVars,
            userVars, Goto, Forget, Faulty, Edit, EnsureRunning, Put,
            Reconciles, Finishes, Cancels
<1>1. CASE Tick
  BY <1>1 DEF Tick, Reload, Observe, Capture, Snapshot, Unfreeze, Release,
         Prepare, ClaimStage, Launch, PutBack, Reread, Publish, Leave
<1>2. CASE Start
  BY <1>2 DEF Start
<1>3. CASE \E s \in Stages : Work(s)
  BY <1>3 DEF Work, Attach, Finish, Spawn
<1>4. CASE User
  BY <1>4 DEF User, Resume, ClaimForeground, Rework, Discard, Apply,
         CancelStage, Reconcile, CancelRun, CancelNext
<1>5. CASE Fault
  BY <1>5 DEF Fault, SchedulerDies, CancelStops, FinishError, WorkerDies,
         ResumeDies, ClaimStalls
<1>6. CASE UNCHANGED vars
  BY <1>6
<1> QED
  BY <1>1, <1>2, <1>3, <1>4, <1>5, <1>6 DEF Next

\* what counts slots,
LEMMA ActiveFrame ==
  [Next]_vars => \/ UNCHANGED active
                 \/ Capture
                 \/ Release
                 \/ Publish
                 \/ Launch
                 \/ SchedulerDies
<1> USE DEF vars, recordVars, stageVars, runVars, wakeVars, tickVars,
            userVars, Goto, Forget, Faulty, Edit, EnsureRunning, Put,
            Reconciles, Finishes, Cancels
<1>1. CASE Tick
  BY <1>1 DEF Tick, Reload, Observe, Snapshot, Unfreeze, Prepare, ClaimStage,
         PutBack, Reread, Leave
<1>2. CASE Start
  BY <1>2 DEF Start, Watch, TryLock, Wake
<1>3. CASE \E s \in Stages : Work(s)
  BY <1>3 DEF Work, Attach, Finish, Spawn
<1>4. CASE User
  BY <1>4 DEF User, Resume, ClaimForeground, Rework, Discard, Apply,
         CancelStage, Reconcile, CancelRun, CancelNext, ResumeRun
<1>5. CASE Fault
  BY <1>5 DEF Fault, CancelStops, FinishError, WorkerDies, ResumeDies,
         ClaimStalls
<1>6. CASE UNCHANGED vars
  BY <1>6
<1> QED
  BY <1>1, <1>2, <1>3, <1>4, <1>5, <1>6 DEF Next

\* what users are counted for,
LEMMA EditsFrame ==
  [Next]_vars => \/ UNCHANGED edits
                 \/ (\E s \in Stages : Resume(s))
                 \/ (\E s \in Stages : ClaimForeground(s))
                 \/ (\E s \in Stages : Rework(s))
                 \/ (\E s \in Stages : Discard(s))
                 \/ (\E s \in Stages : Apply(s))
                 \/ (\E s \in Stages : CancelStage(s))
                 \/ CancelRun
                 \/ ResumeRun
<1> USE DEF vars, recordVars, stageVars, runVars, wakeVars, tickVars,
            userVars, Goto, Forget, Faulty, Edit, EnsureRunning, Put,
            Reconciles, Finishes, Cancels
<1>1. CASE Tick
  BY <1>1 DEF Tick, Reload, Observe, Capture, Snapshot, Unfreeze, Release,
         Prepare, ClaimStage, Launch, PutBack, Reread, Publish, Leave
<1>2. CASE Start
  BY <1>2 DEF Start, Watch, TryLock, Wake
<1>3. CASE \E s \in Stages : Work(s)
  BY <1>3 DEF Work, Attach, Finish, Spawn
<1>4. CASE User
  BY <1>4 DEF User, Reconcile, CancelNext
<1>5. CASE Fault
  BY <1>5 DEF Fault, SchedulerDies, CancelStops, FinishError, WorkerDies,
         ResumeDies, ClaimStalls
<1>6. CASE UNCHANGED vars
  BY <1>6
<1> QED
  BY <1>1, <1>2, <1>3, <1>4, <1>5, <1>6 DEF Next

\* and what counts as a fault.
LEMMA FaultsFrame ==
  [Next]_vars => \/ UNCHANGED faults
                 \/ Prepare
                 \/ Launch
                 \/ (\E s \in Stages : Finish(s))
                 \/ SchedulerDies
                 \/ CancelStops
                 \/ (\E s \in Stages : FinishError(s))
                 \/ (\E s \in Stages : WorkerDies(s))
                 \/ (\E s \in Stages : ResumeDies(s))
                 \/ (\E s \in Stages : ClaimStalls(s))
<1> USE DEF vars, recordVars, stageVars, runVars, wakeVars, tickVars,
            userVars, Goto, Forget, Faulty, Edit, EnsureRunning, Put,
            Reconciles, Finishes, Cancels
<1>1. CASE Tick
  BY <1>1 DEF Tick, Reload, Observe, Capture, Snapshot, Unfreeze, Release,
         ClaimStage, PutBack, Reread, Publish, Leave
<1>2. CASE Start
  BY <1>2 DEF Start, Watch, TryLock, Wake
<1>3. CASE \E s \in Stages : Work(s)
  BY <1>3 DEF Work, Attach, Spawn
<1>4. CASE User
  BY <1>4 DEF User, Resume, ClaimForeground, Rework, Discard, Apply,
         CancelStage, Reconcile, CancelRun, CancelNext, ResumeRun
<1>5. CASE Fault
  BY <1>5 DEF Fault
<1>6. CASE UNCHANGED vars
  BY <1>6
<1> QED
  BY <1>1, <1>2, <1>3, <1>4, <1>5, <1>6 DEF Next

---------------------------------------------------------------------------
(* Types and the scheduler's place.                                        *)

\* States and revisions keep their types: a record is written by Put.
LEMMA PutTyped ==
  ASSUME TypeOK, NEW s, NEW to \in States, Put(s, to)
  PROVE  state' \in [Stages -> States] /\ revision' \in [Stages -> Nat]
<1>1. state' \in [Stages -> States]
  BY DEF TypeOK, Put
<1>2. revision' \in [Stages -> Nat]
  <2>1. \/ revision' = [revision EXCEPT ![s] = @ + 1]
        \/ revision' = [revision EXCEPT ![s] = @]
    BY DEF Put
  <2> QED
    BY <2>1 DEF TypeOK
<1> QED BY <1>1, <1>2

\* So does every step,
LEMMA TypeRecords ==
  ASSUME TypeOK, PlaceOK, [Next]_vars
  PROVE  state' \in [Stages -> States] /\ revision' \in [Stages -> Nat]
<1> USE LimitsTyped DEF Stages, TypeOK, States, Working, Holding, Done,
   Broken, Resumable, recordVars, stageVars, runVars, wakeVars, tickVars, userVars
<1>0. CASE UNCHANGED recordVars
  BY <1>0
<1>1. CASE Observe
  BY <1>1, PutTyped DEF Observe, Fresh, Lost, Claimed, Reconciles, Standing
<1>2. CASE Unfreeze
  BY <1>2, PutTyped DEF Unfreeze, Fresh
<1>3. CASE ClaimStage
  BY <1>3, PutTyped DEF ClaimStage, Claims, Free
<1>4. CASE Launch
  BY <1>4, PutTyped DEF Launch, Faulty
<1>5. CASE PutBack
  BY <1>5, PutTyped DEF PutBack
<1>6. ASSUME NEW s \in Stages, Finish(s) PROVE state' \in [Stages -> States] /\ revision' \in [Stages -> Nat]
  BY <1>6, PutTyped DEF Finish, Finishes, Completes, Faulty
<1>7. ASSUME NEW s \in Stages, Spawn(s) PROVE state' \in [Stages -> States] /\ revision' \in [Stages -> Nat]
  BY <1>7, PutTyped DEF Spawn
<1>8. ASSUME NEW s \in Stages, Resume(s) PROVE state' \in [Stages -> States] /\ revision' \in [Stages -> Nat]
  BY <1>8, PutTyped DEF Resume, Edit, Resumes, Free
<1>9. ASSUME NEW s \in Stages, ClaimForeground(s) PROVE state' \in [Stages -> States] /\ revision' \in [Stages -> Nat]
  BY <1>9, PutTyped DEF ClaimForeground, Edit, Free
<1>10. ASSUME NEW s \in Stages, Rework(s) PROVE state' \in [Stages -> States] /\ revision' \in [Stages -> Nat]
  BY <1>10 DEF Rework
<1>11. ASSUME NEW s \in Stages, Discard(s) PROVE state' \in [Stages -> States] /\ revision' \in [Stages -> Nat]
  BY <1>11, PutTyped DEF Discard, Edit
<1>12. ASSUME NEW s \in Stages, Apply(s) PROVE state' \in [Stages -> States] /\ revision' \in [Stages -> Nat]
  BY <1>12, PutTyped DEF Apply, Edit
<1>13. ASSUME NEW s \in Stages, CancelStage(s) PROVE state' \in [Stages -> States] /\ revision' \in [Stages -> Nat]
  BY <1>13, PutTyped DEF CancelStage, Edit, Cancels, Lost, Claimed
<1>14. ASSUME NEW s \in Stages, Reconcile(s) PROVE state' \in [Stages -> States] /\ revision' \in [Stages -> Nat]
  BY <1>14, PutTyped DEF Reconcile, Lost, Claimed, Reconciles
<1>15. CASE CancelNext
  BY <1>15, PutTyped DEF CancelNext, First, Cancels, Lost, Claimed
<1>16. ASSUME NEW s \in Stages, FinishError(s) PROVE state' \in [Stages -> States] /\ revision' \in [Stages -> Nat]
  BY <1>16, PutTyped DEF FinishError, Faulty, Finishes
<1>17. ASSUME NEW s \in Stages, ClaimStalls(s) PROVE state' \in [Stages -> States] /\ revision' \in [Stages -> Nat]
  BY <1>17, PutTyped DEF ClaimStalls, Faulty, Claimed, Reconciles
<1> QED BY <1>0, <1>1, <1>2, <1>3, <1>4, <1>5, <1>6, <1>7, <1>8, <1>9, <1>10, <1>11,
   <1>12, <1>13, <1>14, <1>15, <1>16, <1>17, RecordFrame

\* the marks of work handed forward,
LEMMA TypeFrozen ==
  ASSUME TypeOK, PlaceOK, [Next]_vars
  PROVE  frozen' \subseteq Stages
<1> USE GraphTyped, LimitsTyped DEF Stages, TypeOK, PlaceOK, Goto, recordVars,
   stageVars, runVars, wakeVars, tickVars, userVars
<1>0. CASE UNCHANGED frozen
  BY <1>0
<1>1. CASE Capture
  <2>1. UNCHANGED frozen \/ \E s \in Stages : frozen' = frozen \cup {s}
    BY <1>1, Zenon DEF Capture
  <2> QED
    BY <2>1 DEF TypeOK
<1>2. CASE Unfreeze
  BY <1>2 DEF Unfreeze, Fresh, Put
<1> QED BY <1>0, <1>1, <1>2, FrozenFrame

\* what is known of a result,
LEMMA TypeFlawed ==
  ASSUME TypeOK, PlaceOK, [Next]_vars
  PROVE  flawed' \subseteq Stages
<1> USE GraphTyped, LimitsTyped DEF Stages, TypeOK, PlaceOK, Goto, recordVars,
   stageVars, runVars, wakeVars, tickVars, userVars
<1>0. CASE UNCHANGED flawed
  BY <1>0
<1>1. ASSUME NEW s \in Stages, Finish(s) PROVE flawed' \subseteq Stages
  BY <1>1 DEF Finish, Finishes, Put, Completes, Faulty
<1> QED BY <1>0, <1>1, FlawedFrame

\* the worktrees,
LEMMA TypeTree ==
  ASSUME TypeOK, PlaceOK, [Next]_vars
  PROVE  /\ DOMAIN tree' = Stages
         /\ \A s \in Stages : \/ tree'[s] = NoCommit
                             \/ tree'[s] \in [from : [DependsOn[s] -> Heads], second : Seconds]
<1> DEFINE Typed(x, s) == x = NoCommit \/ x \in [from : [DependsOn[s] -> Heads], second : Seconds]
<1>1. CASE UNCHANGED tree
  BY <1>1 DEF TypeOK
<1>2. ASSUME Prepare, NEW t \in Seconds,
             tree' = [tree EXCEPT ![at] = IF @ = NoCommit THEN Base(at, t) ELSE @]
      PROVE  DOMAIN tree' = Stages /\ \A s \in Stages : Typed(tree'[s], s)
  <2>1. at \in Stages /\ \A d \in DependsOn[at] : kept[d] # NoCommit /\ d \in Stages
    BY <1>2, GraphTyped DEF Prepare, PlaceOK, Available
  <2>2. [d \in DependsOn[at] |-> kept[d]] \in [DependsOn[at] -> Heads]
    BY <2>1 DEF TypeOK
  <2>3. Typed(Base(at, t), at)
    BY <2>2 DEF Base
  <2>4. \A s \in Stages : Typed(tree[s], s)
    BY DEF TypeOK
  <2>5. DOMAIN tree = Stages
    BY DEF TypeOK
  <2>6. \A s \in Stages :
          tree'[s] = IF s = at THEN IF tree[s] = NoCommit THEN Base(at, t) ELSE tree[s] ELSE tree[s]
    BY <1>2, <2>5
  <2> QED
    BY <1>2, <2>3, <2>4, <2>5, <2>6
<1>3. CASE Prepare /\ ~UNCHANGED tree
  <2>1. Seconds # {}
    BY LimitsTyped
  <2>2. \E t \in Seconds : tree' = [tree EXCEPT ![at] = IF @ = NoCommit THEN Base(at, t) ELSE @]
    BY <1>3, <2>1 DEF Prepare, Epoch
  <2> QED
    BY <1>2, <1>3, <2>2
<1> QED
  BY <1>1, <1>3, TreeFrame

\* the snapshots of the journal,
LEMMA TypeHead ==
  ASSUME TypeOK, PlaceOK, [Next]_vars
  PROVE  head' \in [Stages -> Heads \cup {NoCommit}]
<1> USE GraphTyped, LimitsTyped DEF Stages, TypeOK, PlaceOK, Goto, recordVars,
   stageVars, runVars, wakeVars, tickVars, userVars
<1>0. CASE UNCHANGED head
  BY <1>0
<1>1. CASE Publish
  BY <1>1 DEF Publish, Verdict, Forget
<1> QED BY <1>0, <1>1, HeadFrame

\* the scheduler's copy,
LEMMA TypeKept ==
  ASSUME TypeOK, PlaceOK, [Next]_vars
  PROVE  kept' \in [Stages -> Heads \cup {NoCommit}]
<1> USE GraphTyped, LimitsTyped DEF Stages, TypeOK, PlaceOK, Goto, recordVars,
   stageVars, runVars, wakeVars, tickVars, userVars
<1>0. CASE UNCHANGED kept
  BY <1>0
<1>1. CASE Reload
  BY <1>1 DEF Reload
<1>2. CASE Observe
  BY <1>2 DEF Observe, Fresh, Lost, Claimed, Reconciles, Put, Standing
<1>3. CASE Snapshot
  <2>1. \A t \in Seconds : [rev |-> seen[at].rev, second |-> t] \in Heads
    BY <1>3 DEF Snapshot, Heads
  <2> QED
    <3>1. CASE kept' = kept
      BY <3>1
    <3>2. ASSUME NEW t \in Seconds, kept' = [kept EXCEPT ![at] = [rev |-> seen[at].rev, second |-> t]]
          PROVE  kept' \in [Stages -> Heads \cup {NoCommit}]
      BY <2>1, <3>2
    <3> QED
      BY <1>3, <3>1, <3>2 DEF Snapshot
<1>4. CASE Release
  BY <1>4 DEF Release, Ready, First, Forget, Available
<1>5. CASE Publish
  BY <1>5 DEF Publish, Verdict, Forget
<1>6. CASE SchedulerDies
  BY <1>6 DEF SchedulerDies, Faulty, Forget
<1> QED BY <1>0, <1>1, <1>2, <1>3, <1>4, <1>5, <1>6, KeptFrame

\* and what it read.
LEMMA TypeSeen ==
  ASSUME TypeOK, PlaceOK, [Next]_vars
  PROVE  seen' \in [Stages -> [state : States, rev : Nat]]
<1> USE GraphTyped, LimitsTyped DEF Stages, TypeOK, PlaceOK, Goto, States, Working,
   Holding, Done, Broken, Resumable, Unread, recordVars, stageVars, runVars, wakeVars,
   tickVars, userVars
<1>0. CASE UNCHANGED seen
  BY <1>0
<1>1. CASE Observe
  BY <1>1, TypeRecords DEF Observe, Fresh
<1>2. CASE Unfreeze
  BY <1>2, TypeRecords DEF Unfreeze, Fresh
<1>3. CASE Release
  <2>1. UNCHANGED seen \/ Forget
    BY <1>3, Zenon DEF Release
  <2>2. CASE Forget
    BY <2>2 DEF Forget
  <2> QED
    BY <1>0, <2>1, <2>2, Zenon
<1>4. CASE Reread
  BY <1>4, TypeRecords DEF Reread, Fresh
<1>5. CASE Publish
  BY <1>5 DEF Publish, Verdict, Forget
<1>6. CASE SchedulerDies
  BY <1>6 DEF SchedulerDies, Faulty, Forget
<1> QED BY <1>0, <1>1, <1>2, <1>3, <1>4, <1>5, <1>6, SeenFrame

\* It stays within its steps and the graph.
LEMMA TypePlace ==
  ASSUME TypeOK, PlaceOK, [Next]_vars
  PROVE  pc' \in Pcs /\ at' \in 1..N + 1
<1> USE GraphTyped, LimitsTyped DEF Stages, TypeOK, PlaceOK, Goto, States, Working,
   Holding, Done, Broken, Resumable, Pcs, recordVars, stageVars, runVars, wakeVars,
   tickVars, userVars
<1>0. CASE UNCHANGED <<pc, at>>
  BY <1>0
<1>1. CASE TryLock
  BY <1>1 DEF TryLock
<1>2. CASE SchedulerDies
  BY <1>2 DEF SchedulerDies, Faulty, Forget
<1>3. CASE Reload
  BY <1>3 DEF Reload
<1>4. CASE Observe
  BY <1>4 DEF Observe, Fresh, Lost, Claimed, Reconciles, Put, Standing
<1>5. CASE Capture
  BY <1>5 DEF Capture, Wanted, First, Freezable
<1>6. CASE Snapshot
  <2>1. Goto("capture", at + 1) \/ Goto("unfreeze", at)
    BY <1>6, Zenon DEF Snapshot
  <2>2. at \in 1..N
    BY <1>6 DEF Snapshot
  <2>3. CASE Goto("capture", at + 1)
    BY <2>2, <2>3
  <2>4. CASE Goto("unfreeze", at)
    BY <2>2, <2>4
  <2> QED
    BY <2>1, <2>3, <2>4
<1>7. CASE Unfreeze
  BY <1>7 DEF Unfreeze, Fresh, Put
<1>8. CASE Release
  BY <1>8 DEF Release, Ready, First, Forget, Available
<1>9. CASE Prepare
  BY <1>9 DEF Prepare, Base, Merges, Epoch, Faulty
<1>10. CASE ClaimStage
  BY <1>10 DEF ClaimStage, Claims, Free, Put
<1>11. CASE Launch
  <2>1. Goto("release", at + 1) \/ Goto("refused", at)
    BY <1>11, Zenon DEF Launch
  <2> QED
    BY <1>11, <2>1 DEF Launch
<1>12. CASE PutBack
  BY <1>12 DEF PutBack, Put
<1>13. CASE Reread
  BY <1>13 DEF Reread, Fresh
<1>14. CASE Publish
  BY <1>14 DEF Publish, Verdict, Forget
<1>15. CASE Leave
  BY <1>15 DEF Leave
<1> QED BY <1>0, <1>1, <1>2, <1>3, <1>4, <1>5, <1>6, <1>7, <1>8, <1>9, <1>10, <1>11,
   <1>12, <1>13, <1>14, <1>15, PlaceFrame

\* Checkpoints,
LEMMA TypeSaved ==
  ASSUME TypeOK, PlaceOK, [Next]_vars
  PROVE  saved' \subseteq Stages
<1> USE GraphTyped, LimitsTyped DEF Stages, TypeOK, PlaceOK, Goto, recordVars,
   stageVars, runVars, wakeVars, tickVars, userVars
<1>0. CASE UNCHANGED saved
  BY <1>0
<1>1. ASSUME NEW s \in Stages, Attach(s) PROVE saved' \subseteq Stages
  BY <1>1 DEF Attach
<1> QED BY <1>0, <1>1, SavedFrame

\* ledgers,
LEMMA TypePartial ==
  ASSUME TypeOK, PlaceOK, [Next]_vars
  PROVE  partial' \subseteq Stages
<1> USE GraphTyped, LimitsTyped DEF Stages, TypeOK, PlaceOK, Goto, recordVars,
   stageVars, runVars, wakeVars, tickVars, userVars
<1>0. CASE UNCHANGED partial
  BY <1>0
<1>1. ASSUME NEW s \in Stages, Apply(s) PROVE partial' \subseteq Stages
  BY <1>1 DEF Apply, Edit, Put
<1> QED BY <1>0, <1>1, LedgerFrame

\* wake-ups,
LEMMA TypeWakers ==
  ASSUME TypeOK, PlaceOK, [Next]_vars
  PROVE  wakers' \subseteq Stages
<1> USE GraphTyped, LimitsTyped DEF Stages, TypeOK, PlaceOK, Goto, recordVars,
   stageVars, runVars, wakeVars, tickVars, userVars
<1>0. CASE UNCHANGED wakers
  BY <1>0
<1>1. ASSUME NEW s \in Stages, Wake(s) PROVE wakers' \subseteq Stages
  BY <1>1 DEF Wake, EnsureRunning
<1>2. ASSUME NEW s \in Stages, Finish(s) PROVE wakers' \subseteq Stages
  BY <1>2 DEF Finish, Finishes, Put, Completes, Faulty
<1>3. ASSUME NEW s \in Stages, Spawn(s) PROVE wakers' \subseteq Stages
  BY <1>3 DEF Spawn, Put
<1> QED BY <1>0, <1>1, <1>2, <1>3, WakersFrame

\* a cancellation under way,
LEMMA TypeStopping ==
  ASSUME TypeOK, PlaceOK, [Next]_vars
  PROVE  stopping' \subseteq Stages
<1> USE GraphTyped, LimitsTyped DEF Stages, TypeOK, PlaceOK, Goto, recordVars,
   stageVars, runVars, wakeVars, tickVars, userVars
<1>0. CASE UNCHANGED stopping
  BY <1>0
<1>1. CASE CancelRun
  BY <1>1 DEF CancelRun, Edit
<1>2. CASE CancelNext
  BY <1>2 DEF CancelNext, First, Cancels, Lost, Claimed, Put
<1>3. CASE CancelStops
  BY <1>3 DEF CancelStops, Faulty
<1> QED BY <1>0, <1>1, <1>2, <1>3, StoppingFrame

\* workers,
LEMMA TypeWorker ==
  ASSUME TypeOK, PlaceOK, [Next]_vars
  PROVE  worker' \in [Stages -> {"none", "due", "live"}]
<1> USE GraphTyped, LimitsTyped DEF Stages, TypeOK, PlaceOK, Goto, recordVars,
   stageVars, runVars, wakeVars, tickVars, userVars
<1>0. CASE UNCHANGED worker
  BY <1>0
<1>1. CASE Launch
  BY <1>1 DEF Launch, Put, Faulty
<1>2. ASSUME NEW s \in Stages, Finish(s) PROVE worker' \in [Stages -> {"none", "due", "live"}]
  BY <1>2 DEF Finish, Finishes, Put, Completes, Faulty
<1>3. ASSUME NEW s \in Stages, FinishError(s) PROVE worker' \in [Stages -> {"none", "due", "live"}]
  BY <1>3 DEF FinishError, Faulty, Finishes, Put
<1>4. ASSUME NEW s \in Stages, WorkerDies(s) PROVE worker' \in [Stages -> {"none", "due", "live"}]
  BY <1>4 DEF WorkerDies, Faulty
<1>5. ASSUME NEW s \in Stages, Spawn(s) PROVE worker' \in [Stages -> {"none", "due", "live"}]
  BY <1>5 DEF Spawn, Put
<1>6. ASSUME NEW s \in Stages, Resume(s) PROVE worker' \in [Stages -> {"none", "due", "live"}]
  BY <1>6 DEF Resume, Edit, Resumes, Free, Put
<1>7. ASSUME NEW s \in Stages, ResumeDies(s) PROVE worker' \in [Stages -> {"none", "due", "live"}]
  BY <1>7 DEF ResumeDies, Faulty
<1>8. ASSUME NEW s \in Stages, ClaimForeground(s) PROVE worker' \in [Stages -> {"none", "due", "live"}]
  BY <1>8 DEF ClaimForeground, Edit, Free, Put
<1> QED BY <1>0, <1>1, <1>2, <1>3, <1>4, <1>5, <1>6, <1>7, <1>8, WorkerFrame

\* the state of the run,
LEMMA TypeRun ==
  ASSUME TypeOK, PlaceOK, [Next]_vars
  PROVE  runState' \in {"Running", "Waiting", "Blocked", "Completed", "Cancelled"}
<1> USE GraphTyped, LimitsTyped DEF Stages, TypeOK, PlaceOK, Goto, recordVars,
   stageVars, runVars, wakeVars, tickVars, userVars
<1>0. CASE UNCHANGED runState
  BY <1>0
<1>1. CASE Publish
  BY <1>1 DEF Publish, Verdict, Forget
<1>2. CASE CancelRun
  BY <1>2 DEF CancelRun, Edit
<1> QED BY <1>0, <1>1, <1>2, RunFrame

\* and the counters.
LEMMA TypeSpawned ==
  ASSUME TypeOK, PlaceOK, [Next]_vars
  PROVE  spawned' \in 0..MaxSpawned
<1> USE GraphTyped, LimitsTyped DEF Stages, TypeOK, PlaceOK, Goto, recordVars,
   stageVars, runVars, wakeVars, tickVars, userVars
<1>0. CASE UNCHANGED spawned
  BY <1>0
<1>1. CASE Watch
  BY <1>1 DEF Watch
<1>2. CASE TryLock
  BY <1>2 DEF TryLock
<1>3. ASSUME NEW s \in Stages, Wake(s) PROVE spawned' \in 0..MaxSpawned
  BY <1>3 DEF Wake, EnsureRunning
<1>4. CASE ResumeRun
  BY <1>4 DEF ResumeRun, Edit, EnsureRunning
<1> QED BY <1>0, <1>1, <1>2, <1>3, <1>4, SpawnedFrame

\* Slots are counted,
LEMMA TypeActive ==
  ASSUME TypeOK, PlaceOK, [Next]_vars
  PROVE  active' \in Nat
<1> USE GraphTyped, LimitsTyped DEF Stages, TypeOK, PlaceOK, Goto, recordVars,
   stageVars, runVars, wakeVars, tickVars, userVars
<1>0. CASE UNCHANGED active
  BY <1>0
<1>0a. Cardinality({s \in Stages : seen[s].state \in Holding}) \in Nat
  <2>1. IsFiniteSet(Stages)
    BY FS_Interval
  <2> QED
    BY <2>1, FS_Subset, FS_CardinalityType
<1>1. CASE Capture
  BY <1>1, <1>0a DEF Capture, Wanted, First, Freezable
<1>2. CASE Release
  BY <1>2 DEF Release, Ready, First, Forget, Available
<1>3. CASE Publish
  BY <1>3 DEF Publish, Verdict, Forget
<1>4. CASE Launch
  <2>1. active' = active + 1 \/ active' = active
    BY <1>4, Zenon DEF Launch
  <2> QED
    BY <2>1
<1>5. CASE SchedulerDies
  BY <1>5 DEF SchedulerDies, Faulty, Forget
<1> QED BY <1>0, <1>1, <1>2, <1>3, <1>4, <1>5, ActiveFrame

\* edits,
LEMMA TypeEdits ==
  ASSUME TypeOK, PlaceOK, [Next]_vars
  PROVE  edits' \in 0..MaxEdits
<1> USE GraphTyped, LimitsTyped DEF Stages, TypeOK, PlaceOK, Goto, recordVars,
   stageVars, runVars, wakeVars, tickVars, userVars
<1>0. CASE UNCHANGED edits
  BY <1>0
<1>1. ASSUME NEW s \in Stages, Resume(s) PROVE edits' \in 0..MaxEdits
  BY <1>1 DEF Resume, Edit
<1>2. ASSUME NEW s \in Stages, ClaimForeground(s) PROVE edits' \in 0..MaxEdits
  BY <1>2 DEF ClaimForeground, Edit
<1>3. ASSUME NEW s \in Stages, Rework(s) PROVE edits' \in 0..MaxEdits
  BY <1>3 DEF Rework, Edit
<1>4. ASSUME NEW s \in Stages, Discard(s) PROVE edits' \in 0..MaxEdits
  BY <1>4 DEF Discard, Edit
<1>5. ASSUME NEW s \in Stages, Apply(s) PROVE edits' \in 0..MaxEdits
  BY <1>5 DEF Apply, Edit
<1>6. ASSUME NEW s \in Stages, CancelStage(s) PROVE edits' \in 0..MaxEdits
  BY <1>6 DEF CancelStage, Edit
<1>7. CASE CancelRun
  BY <1>7 DEF CancelRun, Edit
<1>8. CASE ResumeRun
  BY <1>8 DEF ResumeRun, Edit
<1> QED BY <1>0, <1>1, <1>2, <1>3, <1>4, <1>5, <1>6, <1>7, <1>8, EditsFrame

\* and faults.
LEMMA TypeFaults ==
  ASSUME TypeOK, PlaceOK, [Next]_vars
  PROVE  faults' \in 0..MaxFaults
<1> USE GraphTyped, LimitsTyped DEF Stages, TypeOK, PlaceOK, Goto, recordVars,
   stageVars, runVars, wakeVars, tickVars, userVars
<1>0. CASE UNCHANGED faults
  BY <1>0
<1>1. CASE Prepare
  BY <1>1 DEF Prepare, Faulty
<1>2. CASE Launch
  BY <1>2 DEF Launch, Faulty
<1>3. ASSUME NEW s \in Stages, Finish(s) PROVE faults' \in 0..MaxFaults
  BY <1>3 DEF Finish, Faulty
<1>4. CASE SchedulerDies
  BY <1>4 DEF SchedulerDies, Faulty
<1>5. CASE CancelStops
  BY <1>5 DEF CancelStops, Faulty
<1>6. ASSUME NEW s \in Stages, FinishError(s) PROVE faults' \in 0..MaxFaults
  BY <1>6 DEF FinishError, Faulty
<1>7. ASSUME NEW s \in Stages, WorkerDies(s) PROVE faults' \in 0..MaxFaults
  BY <1>7 DEF WorkerDies, Faulty
<1>8. ASSUME NEW s \in Stages, ResumeDies(s) PROVE faults' \in 0..MaxFaults
  BY <1>8 DEF ResumeDies, Faulty
<1>9. ASSUME NEW s \in Stages, ClaimStalls(s) PROVE faults' \in 0..MaxFaults
  BY <1>9 DEF ClaimStalls, Faulty
<1> QED BY <1>0, <1>1, <1>2, <1>3, <1>4, <1>5, <1>6, <1>7, <1>8, <1>9, FaultsFrame

\* The scheduler is at a stage when its step needs one.
LEMMA PlaceStep ==
  ASSUME TypeOK, PlaceOK, [Next]_vars
  PROVE  PlaceOK'
<1> USE GraphTyped, LimitsTyped DEF Stages, TypeOK, PlaceOK, Goto, States, Working,
   Holding, Done, Broken, Resumable, recordVars, stageVars, runVars, wakeVars, tickVars,
   userVars
<1>0. CASE UNCHANGED <<pc, at, kept, seen>>
  BY <1>0 DEF Available
<1>1. CASE TryLock
  BY <1>1 DEF TryLock, Available
<1>2. CASE SchedulerDies
  BY <1>2 DEF SchedulerDies, Faulty, Forget
<1>3. CASE Reload
  BY <1>3 DEF Reload
<1>4. CASE Observe
  BY <1>4 DEF Observe, Fresh, Lost, Claimed, Reconciles, Put, Standing
<1>5. CASE Capture
  BY <1>5 DEF Capture, Wanted, First, Freezable
<1>6. CASE Snapshot
  BY <1>6 DEF Snapshot
<1>7. CASE Unfreeze
  BY <1>7 DEF Unfreeze, Fresh, Put
<1>8. CASE Release
  <2>1. CASE Goto("reread", 1)
    BY <2>1
  <2>2. CASE pc' = "top"
    BY <2>2
  <2>3. ASSUME NEW s \in Stages, First(s, Ready), Goto("prepare", s), UNCHANGED <<seen, kept>>
        PROVE  PlaceOK'
    BY <2>3 DEF First, Ready, Available
  <2> QED
    BY <1>8, <2>1, <2>2, <2>3, Zenon DEF Release
<1>9. CASE Prepare
  BY <1>9 DEF Prepare, Base, Merges, Epoch, Faulty, Available
<1>10. CASE ClaimStage
  BY <1>10 DEF ClaimStage, Claims, Free, Put
<1>11. CASE Launch
  BY <1>11 DEF Launch, Put, Faulty
<1>12. CASE PutBack
  BY <1>12 DEF PutBack, Put
<1>13. CASE Reread
  BY <1>13 DEF Reread, Fresh
<1>14. CASE Publish
  BY <1>14 DEF Publish, Verdict, Forget
<1>15. CASE Leave
  BY <1>15 DEF Leave
<1> QED BY <1>0, <1>1, <1>2, <1>3, <1>4, <1>5, <1>6, <1>7, <1>8, <1>9, <1>10, <1>11,
   <1>12, <1>13, <1>14, <1>15, PlaceFrame, KeptFrame, SeenFrame

---------------------------------------------------------------------------
(* Slots and cancellation.                                                 *)

\* A stage starts only where claim_slot found a slot, and no other changes with it.
LEMMA Starts ==
  ASSUME TypeOK, PlaceOK, NEW d \in Stages, [Next]_vars
  PROVE  state'[d] \in Working =>
           \/ state[d] \in Working
           \/ Free(d) /\ \A t \in Stages \ {d} : state'[t] = state[t]
<1> USE GraphTyped, LimitsTyped DEF Stages, TypeOK, PlaceOK, States, Working, Holding,
   Done, Broken, Resumable, recordVars, stageVars, runVars, wakeVars, tickVars, userVars
<1> DEFINE Begins ==
           state'[d] \in Working =>
             \/ state[d] \in Working
             \/ Free(d) /\ \A t \in Stages \ {d} : state'[t] = state[t]
<1>0. CASE UNCHANGED recordVars
  BY <1>0
<1>1. CASE Observe
  BY <1>1 DEF Observe, Fresh, Lost, Claimed, Reconciles, Put, Standing
<1>2. CASE Unfreeze
  BY <1>2 DEF Unfreeze, Fresh, Put
<1>3. CASE ClaimStage
  <2>1. \/ UNCHANGED recordVars
        \/ Free(at) /\ Put(at, "Starting")
    BY <1>3, Zenon DEF ClaimStage, Claims
  <2>2. CASE UNCHANGED recordVars
    BY <2>2
  <2>3. CASE Free(at) /\ Put(at, "Starting")
    <3>1. CASE at = d
      BY <2>3, <3>1 DEF Put
    <3>2. CASE at # d
      BY <2>3, <3>2 DEF Put
    <3> QED
      BY <3>1, <3>2
  <2> QED
    BY <2>1, <2>2, <2>3
<1>4. CASE Launch
  <2>1. UNCHANGED recordVars \/ (Put(at, "Running") /\ state[at] = "Starting")
    BY <1>4, Zenon DEF Launch
  <2>2. CASE Put(at, "Running") /\ state[at] = "Starting"
    <3>1. CASE at = d
      BY <2>2, <3>1
    <3>2. CASE at # d
      BY <2>2, <3>2 DEF Put
    <3> QED
      BY <3>1, <3>2
  <2> QED
    BY <1>0, <2>1, <2>2, Zenon
<1>5. CASE PutBack
  <2>1. UNCHANGED recordVars \/ Put(at, "Blocked")
    BY <1>5, Zenon DEF PutBack
  <2>2. CASE Put(at, "Blocked")
    <3>1. CASE at = d
      BY <2>2, <3>1 DEF Put
    <3>2. CASE at # d
      BY <2>2, <3>2 DEF Put
    <3> QED
      BY <3>1, <3>2
  <2> QED
    BY <1>0, <2>1, <2>2, Zenon
<1>6. ASSUME NEW s \in Stages, Finish(s) PROVE Begins
  BY <1>6 DEF Finish, Finishes, Put, Completes, Faulty
<1>7. ASSUME NEW s \in Stages, Spawn(s) PROVE Begins
  BY <1>7 DEF Spawn, Put
<1>8. ASSUME NEW s \in Stages, Resume(s) PROVE Begins
  BY <1>8 DEF Resume, Edit, Resumes, Put
<1>9. ASSUME NEW s \in Stages, ClaimForeground(s) PROVE Begins
  BY <1>9 DEF ClaimForeground, Edit, Put
<1>10. ASSUME NEW s \in Stages, Rework(s) PROVE Begins
  BY <1>10 DEF Rework, Edit
<1>11. ASSUME NEW s \in Stages, Discard(s) PROVE Begins
  BY <1>11 DEF Discard, Edit, Put
<1>12. ASSUME NEW s \in Stages, Apply(s) PROVE Begins
  BY <1>12 DEF Apply, Edit, Put
<1>13. ASSUME NEW s \in Stages, CancelStage(s) PROVE Begins
  BY <1>13 DEF CancelStage, Edit, Cancels, Lost, Claimed, Put
<1>14. ASSUME NEW s \in Stages, Reconcile(s) PROVE Begins
  BY <1>14 DEF Reconcile, Lost, Claimed, Reconciles, Put
<1>15. CASE CancelNext
  BY <1>15 DEF CancelNext, First, Cancels, Lost, Claimed, Put
<1>16. ASSUME NEW s \in Stages, FinishError(s) PROVE Begins
  BY <1>16 DEF FinishError, Faulty, Finishes, Put
<1>17. ASSUME NEW s \in Stages, ClaimStalls(s) PROVE Begins
  BY <1>17 DEF ClaimStalls, Faulty, Claimed, Reconciles, Put
<1> QED BY <1>0, <1>1, <1>2, <1>3, <1>4, <1>5, <1>6, <1>7, <1>8, <1>9, <1>10, <1>11,
   <1>12, <1>13, <1>14, <1>15, <1>16, <1>17, RecordFrame

\* The bound on slots is kept by every step.
LEMMA SlotsStep ==
  ASSUME TypeOK, PlaceOK, SlotsKept, [Next]_vars
  PROVE  SlotsKept'
<1> DEFINE Now == {s \in Stages : state[s] \in Working}
           Then == {s \in Stages : state'[s] \in Working}
<1>1. IsFiniteSet(Stages)
  BY GraphTyped, FS_Interval DEF Stages
<1>2. IsFiniteSet(Now) /\ Cardinality(Now) \in Nat /\ Cardinality(Then) \in Nat
  BY <1>1, FS_Subset, FS_CardinalityType
<1>3. CASE Then \subseteq Now
  BY <1>2, <1>3, FS_Subset, LimitsTyped DEF SlotsKept
<1>4. CASE ~(Then \subseteq Now)
  <2>1. PICK d \in Stages : state'[d] \in Working /\ state[d] \notin Working
    BY <1>4
  <2>2. Free(d) /\ \A t \in Stages \ {d} : state'[t] = state[t]
    BY <2>1, Starts
  <2> DEFINE Others == {t \in Stages \ {d} : state[t] \in Holding}
  <2>3. IsFiniteSet(Others) /\ Cardinality(Others) \in Nat
    BY <1>1, FS_Subset, FS_CardinalityType
  <2>4. Cardinality(Others) < MaxParallel
    BY <2>2 DEF Free
  <2>5. Cardinality(Others \cup {d}) <= Cardinality(Others) + 1
    BY <2>3, FS_AddElement
  <2>6. Then \subseteq Others \cup {d}
    BY <2>2 DEF Holding
  <2>7. IsFiniteSet(Others \cup {d}) /\ Cardinality(Others \cup {d}) \in Nat
    BY <2>3, FS_AddElement, FS_CardinalityType
  <2>8. Cardinality(Then) <= Cardinality(Others \cup {d})
    BY <2>6, <2>7, FS_Subset
  <2>9. Cardinality(Then) <= MaxParallel
    BY <1>2, <2>3, <2>4, <2>5, <2>7, <2>8, LimitsTyped
  <2> QED
    BY <2>9 DEF SlotsKept
<1> QED
  BY <1>3, <1>4

---------------------------------------------------------------------------
(* What is handed forward stands.                                          *)

\* Revisions only grow: by Put,
LEMMA PutGrows ==
  ASSUME TypeOK, NEW s, NEW to, Put(s, to), NEW d \in Stages
  PROVE  revision[d] <= revision'[d]
<1>1. \/ revision' = [revision EXCEPT ![s] = @ + 1]
      \/ revision' = [revision EXCEPT ![s] = @]
  BY DEF Put
<1> QED
  BY <1>1 DEF TypeOK

\* and by every step.
LEMMA RevisionGrows ==
  ASSUME TypeOK, PlaceOK, NEW d \in Stages, [Next]_vars
  PROVE  revision[d] <= revision'[d]
<1>p. \A s, to : Put(s, to) => revision[d] <= revision'[d]
  BY PutGrows, Zenon
<1>0. UNCHANGED recordVars => revision[d] <= revision'[d]
  BY DEF recordVars, TypeOK
<1>1. CASE Observe
  <2>1. UNCHANGED recordVars \/ Put(at, "Interrupted") \/ Put(at, "Waiting")
    BY <1>1, Zenon DEF Observe, Reconciles
  <2> QED
    BY <2>1, <1>0, <1>p, Zenon
<1>2. CASE Unfreeze
  BY <1>2, <1>0, <1>p, Zenon DEF Unfreeze
<1>3. CASE ClaimStage
  <2>1. UNCHANGED recordVars \/ Put(at, "Starting")
    BY <1>3, Zenon DEF ClaimStage
  <2> QED
    BY <2>1, <1>0, <1>p, Zenon
<1>4. CASE Launch
  BY <1>4, <1>0, <1>p, Zenon DEF Launch
<1>5. CASE PutBack
  BY <1>5, <1>0, <1>p, Zenon DEF PutBack
<1>6. ASSUME NEW s \in Stages, Finish(s) PROVE revision[d] <= revision'[d]
  <2>1. UNCHANGED recordVars \/ \E to \in Outcomes : Put(s, to)
    BY <1>6, Zenon DEF Finish, Finishes
  <2> QED
    BY <2>1, <1>0, <1>p, Zenon
<1>7. ASSUME NEW s \in Stages, Spawn(s) PROVE revision[d] <= revision'[d]
  BY <1>7, <1>0, <1>p, Zenon DEF Spawn
<1>8. ASSUME NEW s \in Stages, Resume(s) PROVE revision[d] <= revision'[d]
  BY <1>8, <1>0, <1>p, Zenon DEF Resume
<1>9. ASSUME NEW s \in Stages, ClaimForeground(s) PROVE revision[d] <= revision'[d]
  BY <1>9, <1>0, <1>p, Zenon DEF ClaimForeground
<1>10. ASSUME NEW s \in Stages, Rework(s) PROVE revision[d] <= revision'[d]
  BY <1>10 DEF Rework, TypeOK, recordVars
<1>11. ASSUME NEW s \in Stages, Discard(s) PROVE revision[d] <= revision'[d]
  BY <1>11, <1>0, <1>p, Zenon DEF Discard
<1>12. ASSUME NEW s \in Stages, Apply(s) PROVE revision[d] <= revision'[d]
  BY <1>12, <1>0, <1>p, Zenon DEF Apply
<1>13. ASSUME NEW s \in Stages, CancelStage(s) PROVE revision[d] <= revision'[d]
  BY <1>13, <1>0, <1>p, Zenon DEF CancelStage, Cancels
<1>14. ASSUME NEW s \in Stages, Reconcile(s) PROVE revision[d] <= revision'[d]
  BY <1>14, <1>0, <1>p, Zenon DEF Reconcile, Reconciles
<1>15. CASE CancelNext
  BY <1>15, <1>0, <1>p, Zenon DEF CancelNext, Cancels
<1>16. ASSUME NEW s \in Stages, FinishError(s) PROVE revision[d] <= revision'[d]
  BY <1>16, <1>0, <1>p, Zenon DEF FinishError, Finishes
<1>17. ASSUME NEW s \in Stages, ClaimStalls(s) PROVE revision[d] <= revision'[d]
  BY <1>17, <1>0, <1>p, Zenon DEF ClaimStalls, Reconciles
<1> QED BY <1>0, <1>1, <1>2, <1>3, <1>4, <1>5, <1>6, <1>7, <1>8, <1>9, <1>10, <1>11,
   <1>12, <1>13, <1>14, <1>15, <1>16, <1>17, RecordFrame

\* Applied, discarded and partly applied work never runs again.
LEMMA SettledStays ==
  ASSUME TypeOK, PlaceOK, NEW d \in Stages, Settled(d), [Next]_vars
  PROVE  Settled(d)'
<1> USE GraphTyped, LimitsTyped DEF Stages, TypeOK, PlaceOK, Settled, States, Working,
   Holding, Done, Broken, Resumable, recordVars, stageVars, runVars, wakeVars, tickVars,
   userVars
<1>p. partial \subseteq partial'
  BY LedgerFrame DEF Apply
<1>0. CASE UNCHANGED recordVars
  BY <1>0, <1>p
<1>1. CASE Observe
  BY <1>1, <1>p DEF Observe, Fresh, Lost, Claimed, Reconciles, Put, Standing
<1>2. CASE Unfreeze
  BY <1>2, <1>p DEF Unfreeze, Fresh, Put
<1>3. CASE ClaimStage
  BY <1>3, <1>p DEF ClaimStage, Claims, Free, Put
<1>4. CASE Launch
  BY <1>4, <1>p DEF Launch, Put, Faulty
<1>5. CASE PutBack
  BY <1>5, <1>p DEF PutBack, Put
<1>6. ASSUME NEW s \in Stages, Finish(s) PROVE Settled(d)'
  BY <1>6, <1>p DEF Finish, Finishes, Put, Completes, Faulty
<1>7. ASSUME NEW s \in Stages, Spawn(s) PROVE Settled(d)'
  BY <1>7, <1>p DEF Spawn, Put
<1>8. ASSUME NEW s \in Stages, Resume(s) PROVE Settled(d)'
  BY <1>8, <1>p DEF Resume, Edit, Resumes, Free, Put
<1>9. ASSUME NEW s \in Stages, ClaimForeground(s) PROVE Settled(d)'
  BY <1>9, <1>p DEF ClaimForeground, Edit, Free, Put
<1>10. ASSUME NEW s \in Stages, Rework(s) PROVE Settled(d)'
  BY <1>10, <1>p DEF Rework, Edit
<1>11. ASSUME NEW s \in Stages, Discard(s) PROVE Settled(d)'
  BY <1>11, <1>p DEF Discard, Edit, Put
<1>12. ASSUME NEW s \in Stages, Apply(s) PROVE Settled(d)'
  BY <1>12, <1>p DEF Apply, Edit, Put
<1>13. ASSUME NEW s \in Stages, CancelStage(s) PROVE Settled(d)'
  BY <1>13, <1>p DEF CancelStage, Edit, Cancels, Lost, Claimed, Put
<1>14. ASSUME NEW s \in Stages, Reconcile(s) PROVE Settled(d)'
  BY <1>14, <1>p DEF Reconcile, Lost, Claimed, Reconciles, Put
<1>15. CASE CancelNext
  <2>1. PICK s \in Stages : Cancels(s)
    BY <1>15, Zenon DEF CancelNext
  <2>2. \/ UNCHANGED recordVars
        \/ state[s] \in Holding \cup {"Blocked"} /\ (Put(s, "Cancelled") \/ Put(s, "Interrupted"))
    BY <2>1 DEF Cancels, Lost
  <2>3. CASE state[s] \in Holding \cup {"Blocked"} /\ (Put(s, "Cancelled") \/ Put(s, "Interrupted"))
    BY <2>3, <1>p DEF Put
  <2> QED
    BY <1>0, <2>2, <2>3, Zenon
<1>16. ASSUME NEW s \in Stages, FinishError(s) PROVE Settled(d)'
  BY <1>16, <1>p DEF FinishError, Faulty, Finishes, Put
<1>17. ASSUME NEW s \in Stages, ClaimStalls(s) PROVE Settled(d)'
  BY <1>17, <1>p DEF ClaimStalls, Faulty, Claimed, Reconciles, Put
<1> QED BY <1>0, <1>1, <1>2, <1>3, <1>4, <1>5, <1>6, <1>7, <1>8, <1>9, <1>10, <1>11,
   <1>12, <1>13, <1>14, <1>15, <1>16, <1>17, RecordFrame, <1>p

\* A frozen result only changes by being applied or discarded.
LEMMA CompletedStays ==
  ASSUME TypeOK, PlaceOK, NEW d \in Stages,
         state[d] = "Completed", d \in frozen, ~(pc = "unfreeze" /\ at = d), [Next]_vars
  PROVE  \/ state'[d] = "Completed" /\ revision'[d] = revision[d]
         \/ Settled(d)'
<1> USE GraphTyped, LimitsTyped DEF Stages, TypeOK, PlaceOK, Settled, States, Working,
   Holding, Done, Broken, Resumable, recordVars, stageVars, runVars, wakeVars, tickVars,
   userVars
<1> DEFINE Kept == \/ state'[d] = "Completed" /\ revision'[d] = revision[d]
                  \/ Settled(d)'
<1>0. CASE UNCHANGED recordVars
  BY <1>0
<1>1. CASE Observe
  BY <1>1 DEF Observe, Fresh, Lost, Claimed, Reconciles, Put, Standing
<1>2. CASE Unfreeze
  BY <1>2 DEF Unfreeze, Fresh, Put
<1>3. CASE ClaimStage
  BY <1>3 DEF ClaimStage, Claims, Free, Put
<1>4. CASE Launch
  BY <1>4 DEF Launch, Put, Faulty
<1>5. CASE PutBack
  BY <1>5 DEF PutBack, Put
<1>6. ASSUME NEW s \in Stages, Finish(s) PROVE Kept
  BY <1>6 DEF Finish, Finishes, Put, Completes, Faulty
<1>7. ASSUME NEW s \in Stages, Spawn(s) PROVE Kept
  BY <1>7 DEF Spawn, Put
<1>8. ASSUME NEW s \in Stages, Resume(s) PROVE Kept
  BY <1>8 DEF Resume, Edit, Resumes, Free, Put
<1>9. ASSUME NEW s \in Stages, ClaimForeground(s) PROVE Kept
  BY <1>9 DEF ClaimForeground, Edit, Free, Put
<1>10. ASSUME NEW s \in Stages, Rework(s) PROVE Kept
  BY <1>10 DEF Rework, Edit
<1>11. ASSUME NEW s \in Stages, Discard(s) PROVE Kept
  BY <1>11 DEF Discard, Edit, Put
<1>12. ASSUME NEW s \in Stages, Apply(s) PROVE Kept
  BY <1>12 DEF Apply, Edit, Put
<1>13. ASSUME NEW s \in Stages, CancelStage(s) PROVE Kept
  BY <1>13 DEF CancelStage, Edit, Cancels, Lost, Claimed, Put
<1>14. ASSUME NEW s \in Stages, Reconcile(s) PROVE Kept
  BY <1>14 DEF Reconcile, Lost, Claimed, Reconciles, Put
<1>15. CASE CancelNext
  BY <1>15 DEF CancelNext, First, Cancels, Lost, Claimed, Put
<1>16. ASSUME NEW s \in Stages, FinishError(s) PROVE Kept
  BY <1>16 DEF FinishError, Faulty, Finishes, Put
<1>17. ASSUME NEW s \in Stages, ClaimStalls(s) PROVE Kept
  BY <1>17 DEF ClaimStalls, Faulty, Claimed, Reconciles, Put
<1> QED BY <1>0, <1>1, <1>2, <1>3, <1>4, <1>5, <1>6, <1>7, <1>8, <1>9, <1>10, <1>11,
   <1>12, <1>13, <1>14, <1>15, <1>16, <1>17, RecordFrame

\* What stands keeps standing, except under the hands of the scheduler that hands it back.
LEMMA StandsStays ==
  ASSUME TypeOK, PlaceOK, [Next]_vars, NEW d \in Stages, NEW r \in Nat,
         Stands(d, r), Settled(d) \/ ~(pc = "unfreeze" /\ at = d)
  PROVE  Stands(d, r)'
<1>1. r <= revision'[d]
  <2>1. revision[d] \in Nat /\ revision'[d] \in Nat
    BY TypeRecords DEF TypeOK
  <2>2. r <= revision[d] /\ revision[d] <= revision'[d]
    BY RevisionGrows DEF Stands
  <2> QED
    BY <2>1, <2>2
<1>2. CASE Settled(d)
  <2>1. Settled(d)'
    BY <1>2, SettledStays
  <2> QED
    BY <1>1, <2>1 DEF Stands
<1>3. CASE ~Settled(d)
  <2>1. state[d] = "Completed" /\ revision[d] = r /\ d \in frozen /\ d \notin flawed
    BY <1>3 DEF Stands
  <2>2. \/ state'[d] = "Completed" /\ revision'[d] = revision[d]
        \/ Settled(d)'
    BY <1>3, <2>1, CompletedStays
  <2>3. d \in frozen'
    BY <1>3, <2>1, FrozenFrame DEF Capture, Unfreeze
  <2>4. d \notin flawed'
    BY <2>1, FlawedFrame DEF Finish, Completes
  <2> QED
    BY <1>1, <2>1, <2>2, <2>3, <2>4 DEF Stands
<1> QED
  BY <1>2, <1>3

\* In particular what was handed forward, whatever the step.
LEMMA HeadStays ==
  ASSUME TypeOK, PlaceOK, HeadsOK, UnfreezeOK, [Next]_vars,
         NEW d \in Stages, head[d] # NoCommit, NEW r, r = head[d].rev
  PROVE  Stands(d, r)'
<1>1. Stands(d, r)
  BY DEF HeadsOK
<1>2. r \in Nat
  BY DEF TypeOK, Heads
<1>3. Settled(d) \/ ~(pc = "unfreeze" /\ at = d)
  BY DEF UnfreezeOK, Unhanded
<1> QED
  BY <1>1, <1>2, <1>3, StandsStays

\* So does the scheduler's copy of it,
LEMMA KeptStays ==
  ASSUME TypeOK, PlaceOK, KeptOK, UnfreezeOK, [Next]_vars,
         NEW d \in Stages, kept[d] # NoCommit, NEW r, r = kept[d].rev
  PROVE  Stands(d, r)'
<1>1. Stands(d, r)
  BY DEF KeptOK
<1>2. r \in Nat
  BY DEF TypeOK, Heads
<1>3. Settled(d) \/ ~(pc = "unfreeze" /\ at = d)
  BY DEF UnfreezeOK, Unhanded
<1> QED
  BY <1>1, <1>2, <1>3, StandsStays

\* and what the worktrees were made from.
LEMMA TreeStays ==
  ASSUME TypeOK, PlaceOK, TreesOK, UnfreezeOK, [Next]_vars, NEW s \in Stages,
         tree[s] # NoCommit, NEW d \in DependsOn[s], NEW r, r = tree[s].from[d].rev
  PROVE  d \in Stages /\ Stands(d, r)'
<1>1. d \in Stages
  BY GraphTyped
<1>2. Stands(d, r)
  BY DEF TreesOK
<1>3. r \in Nat
  <2>1. tree[s] \in [from : [DependsOn[s] -> Heads], second : Seconds]
    BY DEF TypeOK
  <2>2. tree[s].from[d] \in Heads
    BY <2>1
  <2> QED
    BY <2>2 DEF Heads
<1>4. Settled(d) \/ ~(pc = "unfreeze" /\ at = d)
  BY DEF UnfreezeOK, Unhanded
<1> QED
  BY <1>1, <1>2, <1>3, <1>4, StandsStays

\* The journal: it takes the scheduler's copy,
LEMMA HeadsStep ==
  ASSUME TypeOK, PlaceOK, HeadsOK, KeptOK, UnfreezeOK, [Next]_vars
  PROVE  HeadsOK'
<1> SUFFICES ASSUME NEW d \in Stages, head'[d] # NoCommit
             PROVE  Stands(d, head[d].rev)'
  BY DEF HeadsOK
<1>1. CASE head'[d] = head[d]
  <2>1. PICK r : r = head[d].rev
    OBVIOUS
  <2>2. Stands(d, r)'
    BY <1>1, <2>1, HeadStays
  <2> QED
    BY <1>1, <2>1, <2>2 DEF Stands, Settled
<1>2. CASE head'[d] = kept[d]
  <2>1. PICK r : r = kept[d].rev
    OBVIOUS
  <2>2. Stands(d, r)'
    BY <1>2, <2>1, KeptStays
  <2> QED
    BY <1>2, <2>1, <2>2 DEF Stands, Settled
<1> QED
  BY <1>1, <1>2, HeadFrame DEF Publish, runVars

\* the copy: it takes the journal's and the snapshot just made,
LEMMA KeptStep ==
  ASSUME TypeOK, PlaceOK, HeadsOK, KeptOK, SeenOK, SnapshotOK, UnfreezeOK, [Next]_vars
  PROVE  KeptOK'
<1> SUFFICES ASSUME NEW d \in Stages, kept'[d] # NoCommit
             PROVE  Stands(d, kept[d].rev)'
  BY DEF KeptOK
<1>1. CASE kept'[d] = head[d]
  <2>1. PICK r : r = head[d].rev
    OBVIOUS
  <2>2. Stands(d, r)'
    BY <1>1, <2>1, HeadStays
  <2> QED
    BY <1>1, <2>1, <2>2 DEF Stands, Settled
<1>2. CASE kept'[d] = kept[d]
  <2>1. PICK r : r = kept[d].rev
    OBVIOUS
  <2>2. Stands(d, r)'
    BY <1>2, <2>1, KeptStays
  <2> QED
    BY <1>2, <2>1, <2>2 DEF Stands, Settled
<1>3. CASE Snapshot /\ d = at /\ d \notin flawed /\ kept'[d].rev = seen[d].rev
  <2>1. PICK r : r = seen[d].rev
    OBVIOUS
  <2>2. r \in Nat /\ r <= revision[d]
    BY <2>1 DEF TypeOK, SeenOK
  <2>3. Stands(d, r)
    BY <1>3, <2>1, <2>2 DEF Snapshot, SnapshotOK, Stands
  <2>4. Stands(d, r)'
    BY <1>3, <2>2, <2>3, StandsStays DEF Snapshot
  <2> QED
    BY <1>3, <2>1, <2>4 DEF Stands, Settled
<1>4. CASE Snapshot
  <2>1. CASE kept' = kept
    BY <1>2, <2>1
  <2>2. ASSUME NEW t \in Seconds, at \notin flawed,
               kept' = [kept EXCEPT ![at] = [rev |-> seen[at].rev, second |-> t]]
        PROVE  Stands(d, kept[d].rev)'
    <3>1. CASE d = at
      <4>1. kept'[d] = [rev |-> seen[d].rev, second |-> t]
        BY <2>2, <3>1 DEF TypeOK
      <4> QED
        BY <1>3, <1>4, <2>2, <3>1, <4>1
    <3>2. CASE d # at
      BY <1>2, <2>2, <3>2 DEF TypeOK
    <3> QED
      BY <3>1, <3>2
  <2> QED
    BY <1>4, <2>1, <2>2 DEF Snapshot
<1>5. CASE Observe
  BY <1>2, <1>5 DEF Observe
<1> QED
  BY <1>1, <1>2, <1>4, <1>5, KeptFrame
  DEF Reload, Release, Publish, SchedulerDies, Forget

\* and the worktrees: a stage is prepared from snapshots that are there.
LEMMA TreesStep ==
  ASSUME TypeOK, PlaceOK, KeptOK, TreesOK, UnfreezeOK, [Next]_vars
  PROVE  TreesOK'
<1> SUFFICES ASSUME NEW s \in Stages, tree'[s] # NoCommit, NEW d \in DependsOn[s]
             PROVE  Stands(d, tree[s].from[d].rev)'
  BY DEF TreesOK
<1>1. CASE tree'[s] = tree[s]
  <2>1. PICK r : r = tree[s].from[d].rev
    OBVIOUS
  <2>2. Stands(d, r)'
    BY <1>1, <2>1, TreeStays
  <2> QED
    BY <1>1, <2>1, <2>2 DEF Stands, Settled
<1>2. ASSUME Prepare, s = at, NEW t, tree'[s] = Base(s, t)
      PROVE  Stands(d, tree[s].from[d].rev)'
  <2>1. d \in Stages /\ kept[d] # NoCommit
    BY <1>2, GraphTyped DEF Prepare, PlaceOK, Available
  <2>2. PICK r : r = kept[d].rev
    OBVIOUS
  <2>3. Stands(d, r)'
    BY <2>1, <2>2, KeptStays
  <2>4. tree'[s].from[d] = kept[d]
    BY <1>2 DEF Base
  <2> QED
    BY <2>2, <2>3, <2>4 DEF Stands, Settled
<1>3. CASE Prepare
  <2>1. CASE tree' = tree
    BY <1>1, <2>1
  <2>2. ASSUME NEW t, tree' = [tree EXCEPT ![at] = IF @ = NoCommit THEN Base(at, t) ELSE @]
        PROVE  Stands(d, tree[s].from[d].rev)'
    <3>1. CASE s = at /\ tree[s] = NoCommit
      <4>1. tree'[s] = Base(s, t)
        BY <2>2, <3>1 DEF TypeOK
      <4> QED
        BY <1>2, <1>3, <3>1, <4>1
    <3>2. CASE ~(s = at /\ tree[s] = NoCommit)
      <4>1. tree'[s] = tree[s]
        BY <2>2, <3>2 DEF TypeOK
      <4> QED
        BY <1>1, <4>1
    <3> QED
      BY <3>1, <3>2
  <2> QED
    BY <1>3, <2>1, <2>2, Zenon DEF Prepare
<1> QED
  BY <1>1, <1>3, TreeFrame

---------------------------------------------------------------------------
(* What a tick knows.                                                      *)

\* A record as it was read is not newer than the record.
LEMMA SeenStep ==
  ASSUME TypeOK, PlaceOK, SeenOK, [Next]_vars
  PROVE  SeenOK'
<1> SUFFICES ASSUME NEW d \in Stages
             PROVE  seen'[d].rev <= revision'[d]
  BY DEF SeenOK
<1>1. revision[d] \in Nat /\ revision'[d] \in Nat /\ seen[d].rev \in Nat
  BY TypeRecords DEF TypeOK
<1>2. CASE seen'[d] = seen[d]
  BY <1>1, <1>2, RevisionGrows DEF SeenOK
<1>3. CASE seen'[d].rev = revision'[d]
  BY <1>1, <1>3
<1>4. CASE seen' = Unread
  BY <1>1, <1>4 DEF Unread
<1>5. CASE seen' = [seen EXCEPT ![at] = Fresh(at)]
  <2>1. CASE d = at
    BY <1>3, <1>5, <2>1 DEF TypeOK, Fresh
  <2>2. CASE d # at
    BY <1>2, <1>5, <2>2 DEF TypeOK
  <2> QED
    BY <2>1, <2>2
<1> QED
  BY <1>2, <1>4, <1>5, SeenFrame
  DEF Observe, Unfreeze, Release, Reread, Publish, SchedulerDies, Forget

\* What was read of a stage is no older than what was handed forward of it.
Covered(d) ==
    /\ head[d] # NoCommit => head[d].rev <= seen[d].rev
    /\ \A s \in Stages : d \in DependsOn[s] /\ tree[s] # NoCommit
                           => tree[s].from[d].rev <= seen[d].rev

\* A record that was just read covers it,
LEMMA FreshCovers ==
  ASSUME TypeOK, PlaceOK, HeadsOK, TreesOK, [Next]_vars, NEW d \in Stages,
         UNCHANGED <<head, tree>>, seen'[d].rev = revision'[d]
  PROVE  Covered(d)'
<1>1. revision[d] \in Nat /\ revision'[d] \in Nat /\ revision[d] <= revision'[d]
  BY TypeRecords, RevisionGrows DEF TypeOK
<1>2. head[d] # NoCommit => head[d].rev <= revision'[d]
  BY <1>1 DEF HeadsOK, Stands, TypeOK, Heads
<1>3. ASSUME NEW s \in Stages, d \in DependsOn[s], tree[s] # NoCommit
      PROVE  tree[s].from[d].rev <= revision'[d]
  <2>1. tree[s] \in [from : [DependsOn[s] -> Heads], second : Seconds]
    BY <1>3 DEF TypeOK
  <2>2. tree[s].from[d] \in Heads
    BY <1>3, <2>1
  <2>3. tree[s].from[d].rev \in Nat
    BY <2>2 DEF Heads
  <2>4. tree[s].from[d].rev <= revision[d]
    BY <1>3 DEF TreesOK, Stands
  <2> QED
    BY <1>1, <2>3, <2>4
<1> QED
  BY <1>2, <1>3 DEF Covered

\* and it stays covered while neither changes.
LEMMA CoveredStays ==
  ASSUME NEW d \in Stages, Covered(d), UNCHANGED <<head, tree>>, seen'[d] = seen[d]
  PROVE  Covered(d)'
BY DEF Covered

\* What a tick has read covers what was handed forward.
LEMMA ReadStep ==
  ASSUME TypeOK, PlaceOK, HeadsOK, TreesOK, ReadOK, [Next]_vars
  PROVE  ReadOK'
<1> DEFINE Read(d) == \/ pc \in {"capture", "snapshot", "unfreeze"}
                      \/ pc = "observe" /\ d < at
<1> SUFFICES ASSUME NEW d \in Stages, Read(d)'
             PROVE  Covered(d)'
  BY Zenon DEF ReadOK, Covered
<1>1. Read(d) => Covered(d)
  BY Zenon DEF ReadOK, Covered
<1> HIDE DEF Read
<1>2. CASE Read(d) /\ UNCHANGED <<head, tree>> /\ seen'[d] = seen[d]
  BY <1>1, <1>2, CoveredStays
<1>3. CASE UNCHANGED <<pc, at>>
  <2>1. Read(d)
    BY <1>3 DEF Read
  <2>2. pc \in {"capture", "snapshot", "unfreeze", "observe"}
    BY <2>1 DEF Read
  <2>3. UNCHANGED <<head, tree>>
    BY <2>2, HeadFrame, TreeFrame DEF Publish, Prepare
  <2>4. ~Observe /\ ~Unfreeze
    BY <1>3, GraphTyped DEF Observe, Unfreeze, Goto, Stages, TypeOK
  <2>5. ~Release /\ ~Reread /\ ~Publish /\ ~SchedulerDies
    BY <1>3, <2>2 DEF Release, Reread, Publish, SchedulerDies
  <2>6. seen' = seen
    BY <2>4, <2>5, SeenFrame
  <2> QED
    BY <1>2, <2>1, <2>3, <2>6
<1>4. CASE Observe
  <2>1. UNCHANGED <<head, tree>> /\ at \in Stages /\ pc = "observe"
    BY <1>4 DEF Observe, stageVars, runVars, PlaceOK
  <2>2. CASE d = at
    <3>1. seen'[d].rev = revision'[d]
      BY <1>4, <2>2 DEF Observe, TypeOK, Fresh
    <3> QED
      BY <2>1, <3>1, FreshCovers
  <2>3. CASE d # at
    <3>1. d < at
      <4>1. d \in 1..N /\ at \in 1..N /\ N \in Nat
        BY <2>1, GraphTyped DEF Stages
      <4>2. CASE at < N
        <5>1. pc' = "observe" /\ at' = at + 1
          BY <1>4, <4>2 DEF Observe, Goto
        <5>2. d < at + 1
          BY <5>1 DEF Read
        <5> QED
          BY <2>3, <4>1, <5>2
      <4>3. CASE ~(at < N)
        BY <2>3, <4>1, <4>3
      <4> QED
        BY <4>2, <4>3
    <3>2. seen'[d] = seen[d]
      BY <1>4, <2>3 DEF Observe, TypeOK
    <3> QED
      BY <1>2, <2>1, <3>1, <3>2 DEF Read
  <2> QED
    BY <2>2, <2>3
<1>5. CASE Capture \/ Snapshot
  <2>1. UNCHANGED <<head, tree, seen>> /\ pc \in {"capture", "snapshot"}
    BY <1>5 DEF Capture, Snapshot, stageVars, runVars
  <2> QED
    BY <1>2, <2>1 DEF Read
<1>6. CASE Unfreeze
  <2>1. UNCHANGED <<head, tree>> /\ pc = "unfreeze"
    BY <1>6 DEF Unfreeze, runVars
  <2>2. CASE d = at
    <3>1. seen'[d].rev = revision'[d]
      BY <1>6, <2>2 DEF Unfreeze, TypeOK, Fresh
    <3> QED
      BY <2>1, <3>1, FreshCovers
  <2>3. CASE d # at
    <3>1. seen'[d] = seen[d]
      BY <1>6, <2>3 DEF Unfreeze, TypeOK
    <3> QED
      BY <1>2, <2>1, <3>1 DEF Read
  <2> QED
    BY <2>2, <2>3
<1>7. CASE Reload
  <2>1. pc' = "leave" \/ (pc' = "observe" /\ at' = 1)
    BY <1>7 DEF Reload, Goto
  <2>2. ~(d < 1)
    BY GraphTyped DEF Stages
  <2> QED
    BY <2>1, <2>2 DEF Read
<1>8. ASSUME pc' \notin {"capture", "snapshot", "unfreeze", "observe"} PROVE FALSE
  BY <1>8 DEF Read
<1>9. CASE TryLock
  BY <1>3, <1>8, <1>9 DEF TryLock, tickVars
<1>10. CASE SchedulerDies \/ Release \/ Prepare \/ ClaimStage \/ Launch \/ PutBack
            \/ Reread \/ Publish \/ Leave
  <2>1. pc' \in {"off", "top", "reread", "prepare", "claim", "refused", "launch",
                 "release", "publish", "leave"}
    BY <1>10
    DEF SchedulerDies, Release, Prepare, ClaimStage, Launch, PutBack, Reread, Publish,
        Leave, Goto
  <2> QED
    BY <1>8, <2>1
<1> QED
  BY <1>3, <1>4, <1>5, <1>6, <1>7, <1>9, <1>10, PlaceFrame

\* While a result is captured it is the one that was read.
LEMMA SnapshotStep ==
  ASSUME TypeOK, PlaceOK, SnapshotOK, [Next]_vars
  PROVE  SnapshotOK'
<1> SUFFICES ASSUME pc' = "snapshot"
             PROVE  /\ at' \in frozen'
                    /\ Settled(at)' \/ (/\ state'[at'] = "Completed"
                                        /\ revision'[at'] = seen'[at'].rev)
  BY DEF SnapshotOK
<1>1. CASE UNCHANGED <<pc, at>>
  <2>1. at \in Stages /\ at \in frozen /\ pc = "snapshot"
    BY <1>1 DEF PlaceOK, SnapshotOK
  <2>2. at \in frozen'
    BY <2>1, FrozenFrame DEF Capture, Unfreeze
  <2>3. UNCHANGED seen
    BY <1>1, <2>1, SeenFrame
    DEF Observe, Unfreeze, Release, Reread, Publish, SchedulerDies
  <2>4. PICK d \in Stages : d = at
    BY <2>1
  <2>5. CASE Settled(d)
    <3>1. Settled(d)'
      BY <2>5, SettledStays
    <3> QED
      BY <1>1, <2>2, <2>4, <3>1 DEF Settled
  <2>6. CASE state[d] = "Completed" /\ revision[d] = seen[d].rev
    <3>1. \/ state'[d] = "Completed" /\ revision'[d] = revision[d]
          \/ Settled(d)'
      BY <2>1, <2>4, <2>6, CompletedStays
    <3> QED
      BY <1>1, <2>2, <2>3, <2>4, <2>6, <3>1 DEF Settled
  <2> QED
    BY <2>1, <2>4, <2>5, <2>6 DEF SnapshotOK, Settled
<1>2. CASE Capture
  <2>1. PICK s \in Stages : Freezable(s) /\ at' = s /\ frozen' = frozen \cup {s}
    BY <1>2, Zenon DEF Capture, Goto
  <2> QED
    BY <1>2, <2>1 DEF Capture, recordVars, Freezable, Done, Settled
<1>3. CASE ~Capture /\ ~UNCHANGED <<pc, at>>
  BY <1>3, PlaceFrame
  DEF TryLock, SchedulerDies, Reload, Observe, Snapshot, Unfreeze, Release, Prepare,
      ClaimStage, Launch, PutBack, Reread, Publish, Leave, Goto, tickVars
<1> QED
  BY <1>1, <1>2, <1>3

\* A stage is handed back only if nothing was started from it, or nothing can run it.
LEMMA UnfreezeStep ==
  ASSUME TypeOK, PlaceOK, HeadsOK, KeptOK, TreesOK, SeenOK, ReadOK, SnapshotOK,
         UnfreezeOK, [Next]_vars
  PROVE  UnfreezeOK'
<1> SUFFICES ASSUME pc' = "unfreeze"
             PROVE  Settled(at)' \/ Unhanded(at)'
  BY DEF UnfreezeOK
<1>1. CASE UNCHANGED <<pc, at>>
  <2>1. at \in Stages /\ pc = "unfreeze"
    BY <1>1 DEF PlaceOK
  <2>2. PICK d \in Stages : d = at
    BY <2>1
  <2>3. UNCHANGED <<head, kept, tree>>
    BY <1>1, <2>1, HeadFrame, KeptFrame, TreeFrame
    DEF Publish, Reload, Observe, Snapshot, Release, SchedulerDies, Prepare
  <2>4. CASE Settled(d)
    <3>1. Settled(d)'
      BY <2>4, SettledStays
    <3> QED
      BY <1>1, <2>2, <3>1 DEF Settled
  <2>5. CASE Unhanded(d)
    BY <1>1, <2>2, <2>3, <2>5 DEF Unhanded
  <2> QED
    BY <2>1, <2>2, <2>4, <2>5 DEF UnfreezeOK, Settled, Unhanded
<1>2. ASSUME NEW s \in Stages, at' = s, kept[s] = NoCommit,
             UNCHANGED <<recordVars, partial, head, kept, tree>>,
             \A r \in Nat : Stands(s, r) => Settled(s) \/ r > seen[s].rev, Covered(s)
      PROVE  Settled(at)' \/ Unhanded(at)'
  <2>1. seen[s].rev \in Nat
    BY DEF TypeOK
  <2>2. CASE Settled(s)
    BY <1>2, <2>2 DEF Settled, recordVars
  <2>3. CASE ~Settled(s)
    <3>1. head[s] = NoCommit
      <4>1. SUFFICES ASSUME head[s] # NoCommit PROVE FALSE
        OBVIOUS
      <4>2. head[s].rev \in Nat /\ Stands(s, head[s].rev)
        BY <4>1 DEF TypeOK, Heads, HeadsOK
      <4> QED
        BY <1>2, <2>1, <2>3, <4>1, <4>2 DEF Covered
    <3>2. ASSUME NEW t \in Stages, s \in DependsOn[t], tree[t] # NoCommit PROVE FALSE
      <4>1. tree[t] \in [from : [DependsOn[t] -> Heads], second : Seconds]
        BY <3>2 DEF TypeOK
      <4>2. tree[t].from[s] \in Heads
        BY <3>2, <4>1
      <4>3. tree[t].from[s].rev \in Nat /\ Stands(s, tree[t].from[s].rev)
        BY <3>2, <4>2 DEF Heads, TreesOK
      <4> QED
        BY <1>2, <2>1, <2>3, <3>2, <4>3 DEF Covered
    <3> QED
      BY <1>2, <3>1, <3>2 DEF Unhanded
  <2> QED
    BY <2>2, <2>3
<1>3. CASE Capture
  <2>1. PICK s \in Stages : First(s, Wanted) /\ ~Freezable(s) /\ at' = s
    BY <1>3, Zenon DEF Capture, Goto
  <2>2. kept[s] = NoCommit
    BY <2>1 DEF First, Wanted
  <2>3. Covered(s)
    BY <1>3 DEF Capture, ReadOK, Covered
  <2>4. ASSUME NEW r \in Nat, Stands(s, r), ~Settled(s) PROVE r > seen[s].rev
    <3>1. seen[s].rev \in Nat /\ revision[s] \in Nat /\ seen[s].rev <= revision[s]
      BY DEF TypeOK, SeenOK
    <3>2. state[s] = "Completed" /\ revision[s] = r
      BY <2>4 DEF Stands
    <3>3. revision[s] # seen[s].rev
      BY <2>1, <3>2 DEF Freezable, Done
    <3> QED
      BY <3>1, <3>2, <3>3
  <2>5. UNCHANGED <<recordVars, partial, head, kept, tree>>
    BY <1>3 DEF Capture, runVars
  <2>6. \A r \in Nat : Stands(s, r) => Settled(s) \/ r > seen[s].rev
    BY <2>4
  <2> QED
    BY <1>2, <2>1, <2>2, <2>3, <2>5, <2>6
<1>4. CASE Snapshot
  <2>1. at \in Stages
    BY <1>4 DEF Snapshot, PlaceOK
  <2>2. PICK s \in Stages : s = at
    BY <2>1
  <2>3. UNCHANGED <<recordVars, partial, head, kept, tree>> /\ at' = s
        /\ (state[s] = "Discarded" \/ s \in flawed)
    BY <1>4, <2>2 DEF Snapshot, Goto, runVars, stageVars
  <2>4. \A r \in Nat : Stands(s, r) => Settled(s)
    BY <2>3 DEF Stands, Settled
  <2>5. CASE kept[s] = NoCommit
    <3>1. Covered(s)
      BY <1>4 DEF Snapshot, ReadOK, Covered
    <3> QED
      BY <1>2, <2>3, <2>4, <2>5, <3>1
  <2>6. CASE kept[s] # NoCommit
    <3>1. kept[s].rev \in Nat /\ Stands(s, kept[s].rev)
      BY <2>6 DEF TypeOK, Heads, KeptOK
    <3>2. Settled(s)
      BY <2>4, <3>1
    <3> QED
      BY <2>3, <3>2 DEF Settled, recordVars
  <2> QED
    BY <2>5, <2>6
<1>5. CASE ~Capture /\ ~Snapshot /\ ~UNCHANGED <<pc, at>>
  BY <1>5, PlaceFrame
  DEF TryLock, SchedulerDies, Reload, Observe, Unfreeze, Release, Prepare,
      ClaimStage, Launch, PutBack, Reread, Publish, Leave, Goto, tickVars
<1> QED
  BY <1>1, <1>3, <1>4, <1>5

---------------------------------------------------------------------------
(* The theorems.                                                           *)

\* Every step keeps the types.
LEMMA TypeStep ==
  ASSUME TypeOK, PlaceOK, [Next]_vars
  PROVE  TypeOK'
BY TypeRecords, TypeFrozen, TypeFlawed, TypeTree, TypeHead, TypeKept, TypeSeen, TypePlace,
   TypeSaved, TypePartial, TypeWakers, TypeStopping, TypeWorker, TypeRun, TypeSpawned,
   TypeActive, TypeEdits, TypeFaults, Zenon
DEF TypeOK

\* A run starts with every stage queued and nothing handed forward.
LEMMA InitHolds == Init => IInv
<1> SUFFICES ASSUME Init PROVE IInv
  OBVIOUS
<1>1. TypeOK
  BY GraphTyped, LimitsTyped
  DEF Init, TypeOK, Unread, States, Heads, Pcs, Stages
<1>2. PlaceOK /\ ReadOK /\ SnapshotOK /\ UnfreezeOK
  BY DEF Init, PlaceOK, ReadOK, SnapshotOK, UnfreezeOK
<1>3. HeadsOK /\ KeptOK /\ TreesOK
  BY DEF Init, HeadsOK, KeptOK, TreesOK
<1>4. SeenOK
  BY DEF Init, SeenOK, Unread
<1>5. SlotsKept
  <2>1. {s \in Stages : state[s] \in Working} = {}
    BY DEF Init, Working
  <2> QED
    BY <2>1, FS_EmptySet, LimitsTyped DEF SlotsKept
<1> QED
  BY <1>1, <1>2, <1>3, <1>4, <1>5 DEF IInv

\* Every reachable state satisfies the inductive invariant: snapshots stand, slots are
\* bounded and the scheduler knows what it needs at every step of its tick.
THEOREM Invariance == Spec => []IInv
<1>1. IInv /\ [Next]_vars => IInv'
  BY Zenon, TypeStep, PlaceStep, SlotsStep, HeadsStep, KeptStep, TreesStep, SeenStep,
     ReadStep, SnapshotStep, UnfreezeStep
  DEF IInv
<1> QED
  BY <1>1, InitHolds, PTL DEF Spec

\* The records, the journal and the scheduler's place keep their types.
THEOREM TypeCorrect == Spec => [](TypeOK /\ PlaceOK)
<1>1. IInv => TypeOK /\ PlaceOK
  BY DEF IInv
<1> QED
  BY <1>1, Invariance, PTL

\* However the scheduler, resumes and foreground claims interleave, no more than
\* max_parallel stages are starting or running (claim_slot, workflows.rs).
THEOREM SlotsBounded == Spec => []SlotsKept
<1>1. IInv => SlotsKept
  BY DEF IInv
<1> QED
  BY <1>1, Invariance, PTL

\* What a stage was started from stands: a captured result is never replaced under the
\* stages that build on it (workflow_frozen, scheduler.rs and background.rs).
THEOREM DependencyStands == Spec => []DependenciesStand
<1>1. IInv => DependenciesStand
  BY DEF IInv, TreesOK, Stands, Settled, DependenciesStand
<1> QED
  BY <1>1, Invariance, PTL

\* Once the journal says Cancelled no stage starts, whoever was about to start one.
THEOREM CancellationStands == Spec => CancelledStartsNothing
<1>1. TypeOK /\ PlaceOK /\ [Next]_vars
        => [runState = "Cancelled" =>
              \A s \in Stages : state'[s] \in Working => state[s] \in Working]_vars
  BY Starts DEF Free
<1> QED
  BY <1>1, TypeCorrect, PTL DEF Spec, CancelledStartsNothing

=============================================================================
