------------------------ MODULE TaskLifecycleProofs ------------------------
(***************************************************************************)
(* For any number of workers and clients: the types, one executor under    *)
(* one checkpoint, revisions that name outcomes, applied tasks that never  *)
(* run, and final outcomes that only commands replace.                     *)
(***************************************************************************)
EXTENDS TaskLifecycle, TLAPS

-----------------------------------------------------------------------------
(* What the operators on records return. *)

\* Saving a changed record keeps its fields and never lowers its revision.
LEMMA Saved ==
    ASSUME record \in Record, named.rev \in 0..record.rev,
           NEW r \in Record, r.rev = record.rev, Save(r)
    PROVE  /\ record' \in Record
           /\ record'.state = r.state /\ record'.result = r.result
           /\ record'.native = r.native /\ record'.pid = r.pid
           /\ Result(record') = Result(r)
           /\ named'.rev \in 0..record'.rev
<1>1. r.rev \in Nat /\ NextRevision(r) \in {r.rev, r.rev + 1}
  BY DEF Record, NextRevision
<1> DEFINE stored == [r EXCEPT !.rev = NextRevision(r)]
<1>2. /\ stored \in Record
      /\ stored.state = r.state /\ stored.result = r.result
      /\ stored.native = r.native /\ stored.pid = r.pid
      /\ stored.rev = NextRevision(r)
  BY <1>1 DEF Record
<1>3. record' = stored
  BY DEF Save
<1>4. named'.rev = stored.rev \/ named' = named
  BY DEF Save
<1>5. Result(stored) = Result(r)
  BY <1>2 DEF Result
<1>6. named'.rev \in 0..stored.rev
  BY <1>1, <1>2, <1>4
<1> QED
  BY <1>2, <1>3, <1>5, <1>6

\* The first outcome saved under a revision is the only one.
LEMMA SavedNames ==
    ASSUME record \in Record, named.rev \in 0..record.rev, RevisionNamesOutcome,
           NEW r \in Record, r.rev = record.rev, Save(r)
    PROVE  RevisionNamesOutcome'
<1> DEFINE stored == [r EXCEPT !.rev = NextRevision(r)]
<1>1. record' = stored /\ Result(stored) = Result(r) /\ stored.state = r.state
      /\ stored.rev = NextRevision(r)
  BY DEF Save, Result, Record
<1> SUFFICES ASSUME Settled(r.state)
             PROVE  named' = [rev |-> stored.rev, as |-> Result(stored)]
  BY <1>1 DEF RevisionNamesOutcome, Result
<1>2. CASE Result(r) # Result(record)
  <2>1. stored.rev = r.rev + 1
    BY <1>1, <1>2 DEF NextRevision
  <2>2. stored.rev > named.rev
    BY <2>1 DEF Record
  <2> QED
    BY <2>2, <1>1 DEF Save
<1>3. CASE Result(r) = Result(record)
  <2>1. stored.rev = record.rev /\ record.state = r.state
    BY <1>1, <1>3 DEF NextRevision, Result
  <2>2. named = [rev |-> record.rev, as |-> Result(record)]
    BY <2>1 DEF RevisionNamesOutcome
  <2>3. named' = named
    <3>1. ~(stored.rev > named.rev)
      BY <2>1, <2>2 DEF Record
    <3> QED
      BY <3>1 DEF Save
  <2> QED
    BY <2>1, <2>2, <2>3, <1>1, <1>3
<1> QED
  BY <1>2, <1>3

LEMMA FinishedType ==
    ASSUME NEW r \in Record, NEW state, NEW verdict \in States
    PROVE  /\ Finished(r, state, verdict) \in Record
           /\ Finished(r, state, verdict).rev = r.rev
           /\ Finished(r, state, verdict).native = r.native
BY NoneApart DEF Finished, Record

LEMMA ReconciledType ==
    ASSUME NEW r \in Record
    PROVE  /\ Reconciled(r) \in Record
           /\ Reconciled(r).rev = r.rev
           /\ Reconciled(r).native = r.native
BY DEF Reconciled, Record, States, Resumable, Active, Final

LEMMA AttachedType ==
    ASSUME NEW r \in Record, NEW w \in Workers, NEW n \in Workers
    PROVE  /\ Attached(r, w, n) \in Record
           /\ Attached(r, w, n).rev = r.rev
           /\ Attached(r, w, n).native = n
BY DEF Attached, Record, States, Active

LEMMA WithChildType ==
    ASSUME NEW r \in Record, NEW w \in Workers
    PROVE  /\ WithChild(r, w) \in Record
           /\ WithChild(r, w).rev = r.rev
           /\ WithChild(r, w).native = r.native
BY DEF WithChild, Record, States, Active

\* Every step that saves, saves a record with the revision and the checkpoint it read,
\* except that an attachment may link a checkpoint where none was.
Keeps(r) == r \in Record /\ r.rev = record.rev
            /\ (record.native # None => r.native = record.native)

LEMMA ChangedKeeps ==
    ASSUME record \in Record, NEW state \in States,
           NEW result \in {"none", "finished", "cancelled", "lost", "rework", "uncertain"},
           NEW pid \in Workers \cup {None}
    PROVE  /\ Keeps([record EXCEPT !.state = state, !.result = result, !.pid = pid])
           /\ Keeps([record EXCEPT !.state = state, !.result = result])
           /\ Keeps([record EXCEPT !.state = state])
           /\ Keeps([record EXCEPT !.pid = pid])
           /\ Keeps(record)
BY DEF Keeps, Record

LEMMA WhatIsSaved ==
    ASSUME TypeOK, Next
    PROVE  UNCHANGED recordVars \/ \E r : Keeps(r) /\ Save(r)
<1>s. /\ {"Starting", "Running", "Waiting", "Interrupted", "Failed", "Cancelled",
          "Discarded", "Applied"} \subseteq States
  BY DEF States, Active, Resumable, Final
<1>r. record \in Record /\ record.state \in States /\ record.pid \in Workers \cup {None}
      /\ record.native \in Workers \cup {None}
  BY DEF TypeOK, Record
<1>1. ASSUME NEW c \in Clients, ClientStep(c)
      PROVE  UNCHANGED recordVars \/ \E r : Keeps(r) /\ Save(r)
  <2>1. CASE Look(c) \/ Resume(c) \/ ClientDies(c) \/ CancelTerm(c)
             \/ \E w \in Workers : Spawn(c, w)
    BY <2>1 DEF Look, Resume, ClientDies, CancelTerm, Spawn, recordVars
  <2>2. CASE Reconcile(c)
    BY <1>r, <2>2, ReconciledType DEF Reconcile, Keeps
  <2>3. CASE Claim(c)
    <3>1. Keeps([record EXCEPT !.state = "Starting", !.result = "none", !.pid = None])
      BY <1>r, ChangedKeeps, <1>s
    <3> QED
      BY <2>3, <3>1 DEF Claim, recordVars
  <2>4. CASE SpawnFails(c)
    BY <1>r, <2>4, FinishedType, <1>s DEF SpawnFails, Keeps
  <2>5. CASE RecordChild(c)
    <3>1. child[c] \in Workers
      BY <2>5 DEF RecordChild, WithChildPlaces, TypeOK
    <3> QED
      BY <1>r, <2>5, <3>1, WithChildType DEF RecordChild, Keeps
  <2>6. CASE CancelRequest(c)
    <3> DEFINE known == record.pid # None /\ (record.state # "Waiting" \/ Live(record.pid))
               target == IF known THEN record.pid ELSE None
    <3>1. target \in Workers \cup {None}
      BY <1>r
    <3>2. Keeps([record EXCEPT !.state = "Cancelled", !.result = "cancelled", !.pid = target])
      BY <3>1, <1>r, ChangedKeeps, <1>s
    <3> QED
      BY <2>6, <3>2 DEF CancelRequest
  <2>7. CASE CancelClear(c)
    <3>1. Keeps([record EXCEPT !.pid = None])
      BY <1>r, ChangedKeeps, <1>s
    <3> QED
      BY <2>7, <3>1 DEF CancelClear, recordVars
  <2> QED
    BY <1>1, <2>1, <2>2, <2>3, <2>4, <2>5, <2>6, <2>7 DEF ClientStep
<1>2. ASSUME NEW w \in Workers, WorkerStep(w) \/ Die(w)
      PROVE  UNCHANGED recordVars \/ \E r : Keeps(r) /\ Save(r)
  <2>1. CASE Request(w) \/ Load(w) \/ Acquire(w) \/ Execute(w) \/ EndTurn(w) \/ Die(w)
    BY <2>1 DEF Request, Load, Acquire, Execute, EndTurn, Die, recordVars
  <2>2. CASE Link(w)
    <3>1. CASE Attachable(record, w)
      <4>1. Keeps(Attached(record, w, w))
        BY <1>r, <3>1, AttachedType DEF Attachable, Keeps
      <4> QED
        BY <2>2, <3>1, <4>1 DEF Link
    <3>2. CASE ~Attachable(record, w)
      BY <2>2, <3>2 DEF Link
    <3> QED
      BY <3>1, <3>2
  <2>3. CASE Persist(w)
    <3>1. job[w] \in Workers
      BY <2>3 DEF Persist, Holding, TypeOK
    <3>2. CASE Attachable(record, job[w])
      <4>1. Keeps(Attached(record, w, job[w]))
        BY <1>r, <3>1, <3>2, AttachedType DEF Attachable, Keeps
      <4> QED
        BY <2>3, <3>2, <4>1 DEF Persist
    <3>3. CASE ~Attachable(record, job[w])
      BY <2>3, <3>3 DEF Persist
    <3> QED
      BY <3>2, <3>3
  <2>4. CASE FinishNative(w)
    <3>1. \A verdict \in Verdicts(outcome[w]) : verdict \in States
      <4>1. outcome[w] # "none"
        BY <2>4 DEF FinishNative, TypeOK
      <4>2. outcome[w] \in States
        BY <4>1 DEF TypeOK, States, Active, Resumable, Final
      <4> QED
        BY <4>2 DEF Verdicts, States, Active, Resumable, Final
    <3> QED
      BY <1>r, <2>4, <3>1, FinishedType DEF FinishNative, Keeps, recordVars
  <2>5. CASE FinishError(w)
    BY <1>r, <2>5, FinishedType, <1>s DEF FinishError, Keeps
  <2> QED
    BY <1>2, <2>1, <2>2, <2>3, <2>4, <2>5 DEF WorkerStep
<1>3. CASE Rework
  <2>1. Keeps([record EXCEPT !.state = "Interrupted", !.result = "rework"])
    BY <1>r, ChangedKeeps, <1>s
  <2> QED
    BY <1>3, <2>1 DEF Rework
<1>4. CASE Discard
  <2>1. Keeps([record EXCEPT !.state = "Discarded"])
    BY <1>r, ChangedKeeps, <1>s
  <2> QED
    BY <1>4, <2>1 DEF Discard
<1>5. CASE Apply
  <2>1. /\ Keeps([record EXCEPT !.state = "Applied"])
        /\ Keeps(record)
        /\ Keeps([record EXCEPT !.state = "Failed", !.result = "uncertain"])
    BY <1>r, ChangedKeeps, <1>s
  <2> QED
    BY <1>5, <2>1 DEF Apply
<1> QED
  BY <1>1, <1>2, <1>3, <1>4, <1>5 DEF Next

-----------------------------------------------------------------------------
(* Types. *)

\* The conjuncts of TypeOK that are not about the record.
RestOK ==
    /\ partial \in BOOLEAN /\ steered \in BOOLEAN
    /\ journal \in [Workers -> {"none", "active", "completed", "waiting", "stopped"}]
    /\ lock \in [Workers -> Workers \cup {None}]
    /\ worker \in [Workers -> Places]
    /\ job \in [Workers -> Workers \cup {None}]
    /\ outcome \in [Workers -> {"none", "Completed", "Waiting", "Interrupted", "Failed",
                                "Cancelled"}]
    /\ signalled \subseteq Workers
    /\ client \in [Clients -> {"idle", "reconciling", "resuming", "claimed"} \cup
                              WithChildPlaces]
    /\ child \in [Clients -> Workers \cup {None}]
    /\ executed \subseteq Workers
    /\ \A c \in Clients : child[c] # None <=> client[c] \in WithChildPlaces
    /\ \A w \in Workers :
           /\ worker[w] \in Holding \cup {"finishing"} => job[w] \in Workers
           /\ worker[w] = "finishing" => outcome[w] # "none"

LEMMA RecordStep ==
    ASSUME TypeOK, Next
    PROVE  /\ record' \in Record
           /\ named'.rev \in 0..record'.rev
           /\ record.native # None => record'.native = record.native
<1>1. record \in Record /\ named.rev \in 0..record.rev
  BY DEF TypeOK
<1>2. CASE UNCHANGED recordVars
  BY <1>1, <1>2 DEF recordVars
<1>3. ASSUME NEW r, Keeps(r), Save(r)
      PROVE  /\ record' \in Record
             /\ named'.rev \in 0..record'.rev
             /\ record.native # None => record'.native = record.native
  BY <1>1, <1>3, Saved DEF Keeps
<1> QED
  BY <1>2, <1>3, WhatIsSaved

LEMMA ClientRest ==
    ASSUME TypeOK, NEW c \in Clients, ClientStep(c)
    PROVE  RestOK'
<1>t. RestOK /\ record \in Record
  BY DEF TypeOK, RestOK
<1>p. record.pid \in Workers \cup {None} /\ record.native \in Workers \cup {None}
  BY <1>t DEF Record
<1> USE DEF RestOK, WithChildPlaces, Step, Goto, recordVars, workerVars, clientVars
<1>1. CASE Look(c)
  BY <1>t, <1>1 DEF Look
<1>2. CASE Reconcile(c)
  BY <1>t, <1>2 DEF Reconcile
<1>3. CASE Resume(c)
  BY <1>t, <1>3 DEF Resume
<1>4. CASE Claim(c)
  BY <1>t, <1>4 DEF Claim
<1>5. ASSUME NEW w \in Workers, Spawn(c, w) PROVE RestOK'
  BY <1>t, <1>5, NoneApart DEF Spawn, Places, Holding
<1>6. CASE SpawnFails(c)
  BY <1>t, <1>6 DEF SpawnFails
<1>7. CASE RecordChild(c)
  BY <1>t, <1>7 DEF RecordChild
<1>8. CASE ClientDies(c)
  BY <1>t, <1>8 DEF ClientDies
<1>9. CASE CancelRequest(c)
  BY <1>t, <1>p, <1>9 DEF CancelRequest, MarkCancelled
<1>10. CASE CancelTerm(c)
  <2>1. child[c] \in Workers
    BY <1>t, <1>10 DEF CancelTerm
  <2> QED
    BY <1>t, <1>10, <2>1 DEF CancelTerm, Gone, Release, Places, Holding
<1>11. CASE CancelClear(c)
  BY <1>t, <1>p, <1>11 DEF CancelClear, MarkCancelled
<1> QED
  BY <1>1, <1>2, <1>3, <1>4, <1>5, <1>6, <1>7, <1>8, <1>9, <1>10, <1>11 DEF ClientStep

LEMMA WorkerRest ==
    ASSUME TypeOK, NEW w \in Workers, WorkerStep(w) \/ Die(w)
    PROVE  RestOK'
<1>t. RestOK /\ record \in Record
  BY DEF TypeOK, RestOK
<1>p. record.native \in Workers \cup {None}
  BY <1>t DEF Record
<1> USE DEF RestOK, Goto, recordVars, workerVars, clientVars, Places, Holding, Release
<1>1. CASE Request(w)
  BY <1>t, <1>1 DEF Request, Gone
<1>2. CASE Load(w)
  BY <1>t, <1>p, <1>2 DEF Load
<1>3. CASE Link(w)
  BY <1>t, <1>3 DEF Link, Gone
<1>4. CASE Acquire(w)
  <2>1. job[w] \in Workers
    BY <1>t, <1>4 DEF Acquire
  <2>2. CASE lock[job[w]] = None
    <3>1. /\ lock' = [lock EXCEPT ![job[w]] = w]
          /\ journal' = [journal EXCEPT ![job[w]] = "active"]
          /\ worker' = [worker EXCEPT ![w] = "running"]
          /\ steered' = FALSE
          /\ UNCHANGED <<partial, job, outcome, signalled, client, child, executed>>
      BY <1>4, <2>2 DEF Acquire
    <3> QED
      BY <1>t, <2>1, <3>1
  <2>3. CASE lock[job[w]] # None
    BY <1>t, <1>4, <2>1, <2>3 DEF Acquire
  <2> QED
    BY <2>2, <2>3
<1>5. ASSUME NEW state \in {"Completed", "Waiting", "Interrupted", "Failed", "Cancelled"},
             Stop(w, state), worker[w] = "running"
      PROVE  /\ journal' \in [Workers -> {"none", "active", "completed", "waiting", "stopped"}]
             /\ lock' \in [Workers -> Workers \cup {None}]
             /\ worker' = [worker EXCEPT ![w] = "finishing"]
             /\ outcome' = [outcome EXCEPT ![w] = state]
  <2>1. CASE state = "Completed"
    BY <1>t, <1>5, <2>1 DEF Stop
  <2>2. CASE state = "Waiting"
    BY <1>t, <1>5, <2>2 DEF Stop
  <2>3. CASE state \notin {"Completed", "Waiting"}
    BY <1>t, <1>5, <2>3 DEF Stop
  <2> QED
    BY <2>1, <2>2, <2>3
<1>6. CASE Persist(w)
  <2>1. CASE Attachable(record, job[w])
    BY <1>t, <1>6, <2>1 DEF Persist
  <2>2. CASE ~Attachable(record, job[w])
    <3>1. PICK state \in {"Cancelled", "Failed"} : Stop(w, state)
      BY <1>6, <2>2 DEF Persist
    <3> HIDE DEF Release
    <3> QED
      BY <1>t, <1>6, <1>5, <2>2, <3>1 DEF Persist
  <2> QED
    BY <2>1, <2>2
<1>7. CASE Execute(w)
  BY <1>t, <1>7 DEF Execute
<1>8. CASE EndTurn(w)
  <2>1. PICK state \in {"Completed", "Waiting", "Interrupted", "Failed", "Cancelled"} :
            Stop(w, state)
    BY <1>8 DEF EndTurn
  <2> QED
    BY <1>t, <1>8, <1>5, <2>1 DEF EndTurn
<1>9. CASE FinishNative(w)
  <2>1. job[w] \in Workers
    BY <1>t, <1>9 DEF FinishNative
  <2>2. journal' \in [Workers -> {"none", "active", "completed", "waiting", "stopped"}]
    BY <1>t, <1>9, <2>1 DEF FinishNative, MarkCancelled
  <2> QED
    BY <1>t, <1>9, <2>2 DEF FinishNative, Exiting
<1>10. CASE FinishError(w)
  BY <1>t, <1>10 DEF FinishError, Exiting
<1>11. CASE Die(w)
  BY <1>t, <1>11 DEF Die, Gone
<1> QED
  BY <1>1, <1>2, <1>3, <1>4, <1>6, <1>7, <1>8, <1>9, <1>10, <1>11 DEF WorkerStep

LEMMA TypeNext == TypeOK /\ [Next]_vars => TypeOK'
<1> SUFFICES ASSUME TypeOK, [Next]_vars PROVE TypeOK'
  OBVIOUS
<1>1. CASE Next
  <2>1. RestOK'
    <3>1. CASE Rework \/ Discard \/ Apply
      BY <3>1 DEF Rework, Discard, Apply, TypeOK, RestOK, workerVars, clientVars
    <3> QED
      BY <1>1, <3>1, ClientRest, WorkerRest DEF Next
  <2> QED
    BY <1>1, <2>1, RecordStep DEF RestOK, TypeOK
<1>2. CASE UNCHANGED vars
  BY <1>2 DEF vars, workerVars, clientVars, TypeOK
<1> QED
  BY <1>1, <1>2

LEMMA TypeInit == Init => TypeOK
<1> SUFFICES ASSUME Init PROVE TypeOK
  OBVIOUS
<1>1. record \in Record
  BY DEF Init, Record, States, Active
<1>2. named.rev \in 0..record.rev
  BY DEF Init
<1> QED
  BY <1>1, <1>2 DEF Init, TypeOK, Places, Holding, WithChildPlaces

\* The record, the workers, the clients and the locks keep their types.
THEOREM TypeCorrect == Spec => []TypeOK
BY TypeInit, TypeNext, PTL DEF Spec

-----------------------------------------------------------------------------
(* One executor, one checkpoint. *)

\* The conjuncts of IInv that relate workers to the record and to the locks.
Linked == \A w \in Workers : job[w] # None => job[w] = record.native
Locked == \A w \in Workers : worker[w] \in Holding => job[w] \in Workers /\ lock[job[w]] = w

LEMMA LinkedNext ==
    ASSUME IInv, Next
    PROVE  Linked'
<1>t. TypeOK /\ Linked /\ record \in Record /\ record.native \in Workers \cup {None}
  BY DEF IInv, Linked, TypeOK, Record
<1>k. record.native # None => record'.native = record.native
  BY <1>t, RecordStep
<1>1. CASE UNCHANGED job
  BY <1>t, <1>k, <1>1 DEF Linked
<1>2. ASSUME NEW w \in Workers, Load(w) PROVE Linked'
  BY <1>t, <1>2 DEF Load, Linked, TypeOK
<1>3. ASSUME NEW w \in Workers, Link(w), Attachable(record, w) PROVE Linked'
  <2>1. Save(Attached(record, w, w)) /\ job' = [job EXCEPT ![w] = w]
    BY <1>3 DEF Link
  <2>2. record'.native = w
    <3>1. Attached(record, w, w) \in Record /\ Attached(record, w, w).rev = record.rev
          /\ Attached(record, w, w).native = w
      BY <1>t, AttachedType
    <3>2. named.rev \in 0..record.rev
      BY <1>t DEF TypeOK
    <3> QED
      BY <1>t, <2>1, <3>1, <3>2, Saved
  <2>3. record.native \in {None, w}
    BY <1>3 DEF Attachable
  <2> QED
    BY <1>t, <2>1, <2>2, <2>3 DEF Linked, TypeOK
<1>4. ASSUME NEW w \in Workers, job' = [job EXCEPT ![w] = None] PROVE Linked'
  BY <1>t, <1>k, <1>4 DEF Linked, TypeOK
<1>5. ASSUME NEW c \in Clients, ClientStep(c) PROVE Linked'
  <2>1. CASE CancelTerm(c)
    <3>1. child[c] \in Workers
      BY <1>t, <2>1 DEF CancelTerm, TypeOK, WithChildPlaces
    <3> QED
      BY <2>1, <3>1, <1>1, <1>4 DEF CancelTerm, Gone, workerVars
  <2>2. CASE ~CancelTerm(c)
    <3>1. UNCHANGED job
      BY <1>5, <2>2 DEF ClientStep, Look, Reconcile, Resume, Claim, Spawn, SpawnFails,
         RecordChild, ClientDies, CancelRequest, CancelClear, workerVars
    <3> QED
      BY <3>1, <1>1
  <2> QED
    BY <2>1, <2>2
<1>6. ASSUME NEW w \in Workers, WorkerStep(w) \/ Die(w) PROVE Linked'
  <2>1. CASE Request(w) \/ Link(w) \/ Die(w) \/ FinishNative(w) \/ FinishError(w)
    <3>1. UNCHANGED job \/ job' = [job EXCEPT ![w] = None]
          \/ (Link(w) /\ Attachable(record, w))
      BY <2>1 DEF Request, Link, Die, FinishNative, FinishError, Gone, Exiting
    <3> QED
      BY <3>1, <1>1, <1>3, <1>4
  <2>2. CASE Acquire(w) \/ Persist(w) \/ Execute(w) \/ EndTurn(w)
    <3>1. UNCHANGED job
      BY <2>2 DEF Acquire, Persist, Execute, EndTurn
    <3> QED
      BY <3>1, <1>1
  <2> QED
    BY <1>6, <1>2, <2>1, <2>2 DEF WorkerStep
<1>7. CASE Rework \/ Discard \/ Apply
  BY <1>1, <1>7 DEF Rework, Discard, Apply, workerVars
<1> QED
  BY <1>5, <1>6, <1>7 DEF Next

\* A worker that leaves its turn takes only its own lock with it.
LEMMA LeavingKeepsLocked ==
    ASSUME TypeOK, Locked, NEW w \in Workers, NEW place \in Places \ Holding,
           Release(w), Goto(w, place),
           UNCHANGED job \/ job' = [job EXCEPT ![w] = None]
    PROVE  Locked'
BY DEF TypeOK, Locked, Release, Goto, Holding

LEMMA LockedNext ==
    ASSUME IInv, Next
    PROVE  Locked'
<1>t. TypeOK /\ Locked
  BY DEF IInv, Locked
<1>p. {"dead", "finishing", "exiting", "spawned", "admitted", "loaded", "failing"}
        \subseteq Places \ Holding
  BY DEF Places, Holding
<1>1. CASE UNCHANGED <<worker, job, lock>>
  BY <1>t, <1>1 DEF Locked
<1>2. ASSUME NEW w \in Workers, Gone(w) PROVE Locked'
  BY <1>t, <1>p, <1>2, LeavingKeepsLocked DEF Gone
<1>3. ASSUME NEW w \in Workers, worker[w] \notin Holding, UNCHANGED lock,
             \/ \E place \in Places \ Holding : Goto(w, place)
             \/ UNCHANGED worker,
             \A v \in Workers : v # w => job'[v] = job[v]
      PROVE  Locked'
  BY <1>t, <1>3 DEF Locked, Goto, TypeOK
<1>4. ASSUME NEW c \in Clients, ClientStep(c) PROVE Locked'
  <2>1. CASE CancelTerm(c)
    <3>1. child[c] \in Workers
      BY <1>t, <2>1 DEF CancelTerm, TypeOK, WithChildPlaces
    <3> QED
      BY <2>1, <3>1, <1>1, <1>2 DEF CancelTerm, workerVars
  <2>2. ASSUME NEW w \in Workers, Spawn(c, w) PROVE Locked'
    BY <1>p, <2>2, <1>3 DEF Spawn, Holding
  <2>3. CASE ~CancelTerm(c) /\ ~(\E w \in Workers : Spawn(c, w))
    <3>1. UNCHANGED <<worker, job, lock>>
      BY <1>4, <2>3 DEF ClientStep, Look, Reconcile, Resume, Claim, SpawnFails,
         RecordChild, ClientDies, CancelRequest, CancelClear, workerVars
    <3> QED
      BY <3>1, <1>1
  <2> QED
    BY <2>1, <2>2, <2>3
<1>5. ASSUME NEW w \in Workers, WorkerStep(w) \/ Die(w) PROVE Locked'
  <2>1. CASE Request(w)
    BY <2>1, <1>p, <1>2, <1>3 DEF Request, Holding
  <2>2. CASE Load(w)
    <3>1. /\ worker[w] \notin Holding /\ UNCHANGED lock
          /\ \E place \in Places \ Holding : Goto(w, place)
      BY <2>2, <1>p DEF Load, Holding
    <3>2. \A v \in Workers : v # w => job'[v] = job[v]
      BY <1>t, <2>2 DEF Load, TypeOK
    <3> QED
      BY <3>1, <3>2, <1>3
  <2>3. CASE Link(w)
    <3>1. Gone(w) \/ (UNCHANGED <<worker, lock>> /\ job' = [job EXCEPT ![w] = w])
      BY <2>3 DEF Link
    <3>2. worker[w] \notin Holding
      BY <2>3 DEF Link, Holding
    <3> QED
      BY <1>t, <3>1, <3>2, <1>2, <1>3 DEF TypeOK
  <2>4. CASE Acquire(w)
    <3>1. CASE lock[job[w]] = None
      <4>1. job[w] \in Workers /\ job' = job
        BY <1>t, <2>4 DEF Acquire, TypeOK
      <4>2. lock' = [lock EXCEPT ![job[w]] = w] /\ worker' = [worker EXCEPT ![w] = "running"]
        BY <2>4, <3>1 DEF Acquire, Goto
      <4> QED
        BY <1>t, <3>1, <4>1, <4>2, NoneApart DEF Locked, TypeOK
    <3>2. CASE lock[job[w]] # None
      BY <2>4, <3>2, <1>p, <1>3 DEF Acquire, Holding
    <3> QED
      BY <3>1, <3>2
  <2>5. CASE Persist(w) \/ Execute(w)
    <3>1. \/ /\ worker[w] \in Holding /\ UNCHANGED <<lock, job>>
             /\ \E place \in Holding : Goto(w, place)
          \/ Release(w) /\ Goto(w, "finishing") /\ UNCHANGED job
      BY <2>5 DEF Persist, Execute, Stop, Holding
    <3>2. ASSUME worker[w] \in Holding, UNCHANGED <<lock, job>>,
                 NEW place \in Holding, Goto(w, place)
          PROVE  Locked'
      BY <1>t, <3>2 DEF Locked, Goto, TypeOK
    <3> QED
      BY <1>t, <1>p, <3>1, <3>2, LeavingKeepsLocked
  <2>6. CASE EndTurn(w)
    <3>1. Release(w) /\ Goto(w, "finishing") /\ UNCHANGED job
      BY <2>6 DEF EndTurn, Stop
    <3> QED
      BY <1>t, <1>p, <3>1, LeavingKeepsLocked
  <2>7. CASE FinishNative(w) \/ FinishError(w)
    <3>1. /\ worker[w] \notin Holding /\ UNCHANGED lock
          /\ Goto(w, "exiting") /\ job' = [job EXCEPT ![w] = None]
      BY <2>7 DEF FinishNative, FinishError, Exiting, Holding
    <3> QED
      BY <1>t, <1>p, <3>1, <1>3 DEF TypeOK
  <2>8. CASE Die(w)
    BY <2>8, <1>2 DEF Die
  <2> QED
    BY <1>5, <2>1, <2>2, <2>3, <2>4, <2>5, <2>6, <2>7, <2>8 DEF WorkerStep
<1>6. CASE Rework \/ Discard \/ Apply
  BY <1>1, <1>6 DEF Rework, Discard, Apply, workerVars
<1> QED
  BY <1>4, <1>5, <1>6 DEF Next

LEMMA ExecutedNext ==
    ASSUME IInv, Next
    PROVE  (executed \subseteq {record.native})'
<1>t. /\ TypeOK /\ Linked /\ Locked /\ executed \subseteq {record.native}
      /\ executed \subseteq Workers
  BY DEF IInv, Linked, Locked, TypeOK
<1>k. record.native # None => record'.native = record.native
  BY <1>t, RecordStep
<1>1. CASE UNCHANGED executed
  BY <1>t, <1>k, <1>1, NoneApart
<1>2. ASSUME NEW w \in Workers, Execute(w) PROVE (executed \subseteq {record.native})'
  <2>1. job[w] \in Workers /\ job[w] = record.native
    BY <1>t, <1>2, NoneApart DEF Execute, Locked, Linked, Holding
  <2> QED
    BY <1>t, <1>2, <1>k, <2>1, NoneApart DEF Execute
<1>3. CASE ~(\E w \in Workers : Execute(w))
  <2>1. UNCHANGED executed
    BY <1>3 DEF Next, ClientStep, WorkerStep, Look, Reconcile, Resume, Claim, Spawn, SpawnFails,
       RecordChild, ClientDies, CancelRequest, CancelTerm, CancelClear, Request, Load, Link,
       Acquire, Persist, EndTurn, FinishNative, FinishError, Die, Rework, Discard, Apply
  <2> QED
    BY <2>1, <1>1
<1> QED
  BY <1>2, <1>3

LEMMA InvNext == IInv /\ [Next]_vars => IInv'
<1> SUFFICES ASSUME IInv, [Next]_vars PROVE IInv'
  OBVIOUS
<1>1. CASE Next
  <2>1. TypeOK'
    BY <1>1, TypeNext DEF IInv
  <2> QED
    BY <1>1, <2>1, LinkedNext, LockedNext, ExecutedNext DEF IInv, Linked, Locked
<1>2. CASE UNCHANGED vars
  BY <1>2 DEF vars, workerVars, clientVars, IInv, TypeOK
<1> QED
  BY <1>1, <1>2

LEMMA InvInit == Init => IInv
<1> SUFFICES ASSUME Init PROVE IInv
  OBVIOUS
<1>1. TypeOK
  BY TypeInit
<1> QED
  BY <1>1 DEF Init, IInv, Holding

\* IInv relates workers, record, locks and history in every reachable state.
THEOREM Inductive == Spec => []IInv
BY InvInit, InvNext, PTL DEF Spec

LEMMA InvOneExecutor == IInv => OneExecutor
<1> SUFFICES ASSUME IInv, NEW v \in Workers, NEW w \in Workers,
                    worker[v] \in Holding, worker[w] \in Holding
             PROVE  v = w
  BY DEF OneExecutor
<1>1. /\ job[v] = record.native /\ job[w] = record.native
      /\ lock[job[v]] = v /\ lock[job[w]] = w
  BY NoneApart DEF IInv
<1> QED
  BY <1>1

\* However many attempts clients start and forget, one executes at a time.
THEOREM OneAtATime == Spec => []OneExecutor
BY Inductive, InvOneExecutor, PTL

\* No attempt ever makes an effect under another checkpoint than the task's own.
THEOREM NeverRestarted == Spec => []OneCheckpoint
<1>1. IInv => OneCheckpoint
  BY DEF IInv, OneCheckpoint
<1> QED
  BY <1>1, Inductive, PTL

-----------------------------------------------------------------------------
(* Revisions and outcomes. *)

LEMMA RevisionNext == TypeOK /\ RevisionNamesOutcome /\ [Next]_vars => RevisionNamesOutcome'
<1> SUFFICES ASSUME TypeOK, RevisionNamesOutcome, [Next]_vars PROVE RevisionNamesOutcome'
  OBVIOUS
<1>1. CASE UNCHANGED recordVars
  BY <1>1 DEF recordVars, RevisionNamesOutcome, Result
<1>2. ASSUME NEW r, Keeps(r), Save(r) PROVE RevisionNamesOutcome'
  BY <1>2, SavedNames DEF Keeps, TypeOK
<1>3. CASE Next
  BY <1>1, <1>2, <1>3, WhatIsSaved
<1>4. CASE UNCHANGED vars
  BY <1>1, <1>4 DEF vars, recordVars
<1> QED
  BY <1>3, <1>4

\* A revision that a reviewer approved never comes to stand for another outcome.
THEOREM RevisionsNameOutcomes == Spec => []RevisionNamesOutcome
<1>1. Init => RevisionNamesOutcome
  BY DEF Init, RevisionNamesOutcome, Settled
<1>2. TypeOK /\ RevisionNamesOutcome /\ [Next]_vars => RevisionNamesOutcome'
  BY RevisionNext
<1> QED
  BY <1>1, <1>2, TypeCorrect, PTL DEF Spec

\* What every kind of step does to a final outcome and to an applied task.
LEMMA OutcomeStep ==
    ASSUME TypeOK, Next
    PROVE  /\ record.state \in Final /\ Result(record') # Result(record) => UserCommand
           /\ AppliedNeverRuns => AppliedNeverRuns'
<1>t. record \in Record /\ named.rev \in 0..record.rev
  BY DEF TypeOK
<1> DEFINE Goal == /\ record.state \in Final /\ Result(record') # Result(record) => UserCommand
                   /\ AppliedNeverRuns => AppliedNeverRuns'
<1>1. ASSUME UNCHANGED <<record, partial>> PROVE Goal
  BY <1>1 DEF Result, AppliedNeverRuns
<1>2. ASSUME NEW r \in Record, r.rev = record.rev, Save(r), UNCHANGED partial,
             \/ r.state \notin Active
             \/ record.state \in Active
             \/ r = record,
             record.state \in Final => Result(r) = Result(record)
      PROVE  Goal
  <2>1. Result(record') = Result(r) /\ record'.state = r.state
    BY <1>t, <1>2, Saved
  <2> QED
    BY <1>2, <2>1 DEF AppliedNeverRuns
<1>7. ASSUME NEW state \in States \ Active, NEW verdict \in States \ Active,
             Save(Finished(record, state, verdict)), UNCHANGED partial
      PROVE  Goal
  <2>1. Finished(record, state, verdict).state \notin Active
        \/ Finished(record, state, verdict) = record
    BY <1>t DEF Finished, Record
  <2>2. record.state \in Final => Finished(record, state, verdict) = record
    BY DEF Finished, Active, Final
  <2> QED
    BY <1>t, <1>2, <1>7, <2>1, <2>2, FinishedType
<1>3. ASSUME NEW c \in Clients, ClientStep(c) PROVE Goal
  <2>1. CASE Look(c) \/ Resume(c) \/ ClientDies(c) \/ CancelTerm(c)
             \/ \E w \in Workers : Spawn(c, w)
    BY <2>1, <1>1 DEF Look, Resume, ClientDies, CancelTerm, Spawn
  <2>2. CASE Reconcile(c)
    <3>1. Save(Reconciled(record)) /\ UNCHANGED partial
      BY <2>2 DEF Reconcile
    <3>2. Reconciled(record).state \notin Active \/ Reconciled(record) = record
      BY <1>t DEF Reconciled, Record, Active
    <3>3. record.state \in Final => Reconciled(record) = record
      BY DEF Reconciled, Active, Final
    <3> QED
      BY <1>t, <1>2, <3>1, <3>2, <3>3, ReconciledType
  <2>3. CASE Claim(c)
    <3>1. UserCommand
      BY <2>3 DEF UserCommand
    <3>2. AppliedNeverRuns => AppliedNeverRuns'
      <4>1. CASE Claimable(record)
        BY <2>3, <4>1 DEF Claim, Claimable, AppliedNeverRuns
      <4>2. CASE ~Claimable(record)
        BY <2>3, <4>2, <1>1 DEF Claim, recordVars
      <4> QED
        BY <4>1, <4>2
    <3> QED
      BY <3>1, <3>2
  <2>4. CASE SpawnFails(c)
    <3>1. Save(Finished(record, "Failed", "Failed")) /\ UNCHANGED partial
      BY <2>4 DEF SpawnFails
    <3> QED
      BY <3>1, <1>7 DEF States, Active, Resumable, Final
  <2>5. CASE RecordChild(c)
    <3>1. Save(WithChild(record, child[c])) /\ UNCHANGED partial /\ child[c] \in Workers
      BY <2>5 DEF RecordChild, TypeOK, WithChildPlaces
    <3>2. record.state \in Active \/ WithChild(record, child[c]) = record
      BY DEF WithChild, Active
    <3>3. record.state \in Final => WithChild(record, child[c]) = record
      BY DEF WithChild, Final
    <3> QED
      BY <1>t, <1>2, <3>1, <3>2, <3>3, WithChildType
  <2>6. CASE CancelRequest(c)
    <3>1. PICK pid \in Workers \cup {None} :
              Save([record EXCEPT !.state = "Cancelled", !.result = "cancelled", !.pid = pid])
      BY <1>t, <2>6 DEF CancelRequest, Record
    <3>2. record.state \notin Final /\ UNCHANGED partial
      BY <2>6 DEF CancelRequest, Active, Final
    <3> DEFINE r == [record EXCEPT !.state = "Cancelled", !.result = "cancelled", !.pid = pid]
    <3>3. r \in Record /\ r.rev = record.rev /\ r.state \notin Active
      BY <1>t DEF Record, States, Active, Final
    <3> QED
      BY <1>2, <3>1, <3>2, <3>3
  <2>7. CASE CancelClear(c)
    <3>1. UNCHANGED <<record, partial>>
          \/ (Save([record EXCEPT !.pid = None]) /\ UNCHANGED partial)
      BY <2>7 DEF CancelClear, recordVars
    <3> DEFINE r == [record EXCEPT !.pid = None]
    <3>2. r \in Record /\ r.rev = record.rev /\ r.state = record.state /\ Result(r) = Result(record)
      BY <1>t DEF Record, Result
    <3> QED
      BY <1>1, <1>2, <3>1, <3>2
  <2> QED
    BY <1>3, <2>1, <2>2, <2>3, <2>4, <2>5, <2>6, <2>7 DEF ClientStep
<1>4. ASSUME NEW w \in Workers, WorkerStep(w) \/ Die(w) PROVE Goal
  <2>1. CASE Request(w) \/ Load(w) \/ Acquire(w) \/ Execute(w) \/ EndTurn(w) \/ Die(w)
    BY <2>1, <1>1 DEF Request, Load, Acquire, Execute, EndTurn, Die
  <2>2. ASSUME NEW n \in Workers, Attachable(record, n), Save(Attached(record, w, n)),
               UNCHANGED partial
        PROVE  Goal
    <3>1. record.state \in Active /\ record.state \notin Final
      BY <2>2 DEF Attachable, Active, Final
    <3> QED
      BY <1>t, <1>2, <2>2, <3>1, AttachedType
  <2>3. CASE Link(w)
    BY <2>3, <2>2, <1>1 DEF Link, recordVars
  <2>4. CASE Persist(w)
    <3>1. job[w] \in Workers
      BY <2>4 DEF Persist, Holding, TypeOK
    <3> QED
      BY <2>4, <3>1, <2>2, <1>1 DEF Persist, recordVars
  <2>6. CASE FinishNative(w)
    <3>1. outcome[w] \in States \ Active
      BY <2>6 DEF FinishNative, TypeOK, States, Active, Resumable, Final
    <3>2. Verdicts(outcome[w]) \subseteq States \ Active
      BY <3>1 DEF Verdicts, States, Active, Resumable, Final
    <3>3. UNCHANGED <<record, partial>>
          \/ \E verdict \in Verdicts(outcome[w]) :
                 Save(Finished(record, outcome[w], verdict)) /\ UNCHANGED partial
      BY <2>6 DEF FinishNative, recordVars
    <3> QED
      BY <1>1, <1>7, <3>1, <3>2, <3>3
  <2>7. CASE FinishError(w)
    BY <2>7, <1>7 DEF FinishError, States, Active, Resumable, Final
  <2> QED
    BY <1>4, <2>1, <2>3, <2>4, <2>6, <2>7 DEF WorkerStep
<1>5. CASE Rework \/ Discard
  <2>1. UserCommand
    BY <1>5 DEF UserCommand
  <2>2. PICK r \in {[record EXCEPT !.state = "Interrupted", !.result = "rework"],
                    [record EXCEPT !.state = "Discarded"]} : Save(r)
    BY <1>5 DEF Rework, Discard
  <2>3. r \in Record /\ r.rev = record.rev /\ r.state \notin Active
    BY <1>t DEF Record, States, Active, Resumable, Final
  <2>4. record'.state \notin Active
    BY <1>t, <2>2, <2>3, Saved
  <2> QED
    BY <2>1, <2>4 DEF AppliedNeverRuns
<1>6. CASE Apply
  <2>1. UserCommand
    BY <1>6 DEF UserCommand
  <2>2. PICK r \in {[record EXCEPT !.state = "Applied"], record,
                    [record EXCEPT !.state = "Failed", !.result = "uncertain"]} : Save(r)
    BY <1>6 DEF Apply
  <2>3. r \in Record /\ r.rev = record.rev /\ r.state \notin Active
    BY <1>t, <1>6 DEF Apply, Record, States, Active, Resumable, Final
  <2>4. record'.state \notin Active
    BY <1>t, <2>2, <2>3, Saved
  <2> QED
    BY <2>1, <2>4 DEF AppliedNeverRuns
<1> QED
  BY <1>3, <1>4, <1>5, <1>6 DEF Next

\* Changes that were applied, even in part, are never worked on again.
THEOREM AppliedIsFinal == Spec => []AppliedNeverRuns
<1>1. Init => AppliedNeverRuns
  BY DEF Init, AppliedNeverRuns
<1>2. TypeOK /\ AppliedNeverRuns /\ [Next]_vars => AppliedNeverRuns'
  BY OutcomeStep DEF vars, AppliedNeverRuns
<1> QED
  BY <1>1, <1>2, TypeCorrect, PTL DEF Spec

\* No callback, parent or reconciliation replaces a final outcome.
THEOREM OutcomesStand == Spec => OutcomeStands
<1>1. TypeOK /\ [Next]_vars
        => [record.state \in Final /\ Result(record') # Result(record) => UserCommand]_vars
  BY OutcomeStep
<1> QED
  BY <1>1, TypeCorrect, PTL DEF Spec, OutcomeStands
=============================================================================
