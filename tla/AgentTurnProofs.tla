-------------------------- MODULE AgentTurnProofs --------------------------
(* Proofs about AgentTurn: its type invariant, and the inductive invariant *)
(* that gives the one use of an approval, the standing of a denial, the    *)
(* record of effects, the single delivery of a follow-up and the           *)
(* answerable question, for every number of calls, attempts, tools,        *)
(* messages and edits.                                                     *)
EXTENDS AgentTurn, TLAPS, FiniteSetTheorems

---------------------------------------------------------------------------
(* Frames: which actions write what.                                       *)

\* What writes the requests of the mailbox.
LEMMA RequestsFrame ==
    [Next]_vars => \/ UNCHANGED requests
                   \/ (\E c \in Calls, r \in {"answer", "approved", "denied"} : Respond(c, r))
                   \/ Cancel
                   \/ TakeAnswer
                   \/ Gate
                   \/ Interact
                   \/ Consume
                   \/ Publish
<1> DEFINE Framed == \/ UNCHANGED requests
                     \/ (\E c \in Calls, r \in {"answer", "approved", "denied"} : Respond(c, r))
                     \/ Cancel
                     \/ TakeAnswer
                     \/ Gate
                     \/ Interact
                     \/ Consume
                     \/ Publish
<1> USE DEF vars, mailbox, requests, followups, disk, turn, journal,
            Unpark, Fail, End, Outcome, Abort, Forget, Idle, Completed
<1>1. UserStep => Framed
  BY DEF UserStep, QueueFollowup, EditFollowup, RemoveFollowup,
         CancelClear, Resume, Rework
<1>2. WorkerStep => Framed
  BY DEF WorkerStep, Begin, Resolve, Tidy, Claim, Deliver, Acknowledge,
         Top, ProviderAnswers, Final, Conclude, NextInBatch, Plan,
         ProposeBatch, Admit, Refuse, Park, Mark, Execute, RecordResult
<1>3. Reconcile \/ Die => Framed
  BY DEF Reconcile, Die
<1>4. UNCHANGED vars => Framed
  OBVIOUS
<1> HIDE DEF Framed
<1> QED
  BY <1>1, <1>2, <1>3, <1>4 DEF Next, Framed

\* What writes its follow-ups.
LEMMA FollowupsFrame ==
    [Next]_vars => \/ UNCHANGED followups
                   \/ (\E f \in Followups : QueueFollowup(f))
                   \/ (\E f \in Followups : EditFollowup(f))
                   \/ (\E f \in Followups : RemoveFollowup(f))
                   \/ Claim
                   \/ Acknowledge
<1> DEFINE Framed == \/ UNCHANGED followups
                     \/ (\E f \in Followups : QueueFollowup(f))
                     \/ (\E f \in Followups : EditFollowup(f))
                     \/ (\E f \in Followups : RemoveFollowup(f))
                     \/ Claim
                     \/ Acknowledge
<1> USE DEF vars, mailbox, requests, followups, disk, turn, journal,
            Unpark, Fail, End, Outcome, Abort, Forget, Idle, Completed
<1>1. UserStep => Framed
  BY DEF UserStep, Respond, Cancel, CancelClear, Resume, Rework
<1>2. WorkerStep => Framed
  BY DEF WorkerStep, Begin, Resolve, TakeAnswer, Tidy, Deliver, Top,
         ProviderAnswers, Final, Conclude, NextInBatch, Plan, ProposeBatch,
         Gate, Admit, Refuse, Interact, Park, Consume, Mark, Execute,
         RecordResult, Publish
<1>3. Reconcile \/ Die => Framed
  BY DEF Reconcile, Die
<1>4. UNCHANGED vars => Framed
  OBVIOUS
<1> HIDE DEF Framed
<1> QED
  BY <1>1, <1>2, <1>3, <1>4 DEF Next, Framed

\* What writes the state of the task.
LEMMA StateFrame ==
    [Next]_vars => \/ UNCHANGED state
                   \/ Cancel
                   \/ Reconcile
                   \/ Resume
                   \/ Rework
                   \/ Publish
<1> DEFINE Framed == \/ UNCHANGED state
                     \/ Cancel
                     \/ Reconcile
                     \/ Resume
                     \/ Rework
                     \/ Publish
<1> USE DEF vars, mailbox, requests, followups, disk, turn, journal,
            Unpark, Fail, End, Outcome, Abort, Forget, Idle, Completed
<1>1. UserStep => Framed
  BY DEF UserStep, Respond, QueueFollowup, EditFollowup, RemoveFollowup,
         CancelClear
<1>2. WorkerStep => Framed
  BY DEF WorkerStep, Begin, Resolve, TakeAnswer, Tidy, Claim, Deliver,
         Acknowledge, Top, ProviderAnswers, Final, Conclude, NextInBatch,
         Plan, ProposeBatch, Gate, Admit, Refuse, Interact, Park, Consume,
         Mark, Execute, RecordResult
<1>3. Reconcile \/ Die => Framed
  BY DEF Die
<1>4. UNCHANGED vars => Framed
  OBVIOUS
<1> HIDE DEF Framed
<1> QED
  BY <1>1, <1>2, <1>3, <1>4 DEF Next, Framed

\* What writes the transcript.
LEMMA TranscriptFrame ==
    [Next]_vars => \/ UNCHANGED <<result, heard>>
                   \/ Resolve
                   \/ Tidy
                   \/ Deliver
                   \/ (\E first, last \in Calls : ProposeBatch(first, last))
                   \/ Plan
                   \/ Gate
                   \/ Refuse
                   \/ RecordResult
<1> DEFINE Framed == \/ UNCHANGED <<result, heard>>
                     \/ Resolve
                     \/ Tidy
                     \/ Deliver
                     \/ (\E first, last \in Calls : ProposeBatch(first, last))
                     \/ Plan
                     \/ Gate
                     \/ Refuse
                     \/ RecordResult
<1> USE DEF vars, mailbox, requests, followups, disk, turn, journal,
            Unpark, Fail, End, Outcome, Abort, Forget, Idle, Completed
<1>1. UserStep => Framed
  BY DEF UserStep, Respond, QueueFollowup, EditFollowup, RemoveFollowup,
         Cancel, CancelClear, Resume, Rework
<1>2. WorkerStep => Framed
  BY DEF WorkerStep, Begin, TakeAnswer, Claim, Acknowledge, Top,
         ProviderAnswers, Final, Conclude, NextInBatch, Admit, Interact,
         Park, Consume, Mark, Execute, Publish
<1>3. Reconcile \/ Die => Framed
  BY DEF Reconcile, Die
<1>4. UNCHANGED vars => Framed
  OBVIOUS
<1> HIDE DEF Framed
<1> QED
  BY <1>1, <1>2, <1>3, <1>4 DEF Next, Framed

\* What decides what a call asks for.
LEMMA CallFrame ==
    [Next]_vars => \/ UNCHANGED call
                   \/ (\E first, last \in Calls : ProposeBatch(first, last))
<1> DEFINE Framed == \/ UNCHANGED call
                     \/ (\E first, last \in Calls : ProposeBatch(first, last))
<1> USE DEF vars, mailbox, requests, followups, disk, turn, journal,
            Unpark, Fail, End, Outcome, Abort, Forget, Idle, Completed
<1>1. UserStep => Framed
  BY DEF UserStep, Respond, QueueFollowup, EditFollowup, RemoveFollowup,
         Cancel, CancelClear, Resume, Rework
<1>2. WorkerStep => Framed
  BY DEF WorkerStep, Begin, Resolve, TakeAnswer, Tidy, Claim, Deliver,
         Acknowledge, Top, ProviderAnswers, Final, Conclude, NextInBatch,
         Plan, Gate, Admit, Refuse, Interact, Park, Consume, Mark, Execute,
         RecordResult, Publish
<1>3. Reconcile \/ Die => Framed
  BY DEF Reconcile, Die
<1>4. UNCHANGED vars => Framed
  OBVIOUS
<1> HIDE DEF Framed
<1> QED
  BY <1>1, <1>2, <1>3, <1>4 DEF Next, Framed

\* What has effects, and what consumes an approval.
LEMMA HistoryFrame ==
    [Next]_vars => \/ UNCHANGED <<executed, licence>>
                   \/ Execute
                   \/ Consume
<1> DEFINE Framed == \/ UNCHANGED <<executed, licence>>
                     \/ Execute
                     \/ Consume
<1> USE DEF vars, mailbox, requests, followups, disk, turn, journal,
            Unpark, Fail, End, Outcome, Abort, Forget, Idle, Completed
<1>1. UserStep => Framed
  BY DEF UserStep, Respond, QueueFollowup, EditFollowup, RemoveFollowup,
         Cancel, CancelClear, Resume, Rework
<1>2. WorkerStep => Framed
  BY DEF WorkerStep, Begin, Resolve, TakeAnswer, Tidy, Claim, Deliver,
         Acknowledge, Top, ProviderAnswers, Final, Conclude, NextInBatch,
         Plan, ProposeBatch, Gate, Admit, Refuse, Interact, Park, Mark,
         RecordResult, Publish
<1>3. Reconcile \/ Die => Framed
  BY DEF Reconcile, Die
<1>4. UNCHANGED vars => Framed
  OBVIOUS
<1> HIDE DEF Framed
<1> QED
  BY <1>1, <1>2, <1>3, <1>4 DEF Next, Framed

\* What writes the pending call and its marker.
LEMMA PendingFrame ==
    [Next]_vars => \/ UNCHANGED <<pending, started>>
                   \/ Resolve
                   \/ Conclude
                   \/ Plan
                   \/ Gate
                   \/ Refuse
                   \/ Mark
                   \/ RecordResult
<1> DEFINE Framed == \/ UNCHANGED <<pending, started>>
                     \/ Resolve
                     \/ Conclude
                     \/ Plan
                     \/ Gate
                     \/ Refuse
                     \/ Mark
                     \/ RecordResult
<1> USE DEF vars, mailbox, requests, followups, disk, turn, journal,
            Unpark, Fail, End, Outcome, Abort, Forget, Idle, Completed
<1>1. UserStep => Framed
  BY DEF UserStep, Respond, QueueFollowup, EditFollowup, RemoveFollowup,
         Cancel, CancelClear, Resume, Rework
<1>2. WorkerStep => Framed
  BY DEF WorkerStep, Begin, TakeAnswer, Tidy, Claim, Deliver, Acknowledge,
         Top, ProviderAnswers, Final, NextInBatch, ProposeBatch, Admit,
         Interact, Park, Consume, Execute, Publish
<1>3. Reconcile \/ Die => Framed
  BY DEF Reconcile, Die
<1>4. UNCHANGED vars => Framed
  OBVIOUS
<1> HIDE DEF Framed
<1> QED
  BY <1>1, <1>2, <1>3, <1>4 DEF Next, Framed

\* What writes the rework instructions.
LEMMA SteeredFrame ==
    [Next]_vars => \/ UNCHANGED steered
                   \/ Begin
                   \/ Rework
<1> DEFINE Framed == \/ UNCHANGED steered
                     \/ Begin
                     \/ Rework
<1> USE DEF vars, mailbox, requests, followups, disk, turn, journal,
            Unpark, Fail, End, Outcome, Abort, Forget, Idle, Completed
<1>1. UserStep => Framed
  BY DEF UserStep, Respond, QueueFollowup, EditFollowup, RemoveFollowup,
         Cancel, CancelClear, Resume
<1>2. WorkerStep => Framed
  BY DEF WorkerStep, Resolve, TakeAnswer, Tidy, Claim, Deliver,
         Acknowledge, Top, ProviderAnswers, Final, Conclude, NextInBatch,
         Plan, ProposeBatch, Gate, Admit, Refuse, Interact, Park, Consume,
         Mark, Execute, RecordResult, Publish
<1>3. Reconcile \/ Die => Framed
  BY DEF Reconcile, Die
<1>4. UNCHANGED vars => Framed
  OBVIOUS
<1> HIDE DEF Framed
<1> QED
  BY <1>1, <1>2, <1>3, <1>4 DEF Next, Framed

\* What interrupts a worker, and what ends that.
LEMMA SignalFrame ==
    [Next]_vars => \/ UNCHANGED signalled
                   \/ Cancel
                   \/ Resume
                   \/ Die
<1> DEFINE Framed == \/ UNCHANGED signalled
                     \/ Cancel
                     \/ Resume
                     \/ Die
<1> USE DEF vars, mailbox, requests, followups, disk, turn, journal,
            Unpark, Fail, End, Outcome, Abort, Forget, Idle, Completed
<1>1. UserStep => Framed
  BY DEF UserStep, Respond, QueueFollowup, EditFollowup, RemoveFollowup,
         CancelClear, Rework
<1>2. WorkerStep => Framed
  BY DEF WorkerStep, Begin, Resolve, TakeAnswer, Tidy, Claim, Deliver,
         Acknowledge, Top, ProviderAnswers, Final, Conclude, NextInBatch,
         Plan, ProposeBatch, Gate, Admit, Refuse, Interact, Park, Consume,
         Mark, Execute, RecordResult, Publish
<1>3. Reconcile \/ Die => Framed
  BY DEF Reconcile
<1>4. UNCHANGED vars => Framed
  OBVIOUS
<1> HIDE DEF Framed
<1> QED
  BY <1>1, <1>2, <1>3, <1>4 DEF Next, Framed

\* The worker's memory is reset, or written at two places.
LEMMA TurnFrame ==
    [Next]_vars => \/ UNCHANGED <<added, bound>> \/ Idle
                   \/ Deliver
                   \/ Gate
<1> DEFINE Framed == \/ UNCHANGED <<added, bound>> \/ Idle
                     \/ Deliver
                     \/ Gate
<1> USE DEF vars, mailbox, requests, followups, disk, turn, journal,
            Unpark, Fail, End, Outcome, Abort, Forget, Idle, Completed
<1>1. UserStep => Framed
  BY DEF UserStep, Respond, QueueFollowup, EditFollowup, RemoveFollowup,
         Cancel, CancelClear, Resume, Rework
<1>2. WorkerStep => Framed
  BY DEF WorkerStep, Begin, Resolve, TakeAnswer, Tidy, Claim, Acknowledge,
         Top, ProviderAnswers, Final, Conclude, NextInBatch, Plan,
         ProposeBatch, Admit, Refuse, Interact, Park, Consume, Mark,
         Execute, RecordResult, Publish
<1>3. Reconcile \/ Die => Framed
  BY DEF Reconcile, Die
<1>4. UNCHANGED vars => Framed
  OBVIOUS
<1> HIDE DEF Framed
<1> QED
  BY <1>1, <1>2, <1>3, <1>4 DEF Next, Framed

\* The checkpoint's outcome is cleared, or the one the worker takes to its end.
LEMMA EndFrame ==
    [Next]_vars => \/ UNCHANGED <<completed, parked>> \/ Unpark
                   \/ /\ completed' = (outcome' = "Completed")
                      /\ parked' = (outcome' = "Waiting")
<1> DEFINE Framed == \/ UNCHANGED <<completed, parked>> \/ Unpark
                     \/ /\ completed' = (outcome' = "Completed")
                        /\ parked' = (outcome' = "Waiting")
<1> USE DEF vars, mailbox, requests, followups, disk, turn, journal,
            Unpark, Fail, End, Outcome, Abort, Forget, Idle, Completed
<1>1. UserStep => Framed
  BY DEF UserStep, Respond, QueueFollowup, EditFollowup, RemoveFollowup,
         Cancel, CancelClear, Resume, Rework
<1>2. WorkerStep => Framed
  BY DEF WorkerStep, Begin, Resolve, TakeAnswer, Tidy, Claim, Deliver,
         Acknowledge, Top, ProviderAnswers, Final, Conclude, NextInBatch,
         Plan, ProposeBatch, Gate, Admit, Refuse, Interact, Park, Consume,
         Mark, Execute, RecordResult, Publish
<1>3. Reconcile \/ Die => Framed
  BY DEF Reconcile, Die
<1>4. UNCHANGED vars => Framed
  OBVIOUS
<1> HIDE DEF Framed
<1> QED
  BY <1>1, <1>2, <1>3, <1>4 DEF Next, Framed

---------------------------------------------------------------------------
(* Types.                                                                  *)

\* Every type holds at the start.
LEMMA TypeInit == Init => TypeOK
<1> SUFFICES ASSUME Init PROVE TypeOK
  OBVIOUS
<1>1. /\ state \in States /\ worker \in Places /\ boundary \in Boundaries
      /\ steered \in BOOLEAN /\ completed \in BOOLEAN /\ parked \in BOOLEAN
      /\ started \in BOOLEAN /\ added \in BOOLEAN /\ bound \in BOOLEAN
      /\ signalled \in BOOLEAN
  BY DEF Init, States, Places, Boundaries
<1>2. /\ pending \in 0..MaxCalls /\ answered \in 0..MaxCalls /\ tools \in Nat
      /\ attempt \in 1..MaxAttempts
      /\ claim \in [Followups -> 0..MaxAttempts] /\ version \in [Followups -> Versions]
      /\ licence \in [Calls -> 0..MaxCalls]
  BY BoundsTyped DEF Init, NoCall, Versions
<1> QED
  BY <1>1, <1>2 DEF Init, TypeOK

\* Every step keeps every type.
LEMMA TypeStep == TypeOK /\ PlaceOK /\ [Next]_vars => TypeOK'
<1> SUFFICES ASSUME TypeOK, PlaceOK, [Next]_vars PROVE TypeOK'
  OBVIOUS
<1> USE BoundsTyped
<1>1. state' \in States
  BY StateFrame DEF TypeOK, PlaceOK, States, Cancel, Reconcile, Resume, Rework, Publish, Verdict
<1>2. /\ asked' \in [Calls -> {"none", "Pending", "Responded", "Consumed", "Invalidated"}]
      /\ response' \in [Calls -> {"none", "answer", "approved", "denied"}]
  BY RequestsFrame DEF TypeOK, requests, Respond, Cancel, TakeAnswer, Gate, Interact, Consume,
     Publish, SettledRequests, Invalid, Ask
<1>3. /\ followup' \in [Followups -> {"none", "Queued", "Received", "Removed"}]
      /\ version' \in [Followups -> Versions]
      /\ claim' \in [Followups -> 0..MaxAttempts]
  BY FollowupsFrame DEF TypeOK, followups, Versions, QueueFollowup, EditFollowup,
     RemoveFollowup, Claim, Acknowledge
<1>4. call' \in [Calls -> Order \cup {[kind |-> "none", action |-> "none"]}]
  <2>1. CASE UNCHANGED call
    BY <2>1 DEF TypeOK
  <2>2. CASE \E first, last \in Calls : ProposeBatch(first, last)
    BY <2>2 DEF TypeOK, ProposeBatch
  <2> QED
    BY <2>1, <2>2, CallFrame
<1>5. result' \in [Calls -> {"none", "open", "ran", "notrun", "unsure", "answer",
                             "approved", "denied"}]
  BY TranscriptFrame DEF TypeOK, Resolve, Tidy, Deliver, ProposeBatch, Plan, Gate, Refuse,
     RecordResult, Unanswered, Completed
<1>6. heard' \subseteq Followups \X Versions
  BY TranscriptFrame DEF TypeOK, Resolve, Tidy, Deliver, ProposeBatch, Plan, Gate, Refuse,
     RecordResult, Claimed, Queued
<1>7. /\ pending' \in 0..MaxCalls
      /\ started' \in BOOLEAN
  <2>1. pending' \in 0..MaxCalls
    BY PendingFrame DEF TypeOK, Resolve, Conclude, Plan, Gate, Refuse, Mark, RecordResult, End,
       Outcome, Completed, Fail, Abort, disk, NoCall, Open, Calls
  <2>2. started' \in BOOLEAN
    BY PendingFrame DEF TypeOK, Resolve, Conclude, Plan, Gate, Refuse, Mark, RecordResult, End,
       Completed, Fail, Abort, disk
  <2> QED
    BY <2>1, <2>2
<1>8. executed' \subseteq Calls
  BY HistoryFrame DEF TypeOK, PlaceOK, Execute, Consume
<1>9. licence' \in [Calls -> 0..MaxCalls]
  BY HistoryFrame DEF TypeOK, Execute, Consume, Calls
<1>10. worker' \in Places
  BY SMTT(60) DEF TypeOK, Next, UserStep, WorkerStep, vars, mailbox, requests, followups,
     disk, turn, journal, Unpark, Fail, End, Outcome, Abort, Forget, Idle, Completed, Goto,
     Places, Boundaries, NoCall, Onward, Respond, QueueFollowup, EditFollowup,
     RemoveFollowup, Cancel, CancelClear, Resume, Rework, Reconcile, Begin, Resolve,
     TakeAnswer, Tidy, Claim, Deliver, Acknowledge, Top, ProviderAnswers, Final, Conclude,
     NextInBatch, Plan, ProposeBatch, Gate, Admit, Refuse, Interact, Park, Consume, Mark,
     Execute, RecordResult, Publish, Die
<1>11. outcome' \in {"none", "Error", "Completed", "Waiting", "Failed", "Cancelled"}
  BY SMTT(60) DEF TypeOK, Next, UserStep, WorkerStep, vars, mailbox, requests, followups,
     disk, turn, journal, Unpark, Fail, End, Outcome, Abort, Forget, Idle, Completed, Goto,
     Places, Boundaries, NoCall, Onward, Respond, QueueFollowup, EditFollowup,
     RemoveFollowup, Cancel, CancelClear, Resume, Rework, Reconcile, Begin, Resolve,
     TakeAnswer, Tidy, Claim, Deliver, Acknowledge, Top, ProviderAnswers, Final, Conclude,
     NextInBatch, Plan, ProposeBatch, Gate, Admit, Refuse, Interact, Park, Consume, Mark,
     Execute, RecordResult, Publish, Die
<1>12. boundary' \in Boundaries
  BY SMTT(60) DEF TypeOK, Next, UserStep, WorkerStep, vars, mailbox, requests, followups,
     disk, turn, journal, Unpark, Fail, End, Outcome, Abort, Forget, Idle, Completed, Goto,
     Places, Boundaries, NoCall, Onward, Respond, QueueFollowup, EditFollowup,
     RemoveFollowup, Cancel, CancelClear, Resume, Rework, Reconcile, Begin, Resolve,
     TakeAnswer, Tidy, Claim, Deliver, Acknowledge, Top, ProviderAnswers, Final, Conclude,
     NextInBatch, Plan, ProposeBatch, Gate, Admit, Refuse, Interact, Park, Consume, Mark,
     Execute, RecordResult, Publish, Die
<1>13. added' \in BOOLEAN
  BY TurnFrame DEF TypeOK, Idle, Deliver, Gate, Fail, End, Completed, Forget, turn
<1>14. bound' \in BOOLEAN
  BY TurnFrame DEF TypeOK, Idle, Deliver, Gate, Fail, End, Completed, Forget, turn
<1>15. answered' \in 0..MaxCalls
  BY SMTT(60) DEF TypeOK, Next, UserStep, WorkerStep, vars, mailbox, requests, followups,
     disk, turn, journal, Unpark, Fail, End, Outcome, Abort, Forget, Idle, Completed, Goto,
     Places, Boundaries, NoCall, Onward, Respond, QueueFollowup, EditFollowup,
     RemoveFollowup, Cancel, CancelClear, Resume, Rework, Reconcile, Begin, Resolve,
     TakeAnswer, Tidy, Claim, Deliver, Acknowledge, Top, ProviderAnswers, Final, Conclude,
     NextInBatch, Plan, ProposeBatch, Gate, Admit, Refuse, Interact, Park, Consume, Mark,
     Execute, RecordResult, Publish, Die
<1>16. completed' \in BOOLEAN
  BY EndFrame DEF TypeOK, Unpark
<1>17. parked' \in BOOLEAN
  BY EndFrame DEF TypeOK, Unpark
<1>18. tools' \in Nat
  BY SMTT(60) DEF TypeOK, Next, UserStep, WorkerStep, vars, mailbox, requests, followups,
     disk, turn, journal, Unpark, Fail, End, Outcome, Abort, Forget, Idle, Completed, Goto,
     Places, Boundaries, NoCall, Onward, Respond, QueueFollowup, EditFollowup,
     RemoveFollowup, Cancel, CancelClear, Resume, Rework, Reconcile, Begin, Resolve,
     TakeAnswer, Tidy, Claim, Deliver, Acknowledge, Top, ProviderAnswers, Final, Conclude,
     NextInBatch, Plan, ProposeBatch, Gate, Admit, Refuse, Interact, Park, Consume, Mark,
     Execute, RecordResult, Publish, Die
<1>19. attempt' \in 1..MaxAttempts
  BY SMTT(60) DEF TypeOK, Next, UserStep, WorkerStep, vars, mailbox, requests, followups,
     disk, turn, journal, Unpark, Fail, End, Outcome, Abort, Forget, Idle, Completed, Goto,
     Places, Boundaries, NoCall, Onward, Respond, QueueFollowup, EditFollowup,
     RemoveFollowup, Cancel, CancelClear, Resume, Rework, Reconcile, Begin, Resolve,
     TakeAnswer, Tidy, Claim, Deliver, Acknowledge, Top, ProviderAnswers, Final, Conclude,
     NextInBatch, Plan, ProposeBatch, Gate, Admit, Refuse, Interact, Park, Consume, Mark,
     Execute, RecordResult, Publish, Die
<1>20. steered' \in BOOLEAN
  BY SteeredFrame DEF TypeOK, Begin, Rework
<1>21. signalled' \in BOOLEAN
  BY SignalFrame DEF TypeOK, Cancel, Resume, Die
<1> QED
  BY <1>1, <1>2, <1>3, <1>4, <1>5, <1>6, <1>7, <1>8, <1>9, <1>10, <1>11, <1>12, <1>13,
     <1>14, <1>15, <1>16, <1>17, <1>18, <1>19, <1>20, <1>21 DEF TypeOK

---------------------------------------------------------------------------
(* Each part of the inductive invariant is preserved by every action.      *)

\* What is pending where.
LEMMA PlaceOKStep == TypeOK /\ PlaceOK /\ CallsOK /\ EffectsOnRecord /\ WaitingOK /\ [Next]_vars => PlaceOK'
<1> SUFFICES ASSUME TypeOK, PlaceOK, CallsOK, EffectsOnRecord, WaitingOK, [Next]_vars PROVE PlaceOK'
  OBVIOUS
<1> USE BoundsTyped DEF TypeOK, PlaceOK, CallsOK, EffectsOnRecord, WaitingOK, mailbox,
     requests, followups, disk, turn, journal, Goto, Current, NoCall, Loose, Before, Begun,
     Open, Admitted, Boundaries, Unanswered, Calls
<1>0. CASE UNCHANGED vars
  BY <1>0 DEF vars
<1>1. ASSUME NEW c \in Calls, NEW r \in {"answer", "approved", "denied"}, Respond(c, r) PROVE PlaceOK'
  BY <1>1 DEF Respond, Answerable
<1>2. ASSUME NEW f \in Followups, QueueFollowup(f) PROVE PlaceOK'
  BY <1>2 DEF QueueFollowup
<1>3. ASSUME NEW f \in Followups, EditFollowup(f) PROVE PlaceOK'
  BY <1>3 DEF EditFollowup, Editable
<1>4. ASSUME NEW f \in Followups, RemoveFollowup(f) PROVE PlaceOK'
  BY <1>4 DEF RemoveFollowup, Editable
<1>5. CASE Cancel
  BY <1>5 DEF Cancel, Invalid, Unpark
<1>6. CASE CancelClear
  BY <1>6 DEF CancelClear, Unpark
<1>7. CASE Resume
  BY <1>7 DEF Resume, Ready
<1>8. CASE Rework
  BY <1>8 DEF Rework
<1>9. CASE Reconcile
  BY <1>9 DEF Reconcile
<1>10. CASE Begin
  BY <1>10 DEF Begin, Fail, End, Outcome, Abort, Unpark, Idle, Forget
<1>11. CASE Resolve
  <2>1. CASE worker' = "publishing"
    <3>1. outcome' # "none"
      BY <2>1, <1>11 DEF Resolve, End, Outcome, Abort
    <3> QED
      BY <2>1, <3>1
  <2>2. CASE worker' # "publishing"
    <3>1. /\ worker' \in {"answering", "tidy"}
          /\ pending' = NoCall /\ ~started'
      BY <2>2, <1>11 DEF Resolve, End, Abort
    <3> QED
      BY <3>1
  <2> QED
    BY <2>1, <2>2
<1>12. CASE TakeAnswer
  BY <1>12 DEF TakeAnswer, Abort, Idle, Forget
<1>13. CASE Tidy
  BY <1>13 DEF Tidy, Unanswered
<1>14. CASE Claim
  BY <1>14 DEF Claim, Fail, End, Outcome, Idle, Forget
<1>15. CASE Deliver
  BY <1>15 DEF Deliver, Fail, End, Outcome, Unanswered, Claimed, Idle, Forget, Queued
<1>16. CASE Acknowledge
  BY <1>16 DEF Acknowledge, Fail, End, Outcome, Onward, Claimed, Idle, Forget, Queued
<1>17. CASE Top
  BY <1>17 DEF Top, End, Outcome, Idle
<1>18. CASE ProviderAnswers
  BY <1>18 DEF ProviderAnswers, Fail, End, Outcome, Idle, Forget
<1>19. CASE Final
  BY <1>19 DEF Final
<1>20. CASE Conclude
  BY <1>20 DEF Conclude, End, Outcome, Idle
<1>21. CASE NextInBatch
  BY <1>21 DEF NextInBatch
<1>22. CASE Plan
  <2>1. CASE worker' = "publishing"
    <3>1. outcome' # "none"
      BY <2>1, <1>22 DEF Plan, End, Outcome
    <3> QED
      BY <2>1, <3>1
  <2>2. CASE worker' = "gate"
    <3>1. /\ pending = NoCall /\ pending' \in Open /\ ~started'
          /\ UNCHANGED <<asked, result, call, executed, tools>>
      BY <2>2, <1>22 DEF Plan, End
    <3> HIDE DEF PlaceOK, WaitingOK, TypeOK
    <3>2. pending' \in Calls /\ pending' # pending
      BY <3>1
    <3>3. asked[pending'] = "none" /\ pending' \notin executed
      BY <3>1, <3>2
    <3> HIDE DEF CallsOK, EffectsOnRecord
    <3> USE DEF PlaceOK
    <3> QED
      BY <2>2, <3>1, <3>2, <3>3
  <2>3. CASE worker' = "top"
    BY <2>3, <1>22 DEF Plan, End
  <2> QED
    BY <2>1, <2>2, <2>3, <1>22 DEF Plan, End
<1>23. ASSUME NEW first \in Calls, NEW last \in Calls, ProposeBatch(first, last) PROVE PlaceOK'
  BY <1>23 DEF ProposeBatch
<1>24. CASE Gate
  BY <1>24 DEF Gate, Fail, End, Outcome, Completed, Ask, Idle, Forget
<1>25. CASE Admit
  BY <1>25 DEF Admit, Fail, End, Outcome, Idle, Forget
<1>26. CASE Refuse
  BY <1>26 DEF Refuse, Completed, Idle, Forget
<1>27. CASE Interact
  BY <1>27 DEF Interact, Ask
<1>28. CASE Park
  BY <1>28 DEF Park, End, Outcome, Idle
<1>29. CASE Consume
  <2>1. UNCHANGED <<call, result, executed>> /\ worker' \in {"consumed", "publishing"}
    BY <1>29 DEF Consume, Fail, End
  <2>2. CASE worker' = "consumed"
    <3>1. /\ UNCHANGED <<pending, started>> /\ Current.kind = "act"
          /\ asked' = asked \/ \E c \in Calls : /\ asked[c] \in {"Responded", "Consumed"}
                                               /\ asked' = [asked EXCEPT ![c] = "Consumed"]
      BY <1>29, <2>2 DEF Consume, Fail, End, Matching, Decides
    <3>2. asked'[pending] = "none"
      BY <1>29, <3>1 DEF Consume
    <3> QED
      BY <1>29, <2>1, <2>2, <3>1, <3>2 DEF Consume
  <2>3. CASE worker' = "publishing"
    BY <1>29, <2>3 DEF Consume, Fail, End, Outcome
  <2> QED
    BY <2>1, <2>2, <2>3
<1>30. CASE Mark
  BY <1>30 DEF Mark, Fail, End, Outcome, Idle, Forget
<1>31. CASE Execute
  BY <1>31 DEF Execute
<1>32. CASE RecordResult
  BY <1>32 DEF RecordResult, End, Outcome, Completed, Idle, Forget
<1>33. CASE Publish
  BY <1>33 DEF Publish, SettledRequests, Verdict, Invalid, Unpark, Idle, Forget
<1>34. CASE Die
  BY <1>34 DEF Die, Idle, Forget
<1> HIDE DEF TypeOK, PlaceOK, CallsOK, EffectsOnRecord, WaitingOK, mailbox,
     requests, followups, disk, turn, journal, Goto, Current, NoCall, Loose, Before, Begun,
     Open, Admitted, Boundaries, Unanswered, Calls
<1> QED
  BY <1>0, <1>1, <1>2, <1>3, <1>4, <1>5, <1>6, <1>7, <1>8, <1>9, <1>10, <1>11, <1>12,
     <1>13, <1>14, <1>15, <1>16, <1>17, <1>18, <1>19, <1>20, <1>21, <1>22, <1>23, <1>24,
     <1>25, <1>26, <1>27, <1>28, <1>29, <1>30, <1>31, <1>32, <1>33, <1>34 DEF Next, UserStep, WorkerStep

\* What the transcript says of a call, and what was asked about it.
LEMMA CallsOKStep == TypeOK /\ PlaceOK /\ CallsOK /\ AnswerOK /\ WaitingOK /\ [Next]_vars => CallsOK'
<1> SUFFICES ASSUME TypeOK, PlaceOK, CallsOK, AnswerOK, WaitingOK, [Next]_vars PROVE CallsOK'
  OBVIOUS
<1> USE BoundsTyped DEF TypeOK, PlaceOK, CallsOK, WaitingOK, mailbox, requests, followups,
     disk, turn, journal, Goto, Current, NoCall, Loose, Before, Begun, Open, Admitted,
     Unanswered, Calls
<1>0. CASE UNCHANGED vars
  BY <1>0 DEF vars
<1>1. ASSUME NEW c \in Calls, NEW r \in {"answer", "approved", "denied"}, Respond(c, r) PROVE CallsOK'
  BY <1>1 DEF Respond, Answerable
<1>2. ASSUME NEW f \in Followups, QueueFollowup(f) PROVE CallsOK'
  BY <1>2 DEF QueueFollowup
<1>3. ASSUME NEW f \in Followups, EditFollowup(f) PROVE CallsOK'
  BY <1>3 DEF EditFollowup, Editable
<1>4. ASSUME NEW f \in Followups, RemoveFollowup(f) PROVE CallsOK'
  BY <1>4 DEF RemoveFollowup, Editable
<1>5. CASE Cancel
  BY <1>5 DEF Cancel, Invalid, Unpark
<1>6. CASE CancelClear
  BY <1>6 DEF CancelClear, Unpark
<1>7. CASE Resume
  BY <1>7 DEF Resume, Ready
<1>8. CASE Rework
  BY <1>8 DEF Rework
<1>9. CASE Reconcile
  BY <1>9 DEF Reconcile
<1>10. CASE Begin
  BY <1>10 DEF Begin, Fail, End, Outcome, Abort, Unpark, Idle, Forget
<1>11. CASE Resolve
  <2>1. CASE pending = NoCall
    BY <2>1, <1>11 DEF Resolve, End, Abort
  <2>2. CASE pending # NoCall /\ asked[pending] = "Pending"
    BY <2>2, <1>11 DEF Resolve, End, Outcome, Idle
  <2>3. CASE pending # NoCall /\ asked[pending] \in {"Responded", "Consumed"} /\ started
    <3>1. UNCHANGED <<asked, response, pending, started, result, call, executed>>
      BY <2>3, <1>11 DEF Resolve, Abort, End
    <3> HIDE DEF PlaceOK, TypeOK
    <3> QED
      BY <3>1
  <2>4. CASE pending # NoCall /\ asked[pending] \in {"Responded", "Consumed"} /\ ~started
    <3>1. /\ result' = [result EXCEPT ![pending] = response[pending]]
          /\ pending' = NoCall /\ ~started' /\ worker' = "answering"
          /\ UNCHANGED <<asked, response, call, executed>>
      BY <2>4, <1>11 DEF Resolve
    <3>2. response[pending] \in {"answer", "approved", "denied"}
      BY <2>4
    <3> HIDE DEF PlaceOK, WaitingOK, AnswerOK
    <3> QED
      BY <2>4, <3>1, <3>2
  <2>5. CASE pending # NoCall /\ asked[pending] \in {"none", "Invalidated"}
    <3>1. /\ result' = [result EXCEPT ![pending] = "unsure"]
          /\ pending' = NoCall /\ ~started' /\ worker' = "tidy"
          /\ UNCHANGED <<asked, response, call, executed>>
      BY <2>5, <1>11 DEF Resolve
    <3> HIDE DEF PlaceOK
    <3> QED
      BY <2>5, <3>1, <1>11 DEF Resolve
  <2>6. \A c \in Calls : asked[c] \in {"none", "Pending", "Responded", "Consumed", "Invalidated"}
    OBVIOUS
  <2>7. pending = NoCall \/ pending \in Calls
    OBVIOUS
  <2> HIDE DEF PlaceOK, WaitingOK, TypeOK, CallsOK
  <2> QED
    BY <2>6, <2>7, <2>1, <2>2, <2>3, <2>4, <2>5
<1>12. CASE TakeAnswer
  <2>1. /\ pending = NoCall
        /\ UNCHANGED <<response, pending, started, result, call, executed>>
    BY <1>12 DEF TakeAnswer, Abort
  <2>2. CASE UNCHANGED asked
    BY <2>1, <2>2
  <2>3. CASE /\ answered # NoCall
             /\ asked' = [asked EXCEPT ![answered] = "Consumed"]
    BY <2>1, <2>3 DEF AnswerOK
  <2> QED
    BY <2>2, <2>3, <1>12 DEF TakeAnswer, Abort
<1>13. CASE Tidy
  BY <1>13 DEF Tidy, Unanswered
<1>14. CASE Claim
  BY <1>14 DEF Claim, Fail, End, Outcome, Idle, Forget
<1>15. CASE Deliver
  BY <1>15 DEF Deliver, Fail, End, Outcome, Unanswered, Claimed, Idle, Forget, Queued
<1>16. CASE Acknowledge
  BY <1>16 DEF Acknowledge, Fail, End, Outcome, Onward, Claimed, Idle, Forget, Queued
<1>17. CASE Top
  BY <1>17 DEF Top, End, Outcome, Idle
<1>18. CASE ProviderAnswers
  BY <1>18 DEF ProviderAnswers, Fail, End, Outcome, Idle, Forget
<1>19. CASE Final
  BY <1>19 DEF Final
<1>20. CASE Conclude
  BY <1>20 DEF Conclude, End, Outcome, Idle
<1>21. CASE NextInBatch
  BY <1>21 DEF NextInBatch
<1>22. CASE Plan
  <2>1. pending = NoCall /\ ~started /\ UNCHANGED <<requests, call, executed>>
    BY <1>22 DEF Plan
  <2>2. \/ UNCHANGED <<pending, started, result>>
        \/ \E c \in Open : /\ ~started' /\ pending' \in {c, NoCall}
                          /\ \/ UNCHANGED result /\ pending' = c
                             \/ result' = [result EXCEPT ![c] = "notrun"]
    BY <1>22 DEF Plan, End, Outcome
  <2> HIDE DEF PlaceOK, WaitingOK, AnswerOK
  <2> QED
    BY <2>1, <2>2
<1>23. ASSUME NEW first \in Calls, NEW last \in Calls, ProposeBatch(first, last) PROVE CallsOK'
  <2>1. \A c \in Calls : c \in first..last => result[c] = "none" /\ asked[c] = "none"
    BY <1>23 DEF ProposeBatch, Proposed
  <2>2. \A c \in Calls : c \in first..last => result'[c] = "open"
    BY <1>23 DEF ProposeBatch
  <2>3. \A c \in Calls : c \in first..last => call'[c].kind # "none"
    BY <1>23 DEF ProposeBatch, Order
  <2>4. \A c \in Calls : c \notin first..last => result'[c] = result[c] /\ call'[c] = call[c]
    BY <1>23 DEF ProposeBatch
  <2>5. /\ UNCHANGED <<requests, pending, started, executed>>
        /\ pending = NoCall
    BY <1>23 DEF ProposeBatch
  <2> HIDE DEF PlaceOK, WaitingOK
  <2>6. /\ \A c \in Calls : result'[c] = "none" <=> call'[c].kind = "none"
        /\ \A c \in Calls : asked[c] \in {"Responded", "Consumed"} => response[c] # "none"
        /\ \A c \in Calls : result'[c] = "none" \/ (result'[c] = "open" /\ c # pending) =>
              asked[c] = "none"
    BY <2>1, <2>2, <2>3, <2>4, <2>5
  <2>7. /\ \A c \in Calls : asked[c] # "Pending"
        /\ \A c \in executed : c \in Calls => result'[c] # "none"
    BY <2>1, <2>2, <2>3, <2>4, <2>5
  <2> QED
    BY <2>6, <2>7, <2>1, <2>2, <2>3, <2>4, <2>5
<1>24. CASE Gate
  <2>1. CASE worker' = "admitting"
    <3>1. UNCHANGED <<requests, pending, started, result, call, executed>>
      BY <2>1, <1>24 DEF Gate, Fail, End, Completed, Ask, Idle
    <3> QED
      BY <2>1, <3>1
  <2>2. CASE worker' = "batch"
    <3>1. /\ result' = [result EXCEPT ![pending] = "denied"]
          /\ pending' = NoCall /\ ~started'
          /\ UNCHANGED <<requests, call, executed>>
      BY <2>2, <1>24 DEF Gate, Fail, End, Completed, Ask, Forget, Idle
    <3> QED
      BY <2>2, <3>1, <1>24 DEF Gate
  <2>3. CASE worker' = "parking"
    <3>1. /\ asked' = [asked EXCEPT ![pending] = "Pending"]
          /\ response' = [response EXCEPT ![pending] = "none"]
          /\ UNCHANGED <<pending, started, result, call, executed>>
      BY <2>3, <1>24 DEF Gate, Fail, End, Completed, Ask
    <3> QED
      BY <2>3, <3>1, <1>24 DEF Gate
  <2>4. CASE worker' = "publishing"
    <3>1. /\ UNCHANGED <<requests, started, result, call, executed>>
          /\ pending' = pending
      BY <2>4, <1>24 DEF Gate, Fail, End, Outcome, Completed, Ask, Idle
    <3> QED
      BY <2>4, <3>1
  <2> QED
    BY <2>1, <2>2, <2>3, <2>4, <1>24 DEF Gate, Fail, End, Completed
<1>25. CASE Admit
  BY <1>25 DEF Admit, Fail, End, Outcome, Idle, Forget
<1>26. CASE Refuse
  BY <1>26 DEF Refuse, Completed, Idle, Forget
<1>27. CASE Interact
  BY <1>27 DEF Interact, Ask
<1>28. CASE Park
  BY <1>28 DEF Park, End, Outcome, Idle
<1>29. CASE Consume
  <2>1. UNCHANGED <<call, result, executed, response, pending, started>>
    BY <1>29 DEF Consume, Fail, End, Outcome
  <2>2. asked' = asked \/ \E c \in Calls : /\ asked[c] \in {"Responded", "Consumed"}
                                          /\ asked' = [asked EXCEPT ![c] = "Consumed"]
    BY <1>29 DEF Consume, Matching, Decides
  <2> HIDE DEF PlaceOK, WaitingOK
  <2> QED
    BY <2>1, <2>2
<1>30. CASE Mark
  BY <1>30 DEF Mark, Fail, End, Outcome, Idle, Forget
<1>31. CASE Execute
  BY <1>31 DEF Execute
<1>32. CASE RecordResult
  <2>1. CASE worker' = "batch"
    <3>1. /\ result' = [result EXCEPT ![pending] = "ran"]
          /\ pending' = NoCall /\ ~started'
          /\ UNCHANGED <<requests, call, executed>>
      BY <2>1, <1>32 DEF RecordResult, End, Completed, Forget, Idle
    <3> QED
      BY <2>1, <3>1, <1>32 DEF RecordResult
  <2>2. CASE worker' = "publishing"
    <3>1. /\ UNCHANGED <<requests, started, result, call, executed>>
          /\ pending' = pending
      BY <2>2, <1>32 DEF RecordResult, End, Outcome, Completed, Idle
    <3> QED
      BY <2>2, <3>1
  <2> QED
    BY <2>1, <2>2, <1>32 DEF RecordResult, End, Completed
<1>33. CASE Publish
  <2>1. /\ UNCHANGED <<response, pending, started, result, call, executed>>
        /\ worker = "publishing"
    BY <1>33 DEF Publish, Unpark
  <2>2. \A c \in Calls : asked'[c] # asked[c] =>
            asked[c] \in {"Pending", "Responded"} /\ asked'[c] = "Invalidated"
    BY <1>33 DEF Publish, SettledRequests, Invalid
  <2> HIDE DEF PlaceOK, WaitingOK
  <2> QED
    BY <2>1, <2>2
<1>34. CASE Die
  BY <1>34 DEF Die, Idle, Forget
<1> HIDE DEF TypeOK, PlaceOK, CallsOK, WaitingOK, mailbox, requests, followups,
     disk, turn, journal, Goto, Current, NoCall, Loose, Before, Begun, Open, Admitted,
     Unanswered, Calls
<1> QED
  BY <1>0, <1>1, <1>2, <1>3, <1>4, <1>5, <1>6, <1>7, <1>8, <1>9, <1>10, <1>11, <1>12,
     <1>13, <1>14, <1>15, <1>16, <1>17, <1>18, <1>19, <1>20, <1>21, <1>22, <1>23, <1>24,
     <1>25, <1>26, <1>27, <1>28, <1>29, <1>30, <1>31, <1>32, <1>33, <1>34 DEF Next, UserStep, WorkerStep

\* The answer that is about to be consumed.
LEMMA AnswerOKStep == TypeOK /\ PlaceOK /\ CallsOK /\ AnswerOK /\ WaitingOK /\ [Next]_vars => AnswerOK'
<1> SUFFICES ASSUME TypeOK, PlaceOK, CallsOK, AnswerOK, WaitingOK, [Next]_vars PROVE AnswerOK'
  OBVIOUS
<1> USE BoundsTyped DEF TypeOK, PlaceOK, CallsOK, AnswerOK, WaitingOK, mailbox, requests,
     followups, disk, turn, journal, Goto, Current, NoCall, Answerable, Calls
<1>0. CASE UNCHANGED vars
  BY <1>0 DEF vars
<1>1. ASSUME NEW c \in Calls, NEW r \in {"answer", "approved", "denied"}, Respond(c, r) PROVE AnswerOK'
  BY <1>1 DEF Respond, Answerable
<1>2. ASSUME NEW f \in Followups, QueueFollowup(f) PROVE AnswerOK'
  BY <1>2 DEF QueueFollowup
<1>3. ASSUME NEW f \in Followups, EditFollowup(f) PROVE AnswerOK'
  BY <1>3 DEF EditFollowup, Editable
<1>4. ASSUME NEW f \in Followups, RemoveFollowup(f) PROVE AnswerOK'
  BY <1>4 DEF RemoveFollowup, Editable
<1>5. CASE Cancel
  BY <1>5 DEF Cancel, Invalid, Unpark
<1>6. CASE CancelClear
  BY <1>6 DEF CancelClear, Unpark
<1>7. CASE Resume
  BY <1>7 DEF Resume, Ready
<1>8. CASE Rework
  BY <1>8 DEF Rework
<1>9. CASE Reconcile
  BY <1>9 DEF Reconcile
<1>10. CASE Begin
  BY <1>10 DEF Begin, Fail, End, Outcome, Abort, Unpark, Idle, Forget
<1>11. CASE Resolve
  BY <1>11 DEF Resolve, End, Outcome, Abort, Idle, Forget
<1>12. CASE TakeAnswer
  BY <1>12 DEF TakeAnswer, Abort, Idle, Forget
<1>13. CASE Tidy
  BY <1>13 DEF Tidy, Unanswered
<1>14. CASE Claim
  <2>1. answered = NoCall
    BY <1>14 DEF Claim, Boundaries
  <2>2. answered' = NoCall
    BY <2>1, <1>14 DEF Claim, Fail, End, Idle
  <2> QED
    BY <2>2
<1>15. CASE Deliver
  BY <1>15 DEF Deliver, Fail, End, Outcome, Unanswered, Claimed, Idle, Forget, Queued
<1>16. CASE Acknowledge
  BY <1>16 DEF Acknowledge, Fail, End, Outcome, Onward, Claimed, Idle, Forget, Queued
<1>17. CASE Top
  BY <1>17 DEF Top, End, Outcome, Idle
<1>18. CASE ProviderAnswers
  BY <1>18 DEF ProviderAnswers, Fail, End, Outcome, Idle, Forget
<1>19. CASE Final
  BY <1>19 DEF Final
<1>20. CASE Conclude
  BY <1>20 DEF Conclude, End, Outcome, Idle
<1>21. CASE NextInBatch
  BY <1>21 DEF NextInBatch
<1>22. CASE Plan
  BY <1>22 DEF Plan, End, Outcome, Idle
<1>23. ASSUME NEW first \in Calls, NEW last \in Calls, ProposeBatch(first, last) PROVE AnswerOK'
  BY <1>23 DEF ProposeBatch
<1>24. CASE Gate
  BY <1>24 DEF Gate, Fail, End, Outcome, Completed, Ask, Idle, Forget
<1>25. CASE Admit
  BY <1>25 DEF Admit, Fail, End, Outcome, Idle, Forget
<1>26. CASE Refuse
  BY <1>26 DEF Refuse, Completed, Idle, Forget
<1>27. CASE Interact
  BY <1>27 DEF Interact, Ask
<1>28. CASE Park
  BY <1>28 DEF Park, End, Outcome, Idle
<1>29. CASE Consume
  BY <1>29 DEF Consume, Fail, End, Outcome, Matching, Decides, Idle, Forget
<1>30. CASE Mark
  BY <1>30 DEF Mark, Fail, End, Outcome, Idle, Forget
<1>31. CASE Execute
  BY <1>31 DEF Execute
<1>32. CASE RecordResult
  BY <1>32 DEF RecordResult, End, Outcome, Completed, Idle, Forget
<1>33. CASE Publish
  BY <1>33 DEF Publish, SettledRequests, Verdict, Invalid, Unpark, Idle, Forget
<1>34. CASE Die
  BY <1>34 DEF Die, Idle, Forget
<1> HIDE DEF TypeOK, PlaceOK, CallsOK, AnswerOK, WaitingOK, mailbox, requests,
     followups, disk, turn, journal, Goto, Current, NoCall, Answerable, Calls
<1> QED
  BY <1>0, <1>1, <1>2, <1>3, <1>4, <1>5, <1>6, <1>7, <1>8, <1>9, <1>10, <1>11, <1>12,
     <1>13, <1>14, <1>15, <1>16, <1>17, <1>18, <1>19, <1>20, <1>21, <1>22, <1>23, <1>24,
     <1>25, <1>26, <1>27, <1>28, <1>29, <1>30, <1>31, <1>32, <1>33, <1>34 DEF Next, UserStep, WorkerStep

\* Consumed approvals.
LEMMA LicencesOKStep == TypeOK /\ PlaceOK /\ CallsOK /\ LicencesOK /\ [Next]_vars => LicencesOK'
<1> SUFFICES ASSUME TypeOK, PlaceOK, CallsOK, LicencesOK, [Next]_vars PROVE LicencesOK'
  OBVIOUS
<1> USE BoundsTyped DEF TypeOK, PlaceOK, CallsOK, LicencesOK, mailbox, requests, followups,
     disk, turn, journal, Goto, Current, NoCall, Before, Begun, Open, Calls, Ungated,
     Unanswered
<1>0. CASE UNCHANGED vars
  BY <1>0 DEF vars
<1>1. ASSUME NEW c \in Calls, NEW r \in {"answer", "approved", "denied"}, Respond(c, r) PROVE LicencesOK'
  BY <1>1 DEF Respond, Answerable
<1>2. ASSUME NEW f \in Followups, QueueFollowup(f) PROVE LicencesOK'
  BY <1>2 DEF QueueFollowup
<1>3. ASSUME NEW f \in Followups, EditFollowup(f) PROVE LicencesOK'
  BY <1>3 DEF EditFollowup, Editable
<1>4. ASSUME NEW f \in Followups, RemoveFollowup(f) PROVE LicencesOK'
  BY <1>4 DEF RemoveFollowup, Editable
<1>5. CASE Cancel
  BY <1>5 DEF Cancel, Invalid, Unpark
<1>6. CASE CancelClear
  BY <1>6 DEF CancelClear, Unpark
<1>7. CASE Resume
  BY <1>7 DEF Resume, Ready
<1>8. CASE Rework
  BY <1>8 DEF Rework
<1>9. CASE Reconcile
  BY <1>9 DEF Reconcile
<1>10. CASE Begin
  BY <1>10 DEF Begin, Fail, End, Outcome, Abort, Unpark, Idle, Forget
<1>11. CASE Resolve
  BY <1>11 DEF Resolve, End, Outcome, Abort, Idle, Forget
<1>12. CASE TakeAnswer
  BY <1>12 DEF TakeAnswer, Abort, Idle, Forget
<1>13. CASE Tidy
  BY <1>13 DEF Tidy, Unanswered
<1>14. CASE Claim
  <2>1. UNCHANGED <<requests, result, call, executed, licence>>
    BY <1>14 DEF Claim
  <2>2. worker' \in {"delivering", "publishing"}
    BY <1>14 DEF Claim, Fail, End
  <2> QED
    BY <2>1, <2>2
<1>15. CASE Deliver
  BY <1>15 DEF Deliver, Fail, End, Outcome, Unanswered, Claimed, Idle, Forget, Queued
<1>16. CASE Acknowledge
  <2>1. UNCHANGED <<requests, pending, started, result, call, executed, licence, state, steered>>
    BY <1>16 DEF Acknowledge, Fail, End, Outcome
  <2>2. worker' \in {"asking", "planning", "concluding", "top", "publishing"}
    BY <1>16 DEF Acknowledge, Fail, End, Onward, Boundaries
  <2> QED
    BY <2>1, <2>2
<1>17. CASE Top
  BY <1>17 DEF Top, End, Outcome, Idle
<1>18. CASE ProviderAnswers
  BY <1>18 DEF ProviderAnswers, Fail, End, Outcome, Idle, Forget
<1>19. CASE Final
  BY <1>19 DEF Final
<1>20. CASE Conclude
  BY <1>20 DEF Conclude, End, Outcome, Idle
<1>21. CASE NextInBatch
  BY <1>21 DEF NextInBatch
<1>22. CASE Plan
  BY <1>22 DEF Plan, End, Outcome, Idle
<1>23. ASSUME NEW first \in Calls, NEW last \in Calls, ProposeBatch(first, last) PROVE LicencesOK'
  <2>1. \A c \in Calls : c \in first..last => result[c] = "none" /\ asked[c] = "none"
    BY <1>23 DEF ProposeBatch, Proposed
  <2>2. \A c \in Calls : result[c] # "none" => result'[c] # "none" /\ call'[c] = call[c]
    BY <2>1, <1>23 DEF ProposeBatch
  <2>3. \A c \in Calls : asked[c] = "Consumed" => call'[c] = call[c]
    BY <2>1, <1>23 DEF ProposeBatch
  <2>4. /\ UNCHANGED <<requests, pending, started, executed, licence>>
        /\ worker' = "batch"
    BY <1>23 DEF ProposeBatch
  <2>5. \A c \in executed : c \in Calls /\ call'[c] = call[c]
    BY <2>2
  <2>6. \A c \in Calls : licence[c] # NoCall => licence[c] \in Calls
    OBVIOUS
  <2> HIDE DEF PlaceOK, CallsOK
  <2>7. \A c \in Calls : licence[c] # NoCall =>
          call'[c] = call[c] /\ call'[licence[c]] = call[licence[c]]
    BY <2>2, <2>3, <2>6
  <2> QED
    <3>1. (\A c \in Calls : licence[c] # NoCall =>
             /\ result[c] # "none"
             /\ call[licence[c]].action = call[c].action
             /\ asked[licence[c]] = "Consumed" /\ response[licence[c]] = "approved")'
      BY <2>7, <2>2, <2>4
    <3>2. (\A c \in executed : call[c].action \in Gated => licence[c] # NoCall)'
      BY <2>5, <2>4
    <3> HIDE DEF TypeOK
    <3> QED
      BY <3>1, <3>2, <2>4
<1>24. CASE Gate
  <2>1. UNCHANGED <<call, executed, licence>>
    BY <1>24 DEF Gate
  <2>2. \/ /\ UNCHANGED <<requests, result, pending>> /\ worker' = "admitting"
           /\ (Current.kind = "act" /\ Current.action \in Gated => bound')
        \/ UNCHANGED requests /\ worker' = "batch"
           /\ result' = [result EXCEPT ![pending] = "denied"]
        \/ Ask /\ UNCHANGED <<result, pending>> /\ worker' = "parking"
        \/ UNCHANGED <<requests, result>> /\ worker' = "publishing"
    BY <1>24 DEF Gate, Fail, End, Completed
  <2> HIDE DEF Ungated
  <2> QED
    BY <1>24, <2>1, <2>2, SMTT(20) DEF Gate, Ask
<1>25. CASE Admit
  BY <1>25 DEF Admit, Fail, End, Outcome, Idle, Forget
<1>26. CASE Refuse
  BY <1>26 DEF Refuse, Completed, Idle, Forget
<1>27. CASE Interact
  BY <1>27 DEF Interact, Ask
<1>28. CASE Park
  BY <1>28 DEF Park, End, Outcome, Idle
<1>29. CASE Consume
  <2>1. CASE UNCHANGED <<asked, licence>>
    BY <2>1, <1>29 DEF Consume, Fail, End, Outcome, Idle
  <2>2. CASE \E c \in Calls :
                /\ Matching(c, Current.action) /\ response[c] = "approved"
                /\ asked' = [asked EXCEPT ![c] = "Consumed"]
                /\ licence' = [licence EXCEPT ![pending] = c]
                /\ worker' = "consumed"
                /\ UNCHANGED <<response, pending, started, result, call, executed>>
    <3> PICK m \in Calls :
                /\ Matching(m, Current.action) /\ response[m] = "approved"
                /\ asked' = [asked EXCEPT ![m] = "Consumed"]
                /\ licence' = [licence EXCEPT ![pending] = m]
                /\ worker' = "consumed"
                /\ UNCHANGED <<response, pending, started, result, call, executed>>
      BY <2>2
    <3>1. /\ asked[m] = "Responded" /\ call[m].action = Current.action
      BY DEF Matching, Decides
    <3>2. pending \in Calls /\ result[pending] = "open"
      BY <1>29 DEF Consume
    <3> HIDE DEF PlaceOK, CallsOK
    <3>3. \A c \in Calls : licence[c] # m
      <4> SUFFICES ASSUME NEW c \in Calls, licence[c] = m PROVE FALSE
        OBVIOUS
      <4>1. licence[c] # NoCall
        OBVIOUS
      <4>2. asked[licence[c]] = "Consumed"
        BY <4>1
      <4> QED
        BY <4>2, <3>1
    <3>4. /\ asked' = [asked EXCEPT ![m] = "Consumed"] /\ response'[m] = "approved"
          /\ licence' = [licence EXCEPT ![pending] = m]
          /\ worker' = "consumed"
          /\ UNCHANGED <<response, pending, result, call, executed>>
      OBVIOUS
    <3> QED
      BY <3>1, <3>2, <3>3, <3>4
  <2> QED
    BY <2>1, <2>2, <1>29 DEF Consume, Fail
<1>30. CASE Mark
  BY <1>30 DEF Mark, Fail, End, Outcome, Idle, Forget
<1>31. CASE Execute
  BY <1>31 DEF Execute
<1>32. CASE RecordResult
  <2>0. UNCHANGED result \/ result' = [result EXCEPT ![pending] = "ran"]
    BY <1>32, Zenon DEF RecordResult, Completed
  <2>1. \A c \in Calls : result[c] # "none" => result'[c] # "none"
    BY <2>0
  <2>2. /\ UNCHANGED <<requests, call, executed, licence>>
        /\ worker' \in {"batch", "publishing"}
    BY <1>32 DEF RecordResult, Completed, End
  <2> HIDE DEF CallsOK, PlaceOK
  <2> QED
    BY <2>1, <2>2
<1>33. CASE Publish
  BY <1>33 DEF Publish, SettledRequests, Verdict, Invalid, Unpark, Idle, Forget
<1>34. CASE Die
  BY <1>34 DEF Die, Idle, Forget
<1> HIDE DEF TypeOK, PlaceOK, CallsOK, LicencesOK, mailbox, requests, followups,
     disk, turn, journal, Goto, Current, NoCall, Before, Begun, Open, Calls, Ungated,
     Unanswered
<1> QED
  BY <1>0, <1>1, <1>2, <1>3, <1>4, <1>5, <1>6, <1>7, <1>8, <1>9, <1>10, <1>11, <1>12,
     <1>13, <1>14, <1>15, <1>16, <1>17, <1>18, <1>19, <1>20, <1>21, <1>22, <1>23, <1>24,
     <1>25, <1>26, <1>27, <1>28, <1>29, <1>30, <1>31, <1>32, <1>33, <1>34 DEF Next, UserStep, WorkerStep

\* Decisions and the call under way.
LEMMA DecisionsOKStep == TypeOK /\ PlaceOK /\ CallsOK /\ DecisionsOK /\ WaitingOK /\ [Next]_vars => DecisionsOK'
<1> SUFFICES ASSUME TypeOK, PlaceOK, CallsOK, DecisionsOK, WaitingOK, [Next]_vars PROVE DecisionsOK'
  OBVIOUS
<1> USE BoundsTyped DEF TypeOK, PlaceOK, CallsOK, DecisionsOK, WaitingOK, mailbox,
     requests, followups, disk, turn, journal, Goto, Current, NoCall, Before, Begun, Open,
     Standing, Calls, Ungated, Undecided, Decides, Matching
<1>0. CASE UNCHANGED vars
  BY <1>0 DEF vars
<1>1. ASSUME NEW c \in Calls, NEW r \in {"answer", "approved", "denied"}, Respond(c, r) PROVE DecisionsOK'
  BY <1>1 DEF Respond, Answerable
<1>2. ASSUME NEW f \in Followups, QueueFollowup(f) PROVE DecisionsOK'
  BY <1>2 DEF QueueFollowup
<1>3. ASSUME NEW f \in Followups, EditFollowup(f) PROVE DecisionsOK'
  BY <1>3 DEF EditFollowup, Editable
<1>4. ASSUME NEW f \in Followups, RemoveFollowup(f) PROVE DecisionsOK'
  BY <1>4 DEF RemoveFollowup, Editable
<1>5. CASE Cancel
  BY <1>5 DEF Cancel, Invalid, Unpark
<1>6. CASE CancelClear
  BY <1>6 DEF CancelClear, Unpark
<1>7. CASE Resume
  BY <1>7 DEF Resume, Ready
<1>8. CASE Rework
  BY <1>8 DEF Rework
<1>9. CASE Reconcile
  BY <1>9 DEF Reconcile
<1>10. CASE Begin
  BY <1>10 DEF Begin, Fail, End, Outcome, Abort, Unpark, Idle, Forget
<1>11. CASE Resolve
  BY <1>11 DEF Resolve, End, Outcome, Abort, Idle, Forget
<1>12. CASE TakeAnswer
  BY <1>12 DEF TakeAnswer, Abort, Idle, Forget
<1>13. CASE Tidy
  BY <1>13 DEF Tidy, Unanswered
<1>14. CASE Claim
  BY <1>14 DEF Claim, Fail, End, Outcome, Idle, Forget
<1>15. CASE Deliver
  BY <1>15 DEF Deliver, Fail, End, Outcome, Unanswered, Claimed, Idle, Forget, Queued
<1>16. CASE Acknowledge
  <2>1. UNCHANGED <<requests, pending, started, result, call, executed, licence, state, steered>>
    BY <1>16 DEF Acknowledge, Fail, End, Outcome
  <2>2. worker' \in {"asking", "planning", "concluding", "top", "publishing"}
    BY <1>16 DEF Acknowledge, Fail, End, Onward, Boundaries
  <2> QED
    BY <2>1, <2>2
<1>17. CASE Top
  BY <1>17 DEF Top, End, Outcome, Idle
<1>18. CASE ProviderAnswers
  BY <1>18 DEF ProviderAnswers, Fail, End, Outcome, Idle, Forget
<1>19. CASE Final
  BY <1>19 DEF Final
<1>20. CASE Conclude
  BY <1>20 DEF Conclude, End, Outcome, Idle
<1>21. CASE NextInBatch
  BY <1>21 DEF NextInBatch
<1>22. CASE Plan
  BY <1>22 DEF Plan, End, Outcome, Idle
<1>23. ASSUME NEW first \in Calls, NEW last \in Calls, ProposeBatch(first, last) PROVE DecisionsOK'
  BY <1>23 DEF ProposeBatch
<1>24. CASE Gate
  <2>1. UNCHANGED call /\ worker' \in {"admitting", "batch", "parking", "publishing"}
    BY <1>24 DEF Gate, Fail, End, Completed
  <2>2. CASE worker' = "admitting"
    <3>1. UNCHANGED <<requests, pending>>
      BY <1>24, <2>2 DEF Gate, Fail, End, Completed
    <3>2. Current.kind = "act" /\ ~bound' => Undecided(Current.action)
      BY <1>24, <2>2 DEF Gate, Fail, End, Completed
    <3> QED
      BY <2>1, <2>2, <3>1, <3>2
  <2> QED
    BY <2>1, <2>2
<1>25. CASE Admit
  BY <1>25 DEF Admit, Fail, End, Outcome, Idle, Forget
<1>26. CASE Refuse
  BY <1>26 DEF Refuse, Completed, Idle, Forget
<1>27. CASE Interact
  BY <1>27 DEF Interact, Ask
<1>28. CASE Park
  BY <1>28 DEF Park, End, Outcome, Idle
<1>29. CASE Consume
  <2>1. UNCHANGED <<call, response, executed>> /\ worker' \in {"consumed", "publishing"}
    BY <1>29 DEF Consume, Fail, End
  <2>2. CASE worker' = "consumed"
    <3>1. /\ UNCHANGED pending /\ pending \in Calls /\ Current.kind = "act"
          /\ \/ ~bound /\ UNCHANGED <<asked, licence>>
             \/ \E c \in Calls :
                   /\ Matching(c, Current.action) /\ response[c] = "approved"
                   /\ asked' = [asked EXCEPT ![c] = "Consumed"]
                   /\ licence' = [licence EXCEPT ![pending] = c]
      BY <1>29, <2>2 DEF Consume, Fail, End
    <3>2. CASE ~bound /\ UNCHANGED <<asked, licence>>
      BY <1>29, <2>1, <2>2, <3>1, <3>2 DEF Consume
    <3>3. ASSUME NEW c \in Calls, Matching(c, Current.action), response[c] = "approved",
                 asked' = [asked EXCEPT ![c] = "Consumed"],
                 licence' = [licence EXCEPT ![pending] = c]
          PROVE  DecisionsOK'
      <4>1. \A d \in Calls : Standing(d, Current.action)' => Decides(d, Current.action) /\ d # c
        BY <2>1, <3>1, <3>3
      <4>2. \A d \in Calls : Standing(d, Current.action)' => d < c
        <5> HIDE DEF Decides, Standing, TypeOK, PlaceOK, CallsOK, DecisionsOK, WaitingOK
        <5> QED
          BY <3>3, <4>1
      <4>3. licence'[pending] = c
        BY <3>1, <3>3
      <4> QED
        BY <2>1, <2>2, <3>1, <4>2, <4>3
    <3> QED
      BY <3>1, <3>2, <3>3
  <2> QED
    BY <2>1, <2>2
<1>30. CASE Mark
  BY <1>30 DEF Mark, Fail, End, Outcome, Idle, Forget
<1>31. CASE Execute
  BY <1>31 DEF Execute
<1>32. CASE RecordResult
  BY <1>32 DEF RecordResult, End, Outcome, Completed, Idle, Forget
<1>33. CASE Publish
  BY <1>33 DEF Publish, SettledRequests, Verdict, Invalid, Unpark, Idle, Forget
<1>34. CASE Die
  BY <1>34 DEF Die, Idle, Forget
<1> HIDE DEF TypeOK, PlaceOK, CallsOK, DecisionsOK, WaitingOK, mailbox,
     requests, followups, disk, turn, journal, Goto, Current, NoCall, Before, Begun, Open,
     Standing, Calls, Ungated, Undecided, Decides, Matching
<1> QED
  BY <1>0, <1>1, <1>2, <1>3, <1>4, <1>5, <1>6, <1>7, <1>8, <1>9, <1>10, <1>11, <1>12,
     <1>13, <1>14, <1>15, <1>16, <1>17, <1>18, <1>19, <1>20, <1>21, <1>22, <1>23, <1>24,
     <1>25, <1>26, <1>27, <1>28, <1>29, <1>30, <1>31, <1>32, <1>33, <1>34 DEF Next, UserStep, WorkerStep

\* A task that waits for its user.
LEMMA WaitingOKStep == TypeOK /\ PlaceOK /\ CallsOK /\ WaitingOK /\ [Next]_vars => WaitingOK'
<1> SUFFICES ASSUME TypeOK, PlaceOK, CallsOK, WaitingOK, [Next]_vars PROVE WaitingOK'
  OBVIOUS
<1> USE BoundsTyped DEF TypeOK, PlaceOK, CallsOK, WaitingOK, mailbox, requests, followups,
     disk, turn, journal, Goto, Current, NoCall, Loose, Before, Begun, WaitingAnswerable,
     Answerable, Calls, Admitted, Verdict, Open
<1>0. CASE UNCHANGED vars
  BY <1>0 DEF vars
<1>1. ASSUME NEW c \in Calls, NEW r \in {"answer", "approved", "denied"}, Respond(c, r) PROVE WaitingOK'
  BY <1>1 DEF Respond, Answerable
<1>2. ASSUME NEW f \in Followups, QueueFollowup(f) PROVE WaitingOK'
  BY <1>2 DEF QueueFollowup
<1>3. ASSUME NEW f \in Followups, EditFollowup(f) PROVE WaitingOK'
  BY <1>3 DEF EditFollowup, Editable
<1>4. ASSUME NEW f \in Followups, RemoveFollowup(f) PROVE WaitingOK'
  BY <1>4 DEF RemoveFollowup, Editable
<1>5. CASE Cancel
  BY <1>5 DEF Cancel, Invalid, Unpark
<1>6. CASE CancelClear
  BY <1>6 DEF CancelClear, Unpark
<1>7. CASE Resume
  BY <1>7 DEF Resume, Ready
<1>8. CASE Rework
  BY <1>8 DEF Rework
<1>9. CASE Reconcile
  BY <1>9 DEF Reconcile
<1>10. CASE Begin
  BY <1>10 DEF Begin, Fail, End, Outcome, Abort, Unpark, Idle, Forget
<1>11. CASE Resolve
  BY <1>11 DEF Resolve, End, Outcome, Abort, Idle, Forget
<1>12. CASE TakeAnswer
  BY <1>12 DEF TakeAnswer, Abort, Idle, Forget
<1>13. CASE Tidy
  BY <1>13 DEF Tidy, Unanswered
<1>14. CASE Claim
  <2>1. /\ worker \notin {"exiting", "dead", "publishing"}
        /\ worker' # "parking" /\ (worker' = "publishing" => outcome' # "Waiting")
    BY <1>14 DEF Claim, Fail, End, Outcome, Boundaries
  <2>2. UNCHANGED <<state, steered, requests, pending, started>>
    BY <1>14 DEF Claim, Fail, End, Outcome
  <2> QED
    BY <2>1, <2>2
<1>15. CASE Deliver
  BY <1>15 DEF Deliver, Fail, End, Outcome, Unanswered, Claimed, Idle, Forget, Queued
<1>16. CASE Acknowledge
  <2>1. /\ worker = "acknowledging"
        /\ worker' # "parking" /\ (worker' = "publishing" => outcome' # "Waiting")
    BY <1>16 DEF Acknowledge, Fail, End, Outcome, Boundaries, Onward
  <2>2. UNCHANGED <<state, steered, requests, pending, started>>
    BY <1>16 DEF Acknowledge, Fail, End, Outcome
  <2> QED
    BY <2>1, <2>2
<1>17. CASE Top
  BY <1>17 DEF Top, End, Outcome, Idle
<1>18. CASE ProviderAnswers
  BY <1>18 DEF ProviderAnswers, Fail, End, Outcome, Idle, Forget
<1>19. CASE Final
  BY <1>19 DEF Final
<1>20. CASE Conclude
  BY <1>20 DEF Conclude, End, Outcome, Idle
<1>21. CASE NextInBatch
  BY <1>21 DEF NextInBatch
<1>22. CASE Plan
  BY <1>22 DEF Plan, End, Outcome, Idle
<1>23. ASSUME NEW first \in Calls, NEW last \in Calls, ProposeBatch(first, last) PROVE WaitingOK'
  BY <1>23 DEF ProposeBatch
<1>24. CASE Gate
  BY <1>24 DEF Gate, Fail, End, Outcome, Completed, Ask, Idle, Forget
<1>25. CASE Admit
  BY <1>25 DEF Admit, Fail, End, Outcome, Idle, Forget
<1>26. CASE Refuse
  BY <1>26 DEF Refuse, Completed, Idle, Forget
<1>27. CASE Interact
  BY <1>27 DEF Interact, Ask
<1>28. CASE Park
  BY <1>28 DEF Park, End, Outcome, Idle
<1>29. CASE Consume
  BY <1>29 DEF Consume, Fail, End, Outcome, Matching, Decides, Idle, Forget
<1>30. CASE Mark
  BY <1>30 DEF Mark, Fail, End, Outcome, Idle, Forget
<1>31. CASE Execute
  BY <1>31 DEF Execute
<1>32. CASE RecordResult
  BY <1>32 DEF RecordResult, End, Outcome, Completed, Idle, Forget
<1>33. CASE Publish
  BY <1>33 DEF Publish, SettledRequests, Verdict, Invalid, Unpark, Idle, Forget
<1>34. CASE Die
  BY <1>34 DEF Die, Idle, Forget
<1> HIDE DEF TypeOK, PlaceOK, CallsOK, WaitingOK, mailbox, requests, followups,
     disk, turn, journal, Goto, Current, NoCall, Loose, Before, Begun, WaitingAnswerable,
     Answerable, Calls, Admitted, Verdict, Open
<1> QED
  BY <1>0, <1>1, <1>2, <1>3, <1>4, <1>5, <1>6, <1>7, <1>8, <1>9, <1>10, <1>11, <1>12,
     <1>13, <1>14, <1>15, <1>16, <1>17, <1>18, <1>19, <1>20, <1>21, <1>22, <1>23, <1>24,
     <1>25, <1>26, <1>27, <1>28, <1>29, <1>30, <1>31, <1>32, <1>33, <1>34 DEF Next, UserStep, WorkerStep

\* Follow-ups.
LEMMA FollowupsOKStep == TypeOK /\ FollowupsOK /\ [Next]_vars => FollowupsOK'
<1> SUFFICES ASSUME TypeOK, FollowupsOK, [Next]_vars PROVE FollowupsOK'
  OBVIOUS
<1> USE BoundsTyped DEF TypeOK, FollowupsOK, mailbox, requests, followups, disk, turn,
     journal, Goto, Current, NoCall, HeardOnce, Queued, Claimed, Verdict, Versions
<1>0. CASE UNCHANGED vars
  BY <1>0 DEF vars
<1>1. ASSUME NEW c \in Calls, NEW r \in {"answer", "approved", "denied"}, Respond(c, r) PROVE FollowupsOK'
  BY <1>1 DEF Respond, Answerable
<1>2. ASSUME NEW f \in Followups, QueueFollowup(f) PROVE FollowupsOK'
  BY <1>2 DEF QueueFollowup
<1>3. ASSUME NEW f \in Followups, EditFollowup(f) PROVE FollowupsOK'
  BY <1>3 DEF EditFollowup, Editable
<1>4. ASSUME NEW f \in Followups, RemoveFollowup(f) PROVE FollowupsOK'
  BY <1>4 DEF RemoveFollowup, Editable
<1>5. CASE Cancel
  BY <1>5 DEF Cancel, Invalid, Unpark
<1>6. CASE CancelClear
  BY <1>6 DEF CancelClear, Unpark
<1>7. CASE Resume
  BY <1>7 DEF Resume, Ready
<1>8. CASE Rework
  BY <1>8 DEF Rework
<1>9. CASE Reconcile
  BY <1>9 DEF Reconcile
<1>10. CASE Begin
  BY <1>10 DEF Begin, Fail, End, Outcome, Abort, Unpark, Idle, Forget
<1>11. CASE Resolve
  BY <1>11 DEF Resolve, End, Outcome, Abort, Idle, Forget
<1>12. CASE TakeAnswer
  BY <1>12 DEF TakeAnswer, Abort, Idle, Forget
<1>13. CASE Tidy
  BY <1>13 DEF Tidy, Unanswered
<1>14. CASE Claim
  BY <1>14 DEF Claim, Fail, End, Outcome, Idle, Forget
<1>15. CASE Deliver
  BY <1>15 DEF Deliver, Fail, End, Outcome, Unanswered, Claimed, Idle, Forget, Queued
<1>16. CASE Acknowledge
  BY <1>16 DEF Acknowledge, Fail, End, Outcome, Onward, Claimed, Idle, Forget, Queued
<1>17. CASE Top
  BY <1>17 DEF Top, End, Outcome, Idle
<1>18. CASE ProviderAnswers
  BY <1>18 DEF ProviderAnswers, Fail, End, Outcome, Idle, Forget
<1>19. CASE Final
  BY <1>19 DEF Final
<1>20. CASE Conclude
  BY <1>20 DEF Conclude, End, Outcome, Idle
<1>21. CASE NextInBatch
  BY <1>21 DEF NextInBatch
<1>22. CASE Plan
  BY <1>22 DEF Plan, End, Outcome, Idle
<1>23. ASSUME NEW first \in Calls, NEW last \in Calls, ProposeBatch(first, last) PROVE FollowupsOK'
  BY <1>23 DEF ProposeBatch
<1>24. CASE Gate
  BY <1>24 DEF Gate, Fail, End, Outcome, Completed, Ask, Idle, Forget
<1>25. CASE Admit
  BY <1>25 DEF Admit, Fail, End, Outcome, Idle, Forget
<1>26. CASE Refuse
  BY <1>26 DEF Refuse, Completed, Idle, Forget
<1>27. CASE Interact
  BY <1>27 DEF Interact, Ask
<1>28. CASE Park
  BY <1>28 DEF Park, End, Outcome, Idle
<1>29. CASE Consume
  BY <1>29 DEF Consume, Fail, End, Outcome, Matching, Decides, Idle, Forget
<1>30. CASE Mark
  BY <1>30 DEF Mark, Fail, End, Outcome, Idle, Forget
<1>31. CASE Execute
  BY <1>31 DEF Execute
<1>32. CASE RecordResult
  BY <1>32 DEF RecordResult, End, Outcome, Completed, Idle, Forget
<1>33. CASE Publish
  BY <1>33 DEF Publish, SettledRequests, Verdict, Invalid, Unpark, Idle, Forget
<1>34. CASE Die
  BY <1>34 DEF Die, Idle, Forget
<1> HIDE DEF TypeOK, FollowupsOK
<1> HIDE DEF TypeOK, FollowupsOK, mailbox, requests, followups, disk, turn,
     journal, Goto, Current, NoCall, HeardOnce, Queued, Claimed, Verdict, Versions
<1> QED
  BY <1>0, <1>1, <1>2, <1>3, <1>4, <1>5, <1>6, <1>7, <1>8, <1>9, <1>10, <1>11, <1>12,
     <1>13, <1>14, <1>15, <1>16, <1>17, <1>18, <1>19, <1>20, <1>21, <1>22, <1>23, <1>24,
     <1>25, <1>26, <1>27, <1>28, <1>29, <1>30, <1>31, <1>32, <1>33, <1>34 DEF Next, UserStep, WorkerStep

\* Effects, the record of them, and the budget.
LEMMA RecordOKStep == TypeOK /\ PlaceOK /\ CallsOK /\ RecordOK /\ [Next]_vars => RecordOK'
<1> SUFFICES ASSUME TypeOK, PlaceOK, CallsOK, RecordOK, [Next]_vars PROVE RecordOK'
  OBVIOUS
<1> USE BoundsTyped DEF TypeOK, PlaceOK, CallsOK, RecordOK, mailbox, requests, followups,
     disk, turn, journal, Goto, Current, NoCall, EffectsOnRecord, Calls, Before, Begun,
     Open, Unanswered
<1>a. IsFiniteSet(executed) /\ Cardinality(executed) \in Nat
  <2>1. IsFiniteSet(Calls)
    BY FS_Interval
  <2>2. IsFiniteSet(executed)
    BY <2>1, FS_Subset
  <2> QED
    BY <2>2, FS_CardinalityType
<1> USE <1>a
<1>0. CASE UNCHANGED vars
  BY <1>0 DEF vars
<1>1. ASSUME NEW c \in Calls, NEW r \in {"answer", "approved", "denied"}, Respond(c, r) PROVE RecordOK'
  BY <1>1 DEF Respond, Answerable
<1>2. ASSUME NEW f \in Followups, QueueFollowup(f) PROVE RecordOK'
  BY <1>2 DEF QueueFollowup
<1>3. ASSUME NEW f \in Followups, EditFollowup(f) PROVE RecordOK'
  BY <1>3 DEF EditFollowup, Editable
<1>4. ASSUME NEW f \in Followups, RemoveFollowup(f) PROVE RecordOK'
  BY <1>4 DEF RemoveFollowup, Editable
<1>5. CASE Cancel
  BY <1>5 DEF Cancel, Invalid, Unpark
<1>6. CASE CancelClear
  BY <1>6 DEF CancelClear, Unpark
<1>7. CASE Resume
  BY <1>7 DEF Resume, Ready
<1>8. CASE Rework
  BY <1>8 DEF Rework
<1>9. CASE Reconcile
  BY <1>9 DEF Reconcile
<1>10. CASE Begin
  BY <1>10 DEF Begin, Fail, End, Outcome, Abort, Unpark, Idle, Forget
<1>11. CASE Resolve
  <2>1. /\ UNCHANGED <<tools, executed>>
        /\ worker' \in {"tidy", "answering", "publishing"}
    BY <1>11 DEF Resolve, End, Abort
  <2>2. CASE UNCHANGED <<pending, started, result>>
    BY <2>1, <2>2
  <2>3. CASE pending \in Calls /\ ~started /\ asked[pending] \in {"Responded", "Consumed"}
             /\ result' = [result EXCEPT ![pending] = response[pending]] /\ pending' = NoCall
             /\ started' = started
    <3>0. /\ result[pending] \in {"open", "notrun"}
          /\ response[pending] \in {"none", "answer", "approved", "denied"}
      <4>1. pending # NoCall
        BY <2>3
      <4>2. response[pending] \in {"none", "answer", "approved", "denied"}
        BY <2>3
      <4> QED
        BY <4>1, <4>2
    <3> HIDE DEF PlaceOK, CallsOK
    <3>1. pending \notin executed
      BY <2>3, <3>0
    <3>2. result'[pending] # "ran"
      BY <2>3, <3>0
    <3> QED
      BY <2>1, <2>3, <3>1, <3>2
  <2>4. CASE pending \in Calls /\ pending' = NoCall
             /\ result' = [result EXCEPT ![pending] = "unsure"]
    <3> HIDE DEF PlaceOK, CallsOK
    <3> QED
      BY <2>1, <2>4
  <2> QED
    BY <2>2, <2>3, <2>4, <1>11 DEF Resolve, End, Outcome, Abort
<1>12. CASE TakeAnswer
  BY <1>12 DEF TakeAnswer, Abort, Idle, Forget
<1>13. CASE Tidy
  BY <1>13 DEF Tidy, Unanswered
<1>14. CASE Claim
  <2>1. UNCHANGED <<pending, started, tools, result, executed>>
    BY <1>14 DEF Claim, Fail, End, Outcome
  <2>2. worker' \in {"delivering", "publishing"}
    BY <1>14 DEF Claim, Fail, End
  <2> QED
    BY <2>1, <2>2
<1>15. CASE Deliver
  <2>1. /\ UNCHANGED <<pending, started, tools, executed>>
        /\ result' = result \/ result' = Unanswered
    BY <1>15 DEF Deliver, Fail, End, Outcome
  <2>2. worker' \in {"acknowledging", "publishing"}
    BY <1>15 DEF Deliver, Fail, End
  <2>3. \A c \in Calls : /\ result'[c] = "ran" <=> result[c] = "ran"
                         /\ result'[c] = "unsure" <=> result[c] = "unsure"
    BY <2>1
  <2>4. UNCHANGED <<pending, started, tools, executed>>
    BY <2>1
  <2>5. \A c \in executed : result[c] \in {"ran", "unsure"} => result'[c] \in {"ran", "unsure"}
    BY <2>3
  <2>6. \A c \in Calls : result'[c] = "ran" => result[c] = "ran"
    BY <2>3
  <2> QED
    BY <2>2, <2>4, <2>5, <2>6
<1>16. CASE Acknowledge
  <2>1. UNCHANGED <<pending, started, tools, result, executed>>
    BY <1>16 DEF Acknowledge, Fail, End, Outcome
  <2>2. worker' \notin {"gate", "admitting", "admitted", "consumed", "marked"}
    BY <1>16 DEF Acknowledge, Fail, End, Onward, Boundaries
  <2> HIDE DEF PlaceOK, CallsOK, TypeOK
  <2> QED
    BY <2>1, <2>2
<1>17. CASE Top
  BY <1>17 DEF Top, End, Outcome, Idle
<1>18. CASE ProviderAnswers
  BY <1>18 DEF ProviderAnswers, Fail, End, Outcome, Idle, Forget
<1>19. CASE Final
  BY <1>19 DEF Final
<1>20. CASE Conclude
  <2>1. /\ UNCHANGED <<started, tools, result, executed>> /\ worker' = "publishing"
        /\ pending = NoCall /\ pending' = NoCall
    BY <1>20 DEF Conclude, End, Loose
  <2> HIDE DEF PlaceOK, CallsOK, TypeOK
  <2> QED
    BY <2>1
<1>21. CASE NextInBatch
  BY <1>21 DEF NextInBatch
<1>22. CASE Plan
  <2>1. UNCHANGED <<tools, executed>> /\ worker' \in {"top", "publishing", "gate"}
        /\ pending = NoCall /\ ~started
    BY <1>22 DEF Plan, End, Loose
  <2>2. \A c \in executed : result[c] \in {"ran", "unsure"}
    BY <2>1
  <2>3. \A c \in Calls : c \in executed => result'[c] = result[c]
    <3>1. \/ UNCHANGED result
          \/ \E c \in Open : result' = [result EXCEPT ![c] = "notrun"]
      BY <1>22 DEF Plan
    <3> HIDE DEF PlaceOK, CallsOK
    <3> QED
      BY <2>2, <3>1
  <2>4. \A c \in Calls : result'[c] = "ran" => result[c] = "ran"
    BY <1>22 DEF Plan
  <2>5. worker' = "gate" => tools < MaxTools
    BY <1>22 DEF Plan, End
  <2> HIDE DEF PlaceOK, CallsOK
  <2> QED
    BY <2>1, <2>2, <2>3, <2>4, <2>5
<1>23. ASSUME NEW first \in Calls, NEW last \in Calls, ProposeBatch(first, last) PROVE RecordOK'
  <2>1. /\ UNCHANGED <<pending, started, tools, executed>> /\ worker' = "batch"
        /\ pending = NoCall
    BY <1>23 DEF ProposeBatch, Loose
  <2>2. \A c \in executed : result[c] \in {"ran", "unsure"}
    BY <2>1
  <2>3. \A c \in Calls : c \in executed => result'[c] = result[c]
    BY <2>2, <1>23 DEF ProposeBatch, Proposed
  <2>4. \A c \in Calls : result'[c] = "ran" => result[c] = "ran"
    BY <1>23 DEF ProposeBatch
  <2> HIDE DEF PlaceOK, CallsOK
  <2> QED
    BY <2>1, <2>2, <2>3, <2>4
<1>24. CASE Gate
  <2>1. /\ UNCHANGED <<tools, executed>> /\ pending \in Calls /\ pending \notin executed
        /\ tools < MaxTools
        /\ worker' \in {"admitting", "batch", "parking", "publishing"}
    BY <1>24 DEF Gate, Fail, End, Completed
  <2>2. \/ UNCHANGED <<pending, started, result>>
        \/ result' = [result EXCEPT ![pending] = "denied"]
    BY <1>24 DEF Gate, Fail, End, Outcome, Completed
  <2> HIDE DEF PlaceOK, CallsOK
  <2> QED
    BY <2>1, <2>2
<1>25. CASE Admit
  BY <1>25 DEF Admit, Fail, End, Outcome, Idle, Forget
<1>26. CASE Refuse
  BY <1>26 DEF Refuse, Completed, Idle, Forget
<1>27. CASE Interact
  BY <1>27 DEF Interact, Ask
<1>28. CASE Park
  BY <1>28 DEF Park, End, Outcome, Idle
<1>29. CASE Consume
  BY <1>29 DEF Consume, Fail, End, Outcome, Matching, Decides, Idle, Forget
<1>30. CASE Mark
  BY <1>30 DEF Mark, Fail, End, Outcome, Idle, Forget
<1>31. CASE Execute
  <2>1. /\ executed' = executed \cup {pending} /\ pending \in Calls /\ started
        /\ UNCHANGED <<result, pending, started, tools>> /\ worker' = "executed"
    BY <1>31 DEF Execute
  <2>2. Cardinality(executed') <= Cardinality(executed) + 1 /\ Cardinality(executed') \in Nat
    <3> HIDE DEF PlaceOK, CallsOK, RecordOK, TypeOK
    <3>1. CASE pending \in executed
      <4>1. executed' = executed
        BY <2>1, <3>1
      <4> QED
        BY <4>1
    <3>2. CASE pending \notin executed
      <4>1. Cardinality(executed \cup {pending}) = Cardinality(executed) + 1
        BY <3>2, FS_AddElement
      <4> QED
        BY <4>1, <2>1
    <3> QED
      BY <3>1, <3>2
  <2>3. Cardinality(executed') <= tools' /\ tools' <= MaxTools
    BY <2>1, <2>2, <1>31 DEF Execute
  <2>4. /\ \A c \in Calls : result'[c] = "ran" => c \in executed'
        /\ \A c \in executed' : result'[c] \in {"ran", "unsure"} \/ (pending' = c /\ started')
    BY <2>1
  <2> HIDE DEF PlaceOK, CallsOK
  <2> QED
    BY <2>1, <2>3, <2>4
<1>32. CASE RecordResult
  <2>1. /\ UNCHANGED <<tools, executed>> /\ pending \in executed
        /\ worker' \in {"batch", "publishing"}
    BY <1>32 DEF RecordResult, Completed, End
  <2>2. \/ UNCHANGED <<pending, started, result>>
        \/ result' = [result EXCEPT ![pending] = "ran"]
    BY <1>32 DEF RecordResult, End, Outcome, Completed
  <2> HIDE DEF PlaceOK, CallsOK
  <2> QED
    BY <2>1, <2>2
<1>33. CASE Publish
  BY <1>33 DEF Publish, SettledRequests, Verdict, Invalid, Unpark, Idle, Forget
<1>34. CASE Die
  BY <1>34 DEF Die, Idle, Forget
<1> HIDE DEF TypeOK, PlaceOK, CallsOK, RecordOK, mailbox, requests, followups,
     disk, turn, journal, Goto, Current, NoCall, EffectsOnRecord, Calls, Before, Begun,
     Open, Unanswered
<1> QED
  BY <1>0, <1>1, <1>2, <1>3, <1>4, <1>5, <1>6, <1>7, <1>8, <1>9, <1>10, <1>11, <1>12,
     <1>13, <1>14, <1>15, <1>16, <1>17, <1>18, <1>19, <1>20, <1>21, <1>22, <1>23, <1>24,
     <1>25, <1>26, <1>27, <1>28, <1>29, <1>30, <1>31, <1>32, <1>33, <1>34 DEF Next, UserStep, WorkerStep

---------------------------------------------------------------------------
(* The theorems.                                                           *)

\* The inductive invariant holds at the start.
LEMMA InvInit == Init => IInv
<1> SUFFICES ASSUME Init PROVE IInv
  OBVIOUS
<1>1. TypeOK
  BY TypeInit
<1>2. PlaceOK /\ CallsOK /\ AnswerOK /\ LicencesOK
  BY BoundsTyped DEF Init, PlaceOK, CallsOK, AnswerOK, LicencesOK, Loose, Before, Begun, NoCall
<1>3. DecisionsOK /\ WaitingOK
  BY DEF Init, DecisionsOK, WaitingOK, WaitingAnswerable
<1>4. FollowupsOK
  BY DEF Init, FollowupsOK, HeardOnce
<1>5. RecordOK
  <2>1. Cardinality(executed) = 0
    BY FS_EmptySet DEF Init
  <2> QED
    BY <2>1, BoundsTyped DEF Init, RecordOK, EffectsOnRecord
<1> QED
  BY <1>1, <1>2, <1>3, <1>4, <1>5 DEF IInv

\* It holds in every reachable state.
THEOREM Invariance == Spec => []IInv
<1>1. IInv /\ [Next]_vars => IInv'
  BY TypeStep, PlaceOKStep, CallsOKStep, AnswerOKStep, LicencesOKStep, DecisionsOKStep,
     WaitingOKStep, FollowupsOKStep, RecordOKStep DEF IInv, RecordOK
<1> QED
  BY <1>1, InvInit, PTL DEF Spec

\* Every variable keeps its type.
THEOREM TypeCorrect == Spec => []TypeOK
<1>1. IInv => TypeOK
  BY DEF IInv
<1> QED
  BY <1>1, Invariance, PTL

\* An approval authorises one execution of the action it was given for, whatever crashes,
\* retries and reissues lie between (matching_response, consume_interaction).
THEOREM ApprovalUsedOnce == Spec => []Licensed
<1>1. IInv => Licensed
  <2> SUFFICES ASSUME IInv PROVE Licensed
    OBVIOUS
  <2> USE DEF IInv, LicencesOK, TypeOK
  <2> QED
    BY DEF Licensed
<1> QED
  BY <1>1, Invariance, PTL

\* The checkpoint never denies an effect, and charged for it before (mark_pending_started,
\* admit_tool).
THEOREM EffectsRecorded == Spec => []EffectsOnRecord
<1>1. IInv => EffectsOnRecord
  BY DEF IInv, RecordOK
<1> QED
  BY <1>1, Invariance, PTL

\* A follow-up enters the transcript once (claim_followups, acknowledge_followups).
THEOREM FollowupHeardOnce == Spec => []HeardOnce
<1>1. IInv => HeardOnce
  BY DEF IInv, FollowupsOK
<1> QED
  BY <1>1, Invariance, PTL

\* A task that waits can be answered or resumed (finish_native, reconcile).
THEOREM WaitingCanBeAnswered == Spec => []WaitingAnswerable
<1>1. IInv => WaitingAnswerable
  BY DEF IInv, WaitingOK
<1> QED
  BY <1>1, Invariance, PTL

\* What the user declined is not done (matching_response).
THEOREM DenialStands == Spec => DeniedStands
<1>1. IInv /\ [Next]_vars =>
        [\A c \in executed' \ executed, d \in Calls :
            Standing(d, call[c].action) => licence[c] > d]_vars
  <2> SUFFICES ASSUME IInv, [Next]_vars
               PROVE \A c \in executed' \ executed, d \in Calls :
                        Standing(d, call[c].action) => licence[c] > d
    OBVIOUS
  <2>1. CASE Execute
    BY <2>1 DEF Execute, IInv, DecisionsOK, Current
  <2>2. CASE executed' = executed
    BY <2>2
  <2>3. CASE Consume
    BY <2>3 DEF Consume
  <2> QED
    BY <2>1, <2>2, <2>3, HistoryFrame
<1> QED
  BY <1>1, Invariance, PTL DEF Spec, DeniedStands
=============================================================================
