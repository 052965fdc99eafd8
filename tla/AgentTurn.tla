----------------------------- MODULE AgentTurn -----------------------------
(***************************************************************************)
(* What a background worker does for its task, attempt after attempt: the  *)
(* loop of provider turns and tool calls (src/modes/yolo.rs run_loop and   *)
(* resume), its durable checkpoint (src/tasks.rs), the counters of         *)
(* agent/native.rs, and the mailbox in the task record through which the   *)
(* user approves, denies, answers and steers                               *)
(* (src/background/interactions.rs).                                       *)
(*                                                                         *)
(* Attempts follow one another: that two of them never execute at once is  *)
(* TaskLifecycle.OneExecutor.  A worker may die at any step.  A step that  *)
(* changes the worker's messages and saves them is one action, because     *)
(* what is not saved is lost with the process.                             *)
(*                                                                         *)
(* A provider names its calls afresh, so calls are numbered in the order   *)
(* they are proposed; an action is what an approval binds (tool,           *)
(* arguments, directory, authority: its digest).  Time, cost and iteration *)
(* limits may strike at any provider turn.                                 *)
(***************************************************************************)
EXTENDS Naturals, FiniteSets

CONSTANTS
    MaxCalls,      \* bound: tool calls the provider proposes
    MaxAttempts,   \* bound: workers started for the task
    Actions,       \* actions a tool call may ask for
    Gated,         \* those that need the user's approval
    Requestable,   \* bound: those the model asks leave for of its own accord
    MaxTools,      \* the task's tool-call budget
    Followups,     \* messages the user may queue
    MaxEdits       \* bound: edits of a queued message

ASSUME BoundsTyped ==
    /\ MaxCalls \in Nat /\ MaxAttempts \in Nat \ {0} /\ MaxTools \in Nat /\ MaxEdits \in Nat
    /\ Gated \subseteq Actions /\ Requestable \subseteq Actions

VARIABLES
    state,      \* record: state of the task
    asked,      \* record: status of the human request made for each call
    response,   \* record: the user's response to it
    followup,   \* record: status of each follow-up message
    version,    \* record: its wording
    claim,      \* record: the attempt that delivers it
    steered,    \* record: rework instructions no attempt has taken yet
    completed,  \* checkpoint: the task completed
    parked,     \* checkpoint: it waits for the user
    pending,    \* checkpoint: the pending call
    started,    \* checkpoint: the pending call may have been started
    tools,      \* checkpoint: tool calls charged
    result,     \* checkpoint: what the transcript says of each call
    heard,      \* checkpoint: follow-up texts in the transcript
    call,       \* what each proposed call asks for
    worker,     \* where the worker is
    attempt,    \* which attempt it is
    outcome,    \* worker memory: how the attempt ends
    boundary,   \* worker memory: where follow-ups are being received
    added,      \* worker memory: one was added to the transcript
    bound,      \* worker memory: the pending call was bound to an approval
    answered,   \* worker memory: the question whose answer is to be consumed
    signalled,  \* the worker was interrupted by a cancellation
    executed,   \* history: calls whose effect took place
    licence     \* history: the request whose approval each call consumed

requests == <<asked, response>>
followups == <<followup, version, claim>>
mailbox == <<requests, followups>>
disk == <<completed, parked, pending, started, tools>>
journal == <<disk, result, heard>>
turn == <<outcome, boundary, added, bound, answered>>
vars == <<state, mailbox, steered, journal, call, worker, attempt, turn, signalled,
          executed, licence>>

Calls == 1..MaxCalls
NoCall == 0
Versions == 0..MaxEdits

\* act: do it; request: ask the user to approve an action; ask: a question.
Order ==
    [kind : {"act"}, action : Actions] \cup [kind : {"request"}, action : Requestable]
        \cup [kind : {"ask"}, action : {"none"}]

States == {"Running", "Waiting", "Interrupted", "Failed", "Cancelled", "Completed"}

Init ==
    /\ state = "Running"
    /\ asked = [c \in Calls |-> "none"] /\ response = [c \in Calls |-> "none"]
    /\ followup = [f \in Followups |-> "none"]
    /\ version = [f \in Followups |-> 0] /\ claim = [f \in Followups |-> 0]
    /\ steered = FALSE
    /\ completed = FALSE /\ parked = FALSE
    /\ pending = NoCall /\ started = FALSE /\ tools = 0
    /\ result = [c \in Calls |-> "none"]
    /\ heard = {}
    /\ call = [c \in Calls |-> [kind |-> "none", action |-> "none"]]
    /\ worker = "spawned"
    /\ attempt = 1
    /\ outcome = "none" /\ boundary = "top" /\ added = FALSE /\ bound = FALSE
    /\ answered = NoCall
    /\ signalled = FALSE
    /\ executed = {}
    /\ licence = [c \in Calls |-> NoCall]

---------------------------------------------------------------------------
(* The mailbox.                                                            *)

\* A faulty rule that does not look whether an approval was used.
DecidesReused(c, a) ==
    /\ call[c].kind # "ask" /\ call[c].action = a
    /\ asked[c] \in {"Responded", "Consumed"}

\* The requests an action may find its answer in: an unused approval, or a denial.
Decides(c, a) ==
    /\ call[c].kind # "ask" /\ call[c].action = a
    /\ \/ asked[c] = "Responded" /\ response[c] = "approved"
       \/ asked[c] \in {"Responded", "Consumed"} /\ response[c] = "denied"

Undecided(a) == \A c \in Calls : ~Decides(c, a)

\* matching_response: the newest request that decides about this action.
Matching(c, a) == Decides(c, a) /\ \A d \in Calls : Decides(d, a) => d <= c

Invalid(statuses) ==
    [c \in Calls |-> IF asked[c] \in statuses THEN "Invalidated" ELSE asked[c]]

Queued == {f \in Followups : followup[f] = "Queued"}
Claimed == {f \in Queued : claim[f] = attempt}

Open == {c \in Calls : result[c] = "open"}

\* ensure_active, attach_native_task: effects are admitted for an active task only.
Admitted == state = "Running"

Goto(where) == worker' = where
Idle == boundary' = "top" /\ added' = FALSE /\ bound' = FALSE /\ answered' = NoCall
Forget == outcome' = "none" /\ Idle

---------------------------------------------------------------------------
(* The user and the clients.                                               *)

\* respond, record_response: only to the pending call of a checkpoint that is parked.
Answerable(c) ==
    /\ state = "Waiting"
    /\ parked /\ pending = c /\ ~started
    /\ asked[c] = "Pending"

Respond(c, answer) ==
    /\ Answerable(c)
    /\ answer \in IF call[c].kind = "ask" THEN {"answer", "denied"} ELSE {"approved", "denied"}
    /\ asked' = [asked EXCEPT ![c] = "Responded"]
    /\ response' = [response EXCEPT ![c] = answer]
    /\ UNCHANGED <<state, followups, steered, journal, call, worker, attempt, turn,
                   signalled, executed, licence>>

QueueFollowup(f) ==
    /\ state \in {"Running", "Waiting"}
    /\ followup[f] = "none"
    /\ followup' = [followup EXCEPT ![f] = "Queued"]
    /\ UNCHANGED <<state, requests, version, claim, steered, journal, call, worker, attempt,
                   turn, signalled, executed, licence>>

\* A faulty check that lets a message change while it is being delivered.
EditableLoose(f) == followup[f] = "Queued"

\* editable_followup: queued, and nobody has claimed it.
Editable(f) == followup[f] = "Queued" /\ claim[f] = 0

EditFollowup(f) ==
    /\ Editable(f)
    /\ version[f] < MaxEdits
    /\ version' = [version EXCEPT ![f] = version[f] + 1]
    /\ UNCHANGED <<state, requests, followup, claim, steered, journal, call, worker, attempt,
                   turn, signalled, executed, licence>>

RemoveFollowup(f) ==
    /\ Editable(f)
    /\ followup' = [followup EXCEPT ![f] = "Removed"]
    /\ UNCHANGED <<state, requests, version, claim, steered, journal, call, worker, attempt,
                   turn, signalled, executed, licence>>

Unpark == parked' = FALSE /\ completed' = FALSE /\ UNCHANGED <<pending, started, tools>>

\* cancel: open requests are void; a live worker is interrupted, otherwise the
\* checkpoint is marked cancelled at once.
Cancel ==
    /\ state \in {"Running", "Waiting"}
    /\ state' = "Cancelled"
    /\ asked' = Invalid({"Pending", "Responded"})
    /\ IF worker = "dead"
       THEN Unpark /\ UNCHANGED signalled
       ELSE signalled' = TRUE /\ UNCHANGED disk
    /\ UNCHANGED <<response, followups, steered, result, heard, call, worker, attempt, turn,
                   executed, licence>>

\* cancel, last update: the worker is gone.
CancelClear ==
    /\ state = "Cancelled" /\ worker = "dead"
    /\ parked \/ completed
    /\ Unpark
    /\ UNCHANGED <<state, mailbox, steered, result, heard, call, worker, attempt, turn,
                   signalled, executed, licence>>

\* A faulty reconciliation that trusts the mailbox alone.
ReconcileEager ==
    /\ state = "Running" /\ worker = "dead"
    /\ state' = IF \E c \in Calls : asked[c] \in {"Pending", "Responded"}
                THEN "Waiting" ELSE "Interrupted"
    /\ UNCHANGED <<mailbox, steered, journal, call, worker, attempt, turn, signalled,
                   executed, licence>>

\* reconcile: the worker of a running task is gone.
Reconcile ==
    /\ state = "Running" /\ worker = "dead"
    /\ state' = IF parked /\ \E c \in Calls : asked[c] \in {"Pending", "Responded"}
                THEN "Waiting" ELSE "Interrupted"
    /\ UNCHANGED <<mailbox, steered, journal, call, worker, attempt, turn, signalled,
                   executed, licence>>

\* ready_to_resume: every question is answered, and one was.
Ready ==
    /\ \A c \in Calls : asked[c] # "Pending"
    /\ \E c \in Calls : asked[c] = "Responded"

\* resume: the old worker has exited; a new one is spawned.
Resume ==
    /\ state \in {"Waiting", "Interrupted", "Failed", "Cancelled"}
    /\ state = "Waiting" => Ready
    /\ worker = "dead"
    /\ attempt < MaxAttempts
    /\ state' = "Running"
    /\ attempt' = attempt + 1
    /\ worker' = "spawned"
    /\ signalled' = FALSE
    /\ UNCHANGED <<mailbox, steered, journal, call, turn, executed, licence>>

\* rework, up to its resume.
Rework ==
    /\ state \in {"Interrupted", "Failed", "Cancelled", "Completed"}
    /\ ~steered
    /\ state' = "Interrupted"
    /\ steered' = TRUE
    /\ UNCHANGED <<mailbox, journal, call, worker, attempt, turn, signalled, executed,
                   licence>>

---------------------------------------------------------------------------
(* The end of an attempt.                                                  *)

Outcome(wanted) == IF state = "Cancelled" THEN "Cancelled" ELSE wanted

\* finish_turn, finish_native: the checkpoint takes the outcome; a pending call stays
\* pending unless the task completed.
End(wanted, p) ==
    /\ completed' = (Outcome(wanted) = "Completed")
    /\ parked' = (Outcome(wanted) = "Waiting")
    /\ pending' = IF Outcome(wanted) = "Completed" THEN NoCall ELSE p
    /\ outcome' = Outcome(wanted) /\ Idle
    /\ Goto("publishing")

\* fail_internal: an error inside the loop.
Fail ==
    /\ End(IF signalled THEN "Cancelled" ELSE "Failed", pending)
    /\ UNCHANGED <<started, tools>>

\* An error outside the loop: finish(Err), the checkpoint stays as it is.
Abort == outcome' = "Error" /\ Idle /\ Goto("publishing") /\ UNCHANGED disk

\* finish_record: a follow-up that arrived as the task finished keeps it resumable.
Verdict(wanted) ==
    CASE wanted = "Error" -> "Failed"
      [] wanted = "Completed" /\ Queued # {} -> "Interrupted"
      [] OTHER -> wanted

\* finish_record: a finished task leaves no question open, an overspent one no answer.
SettledRequests(verdict, overspent) ==
    IF overspent \/ verdict = "Cancelled" THEN Invalid({"Pending", "Responded"})
    ELSE IF verdict # "Waiting" THEN Invalid({"Pending"})
    ELSE asked

\* finish_native_record, finish: only an active or interrupted record takes the outcome;
\* required checks and the change budget may turn it into a failure.
Publish ==
    /\ worker = "publishing"
    /\ Goto("exiting")
    /\ Forget
    /\ IF state \in {"Running", "Interrupted"}
       THEN /\ \E overspent \in BOOLEAN, unchecked \in BOOLEAN :
                   /\ unchecked => outcome = "Completed"
                   /\ state' = IF overspent \/ unchecked THEN "Failed" ELSE Verdict(outcome)
                   /\ asked' = SettledRequests(state', overspent)
            /\ UNCHANGED disk
       ELSE /\ IF state = "Cancelled" /\ outcome # "Error"
               THEN Unpark ELSE UNCHANGED disk
            /\ UNCHANGED <<state, asked>>
    /\ UNCHANGED <<response, followups, steered, result, heard, call, attempt, signalled, executed,
                   licence>>

\* A worker exits, crashes or is killed.
Die ==
    /\ worker # "dead"
    /\ Goto("dead")
    /\ Forget
    /\ signalled' = FALSE
    /\ UNCHANGED <<state, mailbox, steered, journal, call, attempt, executed, licence>>

---------------------------------------------------------------------------
(* resume: the pending call of the last attempt is settled, never repeated. *)

\* request, resume_checkpoint, Active::resume and its ensure_persisted.
Begin ==
    /\ worker = "spawned"
    /\ IF state \notin {"Running", "Interrupted"}
       THEN Goto("exiting") /\ Forget /\ UNCHANGED <<disk, steered>>
       ELSE IF completed /\ ~steered /\ Queued = {}
       THEN Abort /\ UNCHANGED steered
       ELSE /\ steered' = FALSE
            /\ IF Admitted
               THEN Unpark /\ Goto("resolving") /\ Forget
               ELSE Fail
    /\ UNCHANGED <<state, mailbox, result, heard, call, attempt, signalled, executed, licence>>

\* The pending call: still unanswered, answered, or perhaps started by the last worker.
Resolve ==
    /\ worker = "resolving"
    /\ \/ /\ pending = NoCall
          /\ Goto("tidy") /\ UNCHANGED <<disk, result, turn>>
       \/ /\ pending # NoCall /\ asked[pending] = "Pending"
          /\ End("Waiting", pending) /\ UNCHANGED <<started, tools, result>>
       \/ /\ pending # NoCall /\ asked[pending] \in {"Responded", "Consumed"} /\ started
          /\ Abort /\ UNCHANGED result
       \/ /\ pending # NoCall /\ asked[pending] \in {"Responded", "Consumed"} /\ ~started
          /\ result' = [result EXCEPT ![pending] = response[pending]]
          /\ answered' = IF response[pending] = "answer" THEN pending ELSE NoCall
          /\ pending' = NoCall
          /\ Goto("answering")
          /\ UNCHANGED <<completed, parked, started, tools, outcome, boundary, added, bound>>
       \/ /\ pending # NoCall /\ asked[pending] \in {"none", "Invalidated"}
          /\ result' = [result EXCEPT ![pending] = "unsure"]
          /\ pending' = NoCall /\ started' = FALSE
          /\ Goto("tidy")
          /\ UNCHANGED <<completed, parked, tools, turn>>
    /\ UNCHANGED <<state, mailbox, steered, heard, call, attempt, signalled, executed, licence>>

\* ensure_persisted, and only then the answer to a question is consumed.
TakeAnswer ==
    /\ worker = "answering"
    /\ IF Admitted
       THEN /\ asked' = IF answered = NoCall THEN asked
                        ELSE [asked EXCEPT ![answered] = "Consumed"]
            /\ Goto("tidy") /\ Forget /\ UNCHANGED disk
       ELSE Abort /\ UNCHANGED asked
    /\ UNCHANGED <<state, response, followups, steered, result, heard, call, attempt,
                   signalled, executed, licence>>

\* resolve_unanswered_tools: calls of the interrupted batch were never begun.
Unanswered == [c \in Calls |-> IF result[c] = "open" THEN "notrun" ELSE result[c]]

Tidy ==
    /\ worker = "tidy"
    /\ result' = Unanswered
    /\ Goto("top")
    /\ UNCHANGED <<state, mailbox, steered, disk, heard, call, attempt, turn, signalled,
                   executed, licence>>

---------------------------------------------------------------------------
(* Follow-ups, received at three boundaries of the loop.                   *)

Boundaries == {"top", "batch", "final"}

\* claim_followups.
Claim ==
    /\ worker \in Boundaries
    /\ worker = "top" => ~signalled
    /\ worker = "batch" => Open # {}
    /\ Queued # {}
    /\ IF Admitted
       THEN /\ claim' = [f \in Followups |-> IF f \in Queued THEN attempt ELSE claim[f]]
            /\ boundary' = worker
            /\ Goto("delivering")
            /\ UNCHANGED <<disk, outcome, added, bound, answered>>
       ELSE Fail /\ UNCHANGED claim
    /\ UNCHANGED <<state, requests, followup, version, steered, result, heard, call, attempt,
                   signalled, executed, licence>>

\* checkpoint_followup_revision: the texts the transcript does not hold yet, after the
\* rest of the batch was answered; saved, and then attached.
Deliver ==
    LET new == {<<f, version[f]>> : f \in Claimed} \ heard
    IN  /\ worker = "delivering"
        /\ heard' = heard \cup new
        /\ result' = IF new = {} THEN result ELSE Unanswered
        /\ IF Admitted
           THEN /\ added' = (new # {})
                /\ Goto("acknowledging")
                /\ UNCHANGED <<disk, outcome, boundary, bound, answered>>
           ELSE Fail
        /\ UNCHANGED <<state, mailbox, steered, call, attempt, signalled, executed, licence>>

Onward ==
    IF added THEN (IF boundary = "top" THEN "asking" ELSE "top")
    ELSE CASE boundary = "top" -> "asking"
           [] boundary = "batch" -> "planning"
           [] boundary = "final" -> "concluding"

\* acknowledge_followups: received only what the durable transcript holds.
Acknowledge ==
    /\ worker = "acknowledging"
    /\ IF Admitted /\ \A f \in Claimed : <<f, version[f]>> \in heard
       THEN /\ followup' = [f \in Followups |-> IF f \in Claimed THEN "Received" ELSE followup[f]]
            /\ claim' = [f \in Followups |-> IF f \in Claimed THEN 0 ELSE claim[f]]
            /\ Goto(Onward) /\ Forget /\ UNCHANGED disk
       ELSE Fail /\ UNCHANGED <<followup, claim>>
    /\ UNCHANGED <<state, requests, version, steered, result, heard, call, attempt, signalled,
                   executed, licence>>

---------------------------------------------------------------------------
(* The loop.                                                               *)

\* The head of an iteration, without messages to deliver.
Top ==
    /\ worker = "top"
    /\ IF signalled
       THEN End("Cancelled", pending) /\ UNCHANGED <<started, tools>>
       ELSE Queued = {} /\ Goto("asking") /\ UNCHANGED <<disk, turn>>
    /\ UNCHANGED <<state, mailbox, steered, result, heard, call, attempt, signalled,
                   executed, licence>>

Proposed == {c \in Calls : result[c] # "none"}

\* The provider proposes a batch of calls, the next ones.
ProposeBatch(first, last) ==
    /\ worker = "asking" /\ Admitted
    /\ \A c \in Calls : c \in Proposed <=> c < first
    /\ \E what \in [first..last -> Order] :
           call' = [c \in Calls |-> IF c \in first..last THEN what[c] ELSE call[c]]
    /\ result' = [c \in Calls |-> IF c \in first..last THEN "open" ELSE result[c]]
    /\ Goto("batch")
    /\ UNCHANGED <<state, mailbox, steered, disk, heard, attempt, turn, signalled,
                   executed, licence>>

\* The provider answers, or the turn ends: an error, a limit, an interrupt, a refused attachment.
ProviderAnswers ==
    /\ worker = "asking"
    /\ IF Admitted
       THEN \/ Goto("final") /\ UNCHANGED <<disk, turn>>
            \/ Fail
       ELSE Fail
    /\ UNCHANGED <<state, mailbox, steered, result, heard, call, attempt, signalled,
                   executed, licence>>

\* No follow-up arrived during the provider call.
Final ==
    /\ worker = "final"
    /\ Queued = {}
    /\ Goto("concluding")
    /\ UNCHANGED <<state, mailbox, steered, journal, call, attempt, turn, signalled,
                   executed, licence>>

Conclude ==
    /\ worker = "concluding"
    /\ \E wanted \in {"Completed", "Failed"} : End(wanted, pending)
    /\ UNCHANGED <<state, mailbox, steered, started, tools, result, heard, call, attempt, signalled,
                   executed, licence>>

\* Between two calls of a batch, without messages to deliver.
NextInBatch ==
    /\ worker = "batch"
    /\ Queued = {} \/ Open = {}
    /\ Goto("planning")
    /\ UNCHANGED <<state, mailbox, steered, journal, call, attempt, turn, signalled,
                   executed, licence>>

\* The batch is done, or its next call becomes the pending one; a budget stops it.
Plan ==
    /\ worker = "planning"
    /\ \/ Open = {} /\ Goto("top") /\ UNCHANGED <<disk, result, turn>>
       \/ \E c \in Open :
              /\ \A d \in Open : c <= d
              /\ started' = FALSE
              /\ IF signalled
                 THEN End("Cancelled", c) /\ result' = [result EXCEPT ![c] = "notrun"]
                 ELSE IF tools >= MaxTools
                 THEN End("Failed", NoCall) /\ result' = [result EXCEPT ![c] = "notrun"]
                 ELSE pending' = c /\ Goto("gate") /\ UNCHANGED <<completed, parked, result, turn>>
              /\ UNCHANGED tools
    /\ UNCHANGED <<state, mailbox, steered, heard, call, attempt, signalled, executed, licence>>

\* tool_completed: a result is recorded and the loop goes on.
Completed(what) ==
    /\ result' = [result EXCEPT ![pending] = what]
    /\ pending' = NoCall /\ started' = FALSE
    /\ Goto("batch") /\ Forget
    /\ UNCHANGED <<completed, parked, tools>>

Current == call[pending]

\* create_request for the pending call.
Ask ==
    /\ asked' = [asked EXCEPT ![pending] = "Pending"]
    /\ response' = [response EXCEPT ![pending] = "none"]

\* A faulty gate that looks for a decision only where an approval is required.
Unruled == Current.kind # "act" \/ Current.action \notin Gated

\* The user has no say in this call, or has not used it.
Ungated ==
    \/ Current.kind # "act"
    \/ Current.action \notin Gated /\ Undecided(Current.action)

\* The approval gate: an approval is held for use, a denial is told to the model, and a
\* gated action without a decision parks the task.
Gate ==
    LET act == Current.action IN
    /\ worker = "gate"
    /\ \/ Ungated /\ Goto("admitting") /\ UNCHANGED <<requests, disk, result, turn>>
       \/ /\ ~Ungated
          /\ \E c \in Calls : Matching(c, act) /\ response[c] = "approved"
          /\ bound' = TRUE
          /\ Goto("admitting")
          /\ UNCHANGED <<requests, disk, result, outcome, boundary, added, answered>>
       \/ /\ ~Ungated
          /\ \E c \in Calls : Matching(c, act) /\ response[c] = "denied"
          /\ Completed("denied") /\ UNCHANGED requests
       \/ /\ ~Ungated /\ Undecided(act)
          /\ IF Admitted
             THEN Ask /\ Goto("parking") /\ UNCHANGED <<disk, result, turn>>
             ELSE Fail /\ UNCHANGED <<requests, result>>
    /\ UNCHANGED <<state, followups, steered, heard, call, attempt, signalled, executed, licence>>

\* admit_tool: the reservation is on disk before anything is started.
Admit ==
    /\ worker = "admitting"
    /\ tools' = tools + 1
    /\ IF Admitted
       THEN Goto("admitted") /\ UNCHANGED <<completed, parked, pending, turn>>
       ELSE End(IF signalled THEN "Cancelled" ELSE "Failed", pending)
    /\ UNCHANGED <<state, mailbox, steered, started, result, heard, call, attempt, signalled,
                   executed, licence>>

\* A call that is answered without an effect: not offered, malformed, refused, a skill text.
Refuse ==
    /\ worker \in {"gate", "admitted", "consumed"}
    /\ Completed("notrun")
    /\ UNCHANGED <<state, mailbox, steered, heard, call, attempt, signalled, executed, licence>>

\* create_model_interaction: the call itself asks the user.
Interact ==
    /\ worker = "admitted"
    /\ Current.kind # "act"
    /\ Admitted
    /\ Ask
    /\ Goto("parking")
    /\ UNCHANGED <<state, followups, steered, journal, call, attempt, turn, signalled,
                   executed, licence>>

Park ==
    /\ worker = "parking"
    /\ End("Waiting", pending)
    /\ UNCHANGED <<state, mailbox, steered, started, tools, result, heard, call, attempt, signalled,
                   executed, licence>>

\* consume_approval: the one use of a decision, before the action is started; the action's
\* context may have changed since the gate.
Consume ==
    /\ worker = "admitted"
    /\ Current.kind = "act"
    /\ \/ /\ ~signalled /\ Admitted
          /\ \/ ~bound /\ UNCHANGED <<asked, licence>>
             \/ \E c \in Calls :
                   /\ bound
                   /\ Matching(c, Current.action) /\ response[c] = "approved"
                   /\ asked' = [asked EXCEPT ![c] = "Consumed"]
                   /\ licence' = [licence EXCEPT ![pending] = c]
          /\ Goto("consumed")
          /\ UNCHANGED <<disk, turn>>
       \/ Fail /\ UNCHANGED <<asked, licence>>
    /\ UNCHANGED <<state, response, followups, steered, result, heard, call, attempt, signalled, executed>>

\* A faulty start that leaves no durable marker.
MarkForgotten ==
    /\ worker = "consumed"
    /\ IF Admitted THEN Goto("marked") /\ UNCHANGED <<disk, turn>> ELSE Fail
    /\ UNCHANGED <<state, mailbox, steered, result, heard, call, attempt, signalled,
                   executed, licence>>

\* mark_pending_started and the last ensure_persisted before the effect.
Mark ==
    /\ worker = "consumed"
    /\ started' = TRUE
    /\ IF Admitted
       THEN Goto("marked") /\ UNCHANGED <<completed, parked, pending, turn>>
       ELSE End(IF signalled THEN "Cancelled" ELSE "Failed", pending)
    /\ UNCHANGED <<state, mailbox, steered, tools, result, heard, call, attempt, signalled,
                   executed, licence>>

Execute ==
    /\ worker = "marked"
    /\ executed' = executed \cup {pending}
    /\ Goto("executed")
    /\ UNCHANGED <<state, mailbox, steered, journal, call, attempt, turn, signalled, licence>>

\* The observed result; a cancelled command leaves its call pending.
RecordResult ==
    /\ worker = "executed"
    /\ \/ Completed("ran")
       \/ signalled /\ End("Cancelled", pending) /\ UNCHANGED <<started, tools, result>>
    /\ UNCHANGED <<state, mailbox, steered, heard, call, attempt, signalled, executed, licence>>

---------------------------------------------------------------------------

UserStep ==
    \/ \E c \in Calls, r \in {"answer", "approved", "denied"} : Respond(c, r)
    \/ \E f \in Followups : QueueFollowup(f) \/ EditFollowup(f) \/ RemoveFollowup(f)
    \/ Cancel \/ CancelClear \/ Resume \/ Rework

WorkerStep ==
    \/ Begin \/ Resolve \/ TakeAnswer \/ Tidy
    \/ Claim \/ Deliver \/ Acknowledge
    \/ Top \/ ProviderAnswers \/ Final \/ Conclude \/ NextInBatch \/ Plan
    \/ \E first, last \in Calls : first <= last /\ ProposeBatch(first, last)
    \/ Gate \/ Admit \/ Refuse \/ Interact \/ Park \/ Consume \/ Mark \/ Execute
    \/ RecordResult \/ Publish

Next == UserStep \/ Reconcile \/ WorkerStep \/ Die

Spec == Init /\ [][Next]_vars

---------------------------------------------------------------------------
(* Properties.                                                             *)

Places == {"spawned", "resolving", "answering", "tidy", "top", "batch", "final",
           "delivering", "acknowledging", "asking", "planning", "concluding", "gate",
           "admitting", "admitted", "parking", "consumed", "marked", "executed",
           "publishing", "exiting", "dead"}

\* Every variable has its type.
TypeOK ==
    /\ state \in States
    /\ asked \in [Calls -> {"none", "Pending", "Responded", "Consumed", "Invalidated"}]
    /\ response \in [Calls -> {"none", "answer", "approved", "denied"}]
    /\ followup \in [Followups -> {"none", "Queued", "Received", "Removed"}]
    /\ version \in [Followups -> Versions]
    /\ claim \in [Followups -> 0..MaxAttempts]
    /\ steered \in BOOLEAN
    /\ completed \in BOOLEAN /\ parked \in BOOLEAN /\ started \in BOOLEAN
    /\ pending \in 0..MaxCalls /\ tools \in Nat
    /\ result \in [Calls -> {"none", "open", "ran", "notrun", "unsure", "answer",
                             "approved", "denied"}]
    /\ heard \subseteq Followups \X Versions
    /\ call \in [Calls -> Order \cup {[kind |-> "none", action |-> "none"]}]
    /\ worker \in Places
    /\ outcome \in {"none", "Error", "Completed", "Waiting", "Failed", "Cancelled"}
    /\ boundary \in Boundaries /\ added \in BOOLEAN /\ bound \in BOOLEAN
    /\ answered \in 0..MaxCalls
    /\ attempt \in 1..MaxAttempts
    /\ signalled \in BOOLEAN
    /\ executed \subseteq Calls
    /\ licence \in [Calls -> 0..MaxCalls]

\* An approval authorises one execution of the action it was given for, whatever crashes,
\* retries and reissues lie between: every gated effect consumed an approval of its own
\* (matching_response, consume_interaction).
Licensed ==
    \A c \in executed :
        call[c].action \in Gated =>
            /\ licence[c] # NoCall
            /\ call[licence[c]].action = call[c].action
            /\ asked[licence[c]] = "Consumed" /\ response[licence[c]] = "approved"
            /\ \A d \in executed : licence[d] = licence[c] => d = c

Standing(d, a) ==
    /\ call[d].kind # "ask" /\ call[d].action = a
    /\ asked[d] \in {"Responded", "Consumed"} /\ response[d] = "denied"

\* Nothing the user declined is done, gated or not, unless he approved it for this very
\* call after that (interaction_result: "do not repeat it").
DeniedStands ==
    [][\A c \in executed' \ executed, d \in Calls :
          Standing(d, call[c].action) => licence[c] > d]_vars

\* The checkpoint never denies an effect: what ran has its result, the note that it may
\* have run, or a durable marker; and its tool budget was charged before.
EffectsOnRecord ==
    /\ \A c \in Calls : result[c] = "ran" => c \in executed
    /\ \A c \in executed : \/ result[c] \in {"ran", "unsure"}
                           \/ pending = c /\ started
    /\ Cardinality(executed) <= tools
    /\ tools <= MaxTools

\* A follow-up enters the transcript once, in one wording, and what the user edits or
\* removes did not enter; received means it is there; no task completes over one.
HeardOnce ==
    /\ \A f \in Followups, v, w \in Versions : <<f, v>> \in heard /\ <<f, w>> \in heard => v = w
    /\ \A f \in Followups :
           /\ followup[f] = "Received" => <<f, version[f]>> \in heard
           /\ followup[f] = "Removed" => \A v \in Versions : <<f, v>> \notin heard
    /\ state = "Completed" => Queued = {}

\* A task that waits for its user can be answered, or has been and can be resumed: no crash
\* between the mailbox, the checkpoint and the record leaves it waiting for nothing.
\* (Rework instructions that no attempt took yet mean that a rework overtook the end of a
\* cancelled attempt: see the README.)
WaitingAnswerable ==
    state = "Waiting" /\ ~steered =>
        /\ \A c \in Calls : asked[c] = "Pending" => Answerable(c)
        /\ \E c \in Calls : asked[c] \in {"Pending", "Responded"}

---------------------------------------------------------------------------
(* What makes the properties inductive.                                    *)

Loose == {"answering", "tidy", "top", "batch", "final", "delivering", "acknowledging",
          "asking", "planning", "concluding"}
Before == {"gate", "admitting", "admitted", "consumed"}
Begun == {"consumed", "marked", "executed"}

\* Where the worker is says what is pending.
PlaceOK ==
    /\ worker \in Loose => pending = NoCall /\ ~started
    /\ worker \in Before \cup {"marked", "executed", "parking"} => pending \in Calls
    /\ worker \in Before \cup {"marked", "executed"} =>
          asked[pending] = "none" /\ result[pending] = "open"
    /\ worker \in Before \cup {"parking"} => pending \notin executed /\ ~started
    /\ worker \in Begun => Current.kind = "act"
    /\ worker \in {"marked", "executed"} => started
    /\ worker = "executed" => pending \in executed
    /\ worker = "publishing" => outcome # "none"

\* What the transcript says of a call says what was asked about it.
CallsOK ==
    /\ pending = NoCall => ~started
    /\ \A c \in Calls : result[c] = "none" <=> call[c].kind = "none"
    /\ \A c \in Calls : asked[c] \in {"Responded", "Consumed"} => response[c] # "none"
    /\ pending # NoCall => result[pending] \in {"open", "notrun"}
    /\ \A c \in Calls : result[c] = "none" \/ (result[c] = "open" /\ c # pending) =>
          asked[c] = "none"
    /\ \A c \in Calls : asked[c] = "Pending" =>
          c = pending /\ ~started /\ call[c].kind # "none"
    /\ \A c \in executed : result[c] # "none"

\* The answer a worker is about to consume is in its transcript.
AnswerOK ==
    answered # NoCall =>
        worker = "answering" /\ result[answered] = "answer" /\ response[answered] = "answer"

\* A consumed approval was given for the action it is used for, and used once.
LicencesOK ==
    /\ \A c \in Calls : licence[c] # NoCall =>
          /\ result[c] # "none"
          /\ call[licence[c]].action = call[c].action
          /\ asked[licence[c]] = "Consumed" /\ response[licence[c]] = "approved"
    /\ \A c, d \in Calls : licence[c] # NoCall /\ licence[c] = licence[d] => c = d
    /\ \A c \in executed : call[c].action \in Gated => licence[c] # NoCall
    /\ worker \in Begun /\ Current.action \in Gated => licence[pending] # NoCall
    /\ worker \in {"admitting", "admitted"} /\ Current.kind = "act" /\ Current.action \in Gated
          => bound

\* From the gate on no decision is made that the gate did not see.
DecisionsOK ==
    /\ worker \in {"admitting", "admitted"} /\ Current.kind = "act" /\ ~bound =>
          \A d \in Calls : ~Standing(d, Current.action)
    /\ worker \in {"consumed", "marked"} =>
          \A d \in Calls : Standing(d, Current.action) => licence[pending] > d

RecordOK ==
    /\ EffectsOnRecord
    /\ worker \in {"gate", "admitting"} => tools < MaxTools
    /\ worker \in {"admitted", "consumed", "marked"} => Cardinality(executed) + 1 <= tools

FollowupsOK ==
    /\ \A h \in heard :
          /\ h[2] = version[h[1]]
          /\ \/ followup[h[1]] = "Received"
             \/ followup[h[1]] = "Queued" /\ claim[h[1]] # 0
    /\ HeardOnce

\* A worker that parks the task left a question in the mailbox.
WaitingOK ==
    /\ state = "Waiting" => worker \in {"exiting", "dead"}
    /\ state = "Interrupted" /\ ~steered =>
          \/ worker \in {"exiting", "dead"}
          \/ worker = "publishing" /\ outcome # "Waiting"
    /\ worker = "publishing" /\ outcome = "Waiting" => parked
    /\ state = "Running" /\ (worker = "parking" \/ (worker = "publishing" /\ outcome = "Waiting"))
          => pending # NoCall /\ asked[pending] = "Pending"
    /\ WaitingAnswerable

\* The inductive invariant.
IInv ==
    /\ TypeOK /\ PlaceOK /\ CallsOK /\ AnswerOK /\ LicencesOK /\ DecisionsOK
    /\ RecordOK /\ FollowupsOK /\ WaitingOK
=============================================================================
