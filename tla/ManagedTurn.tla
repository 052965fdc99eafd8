---------------------------- MODULE ManagedTurn ----------------------------
(***************************************************************************)
(* A managed turn of aishe: agent/controller.rs run_turn over the OpenCode *)
(* adapter (backend/opencode/client.rs, mapper.rs).  A line the user types *)
(* becomes at most one prompt of the shell's OpenCode session.  The client *)
(* subscribes to the event stream, notes which messages exist, posts the   *)
(* prompt, finds the message OpenCode made of it and reads the stream to   *)
(* the end of the turn, through lost streams, failing requests, Ctrl-C and *)
(* an abort from another process of the same shell.                        *)
(*                                                                         *)
(* OpenCode is external and modelled by what the adapter relies on: a      *)
(* prompt is listed some time after it was posted; turns of a session run  *)
(* one after another; a turn writes Replies assistant messages, each       *)
(* announced, given its text and completed, to the message list and to the *)
(* stream at once; a session with a listed, unended turn is busy; and idle *)
(* is published when no such turn is left and may greet a new subscriber.  *)
(* A text part is the unit of an answer: deltas, reasoning, tools, diffs   *)
(* and todo lists are left out.                                            *)
(***************************************************************************)
EXTENDS Naturals, Sequences, FiniteSets

CONSTANTS
    MaxLines,       \* lines typed
    Text,           \* the text of each line
    Replies,        \* assistant messages of a turn
    Early,          \* messages whose text may precede their announcement
    MaxAttempts,    \* client.rs MAX_RECONNECT_ATTEMPTS
    QueueLimit,     \* mapper.rs MAX_PENDING_PART_EVENTS
    Fallback,       \* backend.fallback = "native", and the mode is not agent
    MaxFaults       \* failing requests, lost streams, failing and aborted turns

Lines == 1..MaxLines
Messages == 1..Replies

ASSUME BoundsAssumption ==
    /\ MaxLines \in Nat \ {0} /\ Replies \in Nat \ {0}
    /\ MaxAttempts \in Nat /\ QueueLimit \in Nat /\ MaxFaults \in Nat
ASSUME ChoicesAssumption ==
    /\ Early \subseteq Messages /\ Fallback \in BOOLEAN /\ DOMAIN Text = Lines

VARIABLES
    \* OpenCode
    posted,         \* what became of each line's prompt request
    listed,         \* user messages of the session, in the order of the list
    written,        \* how far each turn has got: three writes for a message
    ending,         \* how each turn ended
    stream,         \* the subscribed stream: connected, and the frames not yet read
    \* the turn in the foreground
    line, step,
    baseline,       \* user messages listed before the prompt was posted
    bound,          \* the user message the turn is bound to
    mapper,         \* EventMapper
    heard,          \* what the mapped events add up to
    attempts,       \* reconnect_attempt
    busy,           \* the session's status, as a reconnection read it
    interrupted,    \* INTERRUPTED
    cancelled,      \* the turn's cancellation flag
    monitor,        \* the interrupt monitor watches
    \* history
    outcome,        \* what each line came to
    told,           \* the turn whose answer each line was given
    faults

server == <<posted, listed, written, ending>>
turn == <<baseline, bound, mapper, heard, attempts, busy>>
signals == <<interrupted, cancelled, monitor>>
vars == <<server, stream, line, step, turn, signals, outcome, told, faults>>

NoTurn == 0
Listed == {listed[i] : i \in DOMAIN listed}
NewMapper == [observed |-> FALSE, ids |-> {}, texts |-> {}, metered |-> {}, queue |-> <<>>]
NothingHeard == [texts |-> <<>>, usage |-> <<>>, failed |-> FALSE, broken |-> FALSE]
NoStream == [live |-> FALSE, frames |-> <<>>]

Turning == {"watch", "read", "again", "status", "messages", "finish"}
Steps == {"rest", "prepare", "subscribe", "baseline", "prompt", "bind"} \cup Turning

TypeOK ==
    /\ posted \in [Lines -> {"no", "sent", "accepted"}]
    /\ listed \in Seq(Lines)
    /\ written \in [Lines -> 0..3 * Replies]
    /\ ending \in [Lines -> {"open", "done", "failed", "aborted"}]
    /\ line \in 0..MaxLines /\ step \in Steps
    /\ baseline \subseteq Lines /\ bound \in Lines \cup {NoTurn}
    /\ attempts \in 0..MaxAttempts + 1
    /\ busy \in BOOLEAN /\ interrupted \in BOOLEAN /\ cancelled \in BOOLEAN /\ monitor \in BOOLEAN
    /\ outcome \in [Lines -> {"none", "native", "unavailable", "failed", "interrupted", "answered"}]
    /\ told \in [Lines -> Lines \cup {NoTurn}]
    /\ faults \in 0..MaxFaults

-----------------------------------------------------------------------------
(* OpenCode. *)

Unended == {t \in Listed : ending[t] = "open"}
Running(t) == \E i \in DOMAIN listed : /\ listed[i] = t /\ t \in Unended
                                       /\ \A j \in 1..i - 1 : listed[j] \notin Unended
Busy == Unended # {}

(* What the message list holds of turn t's message m. *)
Started(t, m) == written[t] > 3 * (m - 1)
HasText(t, m) == written[t] > 3 * (m - 1) + 1
Stopped(t, m) == Started(t, m) /\ written[t] < 3 * m /\ ending[t] = "aborted"
Ended(t, m) == written[t] >= 3 * m \/ Stopped(t, m)

Frame(kind, t, m) == [kind |-> kind, of |-> <<t, m>>]
Idle == Frame("idle", NoTurn, 0)
Publish(frames) == stream' = IF stream.live THEN [stream EXCEPT !.frames = @ \o frames] ELSE stream

Fault == faults < MaxFaults /\ faults' = faults + 1

List(t) == /\ posted[t] # "no" /\ t \notin Listed
           /\ listed' = Append(listed, t)
           /\ UNCHANGED <<posted, written, ending, stream, line, step, turn, signals, outcome, told, faults>>

(* The next write of a turn.  A message in Early may give its text before  *)
(* the stream announces it.                                                *)
Write(t) ==
    LET m == written[t] \div 3 + 1
    IN /\ Running(t) /\ written[t] < 3 * Replies
       /\ written' = [written EXCEPT ![t] = @ + 1]
       /\ CASE written[t] % 3 = 0 -> \E announced \in IF m \in Early THEN BOOLEAN ELSE {TRUE} :
                                        Publish(IF announced THEN <<Frame("message", t, m)>> ELSE <<>>)
            [] written[t] % 3 = 1 -> Publish(<<Frame("text", t, m)>>)
            [] OTHER -> Publish(<<Frame("completed", t, m)>>)
       /\ UNCHANGED <<posted, listed, ending, line, step, turn, signals, outcome, told, faults>>

IdleWithout(ts) == IF Unended \subseteq ts THEN <<Idle>> ELSE <<>>

Settle(t) == /\ Running(t) /\ written[t] = 3 * Replies
             /\ ending' = [ending EXCEPT ![t] = "done"]
             /\ Publish(IdleWithout({t}))
             /\ UNCHANGED <<posted, listed, written, line, step, turn, signals, outcome, told, faults>>

(* The provider, or a tool the lease no longer allows, fails the turn.     *)
FailTurn(t) == /\ Fault /\ Running(t)
               /\ ending' = [ending EXCEPT ![t] = "failed"]
               /\ Publish(<<Frame("error", t, 0)>> \o IdleWithout({t}))
               /\ UNCHANGED <<posted, listed, written, line, step, turn, signals, outcome, told>>

(* The abort endpoint ends what the session runs; the message under way is *)
(* completed with MessageAbortedError.                                     *)
AbortTurns == /\ ending' = [t \in Lines |-> IF t \in Unended THEN "aborted" ELSE ending[t]]
              /\ UNCHANGED <<posted, listed, written>>
Cut == {t \in Unended : written[t] % 3 # 0}
AbortSession == /\ AbortTurns
                /\ \E t \in IF Cut = {} THEN {NoTurn} ELSE Cut :
                      Publish((IF t = NoTurn THEN <<>> ELSE <<Frame("aborted", t, written[t] \div 3 + 1)>>) \o <<Idle>>)

(* ensure_session of another process of this shell that rotated its        *)
(* authority aborts the session it leaves.                                 *)
RotateElsewhere == /\ Fault /\ AbortSession
                   /\ UNCHANGED <<line, step, turn, signals, outcome, told>>

-----------------------------------------------------------------------------
(* The event mapper. *)

(* The members of a sequence that are chosen, in its order: SelectSeq over  *)
(* a set, and without its recursion.                                       *)
Select(seq, chosen) ==
    LET at == {i \in DOMAIN seq : seq[i] \in chosen}
    IN [n \in 1..Cardinality(at) |-> seq[CHOOSE i \in at : Cardinality({j \in at : j <= i}) = n]]

Own(of) == of[1] = bound
Messaged(of) == [mapper EXCEPT !.observed = TRUE, !.ids = @ \cup {of}, !.queue = <<>>]
Drained(of) == Select(mapper.queue, (mapper.ids \cup {of}) \ mapper.texts)
SetOf(seq) == {seq[i] : i \in DOMAIN seq}

(* message.updated: announced, completed or aborted. *)
HearMessage(frame) ==
    LET texts == Drained(frame.of)
        usage == IF frame.kind = "message" \/ frame.of \in mapper.metered THEN <<>> ELSE <<frame.of>>
    IN IF ~Own(frame.of) THEN UNCHANGED <<mapper, heard>>
       ELSE /\ mapper' = [Messaged(frame.of) EXCEPT !.texts = @ \cup SetOf(texts), !.metered = @ \cup SetOf(usage)]
            /\ heard' = [heard EXCEPT !.texts = @ \o texts, !.usage = @ \o usage]

(* message.part.updated with a finished text. *)
HearText(frame) ==
    CASE ~mapper.observed ->
            /\ mapper' = IF Len(mapper.queue) < QueueLimit THEN [mapper EXCEPT !.queue = Append(@, frame.of)] ELSE mapper
            /\ UNCHANGED heard
      [] mapper.observed /\ frame.of \in mapper.ids \ mapper.texts ->
            /\ mapper' = [mapper EXCEPT !.texts = @ \cup {frame.of}]
            /\ heard' = [heard EXCEPT !.texts = Append(@, frame.of)]
      [] OTHER -> UNCHANGED <<mapper, heard>>

(* Completed, Aborted or Failed is among the events of the frame. *)
IdleAlwaysEnds == TRUE
IdleEnds == mapper.observed
Ends(frame) == \/ frame.kind = "idle" /\ IdleEnds
               \/ frame.kind = "aborted" /\ Own(frame.of)
               \/ frame.kind = "error"

(* reconcile_events: the message list's assistant messages of the turn go  *)
(* through the mapper in their order, each message before its text.        *)
InOrder == [m \in Messages |-> <<bound, m>>]
UnheardAlways(of) == TRUE
Unheard(of) == of \notin mapper.texts
Reconcile ==
    LET started == {<<bound, m>> : m \in {n \in Messages : Started(bound, n)}}
        texts == Select(InOrder, {of \in SetOf(InOrder) : HasText(of[1], of[2]) /\ Unheard(of)})
        usage == Select(InOrder, {of \in SetOf(InOrder) : Ended(of[1], of[2]) /\ of \notin mapper.metered})
    IN /\ mapper' = [mapper EXCEPT !.observed = @ \/ started # {}, !.ids = @ \cup started,
                                   !.texts = @ \cup SetOf(texts), !.metered = @ \cup SetOf(usage),
                                   !.queue = IF started = {} THEN @ ELSE <<>>]
       /\ heard' = [heard EXCEPT !.texts = @ \o texts, !.usage = @ \o usage]

-----------------------------------------------------------------------------
(* run_turn and submit. *)

(* The caller runs the line natively, or says the engine is unavailable,   *)
(* only on PreAdmission.                                                   *)
PreAdmissionLate == {"prepare", "subscribe", "baseline", "prompt"}
PreAdmission == {"prepare", "subscribe", "baseline"}
Verdict(at) == IF at \notin PreAdmission THEN "failed" ELSE IF Fallback THEN "native" ELSE "unavailable"

Return(verdict) == /\ outcome' = [outcome EXCEPT ![line] = verdict]
                   /\ told' = IF verdict = "answered" THEN [told EXCEPT ![line] = bound] ELSE told
                   /\ step' = "rest"
                   /\ stream' = NoStream
                   /\ baseline' = {} /\ mapper' = NewMapper /\ attempts' = 0 /\ busy' = FALSE
                   /\ UNCHANGED <<line, bound, heard>>

Type == /\ step = "rest" /\ line < MaxLines
        /\ line' = line + 1
        /\ step' = "prepare"
        /\ bound' = NoTurn /\ heard' = NothingHeard
        /\ interrupted' = FALSE /\ cancelled' = FALSE
        /\ UNCHANGED <<server, stream, baseline, mapper, attempts, busy, monitor, outcome, told, faults>>

(* A step of run_turn before the prompt is bound that fails.               *)
GiveUp(at) == /\ step = at /\ Fault
              /\ Return(Verdict(at))
              /\ UNCHANGED <<server, signals>>

(* Supervisor, health, session, usage snapshot and the worker with its     *)
(* lease, which is dropped when run_turn returns.                          *)
Prepare == /\ step = "prepare"
           /\ step' = "subscribe"
           /\ UNCHANGED <<server, stream, line, turn, signals, outcome, told, faults>>

Greeting == IF Busy THEN {<<>>} ELSE {<<>>, <<Idle>>}

Subscribe == /\ step = "subscribe"
             /\ \E greeting \in Greeting : stream' = [live |-> TRUE, frames |-> greeting]
             /\ step' = "baseline"
             /\ UNCHANGED <<server, line, turn, signals, outcome, told, faults>>

SkipBaseline == /\ step = "baseline"
                /\ step' = "prompt"
                /\ UNCHANGED <<server, stream, line, turn, signals, outcome, told, faults>>
NoteBaseline == /\ step = "baseline"
                /\ baseline' = Listed
                /\ step' = "prompt"
                /\ UNCHANGED <<server, stream, line, bound, mapper, heard, attempts, busy, signals, outcome, told, faults>>

Prompt == /\ step = "prompt"
          /\ posted' = [posted EXCEPT ![line] = "accepted"]
          /\ step' = "bind"
          /\ UNCHANGED <<listed, written, ending, stream, line, turn, signals, outcome, told, faults>>

(* prompt_async fails: the request may have been admitted all the same.    *)
LosePrompt == /\ step = "prompt" /\ Fault
              /\ \E sent \in {"no", "sent"} : posted' = [posted EXCEPT ![line] = sent]
              /\ Return(Verdict("prompt"))
              /\ UNCHANGED <<listed, written, ending, signals>>

(* matching_new_user_message_id: the last new user message with the text.  *)
Candidates == {i \in DOMAIN listed : listed[i] \notin baseline /\ Text[listed[i]] = Text[line]}
Bind == /\ step = "bind"
        /\ \E i \in Candidates : (\A j \in Candidates : j <= i) /\ bound' = listed[i]
        /\ step' = "watch"
        /\ UNCHANGED <<server, stream, line, baseline, mapper, heard, attempts, busy, signals, outcome, told, faults>>

(* The message list stays unreadable, or does not show the prompt in time. *)
MissPrompt == /\ step = "bind"
              /\ Return(Verdict("bind"))
              /\ UNCHANGED <<server, signals, faults>>

Watch == /\ step = "watch"
         /\ monitor' = TRUE
         /\ step' = "read"
         /\ UNCHANGED <<server, stream, line, turn, interrupted, cancelled, outcome, told, faults>>

(* The monitor thread cannot be started: the turn is aborted. *)
CannotWatch == /\ step = "watch" /\ Fault
               /\ cancelled' = TRUE
               /\ Return(Verdict("watch"))
               /\ AbortTurns \/ UNCHANGED server
               /\ UNCHANGED <<interrupted, monitor>>

(* Ctrl-C. *)
Interrupt == /\ step # "rest" /\ ~interrupted
             /\ interrupted' = TRUE
             /\ UNCHANGED <<server, stream, line, step, turn, cancelled, monitor, outcome, told, faults>>

(* The monitor sees it, asks for the abort once and stops watching. *)
Monitor == /\ monitor /\ interrupted
           /\ cancelled' = TRUE
           /\ monitor' = FALSE
           /\ \/ AbortSession /\ UNCHANGED faults
              \/ Fault /\ UNCHANGED <<server, stream>>
           /\ UNCHANGED <<line, step, turn, interrupted, outcome, told>>

-----------------------------------------------------------------------------
(* read_events_with. *)

Hear == /\ step = "read" /\ stream.frames # <<>>
        /\ LET frame == Head(stream.frames)
           IN /\ stream' = [stream EXCEPT !.frames = Tail(@)]
              /\ attempts' = 0
              /\ step' = IF Ends(frame) THEN "finish" ELSE "read"
              /\ CASE frame.kind \in {"message", "completed", "aborted"} -> HearMessage(frame)
                   [] frame.kind = "text" -> HearText(frame)
                   [] frame.kind = "error" -> heard' = [heard EXCEPT !.failed = TRUE] /\ UNCHANGED mapper
                   [] frame.kind = "idle" -> UNCHANGED <<mapper, heard>>
        /\ UNCHANGED <<server, line, baseline, bound, busy, signals, outcome, told, faults>>

(* The connection ends after some of the frames on their way. *)
LoseStream == /\ stream.live /\ Fault
              /\ \E kept \in 0..Len(stream.frames) :
                    stream' = [live |-> FALSE, frames |-> SubSeq(stream.frames, 1, kept)]
              /\ UNCHANGED <<server, line, step, turn, signals, outcome, told>>

(* A read error, or a frame torn, too long or not JSON, is an error of the *)
(* whole turn at once.                                                     *)
BreakStream == /\ step = "read" /\ Fault
               /\ heard' = [heard EXCEPT !.broken = TRUE]
               /\ step' = "finish"
               /\ UNCHANGED <<server, stream, line, baseline, bound, mapper, attempts, busy, signals, outcome, told>>

Reconnect == /\ step = "read" /\ ~stream.live /\ stream.frames = <<>>
             /\ attempts' = attempts + 1
             /\ IF attempts + 1 > MaxAttempts
                THEN step' = "finish" /\ heard' = [heard EXCEPT !.failed = TRUE]
                ELSE step' = "again" /\ UNCHANGED heard
             /\ UNCHANGED <<server, stream, line, baseline, bound, mapper, busy, signals, outcome, told, faults>>

(* A request of the reconnection fails: the old reader is at its end still. *)
FailAgain == /\ step \in {"again", "status", "messages"} /\ Fault
             /\ stream' = NoStream
             /\ step' = "read"
             /\ UNCHANGED <<server, line, turn, signals, outcome, told>>

SubscribeAgain == /\ step = "again"
                  /\ \E greeting \in Greeting : stream' = [live |-> TRUE, frames |-> greeting]
                  /\ step' = "status"
                  /\ UNCHANGED <<server, line, turn, signals, outcome, told, faults>>

ReadStatus == /\ step = "status"
              /\ busy' = Busy
              /\ step' = "messages"
              /\ UNCHANGED <<server, stream, line, baseline, bound, mapper, heard, attempts, signals, outcome, told, faults>>

ReadMessagesFirst == /\ step = "messages"
                     /\ Reconcile
                     /\ stream' = [live |-> TRUE, frames |-> <<>>]
                     /\ step' = IF busy THEN "read" ELSE "finish"
                     /\ UNCHANGED <<server, line, baseline, bound, attempts, busy, signals, outcome, told, faults>>
ReadMessages == /\ step = "messages"
                /\ Reconcile
                /\ step' = IF busy THEN "read" ELSE "finish"
                /\ UNCHANGED <<server, stream, line, baseline, bound, attempts, busy, signals, outcome, told, faults>>

(* The monitor is joined, the worker dropped, and the events judged. *)
Judge == IF heard.broken THEN "failed" ELSE IF cancelled THEN "interrupted" ELSE
         IF heard.failed THEN "failed" ELSE "answered"
Finish == /\ step = "finish"
          /\ monitor' = FALSE
          /\ Return(Judge)
          /\ UNCHANGED <<server, interrupted, cancelled, faults>>

-----------------------------------------------------------------------------
Init == /\ posted = [t \in Lines |-> "no"] /\ listed = <<>> /\ written = [t \in Lines |-> 0]
        /\ ending = [t \in Lines |-> "open"] /\ stream = NoStream
        /\ line = 0 /\ step = "rest" /\ baseline = {} /\ bound = NoTurn /\ mapper = NewMapper /\ heard = NothingHeard
        /\ attempts = 0 /\ busy = FALSE /\ interrupted = FALSE /\ cancelled = FALSE /\ monitor = FALSE
        /\ outcome = [t \in Lines |-> "none"] /\ told = [t \in Lines |-> NoTurn] /\ faults = 0

Submit == Type \/ (\E at \in PreAdmission : GiveUp(at)) \/ Prepare \/ Subscribe \/ NoteBaseline \/ Prompt \/ LosePrompt
          \/ Bind \/ MissPrompt \/ Watch \/ CannotWatch
Read == Hear \/ BreakStream \/ Reconnect \/ FailAgain \/ SubscribeAgain \/ ReadStatus \/ ReadMessages \/ Finish
OpenCode == RotateElsewhere \/ LoseStream \/ \E t \in Lines : List(t) \/ Write(t) \/ Settle(t) \/ FailTurn(t)
Next == Submit \/ Read \/ OpenCode \/ Interrupt \/ Monitor

Spec == Init /\ [][Next]_vars

(* run_turn is one thread that always takes its next step; OpenCode lists  *)
(* what it accepted and brings the turns of a session to an end.           *)
FairSpec == /\ Spec
            /\ WF_vars(Prepare \/ Subscribe \/ NoteBaseline \/ Prompt \/ Bind \/ MissPrompt \/ Watch)
            /\ WF_vars(Hear \/ Reconnect \/ SubscribeAgain \/ ReadStatus \/ ReadMessages \/ Finish)
            /\ WF_vars(\E t \in Lines : Write(t) \/ Settle(t))

-----------------------------------------------------------------------------
(* Properties. *)

Told(verdict) == step = "rest" /\ line > 0 /\ outcome[line] = verdict

(* A line runs through the native engine only if its prompt never reached  *)
(* OpenCode, and never will: nothing is paid for or done twice (run_turn's *)
(* PreAdmission and Admitted, and managed_turn's fallback).                *)
FallbackOnce == \A t \in Lines : outcome[t] = "native" => posted[t] = "no" /\ t \notin Listed

(* No turn's answer is given to two lines, and none to a line typed before *)
(* it or to another text: the binding goes by the text of the prompt among *)
(* the messages newer than the baseline (matching_new_user_message_id), so *)
(* it may only take the place of an equal line's that was never bound.     *)
AnswerOnce == \A l \in Lines : told[l] # NoTurn =>
                 /\ told[l] <= l /\ Text[told[l]] = Text[l]
                 /\ \A k \in Lines \ {l} : told[k] # told[l]

(* Every text of a turn that was carried through is in the answer, once    *)
(* and in order, and every message is metered once, whatever was lost or   *)
(* heard twice on the way (EventMapper and reconcile_events).              *)
AnswerWhole == Told("answered") /\ ending[bound] = "done" =>
                  heard.texts = InOrder /\ heard.usage = InOrder

(* A turn is reported as answered only when it has ended: neither an idle  *)
(* state from before it nor another turn's end is taken for its own.       *)
EndedWhenTold == Told("answered") => ending[bound] # "open"

(* run_turn returns, whatever is lost, unless the turn it is bound to ended *)
(* without an assistant message and without its error being heard: aborted *)
(* before the first, or failed while the session ran another turn.         *)
(* The idle state that follows is then taken for an old one, and the       *)
(* stream is read until its connection ends.                               *)
Unseen == /\ bound # NoTurn /\ written[bound] = 0
          /\ \/ ending[bound] = "aborted"
             \/ ending[bound] = "failed" /\ Listed # {bound}
Returns == step # "rest" ~> (step = "rest" \/ Unseen)

-----------------------------------------------------------------------------
(* The inductive invariant. *)

(* A line is posted once, after every step that may still fall back. *)
PlaceOK ==
    /\ step # "rest" => line \in Lines /\ outcome[line] = "none" /\ told[line] = NoTurn
    /\ step \in PreAdmission \cup {"prompt"} => posted[line] = "no"
    /\ \A t \in Lines : posted[t] # "no" => t <= line
    /\ \A t \in Lines : t > line => outcome[t] = "none" /\ told[t] = NoTurn
    /\ \A t \in Listed : posted[t] # "no"
    /\ attempts > MaxAttempts => step = "finish"

(* What was told is older than the baseline, and what is bound is newer. *)
BoundOK ==
    /\ \A l \in Lines : told[l] # NoTurn => told[l] \in Listed
    /\ step \in {"prompt", "bind"} => \A l \in Lines : told[l] # NoTurn => told[l] \in baseline
    /\ step \in Turning => /\ bound \in Listed /\ bound <= line /\ Text[bound] = Text[line]
                           /\ \A l \in Lines : told[l] # bound

(* What the frames on their way say of the turns. *)
FramesOK ==
    /\ \A i \in DOMAIN stream.frames :
          /\ stream.frames[i].of[1] \in Listed \cup {NoTurn}
          /\ stream.frames[i].kind = "aborted" =>
                stream.frames[i].of[1] \in {t \in Listed : ending[t] = "aborted"}
    /\ \A i, j \in DOMAIN stream.frames :
          j < i /\ stream.frames[i].kind = "idle" => stream.frames[j].of[1] \notin Unended

(* An idle state that could end a turn was published after that turn ended: *)
(* the older ones come before anything that is heard of it.                *)
EndOK ==
    /\ step \notin Turning => ~mapper.observed
    /\ step \in Turning /\ bound \in Unended /\ (mapper.observed \/ step \in {"status", "messages"}) =>
          \A i \in DOMAIN stream.frames : stream.frames[i].kind # "idle"
    /\ step = "messages" /\ bound \in Unended => busy
    /\ step = "finish" /\ bound \in Unended => heard.broken \/ heard.failed
    /\ Told("answered") => bound \in Listed \ Unended

(* A write is known by its number: the n-th write of a turn is one of a     *)
(* message's three.                                                        *)
Writes == {"message", "text", "completed"}
Number(frame) == 3 * frame.of[2] - (IF frame.kind = "message" THEN 2 ELSE IF frame.kind = "text" THEN 1 ELSE 0)
WriteOf(frame, t) == frame.kind \in Writes /\ frame.of[1] = t

(* The frames have every write of a turn after the p-th, up to the n-th,    *)
(* before the i-th of them; the first may go unannounced.                  *)
Follow(frames, t, p, n, i) == \A k \in p + 1..n :
    k = 1 \/ \E j \in DOMAIN frames : j < i /\ WriteOf(frames[j], t) /\ Number(frames[j]) = k

(* A turn is written in order, and the stream follows it. *)
WritesOK ==
    /\ \A t \in Lines : /\ ending[t] = "done" => written[t] = 3 * Replies
                        /\ t \notin Listed => written[t] = 0 /\ ending[t] = "open"
    /\ \A i \in DOMAIN stream.frames : stream.frames[i].kind \in Writes =>
          /\ stream.frames[i].of \in Lines \X Messages
          /\ Number(stream.frames[i]) <= written[stream.frames[i].of[1]]
    /\ \A i, j \in DOMAIN stream.frames : \A t \in Lines :
          i < j /\ WriteOf(stream.frames[i], t) /\ WriteOf(stream.frames[j], t) =>
             Number(stream.frames[i]) < Number(stream.frames[j])

(* Who read turn t up to its p-th write misses nothing of the rest: what is *)
(* heard next is the next write, and idle comes after the last.            *)
Unbroken(t, p) ==
    /\ \A i \in DOMAIN stream.frames :
          WriteOf(stream.frames[i], t) => Follow(stream.frames, t, p, Number(stream.frames[i]) - 1, i)
    /\ stream.live => Follow(stream.frames, t, p, written[t], Len(stream.frames) + 1)
    /\ \A i \in DOMAIN stream.frames :
          /\ stream.frames[i].kind = "idle" /\ ending[t] = "done"
          /\ mapper.observed \/ \E j \in DOMAIN stream.frames : j < i /\ WriteOf(stream.frames[j], t)
          => Follow(stream.frames, t, p, 3 * Replies, i)

(* Texts kept until their turn is known. *)
QueueOK ==
    /\ mapper.queue \in Seq(Lines \X Messages)
    /\ \A i, j \in DOMAIN mapper.queue : mapper.queue[i] = mapper.queue[j] => i = j
    /\ \A i \in DOMAIN mapper.queue :
          /\ 3 * mapper.queue[i][2] - 1 <= written[mapper.queue[i][1]]
          /\ \A j \in DOMAIN stream.frames :
                WriteOf(stream.frames[j], mapper.queue[i][1]) => Number(stream.frames[j]) > 3 * mapper.queue[i][2] - 1

(* The first n messages of a turn. *)
Upto(t, n) == [m \in 1..n |-> <<t, m>>]

(* The turn in the foreground has been read up to its p-th write. *)
HeardUpTo(p) ==
    /\ heard.usage = Upto(bound, p \div 3) /\ mapper.metered = SetOf(Upto(bound, p \div 3))
    /\ \/ /\ mapper.observed /\ p >= 1 /\ mapper.queue = <<>>
          /\ heard.texts = Upto(bound, (p + 1) \div 3) /\ mapper.texts = SetOf(Upto(bound, (p + 1) \div 3))
          /\ mapper.ids = SetOf(Upto(bound, (p + 2) \div 3))
       \/ /\ ~mapper.observed /\ p \in {0, 2}
          /\ heard.texts = <<>> /\ mapper.texts = {} /\ mapper.ids = {}
          /\ \A i \in DOMAIN mapper.queue : mapper.queue[i][1] = bound => mapper.queue[i] = <<bound, 1>>
          /\ p = 2 <=> \E i \in DOMAIN mapper.queue : mapper.queue[i] = <<bound, 1>>
          /\ \A i \in DOMAIN stream.frames :
                WriteOf(stream.frames[i], bound) => Number(stream.frames[i]) > p

(* The turn has been read up to some write, and nothing after it is missed. *)
ReadingOK ==
    /\ step \notin Turning => mapper = NewMapper
    /\ step \in Steps \ (Turning \cup {"rest"}) => heard = NothingHeard
    /\ step \in {"prompt", "bind"} => \A t \in Lines \ baseline : Unbroken(t, 0)
    /\ step \in Turning \ {"finish"} /\ ending[bound] \in {"open", "done"} =>
          \E p \in 0..written[bound] : HeardUpTo(p) /\ (step \in {"watch", "read", "again"} => Unbroken(bound, p))
    /\ step = "finish" /\ ending[bound] = "done" /\ ~heard.failed /\ ~heard.broken =>
          heard.texts = InOrder /\ heard.usage = InOrder

(* What the mapper and its events hold. *)
FieldsOK == /\ {"observed", "ids", "texts", "metered", "queue"} \subseteq DOMAIN mapper
            /\ {"texts", "usage", "failed", "broken"} \subseteq DOMAIN heard

(* Only a turn's first text may precede its announcement, and the texts of *)
(* all other lines leave room in the queue for it (256 entries).           *)
Room == Early \subseteq {1} /\ (MaxLines - 1) * Replies < QueueLimit

WInv == FieldsOK /\ WritesOK /\ QueueOK /\ ReadingOK /\ AnswerWhole

IInv == TypeOK /\ PlaceOK /\ FallbackOnce /\ BoundOK /\ AnswerOnce

=============================================================================
