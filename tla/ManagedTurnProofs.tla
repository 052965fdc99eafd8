------------------------- MODULE ManagedTurnProofs -------------------------
(* For any number of lines, whatever their text, and any number of faults: a   *)
(* prompt is never run by two engines, no turn's answer is given twice, a turn *)
(* is told as answered only after it ended, and then, if it was carried        *)
(* through, with every text and every message's usage once and in order.       *)
EXTENDS ManagedTurn, TLAPS, FiniteSetTheorems

LEMMA Bounds == MaxLines \in Nat \ {0} /\ Replies \in Nat \ {0} /\ MaxAttempts \in Nat /\ MaxFaults \in Nat
                /\ Lines = 1 .. MaxLines /\ NoTurn \notin Lines /\ Fallback \in BOOLEAN
  BY BoundsAssumption, ChoicesAssumption DEF Lines, NoTurn

Verdicts == {"native", "unavailable", "failed", "interrupted", "answered"}

LEMMA Judged == /\ \A at : Verdict(at) \in {"native", "unavailable", "failed"}
                /\ \A at : at \notin PreAdmission => Verdict(at) = "failed"
                /\ Judge \in {"failed", "interrupted", "answered"}
  BY DEF Verdict, Judge

(* What run_turn's return leaves. *)
Back(v) == /\ outcome' \in [Lines -> {"none", "native", "unavailable", "failed", "interrupted", "answered"}] /\ outcome'[line] = v
           /\ \A t \in Lines \ {line} : outcome'[t] = outcome[t] /\ told'[t] = told[t]
           /\ told' \in [Lines -> Lines \cup {NoTurn}]
           /\ told'[line] = IF v = "answered" THEN bound ELSE told[line]
           /\ step' = "rest" /\ baseline' = {} /\ attempts' = 0 /\ busy' = FALSE
           /\ line' = line /\ bound' = bound

LEMMA Returned == ASSUME TypeOK, line \in Lines, NEW v \in Verdicts, Return(v) PROVE Back(v)
<1>. USE DEF Return, TypeOK, Verdicts, Back
<1>1. CASE v = "answered"
  BY <1>1
<1>2. CASE v # "answered"
  BY <1>2
<1>. QED  BY <1>1, <1>2

(* A return keeps the types, if what it leaves to its caller is well typed. *)
OthersTyped == /\ posted \in [Lines -> {"no", "sent", "accepted"}]
               /\ listed \in Seq(Lines)
               /\ written \in [Lines -> 0..3 * Replies]
               /\ ending \in [Lines -> {"open", "done", "failed", "aborted"}]
               /\ interrupted \in BOOLEAN /\ cancelled \in BOOLEAN /\ monitor \in BOOLEAN
               /\ faults \in 0..MaxFaults

LEMMA ReturnTyped == ASSUME TypeOK, line \in Lines, NEW v \in Verdicts, Return(v), OthersTyped' PROVE TypeOK'
<1>1. Back(v)
  BY Returned
<1>2. 0 \in 0 .. MaxAttempts + 1 /\ line \in 0 .. MaxLines /\ {} \subseteq Lines /\ "rest" \in Steps
  BY Bounds DEF TypeOK, Steps
<1>. QED  BY <1>1, <1>2 DEF Back, TypeOK, OthersTyped

LEMMA Faulty == ASSUME TypeOK, Fault PROVE faults' \in 0 .. MaxFaults
  BY Bounds DEF Fault, TypeOK

(* Every action keeps the types. *)
LEMMA Typed == ASSUME TypeOK, PlaceOK, Next PROVE TypeOK'
<1>. USE Bounds, Faulty DEF TypeOK, Steps, Turning, server, turn, signals
<1>1. CASE Type
  <2>1. line' \in 0 .. MaxLines
    BY <1>1 DEF Type
  <2>. QED  BY <1>1, <2>1 DEF Type
<1>2. ASSUME NEW at \in PreAdmission, GiveUp(at) PROVE TypeOK'
  <2>1. line \in Lines /\ Verdict(at) \in Verdicts /\ Return(Verdict(at))
    BY <1>2, Judged DEF GiveUp, PreAdmission, PlaceOK, Verdicts
  <2>2. OthersTyped'
    BY <1>2 DEF GiveUp, OthersTyped
  <2>. QED  BY <2>1, <2>2, ReturnTyped
<1>3. CASE Prepare \/ Subscribe \/ Watch
  BY <1>3 DEF Prepare, Subscribe, Watch
<1>4. CASE NoteBaseline
  BY <1>4 DEF NoteBaseline, Listed
<1>5. CASE Prompt
  BY <1>5 DEF Prompt
<1>6. CASE LosePrompt
  <2>0. Verdict("prompt") = "failed" /\ Return(Verdict("prompt"))
    BY <1>6, Judged DEF LosePrompt, PreAdmission
  <2>1. line \in Lines /\ Return("failed")
    BY <1>6, <2>0 DEF LosePrompt, PlaceOK
  <2>3. posted' \in [Lines -> {"no", "sent", "accepted"}]
    BY <1>6, <2>1, SMTT(20) DEF LosePrompt
  <2>2. OthersTyped'
    BY <1>6, <2>3 DEF LosePrompt, OthersTyped
  <2>. QED  BY <2>1, <2>2, ReturnTyped DEF Verdicts
<1>7. CASE Bind
  <2>1. PICK i \in Candidates : bound' = listed[i]
    BY <1>7 DEF Bind
  <2>0. listed \in Seq(Lines) /\ i \in DOMAIN listed
    BY DEF Candidates
  <2>2. listed[i] \in Lines
    BY ONLY <2>0, SMT
  <2>. QED  BY <1>7, <2>1, <2>2 DEF Bind
<1>8. CASE MissPrompt
  <2>1. line \in Lines /\ Return("failed")
    BY <1>8, Judged DEF MissPrompt, PreAdmission, PlaceOK
  <2>2. OthersTyped'
    BY <1>8 DEF MissPrompt, OthersTyped
  <2>. QED  BY <2>1, <2>2, ReturnTyped DEF Verdicts
<1>9. CASE CannotWatch
  <2>1. line \in Lines /\ Return("failed")
    BY <1>9, Judged DEF CannotWatch, PreAdmission, PlaceOK
  <2>3. /\ posted' = posted /\ listed' = listed /\ written' = written
        /\ ending' \in [Lines -> {"open", "done", "failed", "aborted"}]
    BY <1>9 DEF CannotWatch, AbortTurns
  <2>2. OthersTyped'
    BY <1>9, <2>3 DEF CannotWatch, OthersTyped
  <2>. QED  BY <2>1, <2>2, ReturnTyped DEF Verdicts
<1>10. CASE Hear
  BY <1>10, SMTT(20) DEF Hear
<1>11. CASE BreakStream \/ FailAgain \/ SubscribeAgain \/ ReadMessages
  BY <1>11 DEF BreakStream, FailAgain, SubscribeAgain, ReadMessages
<1>12. CASE Reconnect
  BY <1>12, SMTT(20) DEF Reconnect, PlaceOK
<1>13. CASE ReadStatus
  BY <1>13 DEF ReadStatus, Busy
<1>14. CASE Finish
  <2>1. line \in Lines /\ Judge \in Verdicts /\ Return(Judge)
    BY <1>14, Judged DEF Finish, PlaceOK, Verdicts
  <2>2. OthersTyped'
    BY <1>14 DEF Finish, OthersTyped
  <2>. QED  BY <2>1, <2>2, ReturnTyped
<1>15. CASE RotateElsewhere
  BY <1>15 DEF RotateElsewhere, AbortSession, AbortTurns
<1>16. CASE LoseStream
  BY <1>16 DEF LoseStream
<1>17. ASSUME NEW t \in Lines, List(t) PROVE TypeOK'
  BY <1>17 DEF List
<1>18. ASSUME NEW t \in Lines, Write(t) \/ Settle(t) \/ FailTurn(t) PROVE TypeOK'
  <2>1. CASE Write(t)
    <3>1. written[t] + 1 \in 0 .. 3 * Replies
      BY <2>1, SMTT(20) DEF Write
    <3>. QED  BY <2>1, <3>1 DEF Write
  <2>2. CASE Settle(t)
    BY <2>2 DEF Settle
  <2>3. CASE FailTurn(t)
    BY <2>3 DEF FailTurn
  <2>. QED  BY <1>18, <2>1, <2>2, <2>3
<1>19. CASE Interrupt
  BY <1>19 DEF Interrupt
<1>20. CASE Monitor
  <2>1. /\ posted' = posted /\ listed' = listed /\ written' = written
        /\ ending' \in [Lines -> {"open", "done", "failed", "aborted"}]
    BY <1>20 DEF Monitor, AbortSession, AbortTurns
  <2>2. faults' \in 0 .. MaxFaults
    BY <1>20 DEF Monitor
  <2>. QED  BY <1>20, <2>1, <2>2 DEF Monitor
<1>. QED  BY <1>1, <1>2, <1>3, <1>4, <1>5, <1>6, <1>7, <1>8, <1>9, <1>10, <1>11, <1>12, <1>13, <1>14, <1>15, <1>16, <1>17, <1>18, <1>19, <1>20
          DEF Next, Submit, Read, OpenCode

Rest == PlaceOK /\ FallbackOnce /\ BoundOK /\ AnswerOnce

(* What no line's fate or place depends on. *)
LEMMA Apart ==
  ASSUME IInv, UNCHANGED <<posted, listed, line, bound, outcome, told>>,
         \/ step' = step /\ baseline' = baseline
         \/ step \in Turning /\ step' \in Turning,
         attempts' > MaxAttempts => step' = "finish"
  PROVE  Rest'
<1>1. PlaceOK'
  BY DEF IInv, PlaceOK, PreAdmission, Turning, Listed
<1>2. FallbackOnce' /\ AnswerOnce'
  BY DEF IInv, FallbackOnce, AnswerOnce, Listed
<1>3. BoundOK'
  BY DEF IInv, BoundOK, Turning, Listed
<1>. QED  BY <1>1, <1>2, <1>3 DEF Rest

(* A return settles the line: natively only when its prompt was never posted. *)
LEMMA Settled ==
  ASSUME IInv, NEW v \in Verdicts, Return(v), step # "rest", UNCHANGED listed,
         \/ UNCHANGED posted
         \/ /\ step = "prompt" /\ v # "native" /\ posted' \in [Lines -> {"no", "sent", "accepted"}]
            /\ \A t \in Lines \ {line} : posted'[t] = posted[t],
         v = "native" => step \in PreAdmission,
         v = "answered" => step \in Turning
  PROVE  Rest'
<1>1. TypeOK /\ PlaceOK /\ FallbackOnce /\ BoundOK /\ AnswerOnce /\ line \in Lines
  BY DEF IInv, PlaceOK
<1>2. Back(v)
  BY <1>1, Returned
<1>3. Listed' = Listed
  BY DEF Listed
<1>4. step' = "rest" /\ line' = line /\ attempts' = 0
  BY <1>2 DEF Back
<1>5. \A t \in Lines \ {line} : outcome'[t] = outcome[t] /\ told'[t] = told[t] /\ posted'[t] = posted[t]
  BY <1>2 DEF Back
<1>6. outcome'[line] = v /\ told'[line] = IF v = "answered" THEN bound ELSE NoTurn
  BY <1>1, <1>2 DEF Back, PlaceOK
<1>7. \A t \in Listed : posted'[t] # "no"
  <2>1. Listed \subseteq Lines
    BY <1>1 DEF TypeOK, Listed
  <2>2. step = "prompt" => line \notin Listed
    BY <1>1 DEF PlaceOK
  <2>. QED  BY <1>1, <2>1, <2>2 DEF PlaceOK
<1>8. PlaceOK'
  BY <1>1, <1>3, <1>4, <1>5, <1>7, Bounds DEF PlaceOK, PreAdmission
<1>9. FallbackOnce'
  BY <1>1, <1>3, <1>5, <1>6 DEF FallbackOnce, PlaceOK
<1>10. v = "answered" => /\ bound \in Listed /\ bound <= line /\ Text[bound] = Text[line]
                         /\ \A l \in Lines : told[l] # bound
  BY <1>1 DEF BoundOK
<1>11. BoundOK'
  BY <1>1, <1>3, <1>4, <1>5, <1>6, <1>10 DEF BoundOK, Turning
<1>12. AnswerOnce'
  BY <1>1, <1>5, <1>6, <1>10 DEF AnswerOnce
<1>. QED  BY <1>8, <1>9, <1>11, <1>12 DEF Rest

LEMMA InitKeeps == ASSUME Init PROVE IInv
<1>1. Listed = {}
  BY DEF Init, Listed
<1>4. 0 \in 0 .. 3 * Replies /\ 0 \in 0 .. MaxLines /\ 0 \in 0 .. MaxAttempts + 1 /\ 0 \in 0 .. MaxFaults
  BY Bounds
<1>5. /\ posted \in [Lines -> {"no", "sent", "accepted"}] /\ listed \in Seq(Lines)
      /\ written \in [Lines -> 0 .. 3 * Replies]
      /\ ending \in [Lines -> {"open", "done", "failed", "aborted"}]
  BY <1>4 DEF Init
<1>6. /\ outcome \in [Lines -> {"none", "native", "unavailable", "failed", "interrupted", "answered"}]
      /\ told \in [Lines -> Lines \cup {NoTurn}]
  BY DEF Init
<1>2. TypeOK
  BY <1>4, <1>5, <1>6 DEF Init, TypeOK, Steps
<1>3. PlaceOK /\ FallbackOnce /\ BoundOK /\ AnswerOnce
  BY <1>1, Bounds DEF Init, PlaceOK, FallbackOnce, BoundOK, AnswerOnce, PreAdmission, Turning
<1>. QED  BY <1>2, <1>3 DEF IInv

LEMMA NextKeeps == ASSUME IInv, Next PROVE IInv'
<1>0. TypeOK /\ PlaceOK /\ FallbackOnce /\ BoundOK /\ AnswerOnce
  BY DEF IInv
<1>1. TypeOK'
  BY <1>0, Typed
<1>2. Listed \subseteq Lines
  BY <1>0 DEF TypeOK, Listed
<1>. SUFFICES Rest'
  BY <1>1 DEF IInv, Rest
<1>3. CASE Type
  <2>1. /\ step = "rest" /\ step' = "prepare" /\ line' = line + 1 /\ line' \in Lines
        /\ UNCHANGED <<posted, listed, outcome, told, attempts>> /\ Listed' = Listed
    BY <1>0, <1>3, Bounds DEF Type, TypeOK, server, Listed
  <2>2. PlaceOK'
    BY <1>0, <2>1, Bounds DEF PlaceOK, TypeOK
  <2>3. FallbackOnce' /\ BoundOK' /\ AnswerOnce'
    BY <1>0, <2>1 DEF FallbackOnce, BoundOK, AnswerOnce, Turning
  <2>. QED  BY <2>2, <2>3 DEF Rest
<1>4. ASSUME NEW at \in PreAdmission, GiveUp(at) PROVE Rest'
  <2>1. Verdict(at) \in Verdicts /\ Verdict(at) # "answered" /\ Return(Verdict(at)) /\ step = at /\ step # "rest"
    BY <1>4, Judged DEF GiveUp, Verdicts, PreAdmission
  <2>2. UNCHANGED <<posted, listed>>
    BY <1>4 DEF GiveUp, server
  <2>. QED  BY <2>1, <2>2, Settled
<1>5. CASE Prepare \/ Subscribe
  <2>1. /\ step \in PreAdmission /\ step' \in PreAdmission
        /\ UNCHANGED <<posted, listed, outcome, told, attempts, line>> /\ Listed' = Listed
    BY <1>5 DEF Prepare, Subscribe, PreAdmission, server, turn, Listed
  <2>2. PlaceOK'
    BY <1>0, <2>1 DEF PlaceOK, PreAdmission
  <2>3. FallbackOnce' /\ BoundOK' /\ AnswerOnce'
    BY <1>0, <2>1 DEF FallbackOnce, BoundOK, AnswerOnce, Turning, PreAdmission
  <2>. QED  BY <2>2, <2>3 DEF Rest
<1>6. CASE NoteBaseline
  <2>1. /\ step = "baseline" /\ step' = "prompt" /\ baseline' = Listed
        /\ UNCHANGED <<posted, listed, outcome, told, attempts, line>> /\ Listed' = Listed
    BY <1>6 DEF NoteBaseline, server, Listed
  <2>2. PlaceOK'
    BY <1>0, <2>1 DEF PlaceOK, PreAdmission
  <2>3. FallbackOnce' /\ BoundOK' /\ AnswerOnce'
    BY <1>0, <2>1 DEF FallbackOnce, BoundOK, AnswerOnce, Turning
  <2>. QED  BY <2>2, <2>3 DEF Rest
<1>7. CASE Prompt
  <2>1. /\ step = "prompt" /\ step' = "bind" /\ posted' = [posted EXCEPT ![line] = "accepted"] /\ line \in Lines
        /\ UNCHANGED <<listed, outcome, told, attempts, line, baseline>> /\ Listed' = Listed
    BY <1>0, <1>7 DEF Prompt, turn, Listed, PlaceOK
  <2>2. PlaceOK'
    BY <1>0, <1>2, <2>1, Bounds DEF PlaceOK, PreAdmission, TypeOK
  <2>3. FallbackOnce'
    BY <1>0, <2>1 DEF FallbackOnce, PlaceOK, TypeOK
  <2>4. BoundOK' /\ AnswerOnce'
    BY <1>0, <2>1 DEF BoundOK, AnswerOnce, Turning
  <2>. QED  BY <2>2, <2>3, <2>4 DEF Rest
<1>8. CASE LosePrompt
  <2>1. step = "prompt" /\ line \in Lines /\ UNCHANGED listed /\ Verdict("prompt") = "failed"
    BY <1>0, <1>8, Judged DEF LosePrompt, PlaceOK, PreAdmission
  <2>2. Return("failed")
    BY <1>8, <2>1 DEF LosePrompt
  <2>3. posted' \in [Lines -> {"no", "sent", "accepted"}] /\ \A t \in Lines \ {line} : posted'[t] = posted[t]
    BY <1>0, <1>8, <2>1 DEF LosePrompt, TypeOK
  <2>. QED  BY <2>1, <2>2, <2>3, Settled DEF Verdicts
<1>9. CASE Bind
  <2>1. PICK i \in Candidates : bound' = listed[i]
    BY <1>9 DEF Bind
  <2>2. /\ bound' \in Listed /\ bound' \notin baseline /\ Text[bound'] = Text[line]
    BY <2>1 DEF Candidates, Listed
  <2>3. /\ step = "bind" /\ step' = "watch"
        /\ UNCHANGED <<posted, listed, outcome, told, attempts, line>> /\ Listed' = Listed
    BY <1>9 DEF Bind, server, Listed
  <2>4. PlaceOK'
    BY <1>0, <2>3 DEF PlaceOK, PreAdmission
  <2>5. bound' <= line
    BY <1>0, <1>2, <2>2 DEF PlaceOK
  <2>6. FallbackOnce' /\ AnswerOnce'
    BY <1>0, <2>3 DEF FallbackOnce, AnswerOnce
  <2>7. \A l \in Lines : told[l] # bound'
    BY <1>0, <2>2, <2>3, Bounds, <1>2 DEF BoundOK
  <2>8. BoundOK'
    BY <1>0, <2>2, <2>3, <2>5, <2>7 DEF BoundOK
  <2>. QED  BY <2>4, <2>6, <2>8 DEF Rest
<1>10. CASE MissPrompt
  <2>1. Verdict("bind") = "failed" /\ step = "bind" /\ UNCHANGED <<posted, listed>>
    BY <1>10, Judged DEF MissPrompt, PreAdmission, server
  <2>2. Return("failed")
    BY <1>10, <2>1 DEF MissPrompt
  <2>. QED  BY <2>1, <2>2, Settled DEF Verdicts
<1>11. CASE CannotWatch
  <2>1. Verdict("watch") = "failed" /\ step = "watch" /\ UNCHANGED <<posted, listed>>
    BY <1>11, Judged DEF CannotWatch, PreAdmission, server, AbortTurns
  <2>2. Return("failed")
    BY <1>11, <2>1 DEF CannotWatch
  <2>. QED  BY <2>1, <2>2, Settled DEF Verdicts
<1>12. CASE Watch
  BY <1>0, <1>12, Apart DEF Watch, server, turn, Turning, PlaceOK
<1>13. CASE Hear
  <2>1. UNCHANGED <<posted, listed, line, bound, outcome, told>> /\ step \in Turning /\ step' \in Turning /\ attempts' = 0
    BY <1>13 DEF Hear, server, Turning
  <2>. QED  BY <2>1, Bounds, Apart
<1>14. CASE BreakStream
  BY <1>0, <1>14, Apart DEF BreakStream, server, Turning
<1>15. CASE Reconnect
  BY <1>0, <1>15, Apart DEF Reconnect, server, Turning
<1>16. CASE FailAgain \/ SubscribeAgain
  BY <1>0, <1>16, Apart DEF FailAgain, SubscribeAgain, server, turn, Turning, PlaceOK
<1>17. CASE ReadStatus
  BY <1>0, <1>17, Apart DEF ReadStatus, server, Turning, PlaceOK
<1>18. CASE ReadMessages
  BY <1>0, <1>18, Apart DEF ReadMessages, server, Turning, PlaceOK
<1>19. CASE Finish
  <2>1. Judge \in Verdicts /\ Judge # "native" /\ Return(Judge) /\ step \in Turning /\ step # "rest" /\ UNCHANGED <<posted, listed>>
    BY <1>19, Judged DEF Finish, Verdicts, server, Turning
  <2>. QED  BY <2>1, Settled
<1>20. CASE RotateElsewhere \/ LoseStream \/ Interrupt
  <2>1. UNCHANGED <<posted, listed, line, bound, outcome, told, step, baseline, attempts>>
    BY <1>20 DEF RotateElsewhere, LoseStream, Interrupt, AbortSession, AbortTurns, server, turn
  <2>. QED  BY <1>0, <2>1, Apart DEF PlaceOK
<1>21. CASE Monitor
  <2>1. UNCHANGED <<posted, listed, line, bound, outcome, told, step, baseline, attempts>>
    BY <1>21 DEF Monitor, AbortSession, AbortTurns, server, turn
  <2>. QED  BY <1>0, <2>1, Apart DEF PlaceOK
<1>22. ASSUME NEW t \in Lines, List(t) PROVE Rest'
  <2>1. /\ posted[t] # "no" /\ listed' = Append(listed, t)
        /\ UNCHANGED <<posted, line, bound, outcome, told, step, baseline, attempts>>
    BY <1>22 DEF List, turn
  <2>2. Listed' = Listed \cup {t}
    <3>1. listed \in Seq(Lines) /\ t \in Lines
      BY <1>0 DEF TypeOK
    <3>2. DOMAIN listed' = 1 .. Len(listed) + 1 /\ DOMAIN listed = 1 .. Len(listed) /\ Len(listed) \in Nat
      BY <2>1, <3>1
    <3>3. \A i \in DOMAIN listed' : listed'[i] = IF i = Len(listed) + 1 THEN t ELSE listed[i]
      BY <2>1, <3>1, <3>2
    <3>4. Listed = {listed[i] : i \in 1 .. Len(listed)} /\ Listed' = {listed'[i] : i \in 1 .. Len(listed) + 1}
      BY <3>2 DEF Listed
    <3>. QED  BY <3>2, <3>3, <3>4
  <2>3. PlaceOK'
    BY <1>0, <2>1, <2>2 DEF PlaceOK
  <2>4. FallbackOnce'
    BY <1>0, <2>1, <2>2 DEF FallbackOnce
  <2>5. BoundOK' /\ AnswerOnce'
    BY <1>0, <2>1, <2>2 DEF BoundOK, AnswerOnce
  <2>. QED  BY <2>3, <2>4, <2>5 DEF Rest
<1>23. ASSUME NEW t \in Lines, Write(t) \/ Settle(t) \/ FailTurn(t) PROVE Rest'
  <2>1. UNCHANGED <<posted, listed, line, bound, outcome, told, step, baseline, attempts>>
    BY <1>23 DEF Write, Settle, FailTurn, turn
  <2>. QED  BY <1>0, <2>1, Apart DEF PlaceOK
<1>. QED  BY <1>3, <1>4, <1>5, <1>6, <1>7, <1>8, <1>9, <1>10, <1>11, <1>12, <1>13, <1>14, <1>15, <1>16, <1>17, <1>18, <1>19, <1>20, <1>21, <1>22, <1>23
          DEF Next, Submit, Read, OpenCode

(* The parts below hold together in every reachable state. *)
THEOREM Invariance == Spec => []IInv
<1>1. ASSUME IInv, [Next]_vars PROVE IInv'
  <2>1. CASE Next
    BY <1>1, <2>1, NextKeeps
  <2>2. CASE UNCHANGED vars
    BY <1>1, <2>2, Bounds DEF vars, server, turn, signals, IInv, TypeOK, PlaceOK, FallbackOnce, BoundOK, AnswerOnce, Listed
  <2>. QED  BY <1>1, <2>1, <2>2
<1>. QED  BY InitKeeps, <1>1, PTL DEF Spec

(* The turn's state stays within its types. *)
THEOREM TypeCorrect == Spec => []TypeOK
<1>1. IInv => TypeOK
  BY DEF IInv
<1>. QED  BY <1>1, Invariance, PTL

(* A line whose prompt may have reached OpenCode is never run natively as   *)
(* well (run_turn's PreAdmission and Admitted).                             *)
THEOREM FallsBackOnce == Spec => []FallbackOnce
<1>1. IInv => FallbackOnce
  BY DEF IInv
<1>. QED  BY <1>1, Invariance, PTL

(* A prompt bound by its text takes no other line's answer, and none that   *)
(* was given before (matching_new_user_message_id).                         *)
THEOREM AnsweredOnce == Spec => []AnswerOnce
<1>1. IInv => AnswerOnce
  BY DEF IInv
<1>. QED  BY <1>1, Invariance, PTL

-----------------------------------------------------------------------------
(* A turn is told as answered only when it has ended. *)

Kinds == {"message", "text", "completed", "aborted", "error", "idle"}
Frames == [kind : Kinds, of : (Lines \cup {NoTurn}) \X Nat]

(* The types of the stream, and the fields of the mapper and of what was heard. *)
ShapeOK == /\ stream \in [live : BOOLEAN, frames : Seq(Frames)]
           /\ "observed" \in DOMAIN mapper
           /\ {"failed", "broken"} \subseteq DOMAIN heard

EInv == ShapeOK /\ FramesOK /\ EndOK

LEMMA Framed == ASSUME NEW kind \in Kinds, NEW t \in Lines \cup {NoTurn}, NEW m \in Nat
                PROVE  /\ Frame(kind, t, m) \in Frames
                       /\ Frame(kind, t, m).kind = kind /\ Frame(kind, t, m).of[1] = t
  BY DEF Frame, Frames

LEMMA Joined == ASSUME NEW S, NEW a \in Seq(S), NEW b \in Seq(S)
                PROVE  /\ a \o b \in Seq(S)
                       /\ \A i \in DOMAIN (a \o b) :
                             \/ i \in DOMAIN a /\ (a \o b)[i] = a[i]
                             \/ /\ \A j \in DOMAIN a : j < i
                                /\ \E k \in DOMAIN b : (a \o b)[i] = b[k]
<1>1. /\ a \o b \in Seq(S) /\ DOMAIN (a \o b) = 1 .. Len(a) + Len(b)
      /\ DOMAIN a = 1 .. Len(a) /\ DOMAIN b = 1 .. Len(b)
      /\ Len(a) \in Nat /\ Len(b) \in Nat
  OBVIOUS
<1>2. ASSUME NEW i \in 1 .. Len(a) + Len(b), i \notin 1 .. Len(a)
      PROVE  i - Len(a) \in 1 .. Len(b) /\ (a \o b)[i] = b[i - Len(a)] /\ \A j \in 1 .. Len(a) : j < i
  BY <1>1, <1>2
<1>3. ASSUME NEW i \in 1 .. Len(a) PROVE (a \o b)[i] = a[i]
  BY <1>1, <1>3
<1>. QED  BY <1>1, <1>2, <1>3

(* What OpenCode publishes when it writes, ends, fails or aborts a turn. *)
LEMMA Published ==
  ASSUME TypeOK, BoundOK, EInv, NEW new \in Seq(Frames), Publish(new),
         UNCHANGED <<listed, line, step, turn, outcome>>,
         \A t \in Listed : ending[t] # "open" => ending'[t] = ending[t],
         \A k \in DOMAIN new : new[k].of[1] \in Listed \cup {NoTurn},
         \A k \in DOMAIN new : new[k].kind = "aborted" => new[k].of[1] \in {t \in Listed : ending'[t] = "aborted"},
         \A k \in DOMAIN new : new[k].kind = "idle" => Unended' = {}
  PROVE  EInv'
<1>1. /\ Listed' = Listed /\ Unended' \subseteq Unended
      /\ UNCHANGED <<mapper, heard, bound, busy>>
  BY DEF Listed, Unended, turn
<1>2. \A i \in DOMAIN stream'.frames :
         \/ i \in DOMAIN stream.frames /\ stream'.frames[i] = stream.frames[i]
         \/ /\ \A j \in DOMAIN stream.frames : j < i
            /\ \E k \in DOMAIN new : stream'.frames[i] = new[k]
  <2>1. CASE stream.live
    <3>1. stream'.frames = stream.frames \o new
      BY <2>1 DEF Publish, EInv, ShapeOK
    <3>2. stream.frames \in Seq(Frames)
      BY DEF EInv, ShapeOK
    <3>. QED  BY <3>1, <3>2, Joined
  <2>2. CASE ~stream.live
    BY <2>2 DEF Publish
  <2>. QED  BY <2>1, <2>2
<1>3. ShapeOK'
  <2>1. stream.frames \in Seq(Frames) /\ stream \in [live : BOOLEAN, frames : Seq(Frames)]
    BY DEF EInv, ShapeOK
  <2>2. stream.frames \o new \in Seq(Frames)
    BY <2>1, Joined
  <2>3. stream' \in [live : BOOLEAN, frames : Seq(Frames)]
    BY <2>1, <2>2 DEF Publish
  <2>. QED  BY <1>1, <2>3 DEF EInv, ShapeOK
<1>4. FramesOK'
  <2>1. ASSUME NEW i \in DOMAIN stream'.frames
        PROVE  /\ stream'.frames[i].of[1] \in Listed \cup {NoTurn}
               /\ stream'.frames[i].kind = "aborted" =>
                     stream'.frames[i].of[1] \in {t \in Listed : ending'[t] = "aborted"}
    BY <1>2 DEF EInv, FramesOK
  <2>2. ASSUME NEW i \in DOMAIN stream'.frames, NEW j \in DOMAIN stream'.frames,
               j < i, stream'.frames[i].kind = "idle"
        PROVE  stream'.frames[j].of[1] \notin Unended'
    <3>1. CASE Unended' = {}
      BY <3>1
    <3>2. CASE Unended' # {}
      <4>1. i \in DOMAIN stream.frames /\ stream'.frames[i] = stream.frames[i]
        BY <1>2, <2>2, <3>2
      <4>3. i \in Nat /\ j \in Nat
        BY <1>3 DEF ShapeOK
      <4>2. j \in DOMAIN stream.frames /\ stream'.frames[j] = stream.frames[j]
        BY <1>2, <2>2, <4>1, <4>3
      <4>. QED  BY <1>1, <2>2, <4>1, <4>2 DEF EInv, FramesOK
    <3>. QED  BY <3>1, <3>2
  <2>. QED  BY <1>1, <2>1, <2>2 DEF FramesOK
<1>5. EndOK'
  <2>1. step \in Turning /\ bound \in Unended' /\ (mapper.observed \/ step \in {"status", "messages"}) =>
           \A i \in DOMAIN stream'.frames : stream'.frames[i].kind # "idle"
    BY <1>1, <1>2 DEF EInv, EndOK
  <2>2. Told("answered")' => bound \in Listed \ Unended'
    BY <1>1 DEF EInv, EndOK, Told
  <2>. QED  BY <1>1, <2>1, <2>2 DEF EInv, EndOK
<1>. QED  BY <1>3, <1>4, <1>5 DEF EInv

(* What the foreground does without touching the stream or the mapper. *)
LEMMA Waited ==
  ASSUME EInv, BoundOK, UNCHANGED <<stream, mapper, heard, bound, Listed, Unended, ending, outcome>>,
         step \in Steps \ {"rest"}, step' \in Steps \ {"rest"},
         step' \in Turning <=> step \in Turning,
         step' \in {"status", "messages"} => step \in {"status", "messages"},
         step' = "messages" /\ bound \in Unended => busy',
         step' = "finish" /\ bound \in Unended => heard.broken \/ heard.failed
  PROVE  EInv'
<1>1. ShapeOK' /\ FramesOK'
  BY DEF EInv, ShapeOK, FramesOK
<1>2. step' \in Turning /\ bound \in Unended /\ (mapper.observed \/ step' \in {"status", "messages"}) =>
         \A i \in DOMAIN stream.frames : stream.frames[i].kind # "idle"
  BY DEF EInv, EndOK, Turning
<1>. QED  BY <1>1, <1>2 DEF EInv, EndOK, Told, Turning

(* What run_turn's return leaves of the stream, the mapper and the verdict. *)
LEMMA Closed ==
  ASSUME TypeOK, EInv, NEW v \in Verdicts, Return(v), line \in Lines, UNCHANGED listed,
         \A t \in Listed : ending[t] # "open" => ending'[t] = ending[t],
         v = "answered" => bound \in Listed \ Unended
  PROVE  EInv'
<1>1. Listed' = Listed /\ Unended' \subseteq Unended
  BY DEF Listed, Unended
<1>2. stream' = NoStream /\ mapper' = NewMapper /\ UNCHANGED heard /\ UNCHANGED bound
  BY DEF Return
<1>3. stream'.frames = <<>> /\ mapper'.observed = FALSE
  BY <1>2 DEF NoStream, NewMapper
<1>4. stream' \in [live : BOOLEAN, frames : Seq(Frames)] /\ "observed" \in DOMAIN mapper'
  BY <1>2 DEF NoStream, NewMapper
<1>5. ShapeOK' /\ FramesOK'
  BY <1>2, <1>3, <1>4 DEF EInv, ShapeOK, FramesOK
<1>6. step' = "rest" /\ outcome'[line] = v /\ line' = line
  BY Returned DEF Back
<1>. QED  BY <1>1, <1>2, <1>3, <1>5, <1>6 DEF EInv, EndOK, Told, Turning

LEMMA EndInit == ASSUME Init PROVE EInv
<1>1. stream.frames = <<>> /\ mapper.observed = FALSE
  BY DEF Init, NoStream, NewMapper
<1>2. ShapeOK
  BY DEF Init, ShapeOK, NoStream, NewMapper, NothingHeard
<1>. QED  BY <1>1, <1>2 DEF Init, EInv, FramesOK, EndOK, Turning, Told

LEMMA Part == ASSUME TypeOK, NEW t \in Lines PROVE written[t] \div 3 + 1 \in Nat
<1>1. written[t] \in 0 .. 3 * Replies /\ 3 * Replies \in Nat
  BY Bounds DEF TypeOK
<1>. QED  BY <1>1

(* An abort ends every turn; what it publishes is its message and idle. *)
LEMMA Aborted ==
  ASSUME TypeOK, BoundOK, EInv, AbortSession, UNCHANGED <<line, step, turn, outcome>>
  PROVE  EInv'
<1>1. /\ ending' = [t \in Lines |-> IF t \in Unended THEN "aborted" ELSE ending[t]]
      /\ UNCHANGED listed /\ Listed' = Listed /\ Listed \subseteq Lines
  BY DEF AbortSession, AbortTurns, Listed, TypeOK
<1>2. Unended' = {}
  BY <1>1 DEF Unended
<1>3. Frame("idle", NoTurn, 0) \in Frames /\ Idle.kind = "idle" /\ Idle.of[1] = NoTurn /\ Idle \in Frames
  BY Framed DEF Idle, Kinds
<1>4. PICK t \in (IF Cut = {} THEN {NoTurn} ELSE Cut) :
         Publish((IF t = NoTurn THEN <<>> ELSE <<Frame("aborted", t, written[t] \div 3 + 1)>>) \o <<Idle>>)
  BY DEF AbortSession
<1>5. CASE t = NoTurn
  <2>1. Publish(<<Idle>>) /\ <<Idle>> \in Seq(Frames)
    BY <1>3, <1>4, <1>5
  <2>2. <<Idle>>[1] = Idle /\ DOMAIN <<Idle>> = {1}
    OBVIOUS
  <2>3. \A t2 \in Listed : ending[t2] # "open" => ending'[t2] = ending[t2]
    BY <1>1 DEF Unended
  <2>. QED  BY <1>1, <1>2, <1>3, <2>1, <2>2, <2>3, Published
<1>6. CASE t # NoTurn
  <2>1. t \in Unended /\ t \in Lines /\ written[t] \div 3 + 1 \in Nat
    <3>1. t \in Unended /\ t \in Lines
      BY <1>1, <1>4, <1>6 DEF Cut, Unended
    <3>. QED  BY <3>1, Part
  <2> DEFINE f == Frame("aborted", t, written[t] \div 3 + 1)
  <2>2. f \in Frames /\ f.kind = "aborted" /\ f.of[1] = t
    BY <2>1, Framed DEF Kinds
  <2> HIDE DEF f
  <2> DEFINE new == <<f>> \o <<Idle>>
  <2>3. Publish(new)
    BY <1>4, <1>6 DEF f
  <2>4. /\ <<f>> \in Seq(Frames) /\ DOMAIN <<f>> = {1} /\ <<f>>[1] = f
        /\ <<Idle>> \in Seq(Frames) /\ DOMAIN <<Idle>> = {1} /\ <<Idle>>[1] = Idle
    BY <1>3, <2>2
  <2>5. new \in Seq(Frames) /\ \A k \in DOMAIN new : new[k] = f \/ new[k] = Idle
    BY <2>4, Joined
  <2> HIDE DEF new
  <2>6. ending'[t] = "aborted" /\ t \in Listed
    BY <1>1, <2>1 DEF Unended
  <2>7. \A t2 \in Listed : ending[t2] # "open" => ending'[t2] = ending[t2]
    BY <1>1 DEF Unended
  <2>. QED  BY <1>1, <1>2, <1>3, <2>2, <2>3, <2>5, <2>6, <2>7, Published
<1>. QED  BY <1>5, <1>6

(* A turn that settles or fails; idle follows when it was the last. *)
LEMMA IdleAfter == ASSUME NEW t \in Unended, Unended' = Unended \ {t}
                   PROVE  /\ IdleWithout({t}) \in Seq(Frames)
                          /\ \A k \in DOMAIN IdleWithout({t}) :
                                IdleWithout({t})[k] = Idle /\ Unended' = {}
<1>1. Idle \in Frames
  BY Framed DEF Idle, Kinds
<1>. QED  BY <1>1 DEF IdleWithout

LEMMA WriteEnds == ASSUME TypeOK, BoundOK, EInv, NEW t \in Lines, Write(t) PROVE EInv'
<1>1. /\ t \in Listed /\ written[t] \div 3 + 1 \in Nat
      /\ UNCHANGED <<listed, line, step, turn, outcome, ending>>
  BY Part DEF Write, Running, Unended
<1>0. Unended' = Unended /\ Listed' = Listed
  BY <1>1 DEF Unended, Listed
<1> DEFINE m == written[t] \div 3 + 1
<1>2. \A kind \in {"message", "text", "completed"} :
         Frame(kind, t, m) \in Frames /\ Frame(kind, t, m).kind = kind /\ Frame(kind, t, m).of[1] = t
  BY <1>1, Framed DEF Kinds
<1>3. Publish(<<>>) \/ \E kind \in {"message", "text", "completed"} : Publish(<<Frame(kind, t, m)>>)
  BY DEF Write
<1>4. CASE Publish(<<>>)
  <2>1. <<>> \in Seq(Frames) /\ DOMAIN <<>> = {}
    OBVIOUS
  <2>. QED  BY <1>0, <1>1, <1>4, <2>1, Published
<1>5. ASSUME NEW kind \in {"message", "text", "completed"}, Publish(<<Frame(kind, t, m)>>) PROVE EInv'
  <2> DEFINE f == Frame(kind, t, m)
  <2>1. f \in Frames /\ f.kind = kind /\ f.of[1] = t /\ Publish(<<f>>)
    BY <1>2, <1>5
  <2> HIDE DEF f, m
  <2>2. <<f>> \in Seq(Frames) /\ DOMAIN <<f>> = {1} /\ <<f>>[1] = f
    BY <2>1
  <2>. QED  BY <1>0, <1>1, <2>1, <2>2, Published
<1>. QED  BY <1>3, <1>4, <1>5

LEMMA SettleEnds == ASSUME TypeOK, BoundOK, EInv, NEW t \in Lines, Settle(t) \/ FailTurn(t) PROVE EInv'
<1>1. /\ t \in Unended /\ t \in Listed
      /\ UNCHANGED <<listed, line, step, turn, outcome>> /\ Listed' = Listed /\ Listed \subseteq Lines
      /\ \E how \in {"done", "failed"} : ending' = [ending EXCEPT ![t] = how]
  BY DEF Settle, FailTurn, Running, Unended, Listed, TypeOK
<1>2. Unended' = Unended \ {t} /\ \A u \in Listed : ending[u] # "open" => ending'[u] = ending[u]
  BY <1>1 DEF Unended, TypeOK
<1>3. /\ IdleWithout({t}) \in Seq(Frames) /\ Idle.kind = "idle" /\ Idle.of[1] = NoTurn
      /\ \A k \in DOMAIN IdleWithout({t}) : IdleWithout({t})[k] = Idle /\ Unended' = {}
  BY <1>1, <1>2, IdleAfter, Framed, SMTT(20) DEF Idle, Kinds
<1>4. CASE Settle(t)
  <2>1. Publish(IdleWithout({t}))
    BY <1>4 DEF Settle
  <2>. QED  BY <1>1, <1>2, <1>3, <2>1, Published
<1>5. CASE FailTurn(t)
  <2> DEFINE f == Frame("error", t, 0)
             ended == <<f>>
             idle == IdleWithout({t})
             new == ended \o idle
  <2>1. f \in Frames /\ f.kind = "error" /\ f.of[1] = t
    BY Framed DEF Kinds
  <2>2. Publish(new)
    BY <1>5 DEF FailTurn
  <2> HIDE DEF f
  <2>3. ended \in Seq(Frames) /\ \A k \in DOMAIN ended : ended[k] = f
    BY <2>1
  <2>4. idle \in Seq(Frames) /\ \A k \in DOMAIN idle : idle[k] = Idle /\ Unended' = {}
    BY <1>3
  <2> HIDE DEF ended, idle
  <2>5. new \in Seq(Frames) /\ \A k \in DOMAIN new : new[k] = f \/ (new[k] = Idle /\ Unended' = {})
    BY <2>3, <2>4, Joined
  <2> HIDE DEF new
  <2>. QED  BY <1>1, <1>2, <1>3, <2>1, <2>2, <2>5, Published
<1>. QED  BY <1>4, <1>5

LEMMA ListEnds == ASSUME TypeOK, BoundOK, EInv, NEW t \in Lines, List(t) PROVE EInv'
<1>1. /\ t \notin Listed /\ listed' = Append(listed, t) /\ listed \in Seq(Lines)
      /\ UNCHANGED <<stream, ending, line, step, mapper, heard, bound, busy, outcome>>
  BY DEF List, turn, TypeOK
<1>2. Listed' = Listed \cup {t}
  <2>1. DOMAIN listed' = 1 .. Len(listed) + 1 /\ DOMAIN listed = 1 .. Len(listed) /\ Len(listed) \in Nat
    BY <1>1
  <2>2. \A i \in DOMAIN listed' : listed'[i] = IF i = Len(listed) + 1 THEN t ELSE listed[i]
    BY <1>1, <2>1
  <2>3. Listed = {listed[i] : i \in 1 .. Len(listed)} /\ Listed' = {listed'[i] : i \in 1 .. Len(listed) + 1}
    BY <2>1 DEF Listed
  <2>. QED  BY <2>1, <2>2, <2>3
<1>3. \A u \in Listed \cup {NoTurn} : u \in Unended' => u \in Unended
  BY <1>1, <1>2, Bounds DEF Unended
<1>4. ShapeOK' /\ FramesOK'
  <2>1. \A i \in DOMAIN stream.frames : stream.frames[i].of[1] \in Listed \cup {NoTurn}
    BY DEF EInv, FramesOK
  <2>2. \A i, j \in DOMAIN stream.frames :
           j < i /\ stream.frames[i].kind = "idle" => stream.frames[j].of[1] \notin Unended'
    BY <1>3, <2>1 DEF EInv, FramesOK
  <2>. QED  BY <1>1, <1>2, <2>1, <2>2 DEF EInv, ShapeOK, FramesOK
<1>5. step \in Turning /\ bound \in Unended' => bound \in Unended
  BY <1>3 DEF BoundOK
<1>6. Told("answered") => bound \in Listed \ Unended
  BY DEF EInv, EndOK
<1>7. EndOK'
  <2>1. step \in Turning /\ bound \in Unended' /\ (mapper.observed \/ step \in {"status", "messages"}) =>
           \A i \in DOMAIN stream.frames : stream.frames[i].kind # "idle"
    BY <1>5 DEF EInv, EndOK
  <2>2. /\ step = "messages" /\ bound \in Unended' => busy
        /\ step = "finish" /\ bound \in Unended' => heard.broken \/ heard.failed
    BY <1>5 DEF EInv, EndOK, Turning
  <2>3. Told("answered")' => bound \in Listed' \ Unended'
    BY <1>1, <1>2, <1>3, <1>6 DEF Told
  <2>. QED  BY <1>1, <2>1, <2>2, <2>3 DEF EInv, EndOK
<1>. QED  BY <1>4, <1>7 DEF EInv

(* A subscriber is greeted by idle only while no turn is unended. *)
LEMMA Greeted == ASSUME TypeOK, EInv, NEW greeting \in Greeting,
                        stream' = [live |-> TRUE, frames |-> greeting],
                        UNCHANGED <<mapper, heard, bound, Listed, Unended, ending>>,
                        \/ step \notin Turning /\ step' \notin Turning /\ step' # "rest"
                        \/ step \in Turning /\ step' = "status"
                 PROVE  EInv'
<1>1. Idle \in Frames /\ Idle.kind = "idle" /\ Idle.of[1] = NoTurn
  BY Framed DEF Idle, Kinds
<1>2. greeting = <<>> \/ (greeting = <<Idle>> /\ Unended = {})
  BY DEF Greeting, Busy
<1>3. /\ greeting \in Seq(Frames)
      /\ \A i \in DOMAIN greeting : greeting[i] = Idle /\ i = 1 /\ Unended = {}
  <2>1. <<>> \in Seq(Frames) /\ DOMAIN <<>> = {}
    OBVIOUS
  <2>2. <<Idle>> \in Seq(Frames) /\ DOMAIN <<Idle>> = {1} /\ <<Idle>>[1] = Idle
    BY <1>1
  <2>. QED  BY <1>2, <2>1, <2>2
<1>4. stream'.frames = greeting /\ stream' \in [live : BOOLEAN, frames : Seq(Frames)]
  BY <1>3
<1>5. ShapeOK' /\ FramesOK'
  BY <1>1, <1>3, <1>4 DEF EInv, ShapeOK, FramesOK
<1>6. EndOK'
  BY <1>3, <1>4 DEF EInv, EndOK, Told, Turning
<1>. QED  BY <1>5, <1>6 DEF EInv

(* A stream that is cut short. *)
LEMMA CutShort == ASSUME TypeOK, EInv, UNCHANGED <<mapper, heard, bound, busy, line, outcome, Listed, Unended, ending>>,
                         stream' \in [live : BOOLEAN, frames : Seq(Frames)],
                         DOMAIN stream'.frames \subseteq DOMAIN stream.frames,
                         \A i \in DOMAIN stream'.frames : stream'.frames[i] = stream.frames[i],
                         step' = step \/ (step \in Turning /\ step' = "read")
                  PROVE  EInv'
<1>1. ShapeOK' /\ FramesOK'
  BY DEF EInv, ShapeOK, FramesOK
<1>. QED  BY <1>1 DEF EInv, EndOK, Told, Turning

(* What a frame makes of the mapper: only a message of the bound turn is observed. *)
LEMMA Mapped ==
  ASSUME ShapeOK, Hear
  PROVE  /\ "observed" \in DOMAIN mapper' /\ {"failed", "broken"} \subseteq DOMAIN heard'
         /\ mapper.observed => mapper'.observed
         /\ mapper'.observed => mapper.observed \/ Head(stream.frames).of[1] = bound
         /\ Head(stream.frames).kind = "error" => heard'.failed
         /\ heard.broken => heard'.broken
         /\ heard.failed => heard'.failed
<1> DEFINE frame == Head(stream.frames)
<1>1. "observed" \in DOMAIN mapper /\ "failed" \in DOMAIN heard /\ "broken" \in DOMAIN heard
  BY DEF ShapeOK
<1>2. \/ frame.kind \in {"message", "completed", "aborted"} /\ HearMessage(frame)
      \/ frame.kind = "text" /\ HearText(frame)
      \/ frame.kind = "error" /\ heard' = [heard EXCEPT !.failed = TRUE] /\ UNCHANGED mapper
      \/ frame.kind = "idle" /\ UNCHANGED <<mapper, heard>>
      \/ frame.kind \notin Kinds
  BY DEF Hear, Kinds
<1>6. frame.kind \in Kinds
  <2>1. stream.frames \in Seq(Frames) /\ stream.frames # <<>>
    BY DEF ShapeOK, Hear
  <2>2. frame \in Frames
    BY <2>1
  <2>. QED  BY <2>2 DEF Frames
<1>3. CASE frame.kind \in {"message", "completed", "aborted"} /\ HearMessage(frame)
  <2>1. CASE ~Own(frame.of)
    BY <1>1, <1>3, <2>1 DEF HearMessage
  <2>2. CASE Own(frame.of)
    <3> DEFINE texts == Drained(frame.of)
               usage == IF frame.kind = "message" \/ frame.of \in mapper.metered THEN <<>> ELSE <<frame.of>>
    <3>1. /\ mapper' = [Messaged(frame.of) EXCEPT !.texts = @ \cup SetOf(texts), !.metered = @ \cup SetOf(usage)]
          /\ heard' = [heard EXCEPT !.texts = @ \o texts, !.usage = @ \o usage]
      BY <1>3, <2>2 DEF HearMessage
    <3> HIDE DEF texts, usage
    <3>2. "observed" \in DOMAIN Messaged(frame.of)
      BY <1>1 DEF Messaged
    <3>3. "observed" \in DOMAIN mapper' /\ frame.of[1] = bound
      BY <2>2, <3>1, <3>2 DEF Own
    <3>4. {"failed", "broken"} \subseteq DOMAIN heard' /\ heard'.failed = heard.failed /\ heard'.broken = heard.broken
      BY <1>1, <3>1
    <3>6. mapper'.observed = Messaged(frame.of).observed /\ Messaged(frame.of).observed = TRUE
      BY <1>1, <3>1, <3>2 DEF Messaged
    <3>. QED  BY <1>3, <3>3, <3>4, <3>6
  <2>. QED  BY <2>1, <2>2
<1>4. CASE frame.kind = "text" /\ HearText(frame)
  BY <1>1, <1>4 DEF HearText
<1>5. CASE frame.kind = "error" /\ heard' = [heard EXCEPT !.failed = TRUE] /\ UNCHANGED mapper
  BY <1>1, <1>5
<1>. QED  BY <1>1, <1>2, <1>3, <1>4, <1>5, <1>6

LEMMA HearEnds == ASSUME TypeOK, BoundOK, EInv, Hear PROVE EInv'
<1> DEFINE frame == Head(stream.frames)
<1>1. /\ step = "read" /\ stream.frames \in Seq(Frames) /\ stream.frames # <<>>
      /\ stream' = [stream EXCEPT !.frames = Tail(@)]
      /\ step' = IF Ends(frame) THEN "finish" ELSE "read"
      /\ UNCHANGED <<listed, ending, line, bound, busy, outcome>>
      /\ stream \in [live : BOOLEAN, frames : Seq(Frames)]
  BY DEF Hear, EInv, ShapeOK, server
<1>2. Listed' = Listed /\ Unended' = Unended
  BY <1>1 DEF Listed, Unended
<1>3. /\ frame = stream.frames[1] /\ 1 \in DOMAIN stream.frames
      /\ stream'.frames = Tail(stream.frames) /\ stream'.frames \in Seq(Frames)
      /\ stream' \in [live : BOOLEAN, frames : Seq(Frames)]
  BY <1>1, SMTT(20)
<1>4. /\ \A i \in DOMAIN stream'.frames : /\ i \in Nat /\ i + 1 \in DOMAIN stream.frames /\ 1 < i + 1
                                          /\ stream'.frames[i] = stream.frames[i + 1]
  <2>1. DOMAIN stream.frames = 1 .. Len(stream.frames) /\ Len(stream.frames) \in Nat
    BY <1>1
  <2>2. DOMAIN Tail(stream.frames) = 1 .. Len(stream.frames) - 1
    BY <1>1
  <2>3. \A i \in 1 .. Len(stream.frames) - 1 : Tail(stream.frames)[i] = stream.frames[i + 1]
    BY <1>1
  <2>. QED  BY <1>3, <2>1, <2>2, <2>3
<1>5. /\ "observed" \in DOMAIN mapper' /\ {"failed", "broken"} \subseteq DOMAIN heard'
      /\ mapper'.observed => mapper.observed \/ frame.of[1] = bound
      /\ frame.kind = "error" => heard'.failed
  BY Mapped DEF EInv
<1>6. ShapeOK'
  BY <1>3, <1>5 DEF ShapeOK
<1>7. FramesOK'
  <2>1. ASSUME NEW i \in DOMAIN stream'.frames
        PROVE  /\ stream'.frames[i].of[1] \in Listed \cup {NoTurn}
               /\ stream'.frames[i].kind = "aborted" => stream'.frames[i].of[1] \in {t \in Listed : ending[t] = "aborted"}
    BY <1>4 DEF EInv, FramesOK
  <2>2. ASSUME NEW i \in DOMAIN stream'.frames, NEW j \in DOMAIN stream'.frames,
               j < i, stream'.frames[i].kind = "idle"
        PROVE  stream'.frames[j].of[1] \notin Unended
    <3>1. /\ i + 1 \in DOMAIN stream.frames /\ j + 1 \in DOMAIN stream.frames /\ j + 1 < i + 1
          /\ stream'.frames[i] = stream.frames[i + 1] /\ stream'.frames[j] = stream.frames[j + 1]
      BY <1>4, <2>2
    <3>. QED  BY <2>2, <3>1 DEF EInv, FramesOK
  <2>. QED  BY <1>1, <1>2, <2>1, <2>2 DEF FramesOK
<1>8. bound \in Unended /\ mapper'.observed =>
         \A i \in DOMAIN stream'.frames : stream'.frames[i].kind # "idle"
  <2>1. CASE mapper.observed
    BY <1>1, <1>4, <2>1 DEF EInv, EndOK, Turning
  <2>2. CASE frame.of[1] = bound
    BY <1>3, <1>4, <2>2 DEF EInv, FramesOK
  <2>. QED  BY <1>5, <2>1, <2>2
<1>9. bound \in Unended /\ Ends(frame) => frame.kind = "error"
  <2>1. bound \in Unended /\ mapper.observed => frame.kind # "idle"
    BY <1>1, <1>3 DEF EInv, EndOK, Turning
  <2>2. frame.kind = "aborted" /\ frame.of[1] = bound => bound \notin Unended
    BY <1>3 DEF EInv, FramesOK, Unended
  <2>. QED  BY <2>1, <2>2 DEF Ends, IdleEnds, Own
<1>10. EndOK'
  BY <1>1, <1>2, <1>5, <1>8, <1>9 DEF EndOK, Told, Turning
<1>. QED  BY <1>6, <1>7, <1>10 DEF EInv

LEMMA ReadEnds == ASSUME TypeOK, BoundOK, EInv, ReadMessages PROVE EInv'
<1> DEFINE started == {<<bound, m>> : m \in {n \in Messages : Started(bound, n)}}
           texts == Select(InOrder, {of \in SetOf(InOrder) : HasText(of[1], of[2]) /\ Unheard(of)})
           usage == Select(InOrder, {of \in SetOf(InOrder) : Ended(of[1], of[2]) /\ of \notin mapper.metered})
<1>1. /\ mapper' = [mapper EXCEPT !.observed = @ \/ started # {}, !.ids = @ \cup started,
                                   !.texts = @ \cup SetOf(texts), !.metered = @ \cup SetOf(usage),
                                   !.queue = IF started = {} THEN @ ELSE <<>>]
      /\ heard' = [heard EXCEPT !.texts = @ \o texts, !.usage = @ \o usage]
  BY DEF ReadMessages, Reconcile
<1> HIDE DEF started, texts, usage
<1>2. /\ "observed" \in DOMAIN mapper' /\ {"failed", "broken"} \subseteq DOMAIN heard'
      /\ heard'.failed = heard.failed /\ heard'.broken = heard.broken
  BY <1>1 DEF EInv, ShapeOK
<1>3. /\ step = "messages" /\ step' = IF busy THEN "read" ELSE "finish"
      /\ UNCHANGED <<listed, ending, stream, line, bound, busy, outcome>>
  BY DEF ReadMessages, server
<1>4. Listed' = Listed /\ Unended' = Unended
  BY <1>3 DEF Listed, Unended
<1>5. ShapeOK' /\ FramesOK'
  BY <1>2, <1>3, <1>4 DEF EInv, ShapeOK, FramesOK
<1>6. bound \in Unended => busy /\ \A i \in DOMAIN stream.frames : stream.frames[i].kind # "idle"
  BY <1>3 DEF EInv, EndOK, Turning
<1>. QED  BY <1>3, <1>4, <1>5, <1>6 DEF EInv, EndOK, Told, Turning

LEMMA EndNext == ASSUME IInv, EInv, Next PROVE EInv'
<1>0. TypeOK /\ PlaceOK /\ BoundOK
  BY DEF IInv
<1>1. UNCHANGED <<listed, ending>> => Listed' = Listed /\ Unended' = Unended
  BY DEF Listed, Unended
<1>2. step # "rest" => line \in Lines
  BY <1>0 DEF PlaceOK
<1>3. CASE Type
  <2>1. {"failed", "broken"} \subseteq DOMAIN heard'
    BY <1>3 DEF Type, NothingHeard
  <2>2. /\ UNCHANGED <<listed, ending, stream, mapper>> /\ step = "rest" /\ step' = "prepare"
    BY <1>3 DEF Type, server
  <2>3. ShapeOK' /\ FramesOK'
    BY <1>1, <2>1, <2>2 DEF EInv, ShapeOK, FramesOK
  <2>. QED  BY <1>1, <2>2, <2>3 DEF EInv, EndOK, Told, Turning
<1>4. CASE \/ \E at \in PreAdmission : GiveUp(at)
           \/ LosePrompt \/ MissPrompt \/ CannotWatch
  <2>1. PICK at \in Steps \ {"rest"} : Return(Verdict(at)) /\ step = at
    BY <1>4 DEF GiveUp, LosePrompt, MissPrompt, CannotWatch, PreAdmission, Steps, Turning
  <2>2. Verdict(at) \in Verdicts /\ Verdict(at) # "answered"
    BY Judged DEF Verdicts
  <2>3. UNCHANGED listed /\ \A t \in Listed : ending[t] # "open" => ending'[t] = ending[t]
    <3>1. Listed \subseteq Lines
      BY <1>0 DEF TypeOK, Listed
    <3>2. AbortTurns \/ UNCHANGED <<listed, ending>>
      BY <1>4 DEF GiveUp, LosePrompt, MissPrompt, CannotWatch, server
    <3>. QED  BY <3>1, <3>2 DEF AbortTurns, Unended
  <2>. QED  BY <1>0, <1>2, <2>1, <2>2, <2>3, Closed
<1>5. CASE Prepare \/ NoteBaseline \/ Prompt \/ Watch
  <2>1. /\ UNCHANGED <<listed, ending, stream, mapper, heard, bound, outcome>>
        /\ \/ step \in {"prepare", "baseline", "prompt"} /\ step' \in {"subscribe", "prompt", "bind"}
           \/ step = "watch" /\ step' = "read"
    BY <1>5 DEF Prepare, NoteBaseline, Prompt, Watch, server, turn
  <2>. QED  BY <1>0, <1>1, <2>1, Waited DEF Steps, Turning
<1>6. CASE Subscribe
  <2>1. PICK greeting \in Greeting : stream' = [live |-> TRUE, frames |-> greeting]
    BY <1>6 DEF Subscribe
  <2>2. UNCHANGED <<listed, ending, mapper, heard, bound>> /\ step = "subscribe" /\ step' = "baseline"
    BY <1>6 DEF Subscribe, server, turn
  <2>. QED  BY <1>0, <1>1, <2>1, <2>2, Greeted DEF Turning
<1>7. CASE SubscribeAgain
  <2>1. PICK greeting \in Greeting : stream' = [live |-> TRUE, frames |-> greeting]
    BY <1>7 DEF SubscribeAgain
  <2>2. UNCHANGED <<listed, ending, mapper, heard, bound>> /\ step = "again" /\ step' = "status"
    BY <1>7 DEF SubscribeAgain, server, turn
  <2>. QED  BY <1>0, <1>1, <2>1, <2>2, Greeted DEF Turning
<1>8. CASE Bind
  <2>1. /\ UNCHANGED <<listed, ending, stream, mapper, heard, outcome>> /\ step = "bind" /\ step' = "watch"
    BY <1>8 DEF Bind, server
  <2>2. ShapeOK' /\ FramesOK' /\ ~mapper.observed
    BY <1>1, <2>1 DEF EInv, ShapeOK, FramesOK, EndOK, Turning
  <2>. QED  BY <2>1, <2>2 DEF EInv, EndOK, Told, Turning
<1>9. CASE Hear
  BY <1>0, <1>9, HearEnds
<1>10. CASE BreakStream
  <2>1. /\ UNCHANGED <<listed, ending, stream, mapper, bound, busy, outcome>> /\ step = "read" /\ step' = "finish"
        /\ heard' = [heard EXCEPT !.broken = TRUE]
    BY <1>10 DEF BreakStream, server
  <2>2. heard'.broken /\ {"failed", "broken"} \subseteq DOMAIN heard'
    BY <2>1 DEF EInv, ShapeOK
  <2>3. ShapeOK' /\ FramesOK'
    BY <1>1, <2>1, <2>2 DEF EInv, ShapeOK, FramesOK
  <2>. QED  BY <1>1, <2>1, <2>2, <2>3 DEF EInv, EndOK, Told, Turning
<1>11. CASE Reconnect
  <2>1. /\ UNCHANGED <<listed, ending, stream, mapper, bound, busy, outcome>> /\ step = "read"
        /\ stream.frames = <<>>
        /\ \/ step' = "finish" /\ heard' = [heard EXCEPT !.failed = TRUE]
           \/ step' = "again" /\ UNCHANGED heard
    BY <1>11 DEF Reconnect, server
  <2>2. {"failed", "broken"} \subseteq DOMAIN heard' /\ (step' = "finish" => heard'.failed)
    BY <2>1 DEF EInv, ShapeOK
  <2>3. ShapeOK' /\ FramesOK'
    BY <1>1, <2>1, <2>2 DEF EInv, ShapeOK, FramesOK
  <2>. QED  BY <1>1, <2>1, <2>2, <2>3 DEF EInv, EndOK, Told, Turning
<1>12. CASE FailAgain
  <2>1. UNCHANGED <<listed, ending, mapper, heard, bound, busy, line, outcome>> /\ step \in Turning /\ step' = "read"
        /\ stream' = NoStream
    BY <1>12 DEF FailAgain, server, turn, Turning
  <2>2. stream' \in [live : BOOLEAN, frames : Seq(Frames)] /\ DOMAIN stream'.frames = {}
    BY <2>1 DEF NoStream
  <2>. QED  BY <1>0, <1>1, <2>1, <2>2, CutShort
<1>13. CASE LoseStream
  <2>1. PICK kept \in 0 .. Len(stream.frames) : stream' = [live |-> FALSE, frames |-> SubSeq(stream.frames, 1, kept)]
    BY <1>13 DEF LoseStream
  <2>2. UNCHANGED <<listed, ending, mapper, heard, bound, busy, line, step, outcome>> /\ stream.frames \in Seq(Frames)
    BY <1>13 DEF LoseStream, server, turn, EInv, ShapeOK
  <2>3. /\ SubSeq(stream.frames, 1, kept) \in Seq(Frames)
        /\ DOMAIN SubSeq(stream.frames, 1, kept) \subseteq DOMAIN stream.frames
        /\ \A i \in DOMAIN SubSeq(stream.frames, 1, kept) : SubSeq(stream.frames, 1, kept)[i] = stream.frames[i]
    BY <2>2
  <2>. QED  BY <1>0, <1>1, <2>1, <2>2, <2>3, CutShort
<1>14. CASE ReadStatus
  <2>1. /\ UNCHANGED <<listed, ending, stream, mapper, heard, bound, outcome>> /\ step = "status" /\ step' = "messages"
        /\ busy' = Busy
    BY <1>14 DEF ReadStatus, server
  <2>. QED  BY <1>0, <1>1, <2>1, Waited DEF Busy, Steps, Turning
<1>15. CASE ReadMessages
  BY <1>0, <1>15, ReadEnds
<1>16. CASE Finish
  <2>1. Judge \in Verdicts /\ Return(Judge) /\ step = "finish" /\ UNCHANGED <<listed, ending>>
    BY <1>16, Judged DEF Finish, Verdicts, server
  <2>2. Judge = "answered" => bound \in Listed \ Unended
    BY <1>0, <2>1 DEF Judge, EInv, EndOK, BoundOK, Turning
  <2>. QED  BY <1>0, <1>2, <2>1, <2>2, Closed
<1>17. CASE RotateElsewhere
  BY <1>0, <1>17, Aborted DEF RotateElsewhere
<1>18. CASE Monitor
  <2>1. UNCHANGED <<line, step, turn, outcome>> /\ (AbortSession \/ UNCHANGED <<server, stream>>)
    BY <1>18 DEF Monitor
  <2>2. CASE AbortSession
    BY <1>0, <2>1, <2>2, Aborted
  <2>3. CASE UNCHANGED <<server, stream>>
    <3>1. UNCHANGED <<listed, ending, stream, mapper, heard, bound, busy>>
      BY <2>1, <2>3 DEF server, turn
    <3>. QED  BY <1>1, <2>1, <3>1 DEF EInv, ShapeOK, FramesOK, EndOK, Told
  <2>. QED  BY <2>1, <2>2, <2>3
<1>19. CASE Interrupt
  <2>1. UNCHANGED <<listed, ending, stream, mapper, heard, bound, busy, line, step, outcome>>
    BY <1>19 DEF Interrupt, server, turn
  <2>. QED  BY <1>1, <2>1 DEF EInv, ShapeOK, FramesOK, EndOK, Told
<1>20. ASSUME NEW t \in Lines, List(t) \/ Write(t) \/ Settle(t) \/ FailTurn(t) PROVE EInv'
  BY <1>0, <1>20, ListEnds, WriteEnds, SettleEnds
<1>. QED  BY <1>3, <1>4, <1>5, <1>6, <1>7, <1>8, <1>9, <1>10, <1>11, <1>12, <1>13, <1>14, <1>15, <1>16, <1>17, <1>18, <1>19, <1>20
          DEF Next, Submit, Read, OpenCode

(* What the stream and the turn in the foreground know of ended turns. *)
THEOREM Endings == Spec => [](IInv /\ EInv)
<1>1. Init => IInv /\ EInv
  BY InitKeeps, EndInit
<1>2. IInv /\ EInv /\ [Next]_vars => (IInv /\ EInv)'
  <2>1. ASSUME IInv, EInv, Next PROVE (IInv /\ EInv)'
    BY <2>1, NextKeeps, EndNext
  <2>2. ASSUME IInv, EInv, UNCHANGED vars PROVE (IInv /\ EInv)'
    <3>1. IInv'
      BY <2>2, Bounds DEF vars, server, turn, signals, IInv, TypeOK, PlaceOK, FallbackOnce, BoundOK, AnswerOnce, Listed
    <3>2. UNCHANGED <<listed, ending, stream, mapper, heard, bound, busy, line, step, outcome>>
      BY <2>2 DEF vars, server, turn
    <3>3. Listed' = Listed /\ Unended' = Unended
      BY <3>2 DEF Listed, Unended
    <3>4. EInv'
      BY <2>2, <3>2, <3>3 DEF EInv, ShapeOK, FramesOK, EndOK, Told
    <3>. QED  BY <3>1, <3>4
  <2>. QED  BY <2>1, <2>2
<1>. QED  BY <1>1, <1>2, PTL DEF Spec

(* A turn is reported as answered only when it has ended: no idle state of  *)
(* before it, no greeting of a new subscription and no other turn's end is  *)
(* taken for its own (mapper.rs, client.rs read_events_with).               *)
THEOREM ToldWhenEnded == Spec => []EndedWhenTold
<1>1. IInv /\ EInv => EndedWhenTold
  BY DEF EInv, EndOK, EndedWhenTold, Unended
<1>. QED  BY <1>1, Endings, PTL

-----------------------------------------------------------------------------
(* What is chosen of a sequence. *)

(* What is chosen of a sequence, when it is a run of it. *)
RunOf(seq, chosen, a, k) == a <= k /\ k <= Len(seq) /\ \A i \in 1 .. Len(seq) : seq[i] \in chosen <=> a < i /\ i <= k

LEMMA Chosen ==
  ASSUME NEW S, NEW seq \in Seq(S), NEW chosen, NEW a \in Nat, NEW k \in Nat, RunOf(seq, chosen, a, k)
  PROVE  /\ Select(seq, chosen) \in Seq(S) /\ Len(Select(seq, chosen)) = k - a
         /\ \A n \in 1 .. k - a : Select(seq, chosen)[n] = seq[a + n]
<1> DEFINE at == {i \in DOMAIN seq : seq[i] \in chosen}
           pick(n) == CHOOSE i \in at : Cardinality({j \in at : j <= i}) = n
           run == [n \in 1 .. k - a |-> seq[a + n]]
<1>0. Len(seq) \in Nat /\ DOMAIN seq = 1 .. Len(seq) /\ (\A i \in 1 .. Len(seq) : seq[i] \in S)
      /\ a <= k /\ k <= Len(seq)
  BY DEF RunOf
<1>1. at = a + 1 .. k
  BY <1>0 DEF RunOf
<1>2. ASSUME NEW i \in Nat, a <= i PROVE Cardinality(a + 1 .. i) = i - a
  <2>1. a + 1 \in Int /\ i \in Int
    OBVIOUS
  <2>2. Cardinality(a + 1 .. i) = IF a + 1 > i THEN 0 ELSE i - (a + 1) + 1
    BY ONLY FS_Interval, <2>1
  <2>. QED  BY <1>2, <2>2
<1>3. Cardinality(at) = k - a
  BY <1>0, <1>1, <1>2
<1>4. ASSUME NEW i \in at PROVE Cardinality({j \in at : j <= i}) = i - a
  <2>1. {j \in at : j <= i} = a + 1 .. i /\ i \in a + 1 .. k
    BY <1>1
  <2>2. i \in Nat /\ a <= i
    BY <2>1
  <2>. QED  BY <1>2, <2>1, <2>2
<1> HIDE DEF at
<1>5. ASSUME NEW n \in 1 .. k - a PROVE pick(n) = a + n
  <2>1. a + n \in at /\ Cardinality({j \in at : j <= a + n}) = n
    BY <1>1, <1>4
  <2>2. \A i \in at : Cardinality({j \in at : j <= i}) = n => i = a + n
    BY <1>1, <1>4
  <2>3. pick(n) \in at /\ Cardinality({j \in at : j <= pick(n)}) = n
    BY <2>1
  <2>. QED  BY <2>2, <2>3
<1>6. Select(seq, chosen) = [n \in 1 .. Cardinality(at) |-> seq[pick(n)]]
  BY DEF Select, at
<1> HIDE DEF pick
<1>7. [n \in 1 .. Cardinality(at) |-> seq[pick(n)]] = run
  BY <1>3, <1>5
<1>8. run \in Seq(S) /\ Len(run) = k - a /\ \A n \in 1 .. k - a : run[n] = seq[a + n]
  <2>1. \A n \in 1 .. k - a : a + n \in 1 .. Len(seq)
    BY <1>0
  <2>2. k - a \in Nat
    BY <1>0
  <2>. QED  BY <1>0, <2>1, <2>2
<1> HIDE DEF run
<1>9. Select(seq, chosen) = run
  BY <1>6, <1>7
<1>. QED  BY <1>8, <1>9

LEMMA ChosenNone ==
  ASSUME NEW S, NEW seq \in Seq(S), NEW chosen, \A i \in 1 .. Len(seq) : seq[i] \notin chosen
  PROVE  Select(seq, chosen) = <<>>
<1> DEFINE at == {i \in DOMAIN seq : seq[i] \in chosen}
           pick(n) == CHOOSE i \in at : Cardinality({j \in at : j <= i}) = n
<1>1. at = {}
  OBVIOUS
<1>2. Cardinality(at) = 0
  BY <1>1, FS_EmptySet
<1>3. Select(seq, chosen) = [n \in 1 .. Cardinality(at) |-> seq[pick(n)]]
  BY DEF Select
<1> HIDE DEF at, pick
<1>4. Select(seq, chosen) = [n \in 1 .. 0 |-> seq[pick(n)]]
  BY <1>2, <1>3
<1>5. [n \in 1 .. 0 |-> seq[pick(n)]] = <<>>
  OBVIOUS
<1>. QED  BY <1>4, <1>5

LEMMA ChosenOne ==
  ASSUME NEW S, NEW seq \in Seq(S), NEW chosen, NEW i \in 1 .. Len(seq),
         \A j \in 1 .. Len(seq) : seq[j] \in chosen <=> j = i
  PROVE  Select(seq, chosen) = <<seq[i]>>
<1> DEFINE at == {j \in DOMAIN seq : seq[j] \in chosen}
           pick(n) == CHOOSE k \in at : Cardinality({j \in at : j <= k}) = n
<1>1. at = {i}
  OBVIOUS
<1>2. Cardinality(at) = 1
  BY <1>1, FS_Singleton
<1>3. i \in at /\ {j \in at : j <= i} = at
  BY <1>1
<1>4. Select(seq, chosen) = [n \in 1 .. Cardinality(at) |-> seq[pick(n)]]
  BY DEF Select
<1> HIDE DEF at
<1>5. pick(1) = i
  BY <1>1, <1>2, <1>3
<1> HIDE DEF pick
<1>6. Select(seq, chosen) = [n \in 1 .. 1 |-> seq[pick(n)]]
  BY <1>2, <1>4
<1>7. [n \in 1 .. 1 |-> seq[pick(n)]] = <<seq[i]>>
  BY <1>5
<1>. QED  BY <1>6, <1>7

(* The first messages of the turn. *)
LEMMA UptoIs == ASSUME NEW t, NEW n \in Nat
                PROVE  /\ Upto(t, n) \in Seq({t} \X Nat) /\ Len(Upto(t, n)) = n /\ DOMAIN Upto(t, n) = 1 .. n
                       /\ \A m \in 1 .. n : Upto(t, n)[m] = <<t, m>>
                       /\ SetOf(Upto(t, n)) = {<<t, m>> : m \in 1 .. n}
<1>1. DOMAIN Upto(t, n) = 1 .. n /\ \A m \in 1 .. n : Upto(t, n)[m] = <<t, m>>
  BY DEF Upto
<1>2. Upto(t, n) \in Seq({t} \X Nat) /\ Len(Upto(t, n)) = n
  BY DEF Upto
<1>. QED  BY <1>1, <1>2 DEF SetOf

LEMMA UptoHas == ASSUME NEW t, NEW n \in Nat PROVE \A of : of \in SetOf(Upto(t, n)) <=> \E m \in 1 .. n : of = <<t, m>>
<1>1. DOMAIN Upto(t, n) = 1 .. n /\ \A m \in 1 .. n : Upto(t, n)[m] = <<t, m>>
  BY UptoIs
<1>. QED  BY <1>1 DEF SetOf

LEMMA Concatenated == ASSUME NEW S, NEW p \in Seq(S), NEW q \in Seq(S)
                      PROVE  /\ p \o q \in Seq(S) /\ Len(p \o q) = Len(p) + Len(q)
                             /\ \A i \in 1 .. Len(p) + Len(q) : (p \o q)[i] = IF i <= Len(p) THEN p[i] ELSE q[i - Len(p)]
  OBVIOUS

LEMMA SameSequence == ASSUME NEW S, NEW p \in Seq(S), NEW q \in Seq(S), Len(p) = Len(q), \A i \in 1 .. Len(p) : p[i] = q[i]
                      PROVE  p = q
  OBVIOUS

LEMMA Appended == ASSUME NEW S, NEW p \in Seq(S), NEW x \in S
                  PROVE  /\ Append(p, x) \in Seq(S) /\ Len(Append(p, x)) = Len(p) + 1 /\ Append(p, x) = p \o <<x>>
                         /\ \A i \in 1 .. Len(p) + 1 : Append(p, x)[i] = IF i = Len(p) + 1 THEN x ELSE p[i]
  OBVIOUS

LEMMA UptoNext == ASSUME NEW t, NEW n \in Nat
                  PROVE  Upto(t, n) \o <<<<t, n + 1>>>> = Upto(t, n + 1) /\ Append(Upto(t, n), <<t, n + 1>>) = Upto(t, n + 1)
<1> DEFINE p == Upto(t, n)
           q == Upto(t, n + 1)
           a == Append(p, <<t, n + 1>>)
<1>1. p \in Seq({t} \X Nat) /\ Len(p) = n /\ \A m \in 1 .. n : p[m] = <<t, m>>
  BY UptoIs
<1>2. n + 1 \in Nat
  OBVIOUS
<1>3. q \in Seq({t} \X Nat) /\ Len(q) = n + 1 /\ \A m \in 1 .. n + 1 : q[m] = <<t, m>>
  BY <1>2, UptoIs
<1>4. <<t, n + 1>> \in {t} \X Nat
  OBVIOUS
<1> HIDE DEF p, q
<1>5. a \in Seq({t} \X Nat) /\ Len(a) = n + 1 /\ a = p \o <<<<t, n + 1>>>>
      /\ \A i \in 1 .. n + 1 : a[i] = IF i = n + 1 THEN <<t, n + 1>> ELSE p[i]
  <2> DEFINE S == {t} \X Nat
             x == <<t, n + 1>>
  <2>1. p \in Seq(S) /\ x \in S
    BY <1>1, <1>4
  <2> HIDE DEF S, x, a
  <2>2. /\ Append(p, x) \in Seq(S) /\ Len(Append(p, x)) = Len(p) + 1 /\ Append(p, x) = p \o <<x>>
        /\ \A i \in 1 .. Len(p) + 1 : Append(p, x)[i] = IF i = Len(p) + 1 THEN x ELSE p[i]
    BY <2>1, Appended
  <2>. QED  BY <1>1, <2>2 DEF S, x, a
<1> HIDE DEF a
<1>6. ASSUME NEW i \in 1 .. n + 1 PROVE a[i] = q[i]
  <2>1. CASE i = n + 1
    BY <1>3, <1>5, <2>1
  <2>2. CASE i # n + 1
    <3>1. i \in 1 .. n
      BY <2>2
    <3>. QED  BY <1>1, <1>3, <1>5, <2>2, <3>1
  <2>. QED  BY <2>1, <2>2
<1>7. a = q
  BY <1>3, <1>5, <1>6, SameSequence
<1>. QED  BY <1>5, <1>7 DEF a, p, q

LEMMA UptoRest == ASSUME NEW t, NEW a \in Nat, NEW k \in Nat, a <= k
                  PROVE  Upto(t, a) \o [n \in 1 .. k - a |-> <<t, a + n>>] = Upto(t, k)
<1> DEFINE rest == [n \in 1 .. k - a |-> <<t, a + n>>]
<1>1. Upto(t, a) \in Seq({t} \X Nat) /\ Len(Upto(t, a)) = a
  BY UptoIs
<1>2. rest \in Seq({t} \X Nat) /\ Len(rest) = k - a
  OBVIOUS
<1>3. \A i \in 1 .. k : /\ i <= a => Upto(t, a)[i] = <<t, i>>
                        /\ i > a => rest[i - a] = <<t, i>>
  <2>1. ASSUME NEW i \in 1 .. k, i <= a PROVE Upto(t, a)[i] = <<t, i>>
    <3>1. i \in 1 .. a
      BY <2>1
    <3>. QED  BY <3>1, UptoIs
  <2>2. ASSUME NEW i \in 1 .. k, i > a PROVE rest[i - a] = <<t, i>>
    <3>1. i - a \in 1 .. k - a /\ a + (i - a) = i
      BY <2>2
    <3>. QED  BY <3>1
  <2>. QED  BY <2>1, <2>2
<1>4. Upto(t, k) \in Seq({t} \X Nat) /\ Len(Upto(t, k)) = k /\ \A i \in 1 .. k : Upto(t, k)[i] = <<t, i>>
  BY UptoIs
<1> HIDE DEF rest
<1>5. /\ Upto(t, a) \o rest \in Seq({t} \X Nat) /\ Len(Upto(t, a) \o rest) = k
      /\ \A i \in 1 .. k : (Upto(t, a) \o rest)[i] = IF i <= a THEN Upto(t, a)[i] ELSE rest[i - a]
  <2>1. Len(Upto(t, a)) + Len(rest) = k
    BY <1>1, <1>2
  <2>. QED  BY <1>1, <1>2, <2>1, Concatenated
<1>6. \A i \in 1 .. k : (Upto(t, a) \o rest)[i] = Upto(t, k)[i]
  <2>. TAKE i \in 1 .. k
  <2>1. (Upto(t, a) \o rest)[i] = IF i <= a THEN Upto(t, a)[i] ELSE rest[i - a]
    BY <1>5
  <2>2. i <= a \/ i > a
    OBVIOUS
  <2>3. (Upto(t, a) \o rest)[i] = <<t, i>>
    BY <1>3, <2>1, <2>2
  <2>. QED  BY <1>4, <2>3
<1>7. Upto(t, a) \o rest = Upto(t, k)
  BY <1>4, <1>5, <1>6, SameSequence
<1>. QED  BY <1>7 DEF rest

-----------------------------------------------------------------------------
(* The stream follows what a turn writes. *)

LEMMA Numbered == ASSUME NEW f \in Frames PROVE Number(f) \in Int
  BY DEF Number, Frames

(* Frames, as numbers index them. *)
LEMMA Stream == ASSUME NEW f \in Seq(Frames)
                PROVE  /\ Len(f) \in Nat /\ DOMAIN f = 1 .. Len(f)
                       /\ \A i \in DOMAIN f : i \in Nat /\ f[i] \in Frames /\ Number(f[i]) \in Int
<1>1. Len(f) \in Nat /\ DOMAIN f = 1 .. Len(f) /\ \A i \in 1 .. Len(f) : f[i] \in Frames
  OBVIOUS
<1>. QED  BY <1>1, Numbered

LEMMA Written == ASSUME TypeOK, NEW t \in Lines PROVE written[t] \in Nat /\ written[t] <= 3 * Replies /\ 3 * Replies \in Nat
<1>1. written[t] \in 0 .. 3 * Replies /\ 3 * Replies \in Nat
  BY Bounds DEF TypeOK
<1>. QED  BY <1>1

(* What publishing does to the stream. *)
LEMMA Grown ==
  ASSUME ShapeOK, NEW new \in Seq(Frames), Publish(new)
  PROVE  /\ stream'.live = stream.live /\ DOMAIN stream.frames \subseteq DOMAIN stream'.frames
         /\ \A i \in DOMAIN stream.frames : stream'.frames[i] = stream.frames[i]
         /\ \A i \in DOMAIN stream'.frames \ DOMAIN stream.frames :
               stream.live /\ i > Len(stream.frames) /\ i - Len(stream.frames) \in DOMAIN new
               /\ stream'.frames[i] = new[i - Len(stream.frames)]
         /\ stream.live => Len(stream'.frames) = Len(stream.frames) + Len(new)
         /\ ShapeOK' <=> /\ stream' \in [live : BOOLEAN, frames : Seq(Frames)]
                         /\ "observed" \in DOMAIN mapper'
                         /\ {"failed", "broken"} \subseteq DOMAIN heard'
         /\ stream' \in [live : BOOLEAN, frames : Seq(Frames)]
<1> DEFINE old == stream.frames
<1>1. old \in Seq(Frames) /\ Len(old) \in Nat /\ DOMAIN old = 1 .. Len(old)
      /\ new \in Seq(Frames) /\ Len(new) \in Nat /\ DOMAIN new = 1 .. Len(new)
      /\ stream \in [live : BOOLEAN, frames : Seq(Frames)]
  BY DEF ShapeOK
<1>2. CASE stream.live
  <2>1. stream' = [stream EXCEPT !.frames = @ \o new]
    BY <1>2 DEF Publish
  <2>2. /\ old \o new \in Seq(Frames) /\ Len(old \o new) = Len(old) + Len(new)
        /\ \A i \in 1 .. Len(old) + Len(new) : (old \o new)[i] = IF i <= Len(old) THEN old[i] ELSE new[i - Len(old)]
    BY <1>1, Concatenated
  <2>3. stream'.frames = old \o new /\ stream'.live = stream.live /\ stream' \in [live : BOOLEAN, frames : Seq(Frames)]
    BY <1>1, <2>1, <2>2
  <2> HIDE DEF old
  <2>4. DOMAIN stream'.frames = 1 .. Len(old) + Len(new)
    BY <1>1, <2>2, <2>3
  <2>5. \A i \in 1 .. Len(old) : i \in 1 .. Len(old) + Len(new) /\ stream'.frames[i] = old[i]
    BY <1>1, <2>2, <2>3
  <2>6. \A i \in 1 .. Len(old) + Len(new) : i \notin 1 .. Len(old) =>
           i > Len(old) /\ i - Len(old) \in 1 .. Len(new) /\ stream'.frames[i] = new[i - Len(old)]
    BY <1>1, <2>2, <2>3
  <2>. QED  BY <1>1, <1>2, <2>2, <2>3, <2>4, <2>5, <2>6 DEF old, ShapeOK
<1>3. CASE ~stream.live
  BY <1>1, <1>3 DEF Publish, ShapeOK
<1>. QED  BY <1>2, <1>3

(* The frames before the i-th decide what follows a write. *)
LEMMA FollowKept ==
  ASSUME NEW f \in Seq(Frames), NEW g \in Seq(Frames), NEW t, NEW p \in Nat,
         NEW n \in Int, NEW i \in Int, NEW n2 \in Int, NEW i2 \in Int,
         Follow(f, t, p, n, i), n2 <= n, i <= i2,
         \A j \in DOMAIN f : j < i => j \in DOMAIN g /\ g[j] = f[j]
  PROVE  Follow(g, t, p, n2, i2)
<1>1. SUFFICES ASSUME NEW k \in p + 1 .. n2, k # 1
               PROVE  \E j \in DOMAIN g : j < i2 /\ WriteOf(g[j], t) /\ Number(g[j]) = k
  BY DEF Follow
<1>2. k \in p + 1 .. n
  OBVIOUS
<1>3. PICK j \in DOMAIN f : j < i /\ WriteOf(f[j], t) /\ Number(f[j]) = k
  BY <1>1, <1>2 DEF Follow
<1>4. j < i2 /\ j \in DOMAIN g /\ g[j] = f[j]
  BY <1>3, Stream
<1>. QED  BY <1>3, <1>4

(* A turn is written in order and published, when new is what is published. *)
Extended(new) ==
    /\ new \in Seq(Frames) /\ Publish(new)
    /\ UNCHANGED <<listed, line, step, turn, outcome, told>>
    /\ \A t \in Lines : /\ ending[t] # "open" => ending'[t] = ending[t] /\ written'[t] = written[t]
                        /\ written'[t] = written[t] \/ written'[t] = written[t] + 1
                        /\ ending'[t] = "done" => written'[t] = 3 * Replies /\ written'[t] = written[t]
                        /\ t \notin Listed => written'[t] = 0 /\ ending'[t] = "open"
                        /\ \/ written'[t] = written[t] \/ written'[t] = 1
                           \/ 1 \in DOMAIN new /\ WriteOf(new[1], t) /\ Number(new[1]) = written'[t]
    /\ \A k \in DOMAIN new : new[k].kind \in Writes =>
          /\ Len(new) = 1 /\ new[k].of \in Lines \X Messages
          /\ Number(new[k]) = written'[new[k].of[1]]
          /\ Number(new[k]) = written[new[k].of[1]] + 1

LEMMA ExtendedShape ==
  ASSUME ShapeOK, NEW new, Extended(new)
  PROVE  /\ UNCHANGED <<mapper, heard, bound, baseline, busy, line, step, Listed>> /\ ShapeOK'
         /\ Len(new) \in Nat /\ DOMAIN new = 1 .. Len(new) /\ \A k \in DOMAIN new : new[k] \in Frames /\ Number(new[k]) \in Int
<1>1. UNCHANGED <<mapper, heard, bound, baseline, busy, line, step, Listed>>
  BY DEF Extended, turn, Listed
<1>2. stream' \in [live : BOOLEAN, frames : Seq(Frames)]
  BY Grown DEF Extended
<1>3. ShapeOK'
  BY <1>1, <1>2 DEF ShapeOK
<1>4. new \in Seq(Frames)
  BY DEF Extended
<1>5. Len(new) \in Nat /\ DOMAIN new = 1 .. Len(new) /\ \A k \in 1 .. Len(new) : new[k] \in Frames
  BY <1>4
<1>. QED  BY <1>1, <1>3, <1>5, Numbered

LEMMA Extends ==
  ASSUME TypeOK, ShapeOK, NEW new, Extended(new), NEW t \in Lines, NEW p \in Nat, p <= written[t], Unbroken(t, p),
         ending[t] = "open" => \A i \in DOMAIN stream.frames :
            stream.frames[i].kind = "idle" =>
               /\ ~mapper.observed
               /\ \A j \in DOMAIN stream.frames : j < i => ~WriteOf(stream.frames[j], t)
  PROVE  Unbroken(t, p)'
<1> DEFINE last == Len(stream.frames)
<1>1. /\ stream'.live = stream.live /\ DOMAIN stream.frames \subseteq DOMAIN stream'.frames
      /\ \A i \in DOMAIN stream.frames : stream'.frames[i] = stream.frames[i]
      /\ \A i \in DOMAIN stream'.frames \ DOMAIN stream.frames :
            stream.live /\ i > last /\ i - last \in DOMAIN new /\ stream'.frames[i] = new[i - last]
      /\ stream.live => Len(stream'.frames) = last + Len(new)
  BY Grown DEF Extended
<1>2. ShapeOK' /\ UNCHANGED mapper /\ Len(new) \in Nat /\ DOMAIN new = 1 .. Len(new)
  BY ExtendedShape
<1>3. /\ stream.frames \in Seq(Frames)
      /\ last \in Nat /\ DOMAIN stream.frames = 1 .. last /\ stream.live \in BOOLEAN
      /\ \A i \in DOMAIN stream.frames : i \in Nat /\ Number(stream.frames[i]) \in Int
  BY Stream DEF ShapeOK
<1>4. /\ stream'.frames \in Seq(Frames)
      /\ Len(stream'.frames) \in Nat /\ DOMAIN stream'.frames = 1 .. Len(stream'.frames)
      /\ \A i \in DOMAIN stream'.frames : i \in Nat /\ Number(stream'.frames[i]) \in Int
  BY <1>2, Stream DEF ShapeOK
<1>5. /\ written[t] \in Nat /\ 3 * Replies \in Nat
      /\ written'[t] = written[t] \/ written'[t] = written[t] + 1
      /\ ending[t] # "open" => ending'[t] = ending[t] /\ written'[t] = written[t]
      /\ ending'[t] = "done" => written'[t] = 3 * Replies /\ written'[t] = written[t]
  BY Written DEF Extended
<1> HIDE DEF last
<1>6. ASSUME NEW n \in Int, NEW i \in Int, NEW i2 \in Int, i <= i2, Follow(stream.frames, t, p, n, i)
      PROVE  Follow(stream'.frames, t, p, n, i2)
  <2>1. n <= n /\ \A j \in DOMAIN stream.frames : j < i => j \in DOMAIN stream'.frames /\ stream'.frames[j] = stream.frames[j]
    BY <1>1, <1>6
  <2>. QED  BY <1>3, <1>4, <1>6, <2>1, FollowKept
<1>7. stream.live => Follow(stream.frames, t, p, written[t], last + 1)
  BY DEF Unbroken, last
<1>8. ASSUME NEW i \in DOMAIN stream'.frames, WriteOf(stream'.frames[i], t)
      PROVE  Follow(stream'.frames, t, p, Number(stream'.frames[i]) - 1, i)
  <2>1. CASE i \in DOMAIN stream.frames
    <3>1. Follow(stream.frames, t, p, Number(stream.frames[i]) - 1, i) /\ i \in Int /\ Number(stream.frames[i]) - 1 \in Int
      BY <1>1, <1>3, <1>8, <2>1 DEF Unbroken
    <3>. QED  BY <1>1, <1>6, <2>1, <3>1
  <2>2. CASE i \notin DOMAIN stream.frames
    <3>1. stream.live /\ i >= last + 1 /\ i \in Int
      BY <1>1, <1>3, <1>4, <2>2
    <3>2. Number(stream'.frames[i]) = written[t] + 1
      BY <1>1, <1>8, <2>2 DEF Extended, WriteOf
    <3>. QED  BY <1>3, <1>5, <1>6, <1>7, <3>1, <3>2
  <2>. QED  BY <2>1, <2>2
<1>9. ASSUME stream.live PROVE Follow(stream'.frames, t, p, written[t], Len(stream'.frames) + 1)
  BY <1>1, <1>2, <1>3, <1>4, <1>5, <1>6, <1>7, <1>9
<1>10. ASSUME stream.live PROVE Follow(stream'.frames, t, p, written'[t], Len(stream'.frames) + 1)
  <2>1. CASE written'[t] = written[t]
    BY <1>9, <1>10, <2>1
  <2>2. CASE written'[t] = written[t] + 1
    <3>1. SUFFICES ASSUME NEW k \in p + 1 .. written[t] + 1, k # 1
                   PROVE  \E j \in DOMAIN stream'.frames : /\ j < Len(stream'.frames) + 1
                             /\ WriteOf(stream'.frames[j], t) /\ Number(stream'.frames[j]) = k
      BY <2>2 DEF Follow
    <3>2. CASE k = written[t] + 1
      <4>1. 1 \in DOMAIN new /\ WriteOf(new[1], t) /\ Number(new[1]) = k
        BY <1>5, <2>2, <3>1, <3>2 DEF Extended
      <4>2. last + 1 \in DOMAIN stream'.frames /\ last + 1 \notin DOMAIN stream.frames /\ last + 1 < Len(stream'.frames) + 1
        BY <1>1, <1>2, <1>3, <1>4, <1>10, <4>1
      <4>3. stream'.frames[last + 1] = new[1]
        BY <1>1, <1>3, <4>2
      <4>. QED  BY <4>1, <4>2, <4>3
    <3>3. CASE k # written[t] + 1
      <4>1. k \in p + 1 .. written[t]
        BY <1>5, <3>3
      <4>. QED  BY <1>9, <1>10, <3>1, <4>1 DEF Follow
    <3>. QED  BY <3>2, <3>3
  <2>. QED  BY <1>5, <2>1, <2>2
<1>11. ASSUME NEW i \in DOMAIN stream'.frames, stream'.frames[i].kind = "idle", ending'[t] = "done",
              mapper.observed \/ \E j \in DOMAIN stream'.frames : j < i /\ WriteOf(stream'.frames[j], t)
       PROVE  Follow(stream'.frames, t, p, 3 * Replies, i)
  <2>1. CASE i \in DOMAIN stream.frames
    <3>1. stream.frames[i].kind = "idle" /\ i \in Int
      BY <1>1, <1>3, <1>11, <2>1
    <3>2. mapper.observed \/ \E j \in DOMAIN stream.frames : j < i /\ WriteOf(stream.frames[j], t)
      BY <1>1, <1>3, <1>4, <1>11, <2>1
    <3>3. ending[t] = "done"
      BY <1>5, <1>11, <2>1, <3>1, <3>2
    <3>4. Follow(stream.frames, t, p, 3 * Replies, i)
      BY <2>1, <3>1, <3>2, <3>3 DEF Unbroken
    <3>. QED  BY <1>5, <1>6, <3>1, <3>4
  <2>2. CASE i \notin DOMAIN stream.frames
    <3>1. stream.live /\ i >= last + 1 /\ i \in Int
      BY <1>1, <1>3, <1>4, <2>2
    <3>. QED  BY <1>3, <1>5, <1>6, <1>7, <1>11, <3>1
  <2>. QED  BY <2>1, <2>2
<1>. QED  BY <1>1, <1>2, <1>8, <1>10, <1>11 DEF Unbroken

LEMMA HeardKept ==
  ASSUME NEW p, HeardUpTo(p), UNCHANGED <<mapper, heard, bound>>,
         ~mapper.observed => \A i \in DOMAIN stream'.frames :
            WriteOf(stream'.frames[i], bound) => Number(stream'.frames[i]) > p
  PROVE  HeardUpTo(p)'
  BY DEF HeardUpTo

LEMMA WritesExtended ==
  ASSUME TypeOK, ShapeOK, WritesOK, NEW new, Extended(new)
  PROVE  WritesOK'
<1> DEFINE last == Len(stream.frames)
<1>1. /\ stream'.live = stream.live /\ DOMAIN stream.frames \subseteq DOMAIN stream'.frames
      /\ \A i \in DOMAIN stream.frames : stream'.frames[i] = stream.frames[i]
      /\ \A i \in DOMAIN stream'.frames \ DOMAIN stream.frames :
            stream.live /\ i > last /\ i - last \in DOMAIN new /\ stream'.frames[i] = new[i - last]
  BY Grown DEF Extended
<1>2. ShapeOK' /\ Listed' = Listed /\ Len(new) \in Nat /\ DOMAIN new = 1 .. Len(new)
  BY ExtendedShape
<1>3. /\ last \in Nat /\ DOMAIN stream.frames = 1 .. last
      /\ \A i \in DOMAIN stream.frames : i \in Nat /\ Number(stream.frames[i]) \in Int
  BY Stream DEF ShapeOK
<1>4. /\ Len(stream'.frames) \in Nat /\ DOMAIN stream'.frames = 1 .. Len(stream'.frames)
      /\ \A i \in DOMAIN stream'.frames : i \in Nat /\ Number(stream'.frames[i]) \in Int
  BY <1>2, Stream DEF ShapeOK
<1> HIDE DEF last
<1>5. \A t \in Lines : written[t] \in Nat /\ written'[t] \in Nat /\ written[t] <= written'[t]
  BY Written DEF Extended
<1>6. \A t \in Lines : /\ ending'[t] = "done" => written'[t] = 3 * Replies
                       /\ t \notin Listed' => written'[t] = 0 /\ ending'[t] = "open"
  BY <1>2 DEF Extended
<1>7. ASSUME NEW i \in DOMAIN stream'.frames, stream'.frames[i].kind \in Writes
      PROVE  /\ stream'.frames[i].of \in Lines \X Messages
             /\ Number(stream'.frames[i]) <= written'[stream'.frames[i].of[1]]
             /\ i \in DOMAIN stream.frames => Number(stream'.frames[i]) <= written[stream'.frames[i].of[1]]
             /\ i \notin DOMAIN stream.frames => /\ Number(stream'.frames[i]) = written[stream'.frames[i].of[1]] + 1
                                                 /\ i = last + 1
  <2>1. CASE i \in DOMAIN stream.frames
    <3>1. stream.frames[i].of \in Lines \X Messages /\ Number(stream.frames[i]) <= written[stream.frames[i].of[1]]
      BY <1>1, <1>7, <2>1 DEF WritesOK
    <3>2. stream.frames[i].of[1] \in Lines
      BY <3>1
    <3>3. Number(stream.frames[i]) \in Int /\ stream'.frames[i] = stream.frames[i]
      BY <1>1, <1>3, <2>1
    <3> DEFINE t == stream.frames[i].of[1]
    <3> HIDE DEF t
    <3>4. Number(stream.frames[i]) <= written'[t]
      BY <1>5, <3>1, <3>2, <3>3 DEF t
    <3>. QED  BY <2>1, <3>1, <3>3, <3>4 DEF t
  <2>2. CASE i \notin DOMAIN stream.frames
    <3>1. i - last \in DOMAIN new /\ stream'.frames[i] = new[i - last] /\ Len(new) = 1
      BY <1>1, <1>7, <2>2 DEF Extended
    <3>2. /\ new[i - last].of \in Lines \X Messages
          /\ Number(new[i - last]) = written'[new[i - last].of[1]]
          /\ Number(new[i - last]) = written[new[i - last].of[1]] + 1
      BY <1>7, <3>1 DEF Extended
    <3>3. new[i - last].of[1] \in Lines /\ i = last + 1
      BY <1>2, <1>3, <1>4, <3>1, <3>2
    <3>. QED  BY <1>5, <2>2, <3>1, <3>2, <3>3
  <2>. QED  BY <2>1, <2>2
<1>8. ASSUME NEW i \in DOMAIN stream'.frames, NEW j \in DOMAIN stream'.frames, NEW t \in Lines,
             i < j, WriteOf(stream'.frames[i], t), WriteOf(stream'.frames[j], t)
      PROVE  Number(stream'.frames[i]) < Number(stream'.frames[j])
  <2>1. CASE j \in DOMAIN stream.frames
    <3>1. i \in DOMAIN stream.frames
      BY <1>3, <1>4, <1>8, <2>1
    <3>. QED  BY <1>1, <1>8, <2>1, <3>1 DEF WritesOK
  <2>2. CASE j \notin DOMAIN stream.frames
    <3>1. Number(stream'.frames[j]) = written[t] + 1 /\ j = last + 1
      BY <1>7, <1>8, <2>2 DEF WriteOf
    <3>2. i \in DOMAIN stream.frames
      BY <1>3, <1>4, <1>8, <3>1
    <3>3. Number(stream'.frames[i]) <= written[t]
      BY <1>7, <1>8, <3>2 DEF WriteOf
    <3>. QED  BY <1>4, <1>5, <3>1, <3>3
  <2>. QED  BY <2>1, <2>2
<1>. QED  BY <1>6, <1>7, <1>8 DEF WritesOK

LEMMA QueueExtended ==
  ASSUME TypeOK, ShapeOK, QueueOK, NEW new, Extended(new)
  PROVE  QueueOK'
<1> DEFINE last == Len(stream.frames)
<1>1. /\ \A i \in DOMAIN stream.frames : stream'.frames[i] = stream.frames[i]
      /\ \A i \in DOMAIN stream'.frames \ DOMAIN stream.frames :
            i - last \in DOMAIN new /\ stream'.frames[i] = new[i - last]
  BY Grown DEF Extended
<1>2. ShapeOK' /\ mapper' = mapper
  BY ExtendedShape
<1>3. \A i \in DOMAIN stream.frames : Number(stream.frames[i]) \in Int
  BY Stream DEF ShapeOK
<1> HIDE DEF last
<1>4. \A t \in Lines : written[t] \in Nat /\ written'[t] \in Nat /\ written[t] <= written'[t]
  BY Written DEF Extended
<1>5. ASSUME NEW i \in DOMAIN mapper.queue
      PROVE  /\ mapper.queue[i][1] \in Lines /\ mapper.queue[i][2] \in Nat
             /\ 3 * mapper.queue[i][2] - 1 <= written[mapper.queue[i][1]]
  <2>1. mapper.queue[i] \in Lines \X Messages
    BY DEF QueueOK
  <2>2. mapper.queue[i][1] \in Lines /\ mapper.queue[i][2] \in Nat
    BY <2>1 DEF Messages
  <2>. QED  BY <2>2 DEF QueueOK
<1>6. ASSUME NEW i \in DOMAIN mapper.queue, NEW j \in DOMAIN stream'.frames, WriteOf(stream'.frames[j], mapper.queue[i][1])
      PROVE  Number(stream'.frames[j]) > 3 * mapper.queue[i][2] - 1
  <2>1. CASE j \in DOMAIN stream.frames
    BY <1>1, <1>6, <2>1 DEF QueueOK
  <2>2. CASE j \notin DOMAIN stream.frames
    <3>1. Number(stream'.frames[j]) = written[mapper.queue[i][1]] + 1
      BY <1>1, <1>6, <2>2 DEF Extended, WriteOf
    <3>. QED  BY <1>4, <1>5, <3>1
  <2>. QED  BY <2>1, <2>2
<1>7. ASSUME NEW i \in DOMAIN mapper.queue PROVE 3 * mapper.queue[i][2] - 1 <= written'[mapper.queue[i][1]]
  BY <1>4, <1>5
<1>. QED  BY <1>2, <1>6, <1>7 DEF QueueOK

LEMMA ReadingExtended ==
  ASSUME TypeOK, BoundOK, EInv, WInv, NEW new, Extended(new)
  PROVE  ReadingOK' /\ AnswerWhole'
<1>1. ShapeOK /\ FramesOK /\ EndOK /\ WritesOK /\ ReadingOK /\ AnswerWhole
  BY DEF EInv, WInv
<1>2. UNCHANGED <<mapper, heard, bound, baseline, busy, line, step, Listed, outcome>> /\ ShapeOK'
  BY <1>1, ExtendedShape DEF Extended
<1>3. \A t \in Lines : ending[t] # "open" => ending'[t] = ending[t]
  BY DEF Extended
<1>4. ASSUME NEW t \in Lines, NEW p \in Nat, p <= written[t], Unbroken(t, p), mapper.observed => t = bound /\ step \in Turning
      PROVE  Unbroken(t, p)'
  <2>1. ASSUME ending[t] = "open", NEW i \in DOMAIN stream.frames, stream.frames[i].kind = "idle"
        PROVE  /\ ~mapper.observed
               /\ \A j \in DOMAIN stream.frames : j < i => ~WriteOf(stream.frames[j], t)
    <3>1. t \in Listed => t \in Unended
      BY <2>1 DEF Unended
    <3>2. \A j \in DOMAIN stream.frames : j < i => ~WriteOf(stream.frames[j], t)
      <4>1. SUFFICES ASSUME NEW j \in DOMAIN stream.frames, j < i, WriteOf(stream.frames[j], t) PROVE FALSE
        OBVIOUS
      <4>2. stream.frames[j].of[1] \in Listed \cup {NoTurn} /\ stream.frames[j].of[1] \notin Unended
        BY <1>1, <2>1, <4>1 DEF FramesOK
      <4>. QED  BY <3>1, <4>1, <4>2, Bounds DEF WriteOf
    <3>3. ~mapper.observed
      BY <1>1, <1>4, <2>1, <3>1 DEF EndOK, BoundOK
    <3>. QED  BY <3>2, <3>3
  <2>. QED  BY <1>1, <1>4, <2>1, Extends
<1>5. bound \in Lines /\ ending'[bound] \in {"open", "done"} => ending[bound] \in {"open", "done"}
  BY <1>3
<1>6. step \in Turning => bound \in Listed /\ bound \in Lines
  BY DEF BoundOK, Listed, TypeOK
<1>7. step \in {"prompt", "bind"} => \A t \in Lines \ baseline : Unbroken(t, 0)'
  <2>1. SUFFICES ASSUME step \in {"prompt", "bind"}, NEW t \in Lines \ baseline PROVE Unbroken(t, 0)'
    OBVIOUS
  <2>2. Unbroken(t, 0) /\ ~mapper.observed
    BY <1>1, <2>1 DEF ReadingOK, Turning, NewMapper
  <2>. QED  BY <1>4, <2>1, <2>2, Written
<1>8. ASSUME step \in Turning \ {"finish"}, ending'[bound] \in {"open", "done"}
      PROVE  \E p \in 0 .. written'[bound] : HeardUpTo(p)' /\ (step \in {"watch", "read", "again"} => Unbroken(bound, p)')
  <2>1. PICK p \in 0 .. written[bound] : HeardUpTo(p) /\ (step \in {"watch", "read", "again"} => Unbroken(bound, p))
    BY <1>1, <1>5, <1>6, <1>8 DEF ReadingOK
  <2>2. written[bound] \in Nat /\ p \in Nat /\ p <= written[bound]
    BY <1>6, <1>8, <2>1, Written
  <2>3. p \in 0 .. written'[bound]
    BY <1>6, <1>8, <2>2 DEF Extended
  <2>4. ~mapper.observed => \A i \in DOMAIN stream'.frames :
           WriteOf(stream'.frames[i], bound) => Number(stream'.frames[i]) > p
    <3>1. \A i \in DOMAIN stream'.frames \ DOMAIN stream.frames :
             \E k \in DOMAIN new : stream'.frames[i] = new[k]
      BY <1>1, Grown DEF Extended
    <3>2. \A i \in DOMAIN stream.frames : stream'.frames[i] = stream.frames[i]
      BY <1>1, Grown DEF Extended
    <3>3. \A k \in DOMAIN new : WriteOf(new[k], bound) => Number(new[k]) = written[bound] + 1
      BY DEF Extended, WriteOf
    <3>4. ~mapper.observed => \A i \in DOMAIN stream.frames : WriteOf(stream.frames[i], bound) => Number(stream.frames[i]) > p
      BY <2>1 DEF HeardUpTo
    <3>. QED  BY <2>2, <3>1, <3>2, <3>3, <3>4
  <2>5. HeardUpTo(p)'
    BY <1>2, <2>1, <2>4, HeardKept
  <2>6. step \in {"watch", "read", "again"} => Unbroken(bound, p)'
    <3>1. SUFFICES ASSUME step \in {"watch", "read", "again"} PROVE Unbroken(bound, p)'
      OBVIOUS
    <3>. QED  BY <1>1, <1>2, <1>4, <1>6, <1>8, <2>1, <2>2, <3>1
  <2>. QED  BY <2>3, <2>5, <2>6
<1>9. step = "finish" /\ ending'[bound] = "done" /\ ~heard.failed /\ ~heard.broken => ending[bound] = "done"
  BY <1>1, <1>3, <1>6 DEF EndOK, Unended, Turning
<1>10. Told("answered") /\ ending'[bound] = "done" => ending[bound] = "done"
  <2>1. Told("answered") => bound \in Listed \ Unended /\ Listed \subseteq Lines
    BY <1>1 DEF EndOK, Listed, TypeOK
  <2>. QED  BY <1>3, <2>1 DEF Unended
<1>11. AnswerWhole'
  BY <1>1, <1>2, <1>10 DEF AnswerWhole, Told, InOrder
<1>12. ReadingOK'
  BY <1>1, <1>2, <1>7, <1>8, <1>9 DEF ReadingOK, InOrder
<1>. QED  BY <1>11, <1>12

LEMMA IdleExtended ==
  ASSUME ShapeOK, NEW new \in Seq(Frames), Publish(new), \A k \in DOMAIN new : new[k].kind \notin Writes,
         UNCHANGED <<listed, written, line, step, turn, outcome, told>>, TypeOK, WritesOK,
         \A t \in Lines : /\ ending[t] # "open" => ending'[t] = ending[t]
                          /\ ending'[t] = "done" => written[t] = 3 * Replies
                          /\ t \notin Listed => ending'[t] = "open"
  PROVE  Extended(new)
<1>1. \A t \in Lines : t \notin Listed => written[t] = 0
  BY DEF WritesOK
<1>. QED  BY <1>1 DEF Extended

LEMMA WriteWrites == ASSUME TypeOK, BoundOK, EInv, WInv, Room, NEW t \in Lines, Write(t) PROVE WInv'
<1> DEFINE m == written[t] \div 3 + 1
<1>1. /\ t \in Listed /\ ending[t] = "open" /\ written[t] < 3 * Replies
      /\ written' = [written EXCEPT ![t] = @ + 1]
      /\ UNCHANGED <<listed, ending, line, step, turn, outcome, told>>
  BY DEF Write, Running, Unended
<1>2. written[t] \in Nat /\ written \in [Lines -> 0 .. 3 * Replies] /\ Replies \in Nat
  BY Written, Bounds DEF TypeOK
<1>3. m \in Nat /\ m \in Messages /\ Len(<<>>) = 0
  BY <1>1, <1>2 DEF Messages
<1>4. \A kind \in Writes : /\ Frame(kind, t, m) \in Frames /\ Frame(kind, t, m).kind = kind
                           /\ Frame(kind, t, m).of = <<t, m>>
  BY <1>3, Framed DEF Kinds, Writes, Frame
<1>5. \/ Publish(<<>>) /\ written[t] = 0
      \/ \E kind \in Writes : Publish(<<Frame(kind, t, m)>>) /\ Number(Frame(kind, t, m)) = written[t] + 1
  <2>0. /\ written[t] % 3 = 0 => \E announced \in IF m \in Early THEN BOOLEAN ELSE {TRUE} :
                                       Publish(IF announced THEN <<Frame("message", t, m)>> ELSE <<>>)
        /\ written[t] % 3 = 1 => Publish(<<Frame("text", t, m)>>)
        /\ written[t] % 3 \notin {0, 1} => Publish(<<Frame("completed", t, m)>>)
    <3> DEFINE r == written[t] % 3
               a == \E announced \in IF m \in Early THEN BOOLEAN ELSE {TRUE} :
                       Publish(IF announced THEN <<Frame("message", t, m)>> ELSE <<>>)
               b == Publish(<<Frame("text", t, m)>>)
               c == Publish(<<Frame("completed", t, m)>>)
    <3>1. (CASE r = 0 -> a [] r = 1 -> b [] OTHER -> c)
      BY DEF Write
    <3> HIDE DEF a, b, c
    <3>2. (r = 0 => a) /\ (r = 1 => b) /\ (r \notin {0, 1} => c)
      BY <1>2, <3>1
    <3>. QED  BY <3>2 DEF a, b, c
  <2>1. CASE written[t] % 3 = 0
    <3>1. 3 * m - 2 = written[t] + 1
      BY <1>2, <2>1
    <3>2. \E announced \in IF m \in Early THEN BOOLEAN ELSE {TRUE} :
             Publish(IF announced THEN <<Frame("message", t, m)>> ELSE <<>>)
      BY <2>0, <2>1
    <3>3. PICK announced \in BOOLEAN : /\ Publish(IF announced THEN <<Frame("message", t, m)>> ELSE <<>>)
                                       /\ ~announced => m \in Early
      <4>1. CASE m \in Early
        BY <3>2, <4>1
      <4>2. CASE m \notin Early
        BY <3>2, <4>2
      <4>. QED  BY <4>1, <4>2
    <3>4. CASE announced
      <4>1. Number(Frame("message", t, m)) = written[t] + 1
        BY <3>1 DEF Number, Frame
      <4>. QED  BY <3>3, <3>4, <4>1 DEF Writes
    <3>5. CASE ~announced
      <4>1. m = 1
        BY <3>3, <3>5 DEF Room
      <4>. QED  BY <1>2, <3>1, <3>3, <3>5, <4>1
    <3>. QED  BY <3>4, <3>5
  <2>2. CASE written[t] % 3 = 1
    <3>1. 3 * m - 1 = written[t] + 1 /\ Publish(<<Frame("text", t, m)>>)
      BY <1>2, <2>0, <2>2
    <3>2. Number(Frame("text", t, m)) = written[t] + 1
      BY <3>1 DEF Number, Frame
    <3>. QED  BY <3>1, <3>2 DEF Writes
  <2>3. CASE written[t] % 3 \notin {0, 1}
    <3>1. 3 * m = written[t] + 1 /\ Publish(<<Frame("completed", t, m)>>)
      BY <1>2, <2>0, <2>3
    <3>2. Number(Frame("completed", t, m)) = written[t] + 1
      BY <1>2, <1>3, <3>1 DEF Number, Frame
    <3>. QED  BY <3>1, <3>2 DEF Writes
  <2>. QED  BY <2>1, <2>2, <2>3
<1>6. \E new : Extended(new)
  <2>1. \A u \in Lines : u # t => written'[u] = written[u]
    BY <1>1, <1>2
  <2>2. written'[t] = written[t] + 1
    BY <1>1, <1>2
  <2>3. \A u \in Lines : /\ ending'[u] = "done" => written'[u] = 3 * Replies /\ written'[u] = written[u]
                         /\ u \notin Listed => written'[u] = 0 /\ ending'[u] = "open"
    BY <1>1, <2>1 DEF WInv, WritesOK
  <2>4. CASE Publish(<<>>) /\ written[t] = 0
    <3>1. <<>> \in Seq(Frames) /\ DOMAIN <<>> = {}
      OBVIOUS
    <3>2. Extended(<<>>)
      BY <1>1, <1>2, <2>1, <2>2, <2>3, <2>4, <3>1 DEF Extended
    <3>. QED  BY <3>2
  <2>5. ASSUME NEW kind \in Writes, Publish(<<Frame(kind, t, m)>>), Number(Frame(kind, t, m)) = written[t] + 1
        PROVE  \E new : Extended(new)
    <3> DEFINE f == Frame(kind, t, m)
    <3>1. f \in Frames /\ f.kind = kind /\ f.of = <<t, m>> /\ Publish(<<f>>) /\ Number(f) = written[t] + 1
      BY <1>4, <2>5
    <3>2. f.of \in Lines \X Messages /\ f.of[1] = t /\ WriteOf(f, t)
      <4>1. <<t, m>> \in Lines \X Messages /\ <<t, m>>[1] = t
        BY <1>3
      <4> HIDE DEF m, f
      <4>. QED  BY <3>1, <4>1 DEF WriteOf
    <3> HIDE DEF f, m
    <3>3. <<f>> \in Seq(Frames) /\ DOMAIN <<f>> = {1} /\ <<f>>[1] = f /\ Len(<<f>>) = 1
      BY <3>1
    <3> DEFINE new == <<f>>
    <3> HIDE DEF new
    <3>4. new \in Seq(Frames) /\ DOMAIN new = {1} /\ new[1] = f /\ Len(new) = 1 /\ Publish(new)
      BY <3>1, <3>3 DEF new
    <3>5. Extended(new)
      BY <1>1, <2>1, <2>2, <2>3, <3>1, <3>2, <3>4 DEF Extended
    <3>. QED  BY <3>5
  <2>. QED  BY <1>5, <2>4, <2>5
<1>7. FieldsOK'
  BY <1>1 DEF WInv, FieldsOK, turn
<1>. QED  BY <1>6, <1>7, WritesExtended, QueueExtended, ReadingExtended DEF WInv, EInv

LEMMA SettleWrites == ASSUME TypeOK, BoundOK, EInv, WInv, NEW t \in Lines, Settle(t) \/ FailTurn(t) PROVE WInv'
<1>1. /\ t \in Unended /\ t \in Listed /\ ending[t] = "open" /\ Listed \subseteq Lines
      /\ UNCHANGED <<listed, written, line, step, turn, outcome, told>>
  BY DEF Settle, FailTurn, Running, Unended, Listed, TypeOK
<1>2. \/ Settle(t) /\ ending' = [ending EXCEPT ![t] = "done"] /\ written[t] = 3 * Replies
      \/ FailTurn(t) /\ ending' = [ending EXCEPT ![t] = "failed"]
  BY DEF Settle, FailTurn
<1>3. \A u \in Lines : /\ ending[u] # "open" => ending'[u] = ending[u]
                       /\ ending'[u] = "done" => written[u] = 3 * Replies
                       /\ u \notin Listed => ending'[u] = "open"
  BY <1>1, <1>2 DEF TypeOK, WInv, WritesOK
<1>4. Unended' = Unended \ {t}
  BY <1>1, <1>2 DEF Unended, TypeOK, Listed
<1>5. /\ IdleWithout({t}) \in Seq(Frames) /\ Idle.kind = "idle"
      /\ \A k \in DOMAIN IdleWithout({t}) : IdleWithout({t})[k] = Idle
  BY <1>1, <1>4, IdleAfter, Framed, SMTT(20) DEF Idle, Kinds
<1>6. \E new \in Seq(Frames) : Publish(new) /\ \A k \in DOMAIN new : new[k].kind \notin Writes
  <2>1. CASE Settle(t)
    BY <1>5, <2>1 DEF Settle, Writes
  <2>2. CASE FailTurn(t)
    <3> DEFINE f == Frame("error", t, 0)
               ended == <<f>>
               idle == IdleWithout({t})
               new == ended \o idle
    <3>1. f \in Frames /\ f.kind = "error"
      BY Framed DEF Kinds
    <3>2. Publish(new)
      BY <2>2 DEF FailTurn
    <3> HIDE DEF f
    <3>3. ended \in Seq(Frames) /\ \A k \in DOMAIN ended : ended[k] = f
      BY <3>1
    <3>4. idle \in Seq(Frames) /\ \A k \in DOMAIN idle : idle[k] = Idle
      BY <1>5
    <3> HIDE DEF ended, idle
    <3>5. new \in Seq(Frames) /\ \A k \in DOMAIN new : new[k] = f \/ new[k] = Idle
      BY <3>3, <3>4, Joined
    <3> HIDE DEF new
    <3>. QED  BY <1>5, <3>1, <3>2, <3>5 DEF Writes
  <2>. QED  BY <1>2, <2>1, <2>2
<1>7. \E new : Extended(new)
  BY <1>1, <1>3, <1>6, IdleExtended DEF WInv, EInv
<1>8. FieldsOK'
  BY <1>1 DEF WInv, FieldsOK, turn
<1>. QED  BY <1>7, <1>8, WritesExtended, QueueExtended, ReadingExtended DEF WInv, EInv

LEMMA AbortWrites ==
  ASSUME TypeOK, BoundOK, EInv, WInv, AbortSession, UNCHANGED <<line, step, turn, outcome, told>>
  PROVE  WInv'
<1>1. /\ ending' = [t \in Lines |-> IF t \in Unended THEN "aborted" ELSE ending[t]]
      /\ UNCHANGED <<listed, written>>
  BY DEF AbortSession, AbortTurns
<1>2. \A u \in Lines : /\ ending[u] # "open" => ending'[u] = ending[u]
                       /\ ending'[u] = "done" => written[u] = 3 * Replies
                       /\ u \notin Listed => ending'[u] = "open"
  BY <1>1 DEF Unended, WInv, WritesOK
<1>3. Idle \in Frames /\ Idle.kind = "idle"
  BY Framed DEF Idle, Kinds
<1>4. PICK t \in (IF Cut = {} THEN {NoTurn} ELSE Cut) :
         Publish((IF t = NoTurn THEN <<>> ELSE <<Frame("aborted", t, written[t] \div 3 + 1)>>) \o <<Idle>>)
  BY DEF AbortSession
<1>5. \E new \in Seq(Frames) : Publish(new) /\ \A k \in DOMAIN new : new[k].kind \notin Writes
  <2>1. CASE t = NoTurn
    <3>1. <<>> \o <<Idle>> = <<Idle>> /\ <<Idle>> \in Seq(Frames) /\ DOMAIN <<Idle>> = {1} /\ <<Idle>>[1] = Idle
      BY <1>3
    <3>. QED  BY <1>3, <1>4, <2>1, <3>1 DEF Writes
  <2>2. CASE t # NoTurn
    <3>1. t \in Lines /\ written[t] \div 3 + 1 \in Nat
      <4>1. t \in Lines
        BY <1>4, <2>2 DEF Cut, Unended, Listed, TypeOK
      <4>. QED  BY <4>1, Part
    <3> DEFINE f == Frame("aborted", t, written[t] \div 3 + 1)
    <3>2. f \in Frames /\ f.kind = "aborted"
      BY <3>1, Framed DEF Kinds
    <3> HIDE DEF f
    <3> DEFINE new == <<f>> \o <<Idle>>
    <3>3. Publish(new)
      BY <1>4, <2>2 DEF f
    <3>4. /\ <<f>> \in Seq(Frames) /\ DOMAIN <<f>> = {1} /\ <<f>>[1] = f
          /\ <<Idle>> \in Seq(Frames) /\ DOMAIN <<Idle>> = {1} /\ <<Idle>>[1] = Idle
      BY <1>3, <3>2
    <3>5. new \in Seq(Frames) /\ \A k \in DOMAIN new : new[k] = f \/ new[k] = Idle
      BY <3>4, Joined
    <3> HIDE DEF new
    <3>. QED  BY <1>3, <3>2, <3>3, <3>5 DEF Writes
  <2>. QED  BY <2>1, <2>2
<1>6. \E new : Extended(new)
  BY <1>1, <1>2, <1>5, IdleExtended DEF WInv, EInv
<1>7. FieldsOK'
  BY DEF WInv, FieldsOK, turn
<1>. QED  BY <1>6, <1>7, WritesExtended, QueueExtended, ReadingExtended DEF WInv, EInv

LEMMA NoFrames == ASSUME stream.frames = <<>>, ~stream.live, NEW t, NEW p PROVE Unbroken(t, p)
  BY DEF Unbroken

LEMMA Rested == /\ NewMapper.observed = FALSE /\ NewMapper.queue = <<>> /\ NewMapper.ids = {}
                /\ NewMapper.texts = {} /\ NewMapper.metered = {}
                /\ {"observed", "ids", "texts", "metered", "queue"} \subseteq DOMAIN NewMapper
                /\ NothingHeard.texts = <<>> /\ NothingHeard.usage = <<>>
                /\ {"texts", "usage", "failed", "broken"} \subseteq DOMAIN NothingHeard
                /\ NoStream.live = FALSE /\ NoStream.frames = <<>>
  BY DEF NewMapper, NothingHeard, NoStream

LEMMA ListWrites == ASSUME TypeOK, BoundOK, EInv, WInv, NEW t \in Lines, List(t) PROVE WInv'
<1>1. /\ t \notin Listed /\ listed' = Append(listed, t) /\ listed \in Seq(Lines)
      /\ UNCHANGED <<stream, written, ending, line, step, mapper, heard, bound, baseline, busy, outcome>>
  BY DEF List, turn, TypeOK
<1>2. Listed \subseteq Listed'
  <2>1. DOMAIN listed = 1 .. Len(listed) /\ DOMAIN listed' = 1 .. Len(listed) + 1 /\ Len(listed) \in Nat
    BY <1>1
  <2>2. \A i \in 1 .. Len(listed) : listed'[i] = listed[i] /\ i \in 1 .. Len(listed) + 1
    BY <1>1
  <2>. QED  BY <2>1, <2>2 DEF Listed
<1>3. FieldsOK' /\ WritesOK' /\ QueueOK'
  BY <1>1, <1>2 DEF WInv, FieldsOK, WritesOK, QueueOK
<1>4. \A u, p : (Unbroken(u, p) => Unbroken(u, p)') /\ (HeardUpTo(p) => HeardUpTo(p)')
  BY <1>1 DEF Unbroken, HeardUpTo
<1>5. ReadingOK' /\ AnswerWhole'
  BY <1>1, <1>4 DEF WInv, ReadingOK, AnswerWhole, Told, InOrder
<1>. QED  BY <1>3, <1>5 DEF WInv

(* Nothing of the stream, the server and the mapper changes. *)
LEMMA SameWrites ==
  ASSUME WInv, UNCHANGED <<stream, mapper, written, ending, listed>>
  PROVE  /\ WritesOK' /\ QueueOK' /\ \A t, p : Unbroken(t, p) => Unbroken(t, p)'
         /\ UNCHANGED <<heard, bound>> => \A p : HeardUpTo(p) => HeardUpTo(p)'
<1>1. Listed' = Listed
  BY DEF Listed
<1>2. WritesOK' /\ QueueOK'
  BY <1>1 DEF WInv, WritesOK, QueueOK
<1>3. \A t, p : Unbroken(t, p) => Unbroken(t, p)'
  BY DEF Unbroken
<1>4. UNCHANGED <<heard, bound>> => \A p : HeardUpTo(p) => HeardUpTo(p)'
  BY DEF HeardUpTo
<1>. QED  BY <1>2, <1>3, <1>4

LEMMA WaitWrites ==
  ASSUME WInv, UNCHANGED <<stream, mapper, written, ending, listed, heard, bound, baseline, line, outcome>>,
         \/ step' = step
         \/ step = "prepare" /\ step' = "subscribe"
         \/ step = "prompt" /\ step' = "bind"
         \/ step = "watch" /\ step' = "read"
         \/ step = "status" /\ step' = "messages"
         \/ step = "read" /\ step' = "again"
  PROVE  WInv'
<1>1. /\ WritesOK' /\ QueueOK' /\ \A t, p : Unbroken(t, p) => Unbroken(t, p)'
      /\ \A p : HeardUpTo(p) => HeardUpTo(p)'
  BY SameWrites
<1>2. FieldsOK'
  BY DEF WInv, FieldsOK
<1>3. ReadingOK'
  BY <1>1 DEF WInv, ReadingOK, Turning, Steps, InOrder
<1>4. AnswerWhole'
  BY DEF WInv, AnswerWhole, Told, InOrder
<1>. QED  BY <1>1, <1>2, <1>3, <1>4 DEF WInv

(* Reading ends without an answer. *)
LEMMA BreakWrites ==
  ASSUME WInv, UNCHANGED <<stream, mapper, written, ending, listed, bound, baseline, line, outcome>>,
         step \in Turning, step' = "finish", {"texts", "usage", "failed", "broken"} \subseteq DOMAIN heard',
         heard'.failed \/ heard'.broken
  PROVE  WInv'
<1>1. WritesOK' /\ QueueOK'
  BY SameWrites
<1>2. FieldsOK'
  BY DEF WInv, FieldsOK
<1>3. ReadingOK' /\ AnswerWhole'
  BY DEF WInv, ReadingOK, Turning, Steps, AnswerWhole, Told
<1>. QED  BY <1>1, <1>2, <1>3 DEF WInv

LEMMA TypeWrites == ASSUME WInv, Type PROVE WInv'
<1>1. /\ UNCHANGED <<stream, mapper, written, ending, listed>> /\ step = "rest" /\ step' = "prepare"
      /\ heard' = NothingHeard
  BY DEF Type, server
<1>2. WritesOK' /\ QueueOK'
  BY <1>1, SameWrites
<1>3. FieldsOK'
  BY <1>1, Rested DEF WInv, FieldsOK
<1>4. ReadingOK' /\ AnswerWhole'
  BY <1>1 DEF WInv, ReadingOK, Turning, Steps, AnswerWhole, Told
<1>. QED  BY <1>2, <1>3, <1>4 DEF WInv

(* A turn that is not listed has nothing on the stream. *)
LEMMA Unlisted == ASSUME TypeOK, EInv, WInv, NEW t \in Lines, t \notin Listed PROVE Unbroken(t, 0)
<1>1. written[t] = 0 /\ ending[t] = "open"
  BY DEF WInv, WritesOK
<1>2. \A i \in DOMAIN stream.frames : ~WriteOf(stream.frames[i], t)
  BY Bounds DEF EInv, FramesOK, WriteOf
<1>. QED  BY <1>1, <1>2 DEF Unbroken, Follow

LEMMA NoteWrites == ASSUME TypeOK, EInv, WInv, NoteBaseline PROVE WInv'
<1>1. /\ UNCHANGED <<stream, mapper, written, ending, listed, heard, bound>> /\ step = "baseline" /\ step' = "prompt"
      /\ baseline' = Listed
  BY DEF NoteBaseline, server
<1>2. WritesOK' /\ QueueOK' /\ \A t, p : Unbroken(t, p) => Unbroken(t, p)'
  BY <1>1, SameWrites
<1>3. FieldsOK'
  BY <1>1 DEF WInv, FieldsOK
<1>4. ReadingOK' /\ AnswerWhole'
  BY <1>1, <1>2, Unlisted DEF WInv, ReadingOK, Turning, Steps, AnswerWhole, Told
<1>. QED  BY <1>2, <1>3, <1>4 DEF WInv

LEMMA BindWrites == ASSUME TypeOK, EInv, WInv, Bind PROVE WInv'
<1>1. /\ UNCHANGED <<stream, mapper, written, ending, listed, heard, baseline>> /\ step = "bind" /\ step' = "watch"
  BY DEF Bind, server
<1>2. bound' \in Lines \ baseline
  <2>1. PICK i \in Candidates : bound' = listed[i]
    BY DEF Bind
  <2>2. listed \in Seq(Lines) /\ i \in DOMAIN listed /\ listed[i] \notin baseline
    BY <2>1 DEF TypeOK, Candidates
  <2>3. listed[i] \in Lines
    BY ONLY <2>2, SMT
  <2>. QED  BY <2>1, <2>2, <2>3
<1>3. WritesOK' /\ QueueOK' /\ \A t, p : Unbroken(t, p) => Unbroken(t, p)'
  BY <1>1, SameWrites
<1>4. FieldsOK'
  BY <1>1 DEF WInv, FieldsOK
<1>5. Unbroken(bound, 0)'
  <2>1. SUFFICES ASSUME NEW b \in Lines \ baseline, bound' = b PROVE Unbroken(b, 0)'
    BY <1>2 DEF Unbroken
  <2>2. Unbroken(b, 0)
    BY <1>1 DEF WInv, ReadingOK
  <2>. QED  BY <1>3, <2>2
<1>6. HeardUpTo(0)'
  <2>1. mapper = NewMapper /\ heard = NothingHeard
    BY <1>1 DEF WInv, ReadingOK, Turning, Steps
  <2>2. 0 \div 3 = 0 /\ Upto(bound', 0) = <<>> /\ SetOf(Upto(bound', 0)) = {}
    BY DEF Upto, SetOf
  <2>3. \A i \in DOMAIN stream.frames : WriteOf(stream.frames[i], bound') => Number(stream.frames[i]) > 0
    <3>1. SUFFICES ASSUME NEW i \in DOMAIN stream.frames, stream.frames[i].kind \in Writes PROVE Number(stream.frames[i]) > 0
      BY DEF WriteOf
    <3>2. stream.frames[i].of[2] \in Nat \ {0}
      BY <3>1 DEF WInv, WritesOK, Messages
    <3>. QED  BY <3>1, <3>2 DEF Number, Writes
  <2>. QED  BY <1>1, <2>1, <2>2, <2>3, Rested DEF HeardUpTo
<1>7. ReadingOK' /\ AnswerWhole'
  <2>1. 0 \in 0 .. written'[bound']
    BY <1>1, <1>2, Written
  <2>. QED  BY <1>1, <1>5, <1>6, <2>1 DEF WInv, ReadingOK, Turning, Steps, AnswerWhole, Told
<1>. QED  BY <1>3, <1>4, <1>7 DEF WInv

LEMMA GreetWrites ==
  ASSUME TypeOK, EInv, WInv, NEW greeting \in Greeting, stream' = [live |-> TRUE, frames |-> greeting],
         UNCHANGED <<mapper, heard, bound, written, ending, listed>>,
         \/ step = "subscribe" /\ step' = "baseline"
         \/ step = "again" /\ step' = "status"
  PROVE  WInv'
<1>1. \A i \in DOMAIN stream'.frames : stream'.frames[i].kind \notin Writes
  <2>1. greeting = <<>> \/ greeting = <<Idle>>
    BY DEF Greeting
  <2>2. \A i \in DOMAIN greeting : greeting[i] = Idle
    BY <2>1
  <2>. QED  BY <2>2 DEF Idle, Frame, Writes
<1>2. Listed' = Listed
  BY DEF Listed
<1>3. WritesOK' /\ QueueOK'
  BY <1>1, <1>2 DEF WInv, WritesOK, QueueOK, WriteOf
<1>4. FieldsOK'
  BY DEF WInv, FieldsOK
<1>5. \A p : HeardUpTo(p) => HeardUpTo(p)'
  BY <1>1 DEF HeardUpTo, WriteOf
<1>6. ReadingOK' /\ AnswerWhole'
  BY <1>5 DEF WInv, ReadingOK, Turning, Steps, AnswerWhole, Told
<1>. QED  BY <1>3, <1>4, <1>6 DEF WInv

LEMMA CutWrites ==
  ASSUME TypeOK, BoundOK, EInv, EInv', WInv, UNCHANGED <<mapper, heard, bound, baseline, written, ending, listed, line, outcome>>,
         ~stream'.live, DOMAIN stream'.frames \subseteq DOMAIN stream.frames,
         \A i \in DOMAIN stream'.frames : stream'.frames[i] = stream.frames[i],
         \A i \in DOMAIN stream'.frames : \A j \in DOMAIN stream.frames : j < i => j \in DOMAIN stream'.frames,
         \/ step' = step
         \/ step \in {"again", "status", "messages"} /\ step' = "read" /\ stream'.frames = <<>>
  PROVE  WInv'
<1>1. Listed' = Listed
  BY DEF Listed
<1>2. WritesOK' /\ QueueOK'
  BY <1>1 DEF WInv, WritesOK, QueueOK
<1>3. FieldsOK'
  BY DEF WInv, FieldsOK
<1>4. stream.frames \in Seq(Frames) /\ stream'.frames \in Seq(Frames)
  BY DEF EInv, ShapeOK
<1>5. ASSUME NEW t \in Lines, NEW p \in Nat, Unbroken(t, p) PROVE Unbroken(t, p)'
  <2>1. ASSUME NEW n \in Int, NEW i \in DOMAIN stream'.frames, Follow(stream.frames, t, p, n, i)
        PROVE  Follow(stream'.frames, t, p, n, i)
    <3>1. i \in Int
      BY <1>4, Stream
    <3>. QED  BY <1>4, <2>1, <3>1, FollowKept
  <2>2. \A i \in DOMAIN stream'.frames : Number(stream.frames[i]) - 1 \in Int /\ 3 * Replies \in Int
    BY <1>4, Stream, Bounds
  <2>3. \A i \in DOMAIN stream'.frames :
           WriteOf(stream'.frames[i], t) => Follow(stream'.frames, t, p, Number(stream'.frames[i]) - 1, i)
    BY <1>5, <2>1, <2>2 DEF Unbroken
  <2>4. \A i \in DOMAIN stream'.frames :
           /\ stream'.frames[i].kind = "idle" /\ ending'[t] = "done"
           /\ mapper'.observed \/ \E j \in DOMAIN stream'.frames : j < i /\ WriteOf(stream'.frames[j], t)
           => Follow(stream'.frames, t, p, 3 * Replies, i)
    BY <1>5, <2>1, <2>2 DEF Unbroken
  <2>. QED  BY <2>3, <2>4 DEF Unbroken
<1>6. stream'.frames = <<>> => \A t, p : Unbroken(t, p)'
  BY DEF Unbroken
<1>7. \A p : HeardUpTo(p) => HeardUpTo(p)'
  BY DEF HeardUpTo
<1>8. ReadingOK' /\ AnswerWhole'
  <2>1. step \in Turning \ {"finish"} /\ ending[bound] \in {"open", "done"} /\ bound \in Lines =>
           \E p \in 0..written[bound] : HeardUpTo(p)' /\ (step' \in {"watch", "read", "again"} => Unbroken(bound, p)')
    <3>1. SUFFICES ASSUME step \in Turning \ {"finish"}, ending[bound] \in {"open", "done"}, bound \in Lines
                   PROVE  \E p \in 0..written[bound] : HeardUpTo(p)' /\ (step' \in {"watch", "read", "again"} => Unbroken(bound, p)')
      OBVIOUS
    <3>2. PICK p \in 0..written[bound] : HeardUpTo(p) /\ (step \in {"watch", "read", "again"} => Unbroken(bound, p))
      BY <3>1 DEF WInv, ReadingOK
    <3>3. p \in Nat
      BY <3>1, <3>2, Written
    <3>. QED  BY <1>5, <1>6, <1>7, <3>1, <3>2, <3>3
  <2>2. step \in {"prompt", "bind"} => \A t \in Lines \ baseline : Unbroken(t, 0)'
    BY <1>5 DEF WInv, ReadingOK
  <2>3. step \in Turning => bound \in Lines
    BY DEF BoundOK, Listed, TypeOK
  <2>4. step' \in Turning => step \in Turning
    BY DEF Turning
  <2>5. step' \in Turning \ {"finish"} => step \in Turning \ {"finish"}
    BY DEF Turning
  <2>6. step' \notin Turning => mapper = NewMapper
    BY DEF WInv, ReadingOK, Turning
  <2>7. step' \in Steps \ (Turning \cup {"rest"}) => heard = NothingHeard
    BY DEF WInv, ReadingOK, Turning
  <2>8. step' = "finish" => step = "finish"
    OBVIOUS
  <2>9. step' \in {"prompt", "bind"} => step \in {"prompt", "bind"}
    OBVIOUS
  <2>10. step = "finish" /\ ending[bound] = "done" /\ ~heard.failed /\ ~heard.broken =>
            heard.texts = InOrder /\ heard.usage = InOrder
    BY DEF WInv, ReadingOK
  <2>11. ReadingOK'
    BY <2>1, <2>2, <2>3, <2>5, <2>6, <2>7, <2>8, <2>9, <2>10 DEF ReadingOK, InOrder
  <2>12. AnswerWhole'
    BY DEF WInv, AnswerWhole, Told, InOrder
  <2>. QED  BY <2>11, <2>12
<1>. QED  BY <1>2, <1>3, <1>8 DEF WInv

LEMMA ReturnWrites ==
  ASSUME TypeOK, WInv, NEW v \in Verdicts, Return(v), line \in Lines, UNCHANGED <<listed, written>>,
         \A t \in Lines : /\ ending[t] # "open" => ending'[t] = ending[t]
                          /\ ending'[t] = "done" => ending[t] = "done"
                          /\ t \notin Listed => ending'[t] = ending[t],
         v = "answered" => bound \in Lines /\ (ending[bound] = "done" => heard.texts = InOrder /\ heard.usage = InOrder)
  PROVE  WInv'
<1>1. stream' = NoStream /\ mapper' = NewMapper /\ UNCHANGED <<heard, bound, line>> /\ step' = "rest"
      /\ outcome'[line] = v
  BY Returned DEF Return, Back
<1>2. Listed' = Listed
  BY DEF Listed
<1>3. WritesOK' /\ QueueOK'
  BY <1>1, <1>2, Rested DEF WInv, WritesOK, QueueOK
<1>4. FieldsOK'
  BY <1>1, Rested DEF WInv, FieldsOK
<1>5. ReadingOK' /\ AnswerWhole'
  BY <1>1 DEF ReadingOK, Turning, Steps, AnswerWhole, Told, InOrder
<1>. QED  BY <1>3, <1>4, <1>5 DEF WInv

-----------------------------------------------------------------------------
(* Hearing the stream. *)

(* The frame that is heard, and those behind it. *)
LEMMA Next1 ==
  ASSUME ShapeOK, Hear
  PROVE  /\ stream.frames \in Seq(Frames) /\ 1 \in DOMAIN stream.frames
         /\ Head(stream.frames) = stream.frames[1] /\ stream.frames[1] \in Frames
         /\ stream'.frames \in Seq(Frames) /\ stream'.live = stream.live
         /\ Len(stream'.frames) = Len(stream.frames) - 1
         /\ \A i \in DOMAIN stream'.frames : /\ i \in Nat /\ i + 1 \in DOMAIN stream.frames
                                             /\ stream'.frames[i] = stream.frames[i + 1]
         /\ \A j \in DOMAIN stream.frames : j # 1 => /\ j - 1 \in DOMAIN stream'.frames
                                                     /\ stream'.frames[j - 1] = stream.frames[j]
<1> DEFINE f == stream.frames
<1>1. f \in Seq(Frames) /\ f # <<>> /\ stream \in [live : BOOLEAN, frames : Seq(Frames)]
      /\ stream' = [stream EXCEPT !.frames = Tail(@)]
  BY DEF ShapeOK, Hear
<1>2. stream'.frames = Tail(f) /\ stream'.live = stream.live
  BY <1>1
<1> HIDE DEF f
<1>3. /\ 1 \in DOMAIN f /\ Head(f) = f[1] /\ f[1] \in Frames /\ Tail(f) \in Seq(Frames)
      /\ DOMAIN f = 1 .. Len(f) /\ Len(f) \in Nat /\ DOMAIN Tail(f) = 1 .. Len(f) - 1 /\ Len(Tail(f)) = Len(f) - 1
      /\ \A i \in 1 .. Len(f) - 1 : Tail(f)[i] = f[i + 1]
  BY <1>1
<1>4. \A i \in DOMAIN Tail(f) : i \in Nat /\ i + 1 \in DOMAIN f /\ Tail(f)[i] = f[i + 1]
  BY <1>3
<1>5. ASSUME NEW j \in DOMAIN f, j # 1 PROVE j - 1 \in DOMAIN Tail(f) /\ Tail(f)[j - 1] = f[j]
  <2>1. j - 1 \in 1 .. Len(f) - 1 /\ (j - 1) + 1 = j
    BY <1>3, <1>5
  <2>. QED  BY <1>3, <2>1
<1>. QED  BY <1>2, <1>3, <1>4, <1>5 DEF f

LEMMA WritesHeard == ASSUME ShapeOK, WritesOK, Hear PROVE WritesOK'
<1>1. /\ \A i \in DOMAIN stream'.frames : /\ i \in Nat /\ i + 1 \in DOMAIN stream.frames
                                          /\ stream'.frames[i] = stream.frames[i + 1]
  BY Next1
<1>2. UNCHANGED <<written, ending, listed>> /\ Listed' = Listed
  BY DEF Hear, server, Listed
<1>3. ASSUME NEW i \in DOMAIN stream'.frames, NEW j \in DOMAIN stream'.frames, NEW t \in Lines,
             i < j, WriteOf(stream'.frames[i], t), WriteOf(stream'.frames[j], t)
      PROVE  Number(stream'.frames[i]) < Number(stream'.frames[j])
  <2>1. i + 1 < j + 1 /\ i + 1 \in DOMAIN stream.frames /\ j + 1 \in DOMAIN stream.frames
    BY <1>1, <1>3
  <2>. QED  BY <1>1, <1>3, <2>1 DEF WritesOK
<1>. QED  BY <1>1, <1>2, <1>3 DEF WritesOK

(* What the frame's write is not behind any more. *)
LEMMA UnbrokenHeard ==
  ASSUME ShapeOK, Hear, NEW t \in Lines, NEW p \in Nat, NEW q \in Nat, p <= q, Unbroken(t, p),
         WriteOf(stream.frames[1], t) => Number(stream.frames[1]) <= q,
         mapper'.observed => mapper.observed \/ WriteOf(stream.frames[1], t)
  PROVE  Unbroken(t, q)'
<1>1. /\ stream.frames \in Seq(Frames) /\ stream'.frames \in Seq(Frames) /\ stream'.live = stream.live
      /\ 1 \in DOMAIN stream.frames /\ Len(stream'.frames) = Len(stream.frames) - 1
      /\ \A i \in DOMAIN stream'.frames : /\ i \in Nat /\ i + 1 \in DOMAIN stream.frames
                                          /\ stream'.frames[i] = stream.frames[i + 1]
      /\ \A j \in DOMAIN stream.frames : j # 1 => /\ j - 1 \in DOMAIN stream'.frames
                                                  /\ stream'.frames[j - 1] = stream.frames[j]
  BY Next1
<1>2. \A j \in DOMAIN stream.frames : j \in Nat /\ Number(stream.frames[j]) \in Int
  BY <1>1, Stream
<1>3. UNCHANGED <<written, ending>>
  BY DEF Hear, server
<1>4. ASSUME NEW n, NEW i \in Int, Follow(stream.frames, t, p, n, i + 1) PROVE Follow(stream'.frames, t, q, n, i)
  <2>1. SUFFICES ASSUME NEW k \in q + 1 .. n, k # 1
                 PROVE  \E j \in DOMAIN stream'.frames : j < i /\ WriteOf(stream'.frames[j], t) /\ Number(stream'.frames[j]) = k
    BY DEF Follow
  <2>2. k \in p + 1 .. n /\ k \in Int /\ k > q
    OBVIOUS
  <2>3. PICK j \in DOMAIN stream.frames : j < i + 1 /\ WriteOf(stream.frames[j], t) /\ Number(stream.frames[j]) = k
    BY <1>4, <2>1, <2>2 DEF Follow
  <2>4. j # 1
    BY <2>2, <2>3
  <2>5. j - 1 < i
    BY <1>2, <2>3
  <2>. QED  BY <1>1, <2>3, <2>4, <2>5
<1>5. ASSUME NEW i \in DOMAIN stream'.frames, WriteOf(stream'.frames[i], t)
      PROVE  Follow(stream'.frames, t, q, Number(stream'.frames[i]) - 1, i)
  <2>1. i + 1 \in DOMAIN stream.frames /\ stream'.frames[i] = stream.frames[i + 1] /\ i \in Int
    BY <1>1
  <2>2. Follow(stream.frames, t, p, Number(stream.frames[i + 1]) - 1, i + 1)
    BY <1>5, <2>1 DEF Unbroken
  <2>. QED  BY <1>4, <2>1, <2>2
<1>6. ASSUME stream'.live PROVE Follow(stream'.frames, t, q, written[t], Len(stream'.frames) + 1)
  <2>1. Len(stream'.frames) + 1 \in Int /\ (Len(stream'.frames) + 1) + 1 = Len(stream.frames) + 1
    BY <1>1, Stream
  <2>2. Follow(stream.frames, t, p, written[t], Len(stream.frames) + 1)
    BY <1>1, <1>6 DEF Unbroken
  <2>. QED  BY <1>4, <2>1, <2>2
<1>7. ASSUME NEW i \in DOMAIN stream'.frames, stream'.frames[i].kind = "idle", ending[t] = "done",
             mapper'.observed \/ \E j \in DOMAIN stream'.frames : j < i /\ WriteOf(stream'.frames[j], t)
      PROVE  Follow(stream'.frames, t, q, 3 * Replies, i)
  <2>1. i + 1 \in DOMAIN stream.frames /\ stream'.frames[i] = stream.frames[i + 1] /\ i \in Int /\ 1 < i + 1
    <3>1. i \in Nat /\ i # 0
      BY <1>1, Stream
    <3>. QED  BY <1>1, <3>1
  <2>2. mapper.observed \/ \E j \in DOMAIN stream.frames : j < i + 1 /\ WriteOf(stream.frames[j], t)
    <3>1. CASE mapper'.observed
      BY <1>1, <2>1, <3>1
    <3>2. ASSUME NEW j \in DOMAIN stream'.frames, j < i, WriteOf(stream'.frames[j], t)
          PROVE  \E k \in DOMAIN stream.frames : k < i + 1 /\ WriteOf(stream.frames[k], t)
      <4>1. j + 1 \in DOMAIN stream.frames /\ stream'.frames[j] = stream.frames[j + 1] /\ j + 1 < i + 1
        BY <1>1, <2>1, <3>2
      <4>. QED  BY <3>2, <4>1
    <3>. QED  BY <1>7, <3>1, <3>2
  <2>3. Follow(stream.frames, t, p, 3 * Replies, i + 1)
    BY <1>7, <2>1, <2>2 DEF Unbroken
  <2>. QED  BY <1>4, <2>1, <2>3
<1>. QED  BY <1>3, <1>5, <1>6, <1>7 DEF Unbroken

(* What a message of the turn adds. *)
Fresh(frame) == IF frame.kind = "message" \/ frame.of \in mapper.metered THEN <<>> ELSE <<frame.of>>

LEMMA MessageHeard ==
  ASSUME FieldsOK, NEW frame, HearMessage(frame), Own(frame.of)
  PROVE  /\ mapper'.observed = TRUE /\ mapper'.queue = <<>> /\ mapper'.ids = mapper.ids \cup {frame.of}
         /\ mapper'.texts = mapper.texts \cup SetOf(Drained(frame.of))
         /\ mapper'.metered = mapper.metered \cup SetOf(Fresh(frame))
         /\ heard'.texts = heard.texts \o Drained(frame.of)
         /\ heard'.usage = heard.usage \o Fresh(frame)
         /\ FieldsOK'
<1> DEFINE texts == Drained(frame.of)
           M == Messaged(frame.of)
<1>1. /\ mapper' = [M EXCEPT !.texts = @ \cup SetOf(texts), !.metered = @ \cup SetOf(Fresh(frame))]
      /\ heard' = [heard EXCEPT !.texts = @ \o texts, !.usage = @ \o Fresh(frame)]
  BY DEF HearMessage, Fresh
<1>2. {"observed", "ids", "texts", "metered", "queue"} \subseteq DOMAIN mapper /\ {"texts", "usage", "failed", "broken"} \subseteq DOMAIN heard
  BY DEF FieldsOK
<1> HIDE DEF texts
<1>3. /\ DOMAIN M = DOMAIN mapper /\ M.observed = TRUE /\ M.queue = <<>> /\ M.ids = mapper.ids \cup {frame.of}
      /\ M.texts = mapper.texts /\ M.metered = mapper.metered
  BY <1>2 DEF Messaged
<1> HIDE DEF M
<1>4. /\ DOMAIN mapper' = DOMAIN M /\ mapper'.observed = M.observed /\ mapper'.queue = M.queue /\ mapper'.ids = M.ids
      /\ mapper'.texts = M.texts \cup SetOf(texts) /\ mapper'.metered = M.metered \cup SetOf(Fresh(frame))
  BY <1>1, <1>2, <1>3
<1>5. DOMAIN heard' = DOMAIN heard /\ heard'.texts = heard.texts \o texts /\ heard'.usage = heard.usage \o Fresh(frame)
  BY <1>1, <1>2
<1>. QED  BY <1>2, <1>3, <1>4, <1>5 DEF texts, FieldsOK

LEMMA HearCases ==
  ASSUME ShapeOK, FieldsOK, Hear
  PROVE  LET frame == stream.frames[1]
         IN /\ FieldsOK'
            /\ \/ frame.kind \in {"message", "completed", "aborted"} /\ HearMessage(frame)
               \/ frame.kind = "text" /\ HearText(frame)
               \/ frame.kind = "error" /\ heard'.failed /\ mapper' = mapper
               \/ frame.kind = "idle" /\ mapper' = mapper /\ heard' = heard
            /\ \/ mapper'.queue = mapper.queue
               \/ mapper'.queue = <<>>
               \/ frame.kind = "text" /\ mapper'.queue = Append(mapper.queue, frame.of)
<1> DEFINE frame == stream.frames[1]
<1>1. frame \in Frames /\ frame = Head(stream.frames)
  BY Next1
<1>2. {"observed", "ids", "texts", "metered", "queue"} \subseteq DOMAIN mapper /\ {"texts", "usage", "failed", "broken"} \subseteq DOMAIN heard
  BY DEF FieldsOK
<1>3. frame.kind \in Kinds
  BY <1>1 DEF Frames
<1>4. \/ frame.kind \in {"message", "completed", "aborted"} /\ HearMessage(frame)
      \/ frame.kind = "text" /\ HearText(frame)
      \/ frame.kind = "error" /\ heard' = [heard EXCEPT !.failed = TRUE] /\ mapper' = mapper
      \/ frame.kind = "idle" /\ mapper' = mapper /\ heard' = heard
  BY <1>1, <1>3 DEF Hear, Kinds
<1> HIDE DEF frame
<1>5. CASE frame.kind \in {"message", "completed", "aborted"} /\ HearMessage(frame)
  <2>1. CASE ~Own(frame.of)
    BY <1>5, <2>1 DEF HearMessage, FieldsOK, frame
  <2>2. CASE Own(frame.of)
    BY <1>5, <2>2, MessageHeard DEF frame
  <2>. QED  BY <2>1, <2>2
<1>6. CASE frame.kind = "text" /\ HearText(frame)
  <2>1. CASE ~mapper.observed
    BY <1>2, <1>6, <2>1 DEF HearText, FieldsOK, frame
  <2>2. CASE mapper.observed
    BY <1>2, <1>6, <2>2 DEF HearText, FieldsOK, frame
  <2>. QED  BY <2>1, <2>2
<1>7. CASE frame.kind = "error" /\ heard' = [heard EXCEPT !.failed = TRUE] /\ mapper' = mapper
  BY <1>2, <1>7 DEF FieldsOK, frame
<1>8. CASE frame.kind = "idle" /\ mapper' = mapper /\ heard' = heard
  BY <1>2, <1>8 DEF FieldsOK, frame
<1>. QED  BY <1>4, <1>5, <1>6, <1>7, <1>8

LEMMA QueueHeard == ASSUME TypeOK, ShapeOK, FieldsOK, WritesOK, QueueOK, Hear PROVE QueueOK'
<1> DEFINE frame == stream.frames[1]
           queue == mapper.queue
<1>1. /\ stream.frames \in Seq(Frames) /\ 1 \in DOMAIN stream.frames /\ frame \in Frames
      /\ \A i \in DOMAIN stream'.frames : /\ i \in Nat /\ i + 1 \in DOMAIN stream.frames
                                          /\ stream'.frames[i] = stream.frames[i + 1]
  BY Next1
<1>2. \A j \in DOMAIN stream.frames : j \in Nat /\ Number(stream.frames[j]) \in Int
  BY <1>1, Stream
<1>3. UNCHANGED written
  BY DEF Hear, server
<1>4. \A i \in DOMAIN queue : \A j \in DOMAIN stream'.frames :
         WriteOf(stream'.frames[j], queue[i][1]) => Number(stream'.frames[j]) > 3 * queue[i][2] - 1
  BY <1>1 DEF QueueOK
<1>5. CASE mapper'.queue = queue
  BY <1>3, <1>4, <1>5 DEF QueueOK
<1>6. CASE mapper'.queue = <<>>
  BY <1>6 DEF QueueOK
<1>7. CASE frame.kind = "text" /\ mapper'.queue = Append(queue, frame.of)
  <2>1. frame.of \in Lines \X Messages /\ frame.of[1] \in Lines /\ frame.of[2] \in Nat
        /\ Number(frame) = 3 * frame.of[2] - 1 /\ Number(frame) <= written[frame.of[1]] /\ WriteOf(frame, frame.of[1])
    <3>1. frame.of \in Lines \X Messages /\ Number(frame) <= written[frame.of[1]]
      BY <1>1, <1>7 DEF WritesOK, Writes
    <3>2. frame.of[1] \in Lines /\ frame.of[2] \in Nat
      BY <3>1 DEF Messages
    <3>3. Number(frame) = 3 * frame.of[2] - 1 /\ WriteOf(frame, frame.of[1])
      BY <1>7 DEF Number, WriteOf, Writes
    <3>. QED  BY <3>1, <3>2, <3>3
  <2>2. queue \in Seq(Lines \X Messages)
    BY DEF QueueOK
  <2> DEFINE longer == Append(queue, frame.of)
  <2>3. /\ longer \in Seq(Lines \X Messages) /\ DOMAIN longer = 1 .. Len(queue) + 1 /\ Len(queue) \in Nat
        /\ DOMAIN queue = 1 .. Len(queue)
        /\ \A i \in 1 .. Len(queue) + 1 : longer[i] = IF i = Len(queue) + 1 THEN frame.of ELSE queue[i]
    <3> HIDE DEF frame, queue
    <3>. QED  BY <2>1, <2>2, Appended
  <2> HIDE DEF longer
  <2>4. \A i \in DOMAIN queue : queue[i] # frame.of
    <3>1. SUFFICES ASSUME NEW i \in DOMAIN queue, queue[i] = frame.of PROVE FALSE
      OBVIOUS
    <3>2. Number(frame) > 3 * frame.of[2] - 1
      BY <1>1, <2>1, <3>1 DEF QueueOK
    <3>. QED  BY <2>1, <3>2
  <2>5. \A i \in DOMAIN queue : 3 * queue[i][2] - 1 <= written[queue[i][1]]
    BY DEF QueueOK
  <2>6. \A i, j \in DOMAIN queue : queue[i] = queue[j] => i = j
    BY DEF QueueOK
  <2>7. ASSUME NEW j \in DOMAIN stream'.frames, WriteOf(stream'.frames[j], frame.of[1])
        PROVE  Number(stream'.frames[j]) > 3 * frame.of[2] - 1
    <3>1. 1 < j + 1 /\ j + 1 \in DOMAIN stream.frames /\ stream'.frames[j] = stream.frames[j + 1]
      <4>1. j + 1 \in DOMAIN stream.frames /\ stream'.frames[j] = stream.frames[j + 1] /\ j \in Nat /\ j # 0
        BY <1>1, Stream, Next1
      <4>. QED  BY <4>1
    <3>2. Number(frame) < Number(stream.frames[j + 1])
      BY <1>1, <2>1, <2>7, <3>1 DEF WritesOK
    <3>. QED  BY <1>2, <2>1, <3>1, <3>2
  <2> HIDE DEF queue, frame
  <2>8. \A i \in DOMAIN longer : longer[i] = frame.of \/ (i \in DOMAIN queue /\ longer[i] = queue[i])
    BY <2>3
  <2>9. \A i, j \in DOMAIN longer : longer[i] = longer[j] => i = j
    <3>1. SUFFICES ASSUME NEW i \in DOMAIN longer, NEW j \in DOMAIN longer, longer[i] = longer[j] PROVE i = j
      OBVIOUS
    <3>2. CASE i = Len(queue) + 1
      BY <2>3, <2>4, <3>1, <3>2
    <3>3. CASE j = Len(queue) + 1
      BY <2>3, <2>4, <3>1, <3>3
    <3>4. CASE i # Len(queue) + 1 /\ j # Len(queue) + 1
      <4>1. i \in DOMAIN queue /\ j \in DOMAIN queue /\ longer[i] = queue[i] /\ longer[j] = queue[j]
        BY <2>3, <3>4
      <4>. QED  BY <2>6, <3>1, <4>1
    <3>. QED  BY <3>2, <3>3, <3>4
  <2>10. \A i \in DOMAIN longer : 3 * longer[i][2] - 1 <= written[longer[i][1]]
    BY <2>1, <2>5, <2>8
  <2>11. \A i \in DOMAIN longer : \A j \in DOMAIN stream'.frames :
            WriteOf(stream'.frames[j], longer[i][1]) => Number(stream'.frames[j]) > 3 * longer[i][2] - 1
    BY <1>4, <2>7, <2>8 DEF queue
  <2>12. mapper'.queue = longer
    BY <1>7 DEF longer, queue, frame
  <2>. QED  BY <1>3, <2>3, <2>9, <2>10, <2>11, <2>12 DEF QueueOK
<1>8. \/ mapper'.queue = queue
      \/ mapper'.queue = <<>>
      \/ frame.kind = "text" /\ mapper'.queue = Append(queue, frame.of)
  BY HearCases
<1>. QED  BY <1>5, <1>6, <1>7, <1>8

(* The texts of all other lines leave room in the queue. *)
LEMMA RoomLeft ==
  ASSUME TypeOK, QueueOK, Room, bound \in Lines, \A i \in DOMAIN mapper.queue : mapper.queue[i][1] # bound
  PROVE  Len(mapper.queue) < QueueLimit
<1> DEFINE queue == mapper.queue
           others == Lines \ {bound}
<1>1. queue \in Seq(Lines \X Messages) /\ \A i, j \in DOMAIN queue : queue[i] = queue[j] => i = j
  BY DEF QueueOK
<1>2. Len(queue) \in Nat /\ DOMAIN queue = 1 .. Len(queue) /\ queue \in [1 .. Len(queue) -> Lines \X Messages]
  BY <1>1
<1>3. queue \in [1 .. Len(queue) -> others \X Messages]
  <2>1. \A i \in 1 .. Len(queue) : queue[i] \in others \X Messages
    BY <1>2
  <2>. QED  BY <1>2, <2>1
<1> HIDE DEF queue
<1>4. queue \in Injection(1 .. Len(queue), others \X Messages)
  BY <1>1, <1>2, <1>3 DEF Injection, IsInjective
<1>5. IsFiniteSet(Lines) /\ Cardinality(Lines) = MaxLines
  <2>1. MaxLines \in Nat \ {0} /\ 1 \in Int /\ MaxLines \in Int /\ Lines = 1 .. MaxLines
    BY Bounds
  <2>2. IsFiniteSet(1 .. MaxLines) /\ Cardinality(1 .. MaxLines) = IF 1 > MaxLines THEN 0 ELSE MaxLines - 1 + 1
    BY ONLY FS_Interval, <2>1
  <2>. QED  BY <2>1, <2>2
<1>6. IsFiniteSet(Messages) /\ Cardinality(Messages) = Replies
  <2>1. Replies \in Nat \ {0} /\ 1 \in Int /\ Replies \in Int /\ Messages = 1 .. Replies
    BY Bounds DEF Messages
  <2>2. IsFiniteSet(1 .. Replies) /\ Cardinality(1 .. Replies) = IF 1 > Replies THEN 0 ELSE Replies - 1 + 1
    BY ONLY FS_Interval, <2>1
  <2>. QED  BY <2>1, <2>2
<1>7. IsFiniteSet(others) /\ Cardinality(others) = MaxLines - 1
  BY <1>5, FS_RemoveElement
<1> HIDE DEF others
<1>8. IsFiniteSet(others \X Messages) /\ Cardinality(others \X Messages) = (MaxLines - 1) * Replies
  BY <1>6, <1>7, FS_Product
<1>9. Cardinality(1 .. Len(queue)) <= (MaxLines - 1) * Replies
  BY <1>4, <1>8, FS_Injection
<1>10. Cardinality(1 .. Len(queue)) = Len(queue)
  <2>1. 1 \in Int /\ Len(queue) \in Int
    BY <1>2
  <2>2. Cardinality(1 .. Len(queue)) = IF 1 > Len(queue) THEN 0 ELSE Len(queue) - 1 + 1
    BY ONLY FS_Interval, <2>1
  <2>. QED  BY <1>2, <2>2
<1>11. QueueLimit \in Nat /\ (MaxLines - 1) * Replies \in Int
  <2>1. MaxLines - 1 \in Int /\ Replies \in Int
    BY Bounds
  <2>. QED  BY <2>1, BoundsAssumption
<1> DEFINE r == (MaxLines - 1) * Replies
<1>12. r < QueueLimit
  BY DEF Room
<1> HIDE DEF r
<1>13. Len(queue) <= r /\ r \in Int
  BY <1>9, <1>10, <1>11 DEF r
<1>14. Len(queue) < QueueLimit
  BY <1>2, <1>11, <1>12, <1>13
<1>. QED  BY <1>14 DEF queue

(* The number of a write the turn's reader hears next. *)
LEMMA NextNumber ==
  ASSUME ShapeOK, Hear, NEW t, NEW p \in Nat, Unbroken(t, p), WriteOf(stream.frames[1], t)
  PROVE  \/ Number(stream.frames[1]) <= p + 1
         \/ p = 0 /\ Number(stream.frames[1]) = 2
<1>1. stream.frames \in Seq(Frames) /\ 1 \in DOMAIN stream.frames
  BY Next1
<1>2. Number(stream.frames[1]) \in Int /\ \A j \in DOMAIN stream.frames : j \in Nat /\ ~(j < 1)
  BY <1>1, Stream
<1>3. Follow(stream.frames, t, p, Number(stream.frames[1]) - 1, 1)
  BY <1>1 DEF Unbroken
<1>4. \A k \in p + 1 .. Number(stream.frames[1]) - 1 : k = 1
  BY <1>2, <1>3 DEF Follow
<1> DEFINE n == Number(stream.frames[1])
<1> HIDE DEF n
<1>5. n \in Int /\ \A k \in p + 1 .. n - 1 : k = 1
  BY <1>2, <1>4 DEF n
<1>6. ASSUME n > p + 1 PROVE p = 0 /\ n = 2
  <2>1. n - 1 \in p + 1 .. n - 1 /\ p + 1 \in p + 1 .. n - 1
    BY <1>5, <1>6
  <2>. QED  BY <1>5, <2>1
<1>. QED  BY <1>5, <1>6 DEF n

(* Idle ends a turn that was carried through only after its last write. *)
LEMMA IdleLast ==
  ASSUME TypeOK, ShapeOK, Hear, NEW t \in Lines, NEW p \in Nat, p <= written[t], Unbroken(t, p),
         stream.frames[1].kind = "idle", ending[t] = "done", mapper.observed
  PROVE  p = 3 * Replies
<1>1. stream.frames \in Seq(Frames) /\ 1 \in DOMAIN stream.frames
  BY Next1
<1>2. \A j \in DOMAIN stream.frames : ~(j < 1)
  BY <1>1, Stream
<1>3. Follow(stream.frames, t, p, 3 * Replies, 1)
  BY <1>1 DEF Unbroken
<1>4. \A k \in p + 1 .. 3 * Replies : k = 1
  BY <1>2, <1>3 DEF Follow
<1>5. written[t] \in Nat /\ written[t] <= 3 * Replies /\ Replies \in Nat \ {0}
  BY Written, Bounds
<1>6. p < 3 * Replies => 3 * Replies \in p + 1 .. 3 * Replies /\ 3 * Replies # 1
  BY <1>5
<1>. QED  BY <1>4, <1>5, <1>6

LEMMA Members == ASSUME NEW t, NEW n \in Nat
                 PROVE  /\ \A m \in Nat : <<t, m>> \in SetOf(Upto(t, n)) <=> 1 <= m /\ m <= n
                        /\ SetOf(Upto(t, n + 1)) = SetOf(Upto(t, n)) \cup {<<t, n + 1>>}
                        /\ \A of \in SetOf(Upto(t, n)) : of[1] = t
                        /\ Upto(t, n) \o <<>> = Upto(t, n)
<1>1. SetOf(Upto(t, n)) = {<<t, m>> : m \in 1 .. n} /\ SetOf(Upto(t, n + 1)) = {<<t, m>> : m \in 1 .. n + 1}
  <2>1. n + 1 \in Nat
    OBVIOUS
  <2>. QED  BY <2>1, UptoIs
<1>2. Upto(t, n) \o <<>> = Upto(t, n)
  <2>1. Upto(t, n) \in Seq({t} \X Nat)
    BY UptoIs
  <2> HIDE DEF Upto
  <2>. QED  BY <2>1
<1>3. 1 .. n + 1 = (1 .. n) \cup {n + 1}
  OBVIOUS
<1>4. {<<t, m>> : m \in 1 .. n + 1} = {<<t, m>> : m \in 1 .. n} \cup {<<t, n + 1>>}
  BY <1>3
<1>. QED  BY <1>1, <1>2, <1>4

LEMMA Nothing == /\ \A t : Upto(t, 0) = <<>>
                 /\ SetOf(<<>>) = {} /\ \A x : SetOf(<<x>>) = {x}
                 /\ \A X : Select(<<>>, X) = <<>>
<1>1. \A t : Upto(t, 0) = <<>>
  BY DEF Upto
<1>2. SetOf(<<>>) = {} /\ \A x : SetOf(<<x>>) = {x}
  BY DEF SetOf
<1>3. ASSUME NEW X PROVE Select(<<>>, X) = <<>>
  <2>1. <<>> \in Seq({}) /\ \A i \in 1 .. Len(<<>>) : <<>>[i] \notin X
    OBVIOUS
  <2>. QED  BY <2>1, ChosenNone
<1>. QED  BY <1>1, <1>2, <1>3

LEMMA ThirdAt == ASSUME NEW k \in Nat, NEW x \in Nat, 3 * k <= x, x < 3 * k + 3 PROVE x \div 3 = k
  OBVIOUS

(* What has been heard up to a write, and up to the next. *)
LEMMA Thirds ==
  ASSUME NEW k \in Nat, NEW p \in Nat
  PROVE  /\ p = 3 * k => /\ p \div 3 = k /\ (p + 1) \div 3 = k /\ (p + 2) \div 3 = k
                         /\ (p + 1 + 1) \div 3 = k /\ (p + 1 + 2) \div 3 = k + 1
         /\ p = 3 * k + 1 => /\ p \div 3 = k /\ (p + 1) \div 3 = k /\ (p + 2) \div 3 = k + 1
                             /\ (p + 1 + 1) \div 3 = k + 1 /\ (p + 1 + 2) \div 3 = k + 1
         /\ p = 3 * k + 2 => /\ p \div 3 = k /\ (p + 1) \div 3 = k + 1 /\ (p + 2) \div 3 = k + 1
                             /\ (p + 1 + 1) \div 3 = k + 1 /\ (p + 1 + 2) \div 3 = k + 1
<1>1. k + 1 \in Nat /\ p + 1 \in Nat /\ p + 2 \in Nat /\ p + 1 + 1 \in Nat /\ p + 1 + 2 \in Nat
  OBVIOUS
<1>2. CASE p = 3 * k
  <2>1. p \div 3 = k /\ (p + 1) \div 3 = k /\ (p + 2) \div 3 = k /\ (p + 1 + 1) \div 3 = k
    BY <1>1, <1>2, ThirdAt
  <2>2. (p + 1 + 2) \div 3 = k + 1
    BY <1>1, <1>2, ThirdAt
  <2>. QED  BY <1>2, <2>1, <2>2
<1>3. CASE p = 3 * k + 1
  <2>1. p \div 3 = k /\ (p + 1) \div 3 = k
    BY <1>1, <1>3, ThirdAt
  <2>2. (p + 2) \div 3 = k + 1 /\ (p + 1 + 1) \div 3 = k + 1 /\ (p + 1 + 2) \div 3 = k + 1
    BY <1>1, <1>3, ThirdAt
  <2>. QED  BY <1>3, <2>1, <2>2
<1>4. CASE p = 3 * k + 2
  <2>1. p \div 3 = k
    BY <1>1, <1>4, ThirdAt
  <2>2. (p + 1) \div 3 = k + 1 /\ (p + 2) \div 3 = k + 1 /\ (p + 1 + 1) \div 3 = k + 1 /\ (p + 1 + 2) \div 3 = k + 1
    BY <1>1, <1>4, ThirdAt
  <2>. QED  BY <1>4, <2>1, <2>2
<1>. QED  BY <1>2, <1>3, <1>4

LEMMA Third == \A p \in Nat : p \div 3 \in Nat /\ (p + 1) \div 3 \in Nat /\ (p + 2) \div 3 \in Nat
                              /\ 3 * (p \div 3) <= p /\ p < 3 * (p \div 3) + 3
                              /\ 3 * ((p + 1) \div 3) <= p + 1 /\ p + 1 < 3 * ((p + 1) \div 3) + 3
                              /\ 3 * ((p + 2) \div 3) <= p + 2 /\ p + 2 < 3 * ((p + 2) \div 3) + 3
  OBVIOUS

(* A write of the turn, as the foreground hears it. *)
LEMMA OwnWrite ==
  ASSUME ShapeOK, WritesOK, Hear, bound \in Lines, WriteOf(stream.frames[1], bound)
  PROVE  LET frame == stream.frames[1]
             m == frame.of[2]
         IN /\ m \in Nat \ {0} /\ m \in Messages /\ frame.of = <<bound, m>>
            /\ frame.kind = "message" => Number(frame) = 3 * m - 2
            /\ frame.kind = "text" => Number(frame) = 3 * m - 1
            /\ frame.kind = "completed" => Number(frame) = 3 * m
            /\ Number(frame) <= written[bound]
            /\ \A j \in DOMAIN stream'.frames :
                  WriteOf(stream'.frames[j], bound) => Number(stream'.frames[j]) > Number(frame)
<1> DEFINE frame == stream.frames[1]
<1>1. /\ stream.frames \in Seq(Frames) /\ 1 \in DOMAIN stream.frames
      /\ \A i \in DOMAIN stream'.frames : /\ i \in Nat \ {0} /\ i + 1 \in DOMAIN stream.frames
                                          /\ stream'.frames[i] = stream.frames[i + 1]
  BY Next1, Stream
<1>2. \A j \in DOMAIN stream.frames : Number(stream.frames[j]) \in Int
  BY <1>1, Stream
<1>3. frame.of \in Lines \X Messages /\ Number(frame) <= written[frame.of[1]] /\ frame.of[1] = bound
  BY <1>1 DEF WritesOK, WriteOf
<1>4. frame.of = <<bound, frame.of[2]>> /\ frame.of[2] \in Messages /\ frame.of[2] \in Nat \ {0}
  BY <1>3 DEF Messages
<1>5. ASSUME NEW j \in DOMAIN stream'.frames, WriteOf(stream'.frames[j], bound)
      PROVE  Number(stream'.frames[j]) > Number(frame)
  <2>1. 1 < j + 1 /\ j + 1 \in DOMAIN stream.frames /\ stream'.frames[j] = stream.frames[j + 1]
    BY <1>1
  <2>2. Number(frame) < Number(stream.frames[j + 1])
    BY <1>1, <1>5, <2>1 DEF WritesOK
  <2>. QED  BY <1>1, <1>2, <2>1, <2>2
<1>6. /\ frame.kind = "message" => Number(frame) = 3 * frame.of[2] - 2
      /\ frame.kind = "text" => Number(frame) = 3 * frame.of[2] - 1
      /\ frame.kind = "completed" => Number(frame) = 3 * frame.of[2]
  BY <1>4 DEF Number
<1>. QED  BY <1>3, <1>4, <1>5, <1>6

(* The turn has been observed: what is new is added, what is old is not. *)
LEMMA HearObserved ==
  ASSUME TypeOK, ShapeOK, FieldsOK, WritesOK, Hear, bound \in Lines, NEW p \in Nat, HeardUpTo(p), Unbroken(bound, p),
         mapper.observed, WriteOf(stream.frames[1], bound)
  PROVE  \E q \in Nat : /\ p <= q /\ Number(stream.frames[1]) <= q /\ (q = p \/ q = Number(stream.frames[1]))
                        /\ HeardUpTo(q)'
<1> DEFINE frame == stream.frames[1]
           m == frame.of[2]
           n == Number(frame)
           T == (p + 1) \div 3
           U == p \div 3
           I == (p + 2) \div 3
<1>1. /\ heard.usage = Upto(bound, U) /\ mapper.metered = SetOf(Upto(bound, U)) /\ p >= 1 /\ mapper.queue = <<>>
      /\ heard.texts = Upto(bound, T) /\ mapper.texts = SetOf(Upto(bound, T)) /\ mapper.ids = SetOf(Upto(bound, I))
  BY DEF HeardUpTo
<1>2. /\ m \in Nat \ {0} /\ frame.of = <<bound, m>>
      /\ frame.kind = "message" => n = 3 * m - 2
      /\ frame.kind = "text" => n = 3 * m - 1
      /\ frame.kind = "completed" => n = 3 * m
  BY OwnWrite
<1>3. frame.kind \in Writes /\ Own(frame.of)
  BY DEF WriteOf, Own
<1>4. n <= p + 1
  BY <1>1, NextNumber
<1>5. UNCHANGED bound
  BY DEF Hear
<1>6. /\ frame.kind \in {"message", "completed"} => HearMessage(frame)
      /\ frame.kind = "text" => HearText(frame)
  BY <1>3, HearCases DEF Writes
<1> HIDE DEF frame, n, m
<1>7. T \in Nat /\ U \in Nat /\ I \in Nat
  BY Third
<1>8. Drained(frame.of) = <<>>
  BY <1>1, Nothing DEF Drained
<1>9. n = p + 1 \/ n <= p
  BY <1>2, <1>3, <1>4 DEF Writes
<1>10. /\ Upto(bound, T) \o <<>> = Upto(bound, T) /\ Upto(bound, U) \o <<>> = Upto(bound, U)
       /\ (frame.of \in mapper.ids <=> m <= I) /\ (frame.of \in mapper.texts <=> m <= T) /\ (frame.of \in mapper.metered <=> m <= U)
  <2>1. ASSUME NEW k \in Nat
        PROVE  Upto(bound, k) \o <<>> = Upto(bound, k) /\ (frame.of \in SetOf(Upto(bound, k)) <=> m <= k)
    <3>1. /\ Upto(bound, k) \o <<>> = Upto(bound, k)
          /\ \A i \in Nat : <<bound, i>> \in SetOf(Upto(bound, k)) <=> 1 <= i /\ i <= k
      BY Members
    <3>. QED  BY <1>2, <3>1
  <2> HIDE DEF T, U, I
  <2>. QED  BY <1>1, <1>7, <2>1
<1>11. CASE frame.kind = "message"
  <2>1. /\ mapper'.observed = TRUE /\ mapper'.queue = <<>> /\ mapper'.ids = mapper.ids \cup {frame.of}
        /\ mapper'.texts = mapper.texts /\ mapper'.metered = mapper.metered
        /\ heard'.texts = heard.texts /\ heard'.usage = heard.usage
    <3>1. Fresh(frame) = <<>>
      BY <1>11 DEF Fresh
    <3>2. HearMessage(frame)
      BY <1>6, <1>11
    <3>3. /\ mapper'.observed = TRUE /\ mapper'.queue = <<>> /\ mapper'.ids = mapper.ids \cup {frame.of}
          /\ mapper'.texts = mapper.texts \cup SetOf(Drained(frame.of))
          /\ mapper'.metered = mapper.metered \cup SetOf(Fresh(frame))
          /\ heard'.texts = heard.texts \o Drained(frame.of)
          /\ heard'.usage = heard.usage \o Fresh(frame)
      BY <1>3, <3>2, MessageHeard
    <3>. QED  BY <1>1, <1>8, <1>10, <3>1, <3>3, Nothing
  <2>2. CASE n <= p
    <3>1. m <= I
      BY <1>2, <1>11, <2>2
    <3>2. mapper'.ids = mapper.ids
      BY <1>10, <2>1, <3>1
    <3>3. HeardUpTo(p)'
      BY <1>1, <1>5, <2>1, <3>2 DEF HeardUpTo
    <3>. QED  BY <2>2, <3>3 DEF n, frame
  <2>3. CASE n = p + 1
    <3>1. p = 3 * (m - 1) /\ m - 1 \in Nat /\ p + 1 \in Nat /\ p + 1 >= 1
      BY <1>2, <1>11, <2>3
    <3>2. U = m - 1 /\ T = m - 1 /\ I = m - 1 /\ (p + 1) \div 3 = m - 1 /\ (p + 1 + 1) \div 3 = m - 1 /\ (p + 1 + 2) \div 3 = m
      <4>1. (m - 1) + 1 = m /\ m - 1 \in Nat
        BY <1>2
      <4>. QED  BY <3>1, <4>1, Thirds
    <3>3. mapper'.ids = SetOf(Upto(bound, m))
      <4>1. m - 1 \in Nat /\ (m - 1) + 1 = m
        BY <1>2
      <4>2. SetOf(Upto(bound, (m - 1) + 1)) = SetOf(Upto(bound, m - 1)) \cup {<<bound, (m - 1) + 1>>}
        BY <4>1, Members
      <4>. QED  BY <1>1, <1>2, <2>1, <3>2, <4>1, <4>2
    <3>4. HeardUpTo(p + 1)'
      BY <1>1, <1>5, <2>1, <3>1, <3>2, <3>3 DEF HeardUpTo
    <3>. QED  BY <2>3, <3>1, <3>4 DEF n, frame
  <2>. QED  BY <1>9, <2>2, <2>3
<1>12. CASE frame.kind = "completed"
  <2>1. /\ mapper'.observed = TRUE /\ mapper'.queue = <<>> /\ mapper'.ids = mapper.ids \cup {frame.of}
        /\ mapper'.texts = mapper.texts /\ mapper'.metered = mapper.metered \cup SetOf(Fresh(frame))
        /\ heard'.texts = heard.texts /\ heard'.usage = heard.usage \o Fresh(frame)
    <3>2. HearMessage(frame)
      BY <1>6, <1>12
    <3>3. /\ mapper'.observed = TRUE /\ mapper'.queue = <<>> /\ mapper'.ids = mapper.ids \cup {frame.of}
          /\ mapper'.texts = mapper.texts \cup SetOf(Drained(frame.of))
          /\ mapper'.metered = mapper.metered \cup SetOf(Fresh(frame))
          /\ heard'.texts = heard.texts \o Drained(frame.of)
          /\ heard'.usage = heard.usage \o Fresh(frame)
      BY <1>3, <3>2, MessageHeard
    <3>. QED  BY <1>1, <1>8, <1>10, <3>3, Nothing
  <2>2. CASE n <= p
    <3>1. m <= I /\ m <= U
      BY <1>2, <1>12, <2>2
    <3>2. mapper'.ids = mapper.ids /\ Fresh(frame) = <<>>
      BY <1>10, <2>1, <3>1 DEF Fresh
    <3>3. HeardUpTo(p)'
      BY <1>1, <1>5, <1>10, <2>1, <3>2, Nothing DEF HeardUpTo
    <3>. QED  BY <2>2, <3>3 DEF n, frame
  <2>3. CASE n = p + 1
    <3>1. p = 3 * (m - 1) + 2 /\ m - 1 \in Nat /\ p + 1 \in Nat /\ p + 1 >= 1
      BY <1>2, <1>12, <2>3
    <3>2. U = m - 1 /\ T = m /\ I = m /\ (p + 1) \div 3 = m /\ (p + 1 + 1) \div 3 = m /\ (p + 1 + 2) \div 3 = m
      <4>1. (m - 1) + 1 = m /\ m - 1 \in Nat
        BY <1>2
      <4>. QED  BY <3>1, <4>1, Thirds
    <3>3. Fresh(frame) = <<<<bound, m>>>> /\ mapper'.ids = mapper.ids
      <4>1. frame.of \notin mapper.metered /\ frame.of \in mapper.ids
        BY <1>2, <1>10, <3>2
      <4>. QED  BY <1>2, <1>12, <2>1, <4>1 DEF Fresh
    <3>4. mapper'.metered = SetOf(Upto(bound, m)) /\ heard'.usage = Upto(bound, m)
      <4>1. m - 1 \in Nat /\ (m - 1) + 1 = m
        BY <1>2
      <4>2. /\ SetOf(Upto(bound, (m - 1) + 1)) = SetOf(Upto(bound, m - 1)) \cup {<<bound, (m - 1) + 1>>}
            /\ Upto(bound, m - 1) \o <<<<bound, (m - 1) + 1>>>> = Upto(bound, (m - 1) + 1)
        BY <4>1, Members, UptoNext
      <4>3. SetOf(Fresh(frame)) = {<<bound, m>>}
        BY <3>3, Nothing
      <4>. QED  BY <1>1, <2>1, <3>2, <3>3, <4>1, <4>2, <4>3
    <3>5. HeardUpTo(p + 1)'
      BY <1>1, <1>5, <2>1, <3>1, <3>2, <3>3, <3>4 DEF HeardUpTo
    <3>. QED  BY <2>3, <3>1, <3>5 DEF n, frame
  <2>. QED  BY <1>9, <2>2, <2>3
<1>13. CASE frame.kind = "text"
  <2>1. HearText(frame)
    BY <1>6, <1>13
  <2>2. CASE n <= p
    <3>1. m <= T
      BY <1>2, <1>13, <2>2
    <3>2. UNCHANGED <<mapper, heard>>
      BY <1>10, <2>1, <3>1 DEF HearText
    <3>3. HeardUpTo(p)'
      BY <1>1, <1>5, <3>2 DEF HeardUpTo
    <3>. QED  BY <2>2, <3>3 DEF n, frame
  <2>3. CASE n = p + 1
    <3>1. p = 3 * (m - 1) + 1 /\ m - 1 \in Nat /\ p + 1 \in Nat /\ p + 1 >= 1
      BY <1>2, <1>13, <2>3
    <3>2. U = m - 1 /\ T = m - 1 /\ I = m /\ (p + 1) \div 3 = m - 1 /\ (p + 1 + 1) \div 3 = m /\ (p + 1 + 2) \div 3 = m
      <4>1. (m - 1) + 1 = m /\ m - 1 \in Nat
        BY <1>2
      <4>. QED  BY <3>1, <4>1, Thirds
    <3>3. frame.of \in mapper.ids \ mapper.texts
      BY <1>2, <1>10, <3>2
    <3>4. /\ mapper' = [mapper EXCEPT !.texts = @ \cup {frame.of}]
          /\ heard' = [heard EXCEPT !.texts = Append(@, frame.of)]
      BY <2>1, <3>3 DEF HearText
    <3>5. /\ mapper'.observed = mapper.observed /\ mapper'.queue = mapper.queue /\ mapper'.ids = mapper.ids
          /\ mapper'.metered = mapper.metered /\ heard'.usage = heard.usage
          /\ mapper'.texts = mapper.texts \cup {frame.of} /\ heard'.texts = Append(heard.texts, frame.of)
      BY <3>4 DEF FieldsOK
    <3>6. mapper'.texts = SetOf(Upto(bound, m)) /\ heard'.texts = Upto(bound, m)
      <4>1. m - 1 \in Nat /\ (m - 1) + 1 = m
        BY <1>2
      <4>2. /\ SetOf(Upto(bound, (m - 1) + 1)) = SetOf(Upto(bound, m - 1)) \cup {<<bound, (m - 1) + 1>>}
            /\ Append(Upto(bound, m - 1), <<bound, (m - 1) + 1>>) = Upto(bound, (m - 1) + 1)
        BY <4>1, Members, UptoNext
      <4>. QED  BY <1>1, <1>2, <3>2, <3>5, <4>1, <4>2
    <3>7. HeardUpTo(p + 1)'
      BY <1>1, <1>5, <3>1, <3>2, <3>5, <3>6 DEF HeardUpTo
    <3>. QED  BY <2>3, <3>1, <3>7 DEF n, frame
  <2>. QED  BY <1>9, <2>2, <2>3
<1>. QED  BY <1>3, <1>11, <1>12, <1>13 DEF Writes

(* What is drained from the queue while nothing of the turn was observed. *)
LEMMA Drains ==
  ASSUME QueueOK, mapper.ids = {}, mapper.texts = {}, NEW of
  PROVE  /\ (\A i \in DOMAIN mapper.queue : mapper.queue[i] # of) => Drained(of) = <<>>
         /\ (\E i \in DOMAIN mapper.queue : mapper.queue[i] = of) => Drained(of) = <<of>>
<1> DEFINE queue == mapper.queue
<1>1. Drained(of) = Select(queue, {of})
  <2>1. (mapper.ids \cup {of}) \ mapper.texts = {of}
    OBVIOUS
  <2>. QED  BY <2>1 DEF Drained
<1>2. queue \in Seq(Lines \X Messages) /\ \A i, j \in DOMAIN queue : queue[i] = queue[j] => i = j
  BY DEF QueueOK
<1> HIDE DEF queue
<1>3. Len(queue) \in Nat /\ DOMAIN queue = 1 .. Len(queue)
  BY <1>2
<1>4. ASSUME \A i \in DOMAIN queue : queue[i] # of PROVE Select(queue, {of}) = <<>>
  BY <1>2, <1>3, <1>4, ChosenNone
<1>5. ASSUME NEW i \in DOMAIN queue, queue[i] = of PROVE Select(queue, {of}) = <<of>>
  <2>1. \A j \in 1 .. Len(queue) : queue[j] \in {of} <=> j = i
    BY <1>2, <1>3, <1>5
  <2>2. Select(queue, {of}) = <<queue[i]>>
    BY <1>2, <1>3, <2>1, ChosenOne
  <2>. QED  BY <1>5, <2>2
<1>. QED  BY <1>1, <1>4, <1>5 DEF queue

(* Nothing of the turn was observed: its first message brings the text that was kept. *)
LEMMA HeardSoFar ==
  ASSUME NEW q \in Nat, q >= 1, mapper'.observed, mapper'.queue = <<>>,
         heard'.usage = Upto(bound', q \div 3), mapper'.metered = SetOf(Upto(bound', q \div 3)),
         heard'.texts = Upto(bound', (q + 1) \div 3), mapper'.texts = SetOf(Upto(bound', (q + 1) \div 3)),
         mapper'.ids = SetOf(Upto(bound', (q + 2) \div 3))
  PROVE  HeardUpTo(q)'
BY DEF HeardUpTo

LEMMA HearFirst ==
  ASSUME TypeOK, ShapeOK, FieldsOK, WritesOK, QueueOK, Room, Hear, bound \in Lines,
         NEW p \in Nat, HeardUpTo(p), Unbroken(bound, p), ~mapper.observed, WriteOf(stream.frames[1], bound)
  PROVE  \E q \in Nat : p <= q /\ q = Number(stream.frames[1]) /\ HeardUpTo(q)'
<1> DEFINE frame == stream.frames[1]
           m == frame.of[2]
           n == Number(frame)
<1>1. /\ p \in {0, 2} /\ heard.texts = <<>> /\ mapper.texts = {} /\ mapper.ids = {}
      /\ \A i \in DOMAIN mapper.queue : mapper.queue[i][1] = bound => mapper.queue[i] = <<bound, 1>>
      /\ p = 2 <=> \E i \in DOMAIN mapper.queue : mapper.queue[i] = <<bound, 1>>
      /\ n > p
      /\ heard.usage = Upto(bound, p \div 3) /\ mapper.metered = SetOf(Upto(bound, p \div 3))
  BY Next1 DEF HeardUpTo
<1>2. /\ m \in Nat \ {0} /\ frame.of = <<bound, m>>
      /\ frame.kind = "message" => n = 3 * m - 2
      /\ frame.kind = "text" => n = 3 * m - 1
      /\ frame.kind = "completed" => n = 3 * m
      /\ \A j \in DOMAIN stream'.frames : WriteOf(stream'.frames[j], bound) => Number(stream'.frames[j]) > n
  BY OwnWrite
<1>3. frame.kind \in Writes /\ Own(frame.of)
  BY DEF WriteOf, Own
<1>4. n <= p + 1 \/ (p = 0 /\ n = 2)
  BY NextNumber
<1>5. UNCHANGED bound
  BY DEF Hear
<1>6. /\ frame.kind \in {"message", "completed"} => HearMessage(frame)
      /\ frame.kind = "text" => HearText(frame)
  BY <1>3, HearCases DEF Writes
<1> HIDE DEF frame, n, m
<1>7. /\ Upto(bound, 0) = <<>> /\ SetOf(<<>>) = {} /\ Upto(bound, 1) = <<<<bound, 1>>>>
      /\ SetOf(<<<<bound, 1>>>>) = {<<bound, 1>>}
  <2>1. Upto(bound, 1) = <<<<bound, 1>>>>
    BY DEF Upto
  <2>. QED  BY <2>1, Nothing
<1>8. /\ 0 \div 3 = 0 /\ 2 \div 3 = 0 /\ 1 \div 3 = 0 /\ (1 + 1) \div 3 = 0 /\ (1 + 2) \div 3 = 1
      /\ 3 \div 3 = 1 /\ (3 + 1) \div 3 = 1 /\ (3 + 2) \div 3 = 1
  OBVIOUS
<1>9. heard.usage = <<>> /\ mapper.metered = {}
  BY <1>1, <1>7, <1>8
<1>10. \/ p = 0 /\ frame.kind = "message" /\ m = 1 /\ n = 1
       \/ p = 0 /\ frame.kind = "text" /\ m = 1 /\ n = 2
       \/ p = 2 /\ frame.kind = "completed" /\ m = 1 /\ n = 3
  <2>1. \/ p = 0 /\ n = 1
        \/ p = 0 /\ n = 2
        \/ p = 2 /\ n = 3
    BY <1>1, <1>2, <1>3, <1>4 DEF Writes
  <2>. QED  BY <1>2, <1>3, <2>1 DEF Writes
<1>11. CASE p = 0 /\ frame.kind = "message" /\ m = 1 /\ n = 1
  <2>1. Fresh(frame) = <<>> /\ HearMessage(frame)
    BY <1>6, <1>11 DEF Fresh
  <2>2. Drained(frame.of) = <<>>
    BY <1>1, <1>2, <1>11, Drains
  <2>3. /\ mapper'.observed = TRUE /\ mapper'.queue = <<>> /\ mapper'.ids = {<<bound, 1>>}
        /\ mapper'.texts = {} /\ mapper'.metered = {} /\ heard'.texts = <<>> /\ heard'.usage = <<>>
    <3>1. /\ mapper'.observed = TRUE /\ mapper'.queue = <<>> /\ mapper'.ids = mapper.ids \cup {frame.of}
          /\ mapper'.texts = mapper.texts \cup SetOf(<<>>) /\ mapper'.metered = mapper.metered \cup SetOf(<<>>)
          /\ heard'.texts = heard.texts \o <<>> /\ heard'.usage = heard.usage \o <<>>
      BY <1>3, <2>1, <2>2, MessageHeard
    <3>. QED  BY <1>1, <1>2, <1>7, <1>9, <1>11, <3>1
  <2>4. ASSUME NEW q \in Nat, q = 1 PROVE HeardUpTo(q)'
    <3>1. q \div 3 = 0 /\ (q + 1) \div 3 = 0 /\ (q + 2) \div 3 = 1
      BY <1>8, <2>4
    <3>2. /\ heard'.usage = Upto(bound', q \div 3) /\ mapper'.metered = SetOf(Upto(bound', q \div 3))
          /\ heard'.texts = Upto(bound', (q + 1) \div 3) /\ mapper'.texts = SetOf(Upto(bound', (q + 1) \div 3))
          /\ mapper'.ids = SetOf(Upto(bound', (q + 2) \div 3))
      BY <1>5, <1>7, <2>3, <3>1
    <3>3. q >= 1 /\ mapper'.observed /\ mapper'.queue = <<>>
      BY <2>3, <2>4
    <3>. QED  BY ONLY <3>2, <3>3, HeardSoFar
  <2>. QED  BY <1>11, <2>4 DEF n, frame
<1>12. CASE p = 2 /\ frame.kind = "completed" /\ m = 1 /\ n = 3
  <2>1. Fresh(frame) = <<<<bound, 1>>>> /\ HearMessage(frame)
    BY <1>2, <1>6, <1>9, <1>12 DEF Fresh
  <2>2. Drained(frame.of) = <<<<bound, 1>>>>
    BY <1>1, <1>2, <1>12, Drains
  <2>3. /\ mapper'.observed = TRUE /\ mapper'.queue = <<>> /\ mapper'.ids = {<<bound, 1>>}
        /\ mapper'.texts = {<<bound, 1>>} /\ mapper'.metered = {<<bound, 1>>}
        /\ heard'.texts = <<<<bound, 1>>>> /\ heard'.usage = <<<<bound, 1>>>>
    <3>1. /\ mapper'.observed = TRUE /\ mapper'.queue = <<>> /\ mapper'.ids = mapper.ids \cup {frame.of}
          /\ mapper'.texts = mapper.texts \cup SetOf(<<<<bound, 1>>>>)
          /\ mapper'.metered = mapper.metered \cup SetOf(<<<<bound, 1>>>>)
          /\ heard'.texts = heard.texts \o <<<<bound, 1>>>> /\ heard'.usage = heard.usage \o <<<<bound, 1>>>>
      BY <1>3, <2>1, <2>2, MessageHeard
    <3>. QED  BY <1>1, <1>2, <1>7, <1>9, <1>12, <3>1
  <2>4. ASSUME NEW q \in Nat, q = 3 PROVE HeardUpTo(q)'
    <3>1. q \div 3 = 1 /\ (q + 1) \div 3 = 1 /\ (q + 2) \div 3 = 1
      BY <1>8, <2>4
    <3>2. /\ heard'.usage = Upto(bound', q \div 3) /\ mapper'.metered = SetOf(Upto(bound', q \div 3))
          /\ heard'.texts = Upto(bound', (q + 1) \div 3) /\ mapper'.texts = SetOf(Upto(bound', (q + 1) \div 3))
          /\ mapper'.ids = SetOf(Upto(bound', (q + 2) \div 3))
      BY <1>5, <1>7, <2>3, <3>1
    <3>3. q >= 1 /\ mapper'.observed /\ mapper'.queue = <<>>
      BY <2>3, <2>4
    <3>. QED  BY ONLY <3>2, <3>3, HeardSoFar
  <2>. QED  BY <1>12, <2>4 DEF n, frame
<1>13. CASE p = 0 /\ frame.kind = "text" /\ m = 1 /\ n = 2
  <2>1. \A i \in DOMAIN mapper.queue : mapper.queue[i][1] # bound
    BY <1>1, <1>13
  <2>2. mapper' = [mapper EXCEPT !.queue = Append(@, frame.of)] /\ heard' = heard
    BY <1>6, <1>13, <2>1, RoomLeft DEF HearText
  <2>3. /\ mapper'.observed = mapper.observed /\ mapper'.ids = {} /\ mapper'.texts = {} /\ mapper'.metered = {}
        /\ mapper'.queue = Append(mapper.queue, <<bound, 1>>)
    BY <1>1, <1>2, <1>9, <1>13, <2>2 DEF FieldsOK
  <2>4. mapper.queue \in Seq(Lines \X Messages) /\ <<bound, 1>> \in Lines \X Messages
    BY Bounds DEF QueueOK, Messages
  <2>5. /\ DOMAIN mapper'.queue = 1 .. Len(mapper.queue) + 1 /\ Len(mapper.queue) \in Nat
        /\ DOMAIN mapper.queue = 1 .. Len(mapper.queue)
        /\ \A i \in 1 .. Len(mapper.queue) + 1 :
              mapper'.queue[i] = IF i = Len(mapper.queue) + 1 THEN <<bound, 1>> ELSE mapper.queue[i]
    <3> DEFINE queue == mapper.queue
               longer == Append(queue, <<bound, 1>>)
    <3> HIDE DEF queue
    <3>1. queue \in Seq(Lines \X Messages)
      BY <2>4 DEF queue
    <3>2. /\ longer \in Seq(Lines \X Messages) /\ Len(longer) = Len(queue) + 1
          /\ \A i \in 1 .. Len(queue) + 1 : longer[i] = IF i = Len(queue) + 1 THEN <<bound, 1>> ELSE queue[i]
      BY <2>4, <3>1, Appended
    <3>3. Len(queue) \in Nat /\ DOMAIN queue = 1 .. Len(queue)
      BY <3>1
    <3> HIDE DEF longer
    <3>4. DOMAIN longer = 1 .. Len(queue) + 1
      BY <3>2
    <3>5. mapper'.queue = longer
      BY <2>3 DEF longer, queue
    <3>. QED  BY <3>2, <3>3, <3>4, <3>5 DEF queue
  <2>6. /\ \A i \in DOMAIN mapper'.queue : mapper'.queue[i][1] = bound => mapper'.queue[i] = <<bound, 1>>
        /\ \E i \in DOMAIN mapper'.queue : mapper'.queue[i] = <<bound, 1>>
    <3> DEFINE queue == mapper.queue
               longer == mapper'.queue
    <3>1. /\ DOMAIN longer = 1 .. Len(queue) + 1 /\ Len(queue) \in Nat /\ DOMAIN queue = 1 .. Len(queue)
          /\ \A i \in 1 .. Len(queue) + 1 : longer[i] = IF i = Len(queue) + 1 THEN <<bound, 1>> ELSE queue[i]
      BY <2>5
    <3>2. \A i \in DOMAIN queue : queue[i][1] # bound
      BY <2>1
    <3> HIDE DEF queue, longer
    <3>3. Len(queue) + 1 \in DOMAIN longer /\ longer[Len(queue) + 1] = <<bound, 1>>
      BY <3>1
    <3>4. ASSUME NEW i \in DOMAIN longer, longer[i][1] = bound PROVE longer[i] = <<bound, 1>>
      <4>1. i # Len(queue) + 1 => i \in DOMAIN queue /\ longer[i] = queue[i]
        BY <3>1
      <4>. QED  BY <3>1, <3>2, <3>4, <4>1
    <3>. QED  BY <3>3, <3>4 DEF longer
  <2>7. \A i \in DOMAIN stream'.frames : WriteOf(stream'.frames[i], bound) => Number(stream'.frames[i]) > 2
    BY <1>2, <1>13
  <2>8. heard'.texts = <<>> /\ heard'.usage = <<>>
    BY <1>1, <1>9, <2>2
  <2>9. ASSUME NEW q \in Nat, q = 2 PROVE HeardUpTo(q)'
    <3>1. q \div 3 = 0
      BY <1>8, <2>9
    <3>2. heard'.usage = Upto(bound', q \div 3) /\ mapper'.metered = SetOf(Upto(bound', q \div 3))
      BY <1>5, <1>7, <2>3, <2>8, <3>1
    <3>3. ~mapper'.observed
      BY <2>3
    <3>4. \A i \in DOMAIN mapper'.queue : mapper'.queue[i][1] = bound' => mapper'.queue[i] = <<bound', 1>>
      BY <1>5, <2>6
    <3>5. \E i \in DOMAIN mapper'.queue : mapper'.queue[i] = <<bound', 1>>
      BY <1>5, <2>6
    <3>6. \A i \in DOMAIN stream'.frames : WriteOf(stream'.frames[i], bound') => Number(stream'.frames[i]) > q
      BY <1>5, <2>7, <2>9
    <3>. QED  BY <2>3, <2>8, <2>9, <3>2, <3>3, <3>4, <3>5, <3>6 DEF HeardUpTo
  <2>. QED  BY <1>13, <2>9 DEF n, frame
<1>. QED  BY <1>10, <1>11, <1>12, <1>13

(* Another turn's frame, or one that ends nothing, adds nothing. *)
LEMMA HearOther ==
  ASSUME TypeOK, ShapeOK, FieldsOK, FramesOK, WritesOK, QueueOK, Hear, bound \in Lines, ending[bound] # "aborted",
         NEW p \in Nat, HeardUpTo(p), ~WriteOf(stream.frames[1], bound), stream.frames[1].kind # "error"
  PROVE  HeardUpTo(p)' /\ mapper'.observed = mapper.observed
<1> DEFINE frame == stream.frames[1]
<1>1. UNCHANGED bound
  BY DEF Hear
<1>2. ~mapper.observed => \A i \in DOMAIN stream'.frames :
         WriteOf(stream'.frames[i], bound) => Number(stream'.frames[i]) > p
  BY Next1 DEF HeardUpTo
<1>3. CASE UNCHANGED <<mapper, heard>>
  BY <1>1, <1>2, <1>3, HeardKept
<1>4. CASE frame.kind \in {"message", "completed", "aborted"} /\ HearMessage(frame)
  <2>1. ~Own(frame.of)
    <3>1. 1 \in DOMAIN stream.frames
      BY Next1
    <3>2. frame.kind = "aborted" => frame.of[1] # bound
      BY <3>1 DEF FramesOK
    <3>. QED  BY <1>4, <3>2 DEF Own, WriteOf, Writes
  <2>. QED  BY <1>3, <1>4, <2>1 DEF HearMessage
<1>5. CASE frame.kind = "text" /\ HearText(frame)
  <2>0. frame.of[1] # bound
    BY <1>5 DEF WriteOf, Writes
  <2>1. CASE mapper.observed
    <3>1. frame.of \notin mapper.ids
      <4>1. \A of \in mapper.ids : of[1] = bound
        <5>1. (p + 2) \div 3 \in Nat /\ mapper.ids = SetOf(Upto(bound, (p + 2) \div 3))
          <6>1. (p + 2) \div 3 \in Nat
            BY Third
          <6>2. mapper.observed => mapper.ids = SetOf(Upto(bound, (p + 2) \div 3))
            BY DEF HeardUpTo
          <6>. QED  BY <2>1, <6>1, <6>2
        <5>2. PICK n \in Nat : mapper.ids = SetOf(Upto(bound, n))
          BY <5>1
        <5>3. \A of \in SetOf(Upto(bound, n)) : of[1] = bound
          BY ONLY n \in Nat, Members
        <5>. QED  BY <5>2, <5>3
      <4>. QED  BY <2>0, <4>1
    <3>2. UNCHANGED <<mapper, heard>>
      BY <1>5, <2>1, <3>1 DEF HearText
    <3>. QED  BY <1>3, <3>2
  <2>2. CASE ~mapper.observed /\ mapper' = mapper
    <3>1. UNCHANGED <<mapper, heard>>
      BY <1>5, <2>2 DEF HearText
    <3>. QED  BY <1>3, <3>1
  <2>3. CASE ~mapper.observed /\ mapper' # mapper
    <3>1. mapper' = [mapper EXCEPT !.queue = Append(@, frame.of)] /\ heard' = heard
      BY <1>5, <2>3 DEF HearText
    <3>2. /\ mapper'.observed = mapper.observed /\ mapper'.ids = mapper.ids /\ mapper'.texts = mapper.texts
          /\ mapper'.metered = mapper.metered /\ mapper'.queue = Append(mapper.queue, frame.of)
      BY <3>1 DEF FieldsOK
    <3>3. mapper.queue \in Seq(Lines \X Messages) /\ frame.of \in Lines \X Messages
      BY <1>5, Next1 DEF QueueOK, WritesOK, Writes
    <3>4. /\ DOMAIN mapper.queue \subseteq DOMAIN mapper'.queue
          /\ \A i \in DOMAIN mapper.queue : mapper'.queue[i] = mapper.queue[i]
          /\ \A i \in DOMAIN mapper'.queue : mapper'.queue[i] = frame.of \/ (i \in DOMAIN mapper.queue /\ mapper'.queue[i] = mapper.queue[i])
      <4> DEFINE queue == mapper.queue
                 longer == Append(queue, frame.of)
      <4> HIDE DEF queue, frame
      <4>1. queue \in Seq(Lines \X Messages) /\ frame.of \in Lines \X Messages
        BY <3>3 DEF queue
      <4>2. /\ longer \in Seq(Lines \X Messages) /\ Len(longer) = Len(queue) + 1
            /\ \A i \in 1 .. Len(queue) + 1 : longer[i] = IF i = Len(queue) + 1 THEN frame.of ELSE queue[i]
        BY <4>1, Appended
      <4>3. Len(queue) \in Nat /\ DOMAIN queue = 1 .. Len(queue)
        BY <4>1
      <4> HIDE DEF longer
      <4>4. DOMAIN longer = 1 .. Len(queue) + 1
        BY <4>2
      <4>5. mapper'.queue = longer
        BY <3>2 DEF longer, queue, frame
      <4>. QED  BY <4>2, <4>3, <4>4, <4>5 DEF queue
    <3>5. /\ \A i \in DOMAIN mapper'.queue : mapper'.queue[i][1] = bound => mapper'.queue[i] = <<bound, 1>>
          /\ p = 2 <=> \E i \in DOMAIN mapper'.queue : mapper'.queue[i] = <<bound, 1>>
      <4>1. /\ \A i \in DOMAIN mapper.queue : mapper.queue[i][1] = bound => mapper.queue[i] = <<bound, 1>>
            /\ p = 2 <=> \E i \in DOMAIN mapper.queue : mapper.queue[i] = <<bound, 1>>
        BY <2>3 DEF HeardUpTo
      <4>2. frame.of # <<bound, 1>>
        BY <2>0
      <4> HIDE DEF frame
      <4>. QED  BY <2>0, <3>4, <4>1, <4>2
    <3>. QED  BY <1>1, <1>2, <2>3, <3>1, <3>2, <3>5 DEF HeardUpTo
  <2>. QED  BY <2>1, <2>2, <2>3
<1>6. CASE frame.kind = "idle" /\ mapper' = mapper /\ heard' = heard
  BY <1>3, <1>6
<1>. QED  BY <1>4, <1>5, <1>6, HearCases

(* Who has read the last write has heard the turn whole. *)
LEMMA Complete ==
  ASSUME NEW q \in Nat, q = 3 * Replies, HeardUpTo(q)'
  PROVE  heard'.texts = InOrder' /\ heard'.usage = InOrder'
<1>1. Replies \in Nat \ {0}
  BY Bounds
<1>2. q \div 3 = Replies /\ (q + 1) \div 3 = Replies /\ q \notin {0, 2}
  BY <1>1, Thirds
<1>3. heard'.usage = Upto(bound', Replies) /\ heard'.texts = Upto(bound', Replies)
  BY <1>2 DEF HeardUpTo
<1>4. Upto(bound', Replies) = InOrder'
  BY DEF Upto, InOrder, Messages
<1>. QED  BY <1>3, <1>4

(* What was read of the turn, and of the frame. *)
LEMMA HearReads ==
  ASSUME TypeOK, BoundOK, EInv, WInv, Room, Hear, bound \in Lines, ending[bound] \in {"open", "done"},
         stream.frames[1].kind # "error"
  PROVE  \E q \in 0 .. written[bound] :
            /\ HeardUpTo(q)' /\ Unbroken(bound, q)'
            /\ stream.frames[1].kind = "idle" /\ ending[bound] = "done" /\ mapper.observed => q = 3 * Replies
<1> DEFINE frame == stream.frames[1]
<1>0. ShapeOK /\ FramesOK /\ FieldsOK /\ WritesOK /\ QueueOK /\ ReadingOK /\ written[bound] \in Nat
  BY Written DEF EInv, WInv
<1>1. step = "read" /\ bound' = bound
  BY DEF Hear
<1>2. PICK p \in 0 .. written[bound] : HeardUpTo(p) /\ Unbroken(bound, p)
  BY <1>0, <1>1 DEF ReadingOK, Turning
<1>3. p \in Nat /\ p <= written[bound]
  BY <1>0
<1>5. CASE ~WriteOf(frame, bound)
  <2>1. HeardUpTo(p)' /\ mapper'.observed = mapper.observed
    BY <1>0, <1>2, <1>3, <1>5, HearOther
  <2>2. Unbroken(bound, p)'
    <3>1. SUFFICES ASSUME NEW t \in Lines, t = bound PROVE Unbroken(t, p)'
      BY <1>1 DEF Unbroken
    <3>. QED  BY <1>0, <1>2, <1>3, <1>5, <2>1, <3>1, UnbrokenHeard
  <2>3. frame.kind = "idle" /\ ending[bound] = "done" /\ mapper.observed => p = 3 * Replies
    BY <1>0, <1>2, <1>3, IdleLast
  <2>. QED  BY <2>1, <2>2, <2>3
<1>6. CASE WriteOf(frame, bound)
  <2>1. Number(frame) \in Nat /\ Number(frame) <= written[bound] /\ frame.kind # "idle"
    <3>1. frame.kind # "idle"
      BY <1>6 DEF WriteOf, Writes
    <3>2. frame.kind \in {"message", "text", "completed"}
      BY <1>6 DEF WriteOf, Writes
    <3> DEFINE m == frame.of[2]
               n == Number(frame)
    <3>3. /\ m \in Nat \ {0} /\ n <= written[bound]
          /\ frame.kind = "message" => n = 3 * m - 2
          /\ frame.kind = "text" => n = 3 * m - 1
          /\ frame.kind = "completed" => n = 3 * m
      BY <1>0, <1>6, OwnWrite
    <3> HIDE DEF m, n
    <3>4. n \in Nat
      BY <3>2, <3>3
    <3>. QED  BY <3>1, <3>3, <3>4 DEF n
  <2>2. \E q \in Nat : p <= q /\ Number(frame) <= q /\ (q = p \/ q = Number(frame)) /\ HeardUpTo(q)'
    <3>1. CASE mapper.observed
      BY <1>0, <1>2, <1>3, <1>6, <3>1, HearObserved
    <3>2. CASE ~mapper.observed
      <4>1. PICK q \in Nat : p <= q /\ q = Number(frame) /\ HeardUpTo(q)'
        BY <1>0, <1>2, <1>3, <1>6, <3>2, HearFirst
      <4>. QED  BY <2>1, <4>1
    <3>. QED  BY <3>1, <3>2
  <2>3. PICK q \in Nat : p <= q /\ Number(frame) <= q /\ (q = p \/ q = Number(frame)) /\ HeardUpTo(q)'
    BY <2>2
  <2>4. Unbroken(bound, q)'
    <3>1. SUFFICES ASSUME NEW t \in Lines, t = bound PROVE Unbroken(t, q)'
      BY <1>1 DEF Unbroken
    <3>. QED  BY <1>0, <1>2, <1>3, <1>6, <2>3, <3>1, UnbrokenHeard
  <2>5. q \in 0 .. written[bound]
    BY <1>0, <1>3, <2>1, <2>3
  <2>. QED  BY <2>1, <2>3, <2>4, <2>5
<1>. QED  BY <1>5, <1>6

LEMMA HearWrites == ASSUME TypeOK, BoundOK, EInv, WInv, Room, Hear PROVE WInv'
<1> DEFINE frame == stream.frames[1]
<1>0. ShapeOK /\ FramesOK /\ FieldsOK /\ WritesOK /\ QueueOK
  BY DEF EInv, WInv
<1>1. /\ step = "read" /\ UNCHANGED <<bound, ending, written, baseline>> /\ 1 \in DOMAIN stream.frames /\ frame \in Frames
      /\ step' = IF Ends(frame) THEN "finish" ELSE "read"
  BY <1>0, Next1 DEF Hear, server
<1>2. FieldsOK' /\ WritesOK' /\ QueueOK'
  BY <1>0, HearCases, WritesHeard, QueueHeard
<1>3. bound \in Lines
  BY <1>1 DEF BoundOK, Turning, Listed, TypeOK
<1>4. ASSUME step' = "read", ending'[bound'] \in {"open", "done"}
      PROVE  \E p \in 0 .. written'[bound'] : HeardUpTo(p)' /\ Unbroken(bound, p)'
  <2>1. frame.kind # "error"
    BY <1>1, <1>4 DEF Ends
  <2>2. PICK q \in 0 .. written[bound] : HeardUpTo(q)' /\ Unbroken(bound, q)'
    BY <1>1, <1>3, <1>4, <2>1, HearReads
  <2>. QED  BY <1>1, <2>2
<1>5. ASSUME step' = "finish", ending'[bound'] = "done", ~heard'.failed
      PROVE  heard'.texts = InOrder' /\ heard'.usage = InOrder'
  <2>1. frame.kind # "error"
    BY <1>0, <1>5, HearCases
  <2>2. ~(frame.kind = "aborted" /\ Own(frame.of))
    BY <1>0, <1>1, <1>5 DEF FramesOK, Own
  <2>3. frame.kind = "idle" /\ mapper.observed
    BY <1>1, <1>5, <2>1, <2>2 DEF Ends, IdleEnds
  <2>4. PICK q \in 0 .. written[bound] : HeardUpTo(q)' /\ q = 3 * Replies
    BY <1>1, <1>3, <1>5, <2>3, HearReads
  <2>5. q \in Nat
    BY <1>3, Written
  <2>. QED  BY <2>4, <2>5, Complete
<1>6. ReadingOK'
  <2>1. step' \in Turning /\ step' \notin {"prompt", "bind"} /\ step' \in {"read", "finish"}
    BY <1>1 DEF Turning
  <2>. QED  BY <1>4, <1>5, <2>1 DEF ReadingOK
<1>7. AnswerWhole'
  BY <1>1 DEF AnswerWhole, Told
<1>. QED  BY <1>2, <1>6, <1>7 DEF WInv

-----------------------------------------------------------------------------
(* Reading the message list, and the whole step. *)

(* What is chosen of a turn's messages after the a-th, up to the k-th. *)
RestOf(t, r, chosen, a, k) == a <= k /\ k <= r /\ \A m \in 1 .. r : <<t, m>> \in chosen <=> a < m /\ m <= k

LEMMA RestChosen ==
  ASSUME NEW t, NEW r \in Nat, NEW a \in Nat, NEW k \in Nat, NEW chosen, RestOf(t, r, chosen, a, k)
  PROVE  /\ Upto(t, a) \o Select(Upto(t, r), chosen) = Upto(t, k)
         /\ SetOf(Upto(t, a)) \cup SetOf(Select(Upto(t, r), chosen)) = SetOf(Upto(t, k))
<1> DEFINE seq == Upto(t, r)
           S == {t} \X Nat
           sel == Select(seq, chosen)
           rest == [n \in 1 .. k - a |-> <<t, a + n>>]
<1>0. a <= k /\ k <= r /\ \A m \in 1 .. r : <<t, m>> \in chosen <=> a < m /\ m <= k
  BY DEF RestOf
<1>1. seq \in Seq(S) /\ Len(seq) = r /\ \A m \in 1 .. r : seq[m] = <<t, m>>
  BY UptoIs
<1> HIDE DEF seq, S
<1>2. \A i \in 1 .. Len(seq) : seq[i] \in chosen <=> a < i /\ i <= k
  BY <1>0, <1>1
<1>3. sel \in Seq(S) /\ Len(sel) = k - a /\ \A n \in 1 .. k - a : sel[n] = seq[a + n]
  <2>1. RunOf(seq, chosen, a, k)
    BY <1>0, <1>1, <1>2 DEF RunOf
  <2>2. seq \in Seq(S) /\ a \in Nat /\ k \in Nat
    BY <1>1
  <2>. QED  BY ONLY <2>1, <2>2, Chosen
<1> HIDE DEF sel
<1>4. \A n \in 1 .. k - a : sel[n] = <<t, a + n>>
  <2>1. \A n \in 1 .. k - a : a + n \in 1 .. r
    BY <1>0
  <2>. QED  BY <1>1, <1>3, <2>1
<1>5. k - a \in Nat
  BY <1>0
<1>6. sel = rest
  <2>1. DOMAIN sel = 1 .. k - a /\ sel = [n \in DOMAIN sel |-> sel[n]]
    BY <1>3, <1>5
  <2>. QED  BY <1>4, <2>1
<1>7. Upto(t, a) \o rest = Upto(t, k)
  BY <1>0, UptoRest
<1>8. /\ \A of : of \in SetOf(Upto(t, a)) <=> \E m \in 1 .. a : of = <<t, m>>
      /\ \A of : of \in SetOf(Upto(t, k)) <=> \E m \in 1 .. k : of = <<t, m>>
  BY UptoHas
<1>9. SetOf(rest) = {<<t, m>> : m \in a + 1 .. k}
  <2>1. SetOf(rest) = {<<t, a + n>> : n \in 1 .. k - a}
    BY DEF SetOf
  <2>2. \A m \in a + 1 .. k : m - a \in 1 .. k - a /\ a + (m - a) = m
    BY <1>0
  <2>3. \A n \in 1 .. k - a : a + n \in a + 1 .. k
    BY <1>0
  <2>. QED  BY <2>1, <2>2, <2>3
<1>10. \A m : m \in 1 .. k <=> m \in 1 .. a \/ m \in a + 1 .. k
  BY <1>0
<1>11. SetOf(Upto(t, a)) \cup SetOf(rest) = SetOf(Upto(t, k))
  BY <1>8, <1>9, <1>10
<1>. QED  BY <1>6, <1>7, <1>11 DEF sel, seq

(* The first messages are among more of them. *)
LEMMA UptoIn == ASSUME NEW t, NEW a \in Nat, NEW k \in Nat, a <= k PROVE SetOf(Upto(t, a)) \subseteq SetOf(Upto(t, k))
<1>1. /\ \A of : of \in SetOf(Upto(t, a)) <=> \E m \in 1 .. a : of = <<t, m>>
      /\ \A of : of \in SetOf(Upto(t, k)) <=> \E m \in 1 .. k : of = <<t, m>>
  BY UptoHas
<1>2. \A m \in 1 .. a : m \in 1 .. k
  OBVIOUS
<1>. QED  BY <1>1, <1>2

(* The fields of a reconciled mapper. *)
LEMMA Reconciled ==
  ASSUME FieldsOK, Reconcile
  PROVE  LET started == {<<bound, m>> : m \in {n \in Messages : Started(bound, n)}}
             texts == Select(InOrder, {of \in SetOf(InOrder) : HasText(of[1], of[2]) /\ Unheard(of)})
             usage == Select(InOrder, {of \in SetOf(InOrder) : Ended(of[1], of[2]) /\ of \notin mapper.metered})
         IN /\ mapper'.observed = (mapper.observed \/ started # {}) /\ mapper'.ids = mapper.ids \cup started
            /\ mapper'.texts = mapper.texts \cup SetOf(texts) /\ mapper'.metered = mapper.metered \cup SetOf(usage)
            /\ mapper'.queue = IF started = {} THEN mapper.queue ELSE <<>>
            /\ heard'.texts = heard.texts \o texts /\ heard'.usage = heard.usage \o usage
            /\ FieldsOK'
<1> DEFINE started == {<<bound, m>> : m \in {n \in Messages : Started(bound, n)}}
           texts == Select(InOrder, {of \in SetOf(InOrder) : HasText(of[1], of[2]) /\ Unheard(of)})
           usage == Select(InOrder, {of \in SetOf(InOrder) : Ended(of[1], of[2]) /\ of \notin mapper.metered})
<1>1. /\ mapper' = [mapper EXCEPT !.observed = @ \/ started # {}, !.ids = @ \cup started,
                                   !.texts = @ \cup SetOf(texts), !.metered = @ \cup SetOf(usage),
                                   !.queue = IF started = {} THEN @ ELSE <<>>]
      /\ heard' = [heard EXCEPT !.texts = @ \o texts, !.usage = @ \o usage]
  BY DEF Reconcile
<1>2. {"observed", "ids", "texts", "metered", "queue"} \subseteq DOMAIN mapper /\ {"texts", "usage", "failed", "broken"} \subseteq DOMAIN heard
  BY DEF FieldsOK
<1> HIDE DEF started, texts, usage
<1>3. /\ mapper'.observed = (mapper.observed \/ started # {}) /\ mapper'.ids = mapper.ids \cup started
      /\ mapper'.texts = mapper.texts \cup SetOf(texts) /\ mapper'.metered = mapper.metered \cup SetOf(usage)
      /\ mapper'.queue = IF started = {} THEN mapper.queue ELSE <<>>
      /\ DOMAIN mapper' = DOMAIN mapper
  BY <1>1, <1>2
<1>4. heard'.texts = heard.texts \o texts /\ heard'.usage = heard.usage \o usage /\ DOMAIN heard' = DOMAIN heard
  BY <1>1, <1>2
<1>5. FieldsOK'
  BY <1>2, <1>3, <1>4 DEF FieldsOK
<1>. QED  BY <1>3, <1>4, <1>5 DEF started, texts, usage

(* How far a turn has got says which of its messages are there, and whole. *)
LEMMA Counted ==
  ASSUME NEW t, NEW w \in Nat, written[t] = w, ending[t] # "aborted", NEW m \in Nat \ {0}
  PROVE  /\ Started(t, m) <=> m <= (w + 2) \div 3
         /\ HasText(t, m) <=> m <= (w + 1) \div 3
         /\ Ended(t, m) <=> m <= w \div 3
<1> DEFINE I == (w + 2) \div 3
           T == (w + 1) \div 3
           U == w \div 3
<1>1. /\ I \in Nat /\ T \in Nat /\ U \in Nat
      /\ 3 * U <= w /\ w < 3 * U + 3 /\ 3 * T <= w + 1 /\ w + 1 < 3 * T + 3 /\ 3 * I <= w + 2 /\ w + 2 < 3 * I + 3
  BY Third
<1> HIDE DEF I, T, U
<1>2. Started(t, m) <=> m <= I
  BY <1>1 DEF Started
<1>3. HasText(t, m) <=> m <= T
  BY <1>1 DEF HasText
<1>4. Ended(t, m) <=> m <= U
  BY <1>1 DEF Ended, Stopped
<1>. QED  BY <1>2, <1>3, <1>4 DEF I, T, U

(* The message list brings what was read up to what is written. *)
LEMMA ReadHeard ==
  ASSUME TypeOK, WInv, Reconcile, bound' = bound, stream' = stream, bound \in Lines, ending[bound] # "aborted",
         NEW w \in Nat, w = written[bound], NEW p \in Nat, p <= w, HeardUpTo(p)
  PROVE  HeardUpTo(w)'
<1> DEFINE started == {<<bound, m>> : m \in {n \in Messages : Started(bound, n)}}
           texty == {of \in SetOf(InOrder) : HasText(of[1], of[2]) /\ Unheard(of)}
           over == {of \in SetOf(InOrder) : Ended(of[1], of[2]) /\ of \notin mapper.metered}
           T == IF mapper.observed THEN (p + 1) \div 3 ELSE 0
           U == p \div 3
           I == (p + 2) \div 3
           Tw == (w + 1) \div 3
           Uw == w \div 3
           Iw == (w + 2) \div 3
<1>0. FieldsOK /\ Replies \in Nat \ {0} /\ w <= 3 * Replies /\ Messages = 1 .. Replies
  BY Bounds, Written DEF WInv, Messages
<1>1. InOrder = Upto(bound, Replies) /\ \A m \in 1 .. Replies : <<bound, m>> \in SetOf(InOrder)
  <2>1. InOrder = Upto(bound, Replies)
    BY DEF InOrder, Upto, Messages
  <2>2. \A m \in 1 .. Replies : <<bound, m>> \in SetOf(Upto(bound, Replies))
    BY <1>0, UptoHas
  <2>. QED  BY <2>1, <2>2
<1>2. /\ heard.usage = Upto(bound, U) /\ mapper.metered = SetOf(Upto(bound, U))
      /\ heard.texts = Upto(bound, T) /\ mapper.texts = SetOf(Upto(bound, T))
  <2>1. heard.usage = Upto(bound, p \div 3) /\ mapper.metered = SetOf(Upto(bound, p \div 3))
    BY DEF HeardUpTo
  <2>2. CASE mapper.observed
    BY <2>1, <2>2 DEF HeardUpTo
  <2>3. CASE ~mapper.observed
    BY <2>1, <2>3, Nothing DEF HeardUpTo
  <2>. QED  BY <2>2, <2>3
<1>3. /\ U \in Nat /\ Uw \in Nat /\ U <= Uw /\ Uw <= Replies
      /\ T \in Nat /\ Tw \in Nat /\ T <= Tw /\ Tw <= Replies
      /\ I \in Nat /\ Iw \in Nat /\ I <= Iw /\ Iw <= Replies
  <2>1. U <= Uw /\ Uw <= Replies /\ U \in Nat /\ Uw \in Nat
    BY <1>0
  <2>2. (p + 1) \div 3 <= Tw /\ Tw <= Replies /\ (p + 1) \div 3 \in Nat /\ Tw \in Nat
    BY <1>0
  <2>3. I <= Iw /\ Iw <= Replies /\ I \in Nat /\ Iw \in Nat
    BY <1>0
  <2>. QED  BY <2>1, <2>2, <2>3
<1>4. \A m \in 1 .. Replies : m \in Nat \ {0} /\ (Started(bound, m) <=> m <= Iw) /\ (HasText(bound, m) <=> m <= Tw)
                              /\ (Ended(bound, m) <=> m <= Uw)
  <2>. TAKE m \in 1 .. Replies
  <2>1. m \in Nat \ {0}
    BY <1>0
  <2>2. (Started(bound, m) <=> m <= (w + 2) \div 3) /\ (HasText(bound, m) <=> m <= (w + 1) \div 3) /\ (Ended(bound, m) <=> m <= w \div 3)
    BY ONLY <2>1, w \in Nat, w = written[bound], ending[bound] # "aborted", Counted
  <2>. QED  BY <2>1, <2>2
<1> HIDE DEF T, U, I, Tw, Uw, Iw
<1>5. /\ \A m \in 1 .. Replies : <<bound, m>> \in mapper.texts <=> m <= T
      /\ \A m \in 1 .. Replies : <<bound, m>> \in mapper.metered <=> m <= U
  <2>1. ASSUME NEW n \in Nat PROVE \A m \in 1 .. Replies : <<bound, m>> \in SetOf(Upto(bound, n)) <=> m <= n
    <3>1. \A m \in Nat : <<bound, m>> \in SetOf(Upto(bound, n)) <=> 1 <= m /\ m <= n
      BY Members
    <3>. QED  BY <1>0, <3>1
  <2>. QED  BY <1>2, <1>3, <2>1
<1>6. started = SetOf(Upto(bound, Iw))
  <2>1. started = {<<bound, m>> : m \in 1 .. Iw}
    <3>1. {n \in Messages : Started(bound, n)} = 1 .. Iw
      BY <1>0, <1>3, <1>4
    <3>. QED  BY <3>1
  <2>2. \A of : of \in SetOf(Upto(bound, Iw)) <=> \E m \in 1 .. Iw : of = <<bound, m>>
    BY <1>3, UptoHas
  <2>. QED  BY <2>1, <2>2
<1>7. /\ mapper'.observed = (mapper.observed \/ started # {}) /\ mapper'.ids = mapper.ids \cup started
      /\ mapper'.texts = mapper.texts \cup SetOf(Select(InOrder, texty))
      /\ mapper'.metered = mapper.metered \cup SetOf(Select(InOrder, over))
      /\ mapper'.queue = IF started = {} THEN mapper.queue ELSE <<>>
      /\ heard'.texts = heard.texts \o Select(InOrder, texty) /\ heard'.usage = heard.usage \o Select(InOrder, over)
  BY <1>0, Reconciled
<1> HIDE DEF started
<1>8. heard'.texts = Upto(bound, Tw) /\ mapper'.texts = SetOf(Upto(bound, Tw))
  <2>1. \A m \in 1 .. Replies : <<bound, m>> \in texty <=> T < m /\ m <= Tw
    <3>. TAKE m \in 1 .. Replies
    <3>1. <<bound, m>> \in texty <=> HasText(bound, m) /\ <<bound, m>> \notin mapper.texts
      BY <1>1 DEF Unheard
    <3>2. m \in Nat
      BY <1>4
    <3>. QED  BY <1>3, <1>4, <1>5, <3>1, <3>2
  <2> HIDE DEF texty
  <2>2. RestOf(bound, Replies, texty, T, Tw) /\ Replies \in Nat /\ T \in Nat /\ Tw \in Nat
    BY <1>0, <1>3, <2>1 DEF RestOf
  <2>3. /\ Upto(bound, T) \o Select(Upto(bound, Replies), texty) = Upto(bound, Tw)
        /\ SetOf(Upto(bound, T)) \cup SetOf(Select(Upto(bound, Replies), texty)) = SetOf(Upto(bound, Tw))
    BY ONLY <2>2, RestChosen
  <2>. QED  BY <1>1, <1>2, <1>7, <2>3
<1>9. heard'.usage = Upto(bound, Uw) /\ mapper'.metered = SetOf(Upto(bound, Uw))
  <2>1. \A m \in 1 .. Replies : <<bound, m>> \in over <=> U < m /\ m <= Uw
    <3>. TAKE m \in 1 .. Replies
    <3>1. <<bound, m>> \in over <=> Ended(bound, m) /\ <<bound, m>> \notin mapper.metered
      BY <1>1
    <3>2. m \in Nat
      BY <1>4
    <3>. QED  BY <1>3, <1>4, <1>5, <3>1, <3>2
  <2> HIDE DEF over
  <2>2. RestOf(bound, Replies, over, U, Uw) /\ Replies \in Nat /\ U \in Nat /\ Uw \in Nat
    BY <1>0, <1>3, <2>1 DEF RestOf
  <2>3. /\ Upto(bound, U) \o Select(Upto(bound, Replies), over) = Upto(bound, Uw)
        /\ SetOf(Upto(bound, U)) \cup SetOf(Select(Upto(bound, Replies), over)) = SetOf(Upto(bound, Uw))
    BY ONLY <2>2, RestChosen
  <2>. QED  BY <1>1, <1>2, <1>7, <2>3
<1> HIDE DEF texty, over
<1>10. mapper'.ids = SetOf(Upto(bound, Iw))
  <2>1. SetOf(Upto(bound, I)) \subseteq SetOf(Upto(bound, Iw))
    BY <1>3, UptoIn
  <2>2. mapper.ids = SetOf(Upto(bound, I)) \/ mapper.ids = {}
    BY DEF HeardUpTo, I
  <2>. QED  BY <1>6, <1>7, <2>1, <2>2
<1>11. CASE w > 0
  <2>1. Iw >= 1
    BY <1>11 DEF Iw
  <2>2. <<bound, 1>> \in started
    BY <1>3, <1>6, <2>1, Members
  <2>3. mapper'.observed /\ mapper'.queue = <<>> /\ w >= 1
    <3>1. started # {} /\ w >= 1
      BY <1>11, <2>2
    <3>. QED  BY <1>7, <3>1
  <2>4. /\ heard'.usage = Upto(bound', w \div 3) /\ mapper'.metered = SetOf(Upto(bound', w \div 3))
        /\ heard'.texts = Upto(bound', (w + 1) \div 3) /\ mapper'.texts = SetOf(Upto(bound', (w + 1) \div 3))
        /\ mapper'.ids = SetOf(Upto(bound', (w + 2) \div 3))
    BY <1>8, <1>9, <1>10 DEF Tw, Uw, Iw
  <2>. QED  BY ONLY w \in Nat, <2>3, <2>4, HeardSoFar
<1>12. CASE w = 0
  <2>1. ~mapper.observed /\ p = 0
    BY <1>12 DEF HeardUpTo
  <2>2. Uw = 0 /\ Tw = 0 /\ Iw = 0
    BY <1>12 DEF Uw, Tw, Iw
  <2>3. started = {}
    BY <1>6, <2>2, Nothing
  <2>4. mapper'.observed = FALSE /\ mapper'.queue = mapper.queue /\ heard'.texts = <<>> /\ mapper'.texts = {} /\ mapper'.ids = {}
    BY <1>7, <1>8, <1>10, <2>1, <2>2, <2>3, Nothing
  <2>5. /\ \A i \in DOMAIN mapper.queue : mapper.queue[i][1] = bound => mapper.queue[i] = <<bound, 1>>
        /\ w = 2 <=> \E i \in DOMAIN mapper.queue : mapper.queue[i] = <<bound, 1>>
        /\ \A i \in DOMAIN stream.frames : WriteOf(stream.frames[i], bound) => Number(stream.frames[i]) > w
    BY <1>12, <2>1 DEF HeardUpTo
  <2>6. heard'.usage = Upto(bound', w \div 3) /\ mapper'.metered = SetOf(Upto(bound', w \div 3))
    BY <1>9 DEF Uw
  <2>. QED  BY <1>12, <2>4, <2>5, <2>6 DEF HeardUpTo
<1>. QED  BY <1>11, <1>12

LEMMA ReadWrites == ASSUME TypeOK, BoundOK, EInv, WInv, ReadMessages PROVE WInv'
<1>0. FieldsOK /\ WritesOK /\ QueueOK /\ ReadingOK /\ ShapeOK
  BY DEF WInv, EInv
<1>1. /\ step = "messages" /\ Reconcile /\ UNCHANGED <<bound, stream, written, ending, listed>>
      /\ step' \in {"read", "finish"}
  BY DEF ReadMessages, server
<1>2. FieldsOK' /\ (mapper'.queue = mapper.queue \/ mapper'.queue = <<>>)
  BY <1>0, <1>1, Reconciled
<1>3. WritesOK' /\ QueueOK'
  <2>1. Listed' = Listed
    BY <1>1 DEF Listed
  <2>2. WritesOK'
    BY <1>0, <1>1, <2>1 DEF WritesOK
  <2>3. QueueOK'
    <3>1. CASE mapper'.queue = mapper.queue
      BY <1>0, <1>1, <3>1 DEF QueueOK
    <3>2. CASE mapper'.queue = <<>>
      BY <3>2 DEF QueueOK
    <3>. QED  BY <1>2, <3>1, <3>2
  <2>. QED  BY <2>2, <2>3
<1>4. bound \in Lines
  BY <1>1 DEF BoundOK, Turning, Listed, TypeOK
<1>5. ASSUME ending[bound] \in {"open", "done"}, NEW w \in Nat, w = written[bound] PROVE HeardUpTo(w)' /\ Unbroken(bound, w)'
  <2>1. PICK p \in 0 .. written[bound] : HeardUpTo(p)
    BY <1>0, <1>1, <1>5 DEF ReadingOK, Turning
  <2>2. p \in Nat /\ p <= w
    BY <1>5, <2>1
  <2>3. HeardUpTo(w)'
    BY <1>1, <1>4, <1>5, <2>1, <2>2, ReadHeard
  <2>4. \A n \in Int : \A i : n <= w => Follow(stream.frames, bound, w, n, i)
    BY DEF Follow
  <2>5. \A i \in DOMAIN stream.frames : WriteOf(stream.frames[i], bound) =>
           Number(stream.frames[i]) - 1 \in Int /\ Number(stream.frames[i]) - 1 <= w
    <3>1. \A i \in DOMAIN stream.frames : Number(stream.frames[i]) \in Int
      BY <1>0, Stream DEF ShapeOK
    <3>2. \A i \in DOMAIN stream.frames : WriteOf(stream.frames[i], bound) => Number(stream.frames[i]) <= w
      BY <1>0, <1>5 DEF WritesOK, WriteOf
    <3>. QED  BY <3>1, <3>2
  <2>6. ending[bound] = "done" => 3 * Replies \in Int /\ 3 * Replies <= w
    BY <1>0, <1>4, <1>5 DEF WritesOK
  <2>7. w \in Int /\ w <= w
    OBVIOUS
  <2>8. Unbroken(bound, w)'
    BY <1>1, <1>5, <2>4, <2>5, <2>6, <2>7 DEF Unbroken
  <2>. QED  BY <2>3, <2>8
<1>6. PICK w \in Nat : w = written[bound]
  BY <1>4, Written
<1>7. ReadingOK'
  <2>1. ending'[bound'] \in {"open", "done"} => \E p \in 0 .. written'[bound'] : HeardUpTo(p)' /\ Unbroken(bound, p)'
    <3>1. w \in 0 .. written'[bound']
      BY <1>1, <1>6
    <3>. QED  BY <1>1, <1>5, <1>6, <3>1
  <2>2. ending'[bound'] = "done" => heard'.texts = InOrder' /\ heard'.usage = InOrder'
    <3>1. ending[bound] = "done" => w = 3 * Replies
      BY <1>0, <1>4, <1>6 DEF WritesOK
    <3>. QED  BY <1>1, <1>5, <1>6, <3>1, Complete
  <2>3. step' \in Turning /\ step' \notin {"prompt", "bind"}
    BY <1>1 DEF Turning
  <2>. QED  BY <2>1, <2>2, <2>3 DEF ReadingOK
<1>8. AnswerWhole'
  BY <1>1 DEF AnswerWhole, Told
<1>. QED  BY <1>2, <1>3, <1>7, <1>8 DEF WInv

LEMMA WholeInit == ASSUME Init PROVE WInv
<1>1. /\ written = [t \in Lines |-> 0] /\ ending = [t \in Lines |-> "open"] /\ step = "rest" /\ line = 0
      /\ stream = NoStream /\ mapper = NewMapper /\ heard = NothingHeard
  BY DEF Init
<1>2. FieldsOK
  BY <1>1, Rested DEF FieldsOK
<1>3. WritesOK
  <2>1. DOMAIN stream.frames = {}
    BY <1>1, Rested
  <2>. QED  BY <1>1, <2>1 DEF WritesOK
<1>4. QueueOK
  <2>1. mapper.queue = <<>>
    BY <1>1, Rested
  <2>. QED  BY <2>1 DEF QueueOK
<1>5. ReadingOK /\ AnswerWhole
  BY <1>1 DEF ReadingOK, Turning, Steps, AnswerWhole, Told
<1>. QED  BY <1>2, <1>3, <1>4, <1>5 DEF WInv

LEMMA WholeNext == ASSUME Room, IInv, EInv, WInv, Next PROVE WInv'
<1>0. TypeOK /\ PlaceOK /\ BoundOK /\ EInv'
  BY EndNext DEF IInv
<1>1. step # "rest" => line \in Lines
  BY <1>0 DEF PlaceOK
<1>2. CASE Type
  BY <1>2, TypeWrites
<1>3. CASE \/ \E at \in PreAdmission : GiveUp(at)
           \/ LosePrompt \/ MissPrompt \/ CannotWatch
  <2>1. PICK at \in Steps \ {"rest"} : Return(Verdict(at)) /\ step = at
    BY <1>3 DEF GiveUp, LosePrompt, MissPrompt, CannotWatch, PreAdmission, Steps, Turning
  <2>2. Verdict(at) \in Verdicts /\ Verdict(at) # "answered"
    BY Judged DEF Verdicts
  <2>3. UNCHANGED <<listed, written>> /\ (AbortTurns \/ UNCHANGED ending)
    BY <1>3 DEF GiveUp, LosePrompt, MissPrompt, CannotWatch, AbortTurns, server
  <2>4. \A t \in Lines : /\ ending[t] # "open" => ending'[t] = ending[t]
                         /\ ending'[t] = "done" => ending[t] = "done"
                         /\ t \notin Listed => ending'[t] = ending[t]
    BY <2>3 DEF AbortTurns, Unended
  <2>. QED  BY <1>0, <1>1, <2>1, <2>2, <2>3, <2>4, ReturnWrites
<1>4. CASE Prepare \/ Prompt \/ Watch \/ ReadStatus \/ Interrupt
  <2>1. /\ UNCHANGED <<stream, mapper, written, ending, listed, heard, bound, baseline, line, outcome>>
        /\ \/ step' = step
           \/ step = "prepare" /\ step' = "subscribe"
           \/ step = "prompt" /\ step' = "bind"
           \/ step = "watch" /\ step' = "read"
           \/ step = "status" /\ step' = "messages"
    BY <1>4 DEF Prepare, Prompt, Watch, ReadStatus, Interrupt, server, turn
  <2>. QED  BY <2>1, WaitWrites
<1>5. CASE NoteBaseline
  BY <1>0, <1>5, NoteWrites
<1>6. CASE Subscribe \/ SubscribeAgain
  <2>1. PICK greeting \in Greeting : stream' = [live |-> TRUE, frames |-> greeting]
    BY <1>6 DEF Subscribe, SubscribeAgain
  <2>2. /\ UNCHANGED <<mapper, heard, bound, written, ending, listed>>
        /\ \/ step = "subscribe" /\ step' = "baseline"
           \/ step = "again" /\ step' = "status"
    BY <1>6 DEF Subscribe, SubscribeAgain, server, turn
  <2>. QED  BY <1>0, <2>1, <2>2, GreetWrites
<1>7. CASE Bind
  BY <1>0, <1>7, BindWrites
<1>8. CASE Hear
  BY <1>0, <1>8, HearWrites
<1>9. CASE BreakStream
  <2>1. /\ UNCHANGED <<stream, mapper, written, ending, listed, bound, baseline, line, outcome>>
        /\ step \in Turning /\ step' = "finish" /\ heard' = [heard EXCEPT !.broken = TRUE]
    BY <1>9 DEF BreakStream, server, Turning
  <2>2. {"texts", "usage", "failed", "broken"} \subseteq DOMAIN heard' /\ heard'.broken
    BY <2>1 DEF WInv, FieldsOK
  <2>. QED  BY <2>1, <2>2, BreakWrites
<1>10. CASE Reconnect
  <2>1. /\ UNCHANGED <<stream, mapper, written, ending, listed, bound, baseline, line, outcome>> /\ step = "read"
        /\ \/ step' = "finish" /\ heard' = [heard EXCEPT !.failed = TRUE]
           \/ step' = "again" /\ UNCHANGED heard
    BY <1>10 DEF Reconnect, server
  <2>2. CASE step' = "finish" /\ heard' = [heard EXCEPT !.failed = TRUE]
    <3>1. {"texts", "usage", "failed", "broken"} \subseteq DOMAIN heard' /\ heard'.failed /\ step \in Turning
      BY <2>1, <2>2 DEF WInv, FieldsOK, Turning
    <3>. QED  BY <2>1, <2>2, <3>1, BreakWrites
  <2>3. CASE step' = "again" /\ UNCHANGED heard
    BY <2>1, <2>3, WaitWrites
  <2>. QED  BY <2>1, <2>2, <2>3
<1>11. CASE FailAgain
  <2>1. /\ UNCHANGED <<mapper, heard, bound, baseline, written, ending, listed, line, outcome>>
        /\ step \in {"again", "status", "messages"} /\ step' = "read" /\ stream' = NoStream
    BY <1>11 DEF FailAgain, server, turn
  <2>2. ~stream'.live /\ stream'.frames = <<>> /\ DOMAIN stream'.frames = {}
    BY <2>1, Rested
  <2>. QED  BY <1>0, <2>1, <2>2, CutWrites
<1>12. CASE LoseStream
  <2>1. PICK kept \in 0 .. Len(stream.frames) : stream' = [live |-> FALSE, frames |-> SubSeq(stream.frames, 1, kept)]
    BY <1>12 DEF LoseStream
  <2>2. /\ UNCHANGED <<mapper, heard, bound, baseline, written, ending, listed, line, step, outcome>>
        /\ stream.frames \in Seq(Frames)
    BY <1>12 DEF LoseStream, server, turn, EInv, ShapeOK
  <2> DEFINE f == stream.frames
  <2>3. f \in Seq(Frames) /\ kept \in 0 .. Len(f)
    BY <2>2
  <2> HIDE DEF f
  <2>4. /\ DOMAIN f = 1 .. Len(f) /\ Len(f) \in Nat /\ DOMAIN SubSeq(f, 1, kept) = 1 .. kept
        /\ \A i \in 1 .. kept : SubSeq(f, 1, kept)[i] = f[i]
    BY <2>3
  <2>5. 1 .. kept \subseteq 1 .. Len(f) /\ \A i \in 1 .. kept : \A j \in 1 .. Len(f) : j < i => j \in 1 .. kept
    BY <2>3, <2>4
  <2>6. stream'.frames = SubSeq(f, 1, kept) /\ ~stream'.live
    BY <2>1 DEF f
  <2>. QED  BY <1>0, <2>2, <2>4, <2>5, <2>6, CutWrites DEF f
<1>13. CASE ReadMessages
  BY <1>0, <1>13, ReadWrites
<1>14. CASE Finish
  <2>1. Judge \in Verdicts /\ Return(Judge) /\ step = "finish" /\ UNCHANGED <<listed, written, ending>>
    BY <1>14, Judged DEF Finish, Verdicts, server
  <2>2. bound \in Lines
    BY <1>0, <2>1 DEF BoundOK, Turning, Listed, TypeOK
  <2>3. Judge = "answered" /\ ending[bound] = "done" => heard.texts = InOrder /\ heard.usage = InOrder
    BY <2>1 DEF Judge, WInv, ReadingOK
  <2>. QED  BY <1>0, <1>1, <2>1, <2>2, <2>3, ReturnWrites
<1>15. CASE RotateElsewhere
  BY <1>0, <1>15, AbortWrites DEF RotateElsewhere
<1>16. CASE Monitor
  <2>1. UNCHANGED <<line, step, turn, outcome, told>> /\ (AbortSession \/ UNCHANGED <<server, stream>>)
    BY <1>16 DEF Monitor
  <2>2. CASE AbortSession
    BY <1>0, <2>1, <2>2, AbortWrites
  <2>3. CASE UNCHANGED <<server, stream>>
    <3>1. UNCHANGED <<stream, mapper, written, ending, listed, heard, bound, baseline, line, outcome, step>>
      BY <2>1, <2>3 DEF server, turn
    <3>. QED  BY <3>1, WaitWrites
  <2>. QED  BY <2>1, <2>2, <2>3
<1>17. ASSUME NEW t \in Lines, List(t) \/ Write(t) \/ Settle(t) \/ FailTurn(t) PROVE WInv'
  BY <1>0, <1>17, ListWrites, WriteWrites, SettleWrites
<1>. QED  BY <1>2, <1>3, <1>4, <1>5, <1>6, <1>7, <1>8, <1>9, <1>10, <1>11, <1>12, <1>13, <1>14, <1>15, <1>16, <1>17
          DEF Next, Submit, Read, OpenCode

(* Every text of a turn that was carried through is in the answer, once and in order, and every   *)
(* message is metered once, whatever the stream lost, repeated in the message list or brought     *)
(* before its announcement (mapper.rs EventMapper, client.rs reconcile_events).                   *)
THEOREM AnswersWhole == ASSUME Room PROVE Spec => []AnswerWhole
<1>1. Init => WInv
  BY WholeInit
<1>2. IInv /\ EInv /\ WInv /\ [Next]_vars => WInv'
  <2>1. ASSUME IInv, EInv, WInv, Next PROVE WInv'
    BY <2>1, WholeNext
  <2>2. ASSUME WInv, UNCHANGED vars PROVE WInv'
    <3>1. UNCHANGED <<stream, mapper, written, ending, listed, heard, bound, baseline, line, outcome, step>>
      BY <2>2 DEF vars, server, turn
    <3>. QED  BY <2>2, <3>1, WaitWrites
  <2>. QED  BY <2>1, <2>2
<1>3. WInv => AnswerWhole
  BY DEF WInv
<1>. QED  BY <1>1, <1>2, <1>3, Endings, PTL DEF Spec

=============================================================================
