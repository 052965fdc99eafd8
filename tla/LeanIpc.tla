------------------------------ MODULE LeanIpc ------------------------------
(***************************************************************************)
(* The lean shell: zsh with its hook (assets/hook.zsh) and, in the parent  *)
(* process, the thread that answers it (lean/ipc.rs, lean/nl.rs), the      *)
(* thread that reads the keyboard (pty.rs) and the guard that closes them. *)
(* The hook writes one line to a FIFO and reads one line of another; the   *)
(* lines carry no number.                                                  *)
(*                                                                         *)
(* A request carries as a ghost whether its asker still waits for it       *)
(* ("fresh"), a reply that and whether the user was told of a cancellation *)
(* ("acked"); what is still under way when the hook has read a line has    *)
(* lost its asker.  RequestControl's flag, the executor's and INTERRUPTED  *)
(* are always written together, in one critical section: "cancelled".      *)
(***************************************************************************)
EXTENDS Naturals, Sequences

CONSTANTS Places,       \* directories a user works in
          Within,       \* Within[p]: the directories p lies in, p among them
          MaxLines,     \* how many lines and changes of mode a user enters
          MaxAbandons   \* how often the hook gives up a request it wrote

NoPlace == "nowhere"

ASSUME WithinAssumption == /\ NoPlace \notin Places
                           /\ Within \in [Places -> SUBSET Places]
                           /\ \A p \in Places : p \in Within[p] /\ \A q \in Within[p] : Within[q] \subseteq Within[p]
ASSUME BoundsAssumption == MaxLines \in Nat /\ MaxAbandons \in Nat

VARIABLES hook,         \* where the hook's function is, and what it was asked
          shellMode,    \* AISHE_MODE
          shellScope,   \* AISHE_SCOPE
          scopeFile,    \* AISHE_SCOPE_FILE, which both sides read and write
          req, rep,     \* the two FIFOs
          ipc,          \* where the answering thread is
          current,      \* the request it works on
          reply,        \* what it is about to answer
          phase,        \* RequestControl.phase
          cancelled,    \* RequestControl.cancelled, executor.cancel, INTERRUPTED
          stop,         \* RequestControl.stop
          lock,         \* who is inside RequestControl.phase's mutex across a step
          display,      \* the last thing shown of the current request
          grants,       \* warm.grants
          daemonScope,  \* config.backend.default_scope in the parent
          closing,      \* where IpcGuard's drop is
          typed,        \* history: the grants a user typed
          entered,      \* bound: how many lines were entered
          abandoned,    \* history: how many requests the hook gave up
          crossed       \* history: the hook took a reply that was not its own

shellVars == <<hook, shellMode, shellScope>>
flagVars == <<phase, cancelled, stop, lock>>
history == <<typed, entered, abandoned, crossed>>
vars == <<hook, shellMode, shellScope, scopeFile, req, rep, ipc, current, reply,
          phase, cancelled, stop, lock, display, grants, daemonScope, closing, typed,
          entered, abandoned, crossed>>

-----------------------------------------------------------------------------
(* Words, modes and grants. *)

Words == {"ask", "allow", "agent", "agent-host"}
Modes == {"ask", "allow", "agent"}
Scopes == {"workspace", "host"}

(* The mode a word names, and the scope it selects in the parent. *)
ModeOf(word) == IF word = "agent-host" THEN "agent" ELSE word
ScopeOf(word, scope) == CASE word = "agent" -> "workspace" [] word = "agent-host" -> "host" [] OTHER -> scope
GrantWord(mode, scope) == IF mode = "agent" /\ scope = "host" THEN "agent-host" ELSE mode

AcceptedAnywhere(g, mode, scope, place) ==
    \/ mode = "ask"
    \/ mode = "allow" /\ g.allow
    \/ mode = "agent" /\ g.host
    \/ mode = "agent" /\ scope # "host" /\ g.workspace # NoPlace

Accepted(g, mode, scope, place) ==
    \/ mode = "ask"
    \/ mode = "allow" /\ g.allow
    \/ mode = "agent" /\ g.host
    \/ mode = "agent" /\ scope # "host" /\ g.workspace \in Within[place]

Accept(g, mode, scope, place) ==
    CASE mode = "ask" -> g
      [] mode = "allow" -> [g EXCEPT !.allow = TRUE]
      [] mode = "agent" /\ scope = "host" -> [g EXCEPT !.host = TRUE]
      [] OTHER -> [g EXCEPT !.workspace = IF @ \in Within[place] THEN @ ELSE place]

(* What a typed grant covers: only that of a workspace names a directory. *)
Grant(word, place) == <<word, IF word = "agent" THEN place ELSE NoPlace>>
Grants == Words \X (Places \cup {NoPlace})

Request == [op : {"MODE_CHECK", "MODE_ACCEPT", "NL", "CONFIRM_YES", "STOP"},
            word : Words, place : Places \cup {NoPlace}, fresh : BOOLEAN]
Reply == [kind : {"ACCEPTED", "GRANT_REQUIRED", "MODE_OK", "DONE", "CONFIRM", "ERROR", "CANCELLED"},
          mode : Modes, scope : Scopes, fresh : BOOLEAN, acked : BOOLEAN]

(* What the locals hold between two requests. *)
AtPrompt == [pc |-> "prompt", word |-> "ask", place |-> NoPlace, line |-> FALSE]
NoRequest == [op |-> "STOP", word |-> "ask", place |-> NoPlace, fresh |-> FALSE]
NoReply == [kind |-> "DONE", mode |-> "ask", scope |-> "workspace", fresh |-> FALSE, acked |-> FALSE]

Init == /\ \E m \in Modes, s \in Scopes :
              shellMode = m /\ shellScope = s /\ scopeFile = s /\ daemonScope = s
        /\ hook = AtPrompt /\ current = NoRequest /\ reply = NoReply
        /\ req = <<>> /\ rep = <<>> /\ ipc = "looping" /\ phase = "Idle"
        /\ cancelled = FALSE /\ stop = FALSE /\ lock = "free" /\ display = "nothing" /\ closing = "open"
        /\ grants = [allow |-> FALSE, workspace |-> NoPlace, host |-> FALSE]
        /\ typed = {} /\ entered = 0 /\ abandoned = 0 /\ crossed = FALSE

-----------------------------------------------------------------------------
(* The hook. *)

Waiting == hook.pc \in {"check", "accept", "turn", "run"}

(* _aishe_lean_send: one line written, and the reply FIFO read until it ends. *)
Send(op, word, place) == req' = Append(req, [op |-> op, word |-> word, place |-> place, fresh |-> TRUE])

(* A line for the agent, or a change of mode: both begin with the grant. *)
Enter(line, word, place) ==
    /\ hook.pc = "prompt" /\ entered < MaxLines
    /\ entered' = entered + 1
    /\ line => word = GrantWord(shellMode, shellScope)
    /\ Send("MODE_CHECK", word, place)
    /\ hook' = [pc |-> "check", word |-> word, place |-> place, line |-> line]
    /\ UNCHANGED <<shellMode, shellScope, scopeFile, rep, ipc, current, reply, flagVars, display, grants,
                   daemonScope, closing, typed, abandoned, crossed>>

(* The next prompt reads the scope file again. *)
ToPrompt == /\ hook' = AtPrompt
            /\ shellScope' = scopeFile
            /\ UNCHANGED <<shellMode, scopeFile, req>>

Ask(op, word, pc) == /\ hook' = [hook EXCEPT !.pc = pc]
                     /\ Send(op, word, hook.place)

(* Nobody waits any more for what is under way. *)
Forsaken(s) == [i \in DOMAIN s |-> [s[i] EXCEPT !.fresh = FALSE]]

Hear == /\ rep # <<>>
        /\ rep' = Forsaken(Tail(rep))
        /\ current' = [current EXCEPT !.fresh = FALSE]
        /\ reply' = [reply EXCEPT !.fresh = FALSE]
        /\ crossed' = (crossed \/ ~Head(rep).fresh)
        /\ UNCHANGED <<ipc, flagVars, display, grants, daemonScope, closing, typed, entered, abandoned>>

HearCheck ==
    /\ hook.pc = "check"
    /\ Hear
    /\ \/ /\ Head(rep).kind = "ACCEPTED"
          /\ Ask("MODE_ACCEPT", hook.word, "accept")
          /\ UNCHANGED <<shellMode, shellScope, scopeFile>>
       \/ /\ Head(rep).kind = "GRANT_REQUIRED"
          /\ hook' = [hook EXCEPT !.pc = "typing"]
          /\ UNCHANGED <<shellMode, shellScope, scopeFile, req>>
       \/ Head(rep).kind \notin {"ACCEPTED", "GRANT_REQUIRED"} /\ ToPrompt

(* The user types the word the shell asks for, or anything else. *)
TypeGrant(consents) ==
    /\ hook.pc = "typing"
    /\ IF consents
         THEN /\ typed' = typed \cup {Grant(hook.word, hook.place)}
              /\ Ask("MODE_ACCEPT", hook.word, "accept")
              /\ UNCHANGED <<shellMode, shellScope, scopeFile>>
         ELSE ToPrompt /\ UNCHANGED typed
    /\ UNCHANGED <<rep, ipc, current, reply, flagVars, display, grants, daemonScope, closing, entered, abandoned, crossed>>

HearAccept ==
    /\ hook.pc = "accept"
    /\ Hear
    /\ IF Head(rep).kind = "MODE_OK"
         THEN /\ shellMode' = Head(rep).mode /\ shellScope' = Head(rep).scope /\ scopeFile' = Head(rep).scope
              /\ IF hook.line THEN Ask("NL", Head(rep).mode, "turn")
                 ELSE hook' = AtPrompt /\ UNCHANGED req
         ELSE ToPrompt

(* The reply to a line, or to a command confirmed: another command to confirm, or the end. *)
HearTurn ==
    /\ hook.pc \in {"turn", "run"}
    /\ Hear
    /\ IF Head(rep).kind = "CONFIRM"
         THEN hook' = [hook EXCEPT !.pc = "confirm"] /\ UNCHANGED <<shellMode, shellScope, scopeFile, req>>
         ELSE ToPrompt

Confirm(yes) ==
    /\ hook.pc = "confirm"
    /\ IF yes THEN Ask("CONFIRM_YES", "ask", "run") /\ UNCHANGED <<shellMode, shellScope, scopeFile>>
       ELSE ToPrompt
    /\ UNCHANGED <<rep, ipc, current, reply, flagVars, display, grants, daemonScope, closing, history>>

Forsake == /\ abandoned < MaxAbandons
           /\ abandoned' = abandoned + 1
           /\ hook' = AtPrompt
           /\ shellScope' = scopeFile
           /\ req' = Forsaken(req) /\ rep' = Forsaken(rep)
           /\ current' = [current EXCEPT !.fresh = FALSE]
           /\ reply' = [reply EXCEPT !.fresh = FALSE]
           /\ UNCHANGED <<shellMode, scopeFile, ipc, flagVars, display, grants, daemonScope, closing, typed, entered,
                          crossed>>

(* read -t 120 ends without a line: the request stays with the daemon. *)
TimeOut == Waiting /\ Forsake

-----------------------------------------------------------------------------
(* The keyboard: Ctrl-C belongs to the request that is being worked on, or to zsh. *)

CancelWork ==
    /\ lock = "free" /\ phase = "Active" /\ ~cancelled /\ closing = "open"
    /\ cancelled' = TRUE
    /\ lock' = "cancel"
    /\ UNCHANGED <<shellVars, scopeFile, req, rep, ipc, current, reply, phase, stop, display, grants,
                   daemonScope, closing, history>>

AcknowledgeByReply ==
    /\ lock = "cancel"
    /\ display' = "ack"
    /\ lock' = "free"
    /\ rep' = Append(rep, [NoReply EXCEPT !.kind = "CANCELLED", !.acked = TRUE, !.fresh = current.fresh])
    /\ UNCHANGED <<shellVars, scopeFile, req, ipc, current, reply, phase, cancelled, stop, grants,
                   daemonScope, closing, history>>

(* The acknowledgement is written by the display's own handle, still inside the mutex. *)
Acknowledge ==
    /\ lock = "cancel"
    /\ display' = "ack"
    /\ lock' = "free"
    /\ UNCHANGED <<shellVars, scopeFile, req, rep, ipc, current, reply, phase, cancelled, stop, grants,
                   daemonScope, closing, history>>

(* No request: the byte goes to zsh, which leaves the read it is in. *)
InterruptShell ==
    /\ lock = "free" /\ phase = "Idle" /\ closing = "open"
    /\ \/ Waiting /\ Forsake
       \/ /\ hook.pc \in {"typing", "confirm"}
          /\ ToPrompt
          /\ UNCHANGED <<rep, ipc, current, reply, flagVars, display, grants, daemonScope, closing, history>>

-----------------------------------------------------------------------------
(* The answering thread. *)

(* The top of the loop looks at the flag; a blocked read does not. *)
Loop == /\ ipc = "looping"
        /\ ipc' = IF stop THEN "gone" ELSE "reading"
        /\ UNCHANGED <<shellVars, scopeFile, req, rep, current, reply, flagVars, display, grants, daemonScope,
                       closing, history>>

(* RequestControl::begin: refused once the shell is closing. *)
Begin ==
    /\ ipc = "reading" /\ req # <<>>
    /\ req' = Tail(req)
    /\ IF Head(req).op = "STOP" \/ stop
         THEN /\ ipc' = "gone"
              /\ Head(req).op = "STOP" \/ lock = "free"
              /\ UNCHANGED <<current, phase, cancelled, display>>
         ELSE /\ lock = "free"
              /\ ipc' = "serving"
              /\ current' = Head(req)
              /\ phase' = "Active" /\ cancelled' = FALSE /\ display' = "nothing"
    /\ UNCHANGED <<shellVars, scopeFile, rep, reply, stop, lock, grants, daemonScope, closing, history>>

Answer(kind) == reply' = [NoReply EXCEPT !.kind = kind, !.fresh = current.fresh]

RejectSilently ==
    /\ ipc = "serving" /\ lock = "free"
    /\ ipc' = "looping" /\ phase' = "Idle"
    /\ daemonScope' \in {daemonScope, scopeFile}
    /\ UNCHANGED <<shellVars, scopeFile, req, rep, current, reply, cancelled, stop, lock, display, grants, closing,
                   history>>

(* Environment, selection or policy stand against the request: it ends with an error. *)
Reject ==
    /\ ipc = "serving"
    /\ ipc' = "finishing"
    /\ Answer("ERROR")
    /\ daemonScope' \in {daemonScope, scopeFile}
    /\ UNCHANGED <<shellVars, scopeFile, req, rep, current, flagVars, display, grants, closing, history>>

(* apply_selection takes the scope the file names; a request cancelled by then is not handled. *)
Serve ==
    /\ ipc = "serving"
    /\ \/ /\ cancelled
          /\ Answer("CANCELLED")
          /\ daemonScope' = scopeFile /\ ipc' = "syncing" /\ UNCHANGED grants
       \/ /\ ~cancelled /\ current.op = "MODE_CHECK"
          /\ Answer(IF Accepted(grants, ModeOf(current.word), ScopeOf(current.word, scopeFile), current.place)
                    THEN "ACCEPTED" ELSE "GRANT_REQUIRED")
          /\ daemonScope' = scopeFile /\ ipc' = "syncing" /\ UNCHANGED grants
       \/ /\ ~cancelled /\ current.op = "MODE_ACCEPT"
          /\ grants' = Accept(grants, ModeOf(current.word), ScopeOf(current.word, scopeFile), current.place)
          /\ daemonScope' = ScopeOf(current.word, scopeFile)
          /\ reply' = [NoReply EXCEPT !.kind = "MODE_OK", !.mode = ModeOf(current.word),
                                       !.scope = ScopeOf(current.word, scopeFile), !.fresh = current.fresh]
          /\ ipc' = "syncing"
       \/ /\ ~cancelled /\ current.op = "NL"
          /\ daemonScope' = scopeFile
          /\ IF Accepted(grants, current.word, scopeFile, current.place)
               THEN ipc' = "running" /\ UNCHANGED reply
               ELSE ipc' = "syncing" /\ Answer("ERROR")
          /\ UNCHANGED grants
       \/ /\ ~cancelled /\ current.op = "CONFIRM_YES"
          /\ daemonScope' = scopeFile /\ ipc' = "running" /\ UNCHANGED <<reply, grants>>
    /\ UNCHANGED <<shellVars, scopeFile, req, rep, current, flagVars, display, closing, history>>

ShowUnasked ==
    /\ ipc = "running"
    /\ display' = IF display = "ack" THEN "late" ELSE "output"
    /\ UNCHANGED <<shellVars, scopeFile, req, rep, ipc, current, reply, flagVars, grants, daemonScope, closing, history>>

(* What a turn prints passes the flag under the display's mutex. *)
Show ==
    /\ ipc = "running"
    /\ ~cancelled
    /\ display' = IF display = "ack" THEN "late" ELSE "output"
    /\ UNCHANGED <<shellVars, scopeFile, req, rep, ipc, current, reply, flagVars, grants, daemonScope, closing, history>>

(* A turn ends by itself, or notices the flag; only allow asks to confirm a command. *)
EndTurn ==
    /\ ipc = "running"
    /\ \E kind \in {"DONE"} \cup (IF current.op = "NL" /\ current.word = "allow" THEN {"CONFIRM"} ELSE {})
                    \cup (IF cancelled THEN {"CANCELLED"} ELSE {}) : Answer(kind)
    /\ ipc' = "syncing"
    /\ UNCHANGED <<shellVars, scopeFile, req, rep, current, flagVars, display, grants, daemonScope, closing, history>>

Sync == /\ ipc = "syncing"
        /\ ipc' = "finishing"
        /\ scopeFile' = daemonScope
        /\ UNCHANGED <<shellVars, req, rep, current, reply, flagVars, display, grants, daemonScope, closing, history>>

(* RequestControl::finish: the answer is settled under the mutex, written outside it. *)
Commit ==
    /\ ipc = "finishing" /\ lock = "free"
    /\ reply' = [reply EXCEPT !.kind = IF cancelled THEN "CANCELLED" ELSE @, !.acked = (display = "ack")]
    /\ phase' = "Publishing"
    /\ ipc' = "publishing"
    /\ UNCHANGED <<shellVars, scopeFile, req, rep, current, cancelled, stop, lock, display, grants, daemonScope,
                   closing, history>>

Publish ==
    /\ ipc = "publishing"
    /\ rep' = Append(rep, reply)
    /\ ipc' = "resting"
    /\ UNCHANGED <<shellVars, scopeFile, req, current, reply, flagVars, display, grants, daemonScope, closing, history>>

Rest ==
    /\ ipc = "resting" /\ lock = "free"
    /\ phase' = "Idle"
    /\ ipc' = "looping"
    /\ current' = NoRequest /\ reply' = NoReply /\ display' = "nothing"
    /\ UNCHANGED <<shellVars, scopeFile, req, rep, cancelled, stop, lock, grants, daemonScope, closing, history>>

-----------------------------------------------------------------------------
(* IpcGuard is dropped when zsh has exited or was killed. *)

Stop ==
    /\ closing = "open" /\ lock = "free"
    /\ hook' = [AtPrompt EXCEPT !.pc = "dead"]
    /\ stop' = TRUE /\ cancelled' = TRUE
    /\ closing' = "waking"
    /\ UNCHANGED <<shellMode, shellScope, scopeFile, req, rep, ipc, current, reply, phase, lock, display, grants,
                   daemonScope, history>>

FlagOnly ==
    /\ closing = "waking"
    /\ closing' = "joining"
    /\ UNCHANGED <<shellVars, scopeFile, req, rep, ipc, current, reply, flagVars, display, grants, daemonScope, history>>

(* The thread takes the FIFO's name away when it goes: then there is nobody to wake. *)
WakeUp ==
    /\ closing = "waking"
    /\ closing' = "joining"
    /\ req' = IF ipc = "gone" THEN req
              ELSE Append(req, NoRequest)
    /\ UNCHANGED <<shellVars, scopeFile, rep, ipc, current, reply, flagVars, display, grants, daemonScope, history>>

Join == /\ closing = "joining" /\ ipc = "gone"
        /\ closing' = "closed"
        /\ UNCHANGED <<shellVars, scopeFile, req, rep, ipc, current, reply, flagVars, display, grants, daemonScope,
                       history>>

-----------------------------------------------------------------------------

User == \/ \E line \in BOOLEAN, word \in Words, place \in Places : Enter(line, word, place)
        \/ \E yes \in BOOLEAN : TypeGrant(yes) \/ Confirm(yes)
        \/ CancelWork \/ InterruptShell \/ TimeOut \/ Stop
Hears == HearCheck \/ HearAccept \/ HearTurn
Daemon == Loop \/ Begin \/ Reject \/ Serve \/ Show \/ EndTurn \/ Sync \/ Commit \/ Publish \/ Rest
Closing == WakeUp \/ Join

Next == \/ User
        \/ Hears
        \/ Daemon
        \/ Acknowledge
        \/ Closing
        \/ closing = "closed" /\ UNCHANGED vars

Spec == Init /\ [][Next]_vars

(* Both sides go on; a turn ends, for providers and commands have time limits.  *)
(* Users owe nothing.                                                           *)
FairSpec == /\ Spec
            /\ WF_vars(Hears) /\ WF_vars(Daemon) /\ WF_vars(Acknowledge) /\ WF_vars(Closing)

-----------------------------------------------------------------------------
(* Properties. *)

HookState == [pc : {"prompt", "check", "typing", "accept", "turn", "confirm", "run", "dead"},
              word : Words, place : Places \cup {NoPlace}, line : BOOLEAN]

TypeOK ==
    /\ hook \in HookState
    /\ shellMode \in Modes /\ shellScope \in Scopes /\ scopeFile \in Scopes /\ daemonScope \in Scopes
    /\ req \in Seq(Request) /\ rep \in Seq(Reply)
    /\ ipc \in {"looping", "reading", "serving", "running", "syncing", "finishing", "publishing", "resting", "gone"}
    /\ current \in Request /\ reply \in Reply
    /\ phase \in {"Idle", "Active", "Publishing"}
    /\ cancelled \in BOOLEAN /\ stop \in BOOLEAN /\ lock \in {"free", "cancel"}
    /\ display \in {"nothing", "output", "ack", "late"}
    /\ grants \in [allow : BOOLEAN, workspace : Places \cup {NoPlace}, host : BOOLEAN]
    /\ closing \in {"open", "waking", "joining", "closed"}
    /\ typed \in SUBSET Grants /\ entered \in 0 .. MaxLines /\ abandoned \in 0 .. MaxAbandons /\ crossed \in BOOLEAN

(* The user is told "cancelling" only of work whose answer will be CANCELLED, and  *)
(* of which nothing is shown any more; and nothing is cancelled that the user was  *)
(* not told of, unless the shell is closing (RequestControl, PtyOut::write_all).   *)
Told(r) == /\ r.acked => r.kind = "CANCELLED"
           /\ r.kind = "CANCELLED" => r.acked \/ stop
CancelledAsTold == /\ display # "late"
                   /\ ipc \in {"publishing", "resting"} => Told(reply)
                   /\ \A i \in DOMAIN rep : Told(rep[i])

(* While the hook waits out every request it writes, a reply it reads answers the *)
(* request it wrote last (tests/lean_cancel_pty.py; the lines carry no number).    *)
Aligned == abandoned = 0 => ~crossed

(* Whether typed grants t cover a mode in a place. *)
Covered(t, mode, scope, place) ==
    \/ mode = "ask"
    \/ mode = "allow" /\ Grant("allow", place) \in t
    \/ mode = "agent" /\ Grant("agent-host", place) \in t
    \/ mode = "agent" /\ scope # "host" /\ \E p \in Within[place] : Grant("agent", p) \in t

(* The parent never holds a grant, and never runs a turn, beyond the words the user *)
(* typed in this shell: MODE_ACCEPT itself carries no proof of them.                *)
AuthorityTyped ==
    abandoned = 0 =>
      /\ grants.allow => \A p \in Places : Covered(typed, "allow", "workspace", p)
      /\ grants.host => \A p \in Places : Covered(typed, "agent", "host", p)
      /\ grants.workspace \in Places => Covered(typed, "agent", "workspace", grants.workspace)
      /\ ipc = "running" /\ current.op = "NL" => Covered(typed, current.word, daemonScope, current.place)

(* A turn runs under the word its prelude checked, in the directory it named: mode *)
(* and scope, which two processes keep and a file carries, agree when it counts.    *)
TurnAsAsked ==
    ipc = "running" /\ current.op = "NL" /\ current.fresh /\ abandoned = 0 /\ ~stop =>
      /\ current.place = hook.place
      /\ current.word = ModeOf(hook.word)
      /\ current.word = "agent" => GrantWord("agent", daemonScope) = hook.word

(* The inductive invariant.  The phase is a function of the thread's place; the   *)
(* mutex is held across a step only by a cancellation that is being acknowledged. *)
Working == {"serving", "running", "syncing", "finishing"}
PhaseOK == /\ phase = "Active" <=> ipc \in Working
           /\ phase = "Publishing" <=> ipc \in {"publishing", "resting"}
           /\ lock = "cancel" => phase = "Active" /\ cancelled
           /\ stop <=> closing # "open"
           /\ stop <=> hook.pc = "dead"
           /\ stop => cancelled
           /\ ipc = "gone" => stop
           /\ \A i \in DOMAIN req : req[i].op = "STOP" => stop

ToldOK == /\ CancelledAsTold
          /\ display = "ack" => phase # "Idle" /\ cancelled
          /\ phase = "Active" /\ cancelled => display = "ack" \/ lock = "cancel" \/ stop
          /\ ipc \in {"syncing", "finishing"} /\ reply.kind = "CANCELLED" => cancelled

(* What the hook waits for is in one place: in the request FIFO, with the thread, *)
(* or in the reply FIFO.                                                          *)
Asked(r) == /\ r.fresh
            /\ r.op = CASE hook.pc = "check" -> "MODE_CHECK" [] hook.pc = "accept" -> "MODE_ACCEPT"
                         [] hook.pc = "turn" -> "NL" [] OTHER -> "CONFIRM_YES"
            /\ hook.pc \in {"check", "accept"} => r.word = hook.word /\ r.place = hook.place
            /\ hook.pc = "turn" => r.word = ModeOf(hook.word) /\ r.place = hook.place
Answers(r) == /\ r.fresh
              /\ hook.pc = "accept" /\ r.kind = "MODE_OK" =>
                    r.mode = ModeOf(hook.word) /\ r.scope = ScopeOf(hook.word, r.scope)
Unheard == ipc \in Working \cup {"publishing"}
InFlight ==
    abandoned = 0 =>
      /\ ~crossed
      /\ ~stop /\ ~Waiting => req = <<>> /\ rep = <<>> /\ ~Unheard
      /\ ~stop /\ Waiting =>
            \/ Len(req) = 1 /\ rep = <<>> /\ ~Unheard /\ Asked(req[1])
            \/ req = <<>> /\ rep = <<>> /\ Unheard /\ Asked(current)
            \/ req = <<>> /\ Len(rep) = 1 /\ ~Unheard /\ Answers(rep[1])
      /\ ~stop /\ ipc \in {"syncing", "finishing", "publishing"} => Answers(reply)

(* A word the user typed covers whatever could become a grant. *)
Earned(t, word, place) == Covered(t, ModeOf(word), ScopeOf(word, "workspace"), place)
AuthorityOK ==
    /\ AuthorityTyped
    /\ abandoned = 0 =>
         /\ \A i \in DOMAIN req : req[i].op = "MODE_ACCEPT" => Earned(typed, req[i].word, req[i].place)
         /\ current.op = "MODE_ACCEPT" => Earned(typed, current.word, current.place)
         /\ ipc \in {"syncing", "finishing", "publishing"} /\ reply.kind = "ACCEPTED" =>
                Earned(typed, current.word, current.place)
         /\ ~stop /\ hook.pc = "check" =>
                \A i \in DOMAIN rep : rep[i].kind = "ACCEPTED" => Earned(typed, hook.word, hook.place)

(* The file carries the scope of the word that was accepted until its turn is over. *)
ScopeOK ==
    /\ hook.pc \in {"check", "typing", "accept", "turn"} => hook.place \in Places
    /\ \A i \in DOMAIN req : req[i].op \in {"MODE_CHECK", "MODE_ACCEPT", "NL"} => req[i].place \in Places
    /\ ipc \in Working /\ current.op \in {"MODE_CHECK", "MODE_ACCEPT", "NL"} => current.place \in Places
    /\ abandoned = 0 /\ hook.pc = "turn" =>
         /\ scopeFile = ScopeOf(hook.word, scopeFile)
         /\ ipc \in {"running", "syncing"} => daemonScope = scopeFile

IInv == TypeOK /\ PhaseOK /\ ToldOK /\ InFlight /\ AuthorityOK /\ ScopeOK

(* A shell that closes takes up nothing more. *)
ClosesAdmission == [][stop /\ phase = "Idle" => phase' = "Idle"]_vars

(* The hook never waits for ever (it gives up after 120 s, but need not). *)
Answered == Waiting ~> ~Waiting

(* The guard's drop ends: it wakes a blocked read, and never waits for a thread that *)
(* has gone or that nobody wakes.                                                      *)
Closes == stop ~> closing = "closed"
=============================================================================
