--------------------------- MODULE LeanIpcProofs ---------------------------
(* For any directories, any number of lines and of requests given up: what the *)
(* lean shell's protocol promises.  One lemma per action, one step per part of *)
(* the inductive invariant.                                                    *)
EXTENDS LeanIpc, TLAPS

(* What the two FIFOs do to their lines. *)
LEMMA Front == ASSUME NEW S, NEW s \in Seq(S), s # <<>>
               PROVE /\ Head(s) \in S /\ Head(s) = s[1] /\ Tail(s) \in Seq(S) /\ Len(Tail(s)) = Len(s) - 1
                     /\ \A i \in DOMAIN Tail(s) : i + 1 \in DOMAIN s /\ Tail(s)[i] = s[i + 1]
  OBVIOUS

LEMMA Back == ASSUME NEW S, NEW s \in Seq(S), NEW e \in S
              PROVE /\ Append(s, e) \in Seq(S) /\ Len(Append(s, e)) = Len(s) + 1
                    /\ Append(s, e)[Len(s) + 1] = e
                    /\ \A i \in DOMAIN Append(s, e) : (i \in DOMAIN s /\ Append(s, e)[i] = s[i]) \/ Append(s, e)[i] = e
  OBVIOUS

LEMMA Length == ASSUME NEW S, NEW s \in Seq(S) PROVE DOMAIN s = 1 .. Len(s) /\ Len(s) \in Nat
  OBVIOUS

LEMMA SameEnd == ASSUME NEW a \in Nat, NEW b \in Nat, 1 .. a = 1 .. b PROVE a = b
<1>1. \A n \in Nat : (n \in 1 .. a <=> 1 <= n /\ n <= a) /\ (n \in 1 .. b <=> 1 <= n /\ n <= b)
  OBVIOUS
<1>2. (a >= 1 => a <= b) /\ (b >= 1 => b <= a)
  BY <1>1
<1>. QED  BY <1>2

LEMMA Constants == NoRequest \in Request /\ NoReply \in Reply
  BY DEF NoRequest, NoReply, Request, Reply, Words, Modes, Scopes

(* A line that nobody waits for keeps everything else. *)
LEMMA ForsakenRequests == ASSUME NEW s \in Seq(Request)
                          PROVE /\ Forsaken(s) \in Seq(Request) /\ DOMAIN Forsaken(s) = DOMAIN s
                                /\ \A i \in DOMAIN s : /\ Forsaken(s)[i].op = s[i].op
                                                      /\ Forsaken(s)[i].word = s[i].word
                                                      /\ Forsaken(s)[i].place = s[i].place
<1>1. \A i \in DOMAIN s : s[i] \in Request
  OBVIOUS
<1>2. \A i \in DOMAIN s : Forsaken(s)[i] \in Request /\ Forsaken(s)[i] = [s[i] EXCEPT !.fresh = FALSE]
  BY <1>1 DEF Forsaken, Request
<1>3. DOMAIN Forsaken(s) = 1 .. Len(s) /\ Len(s) \in Nat /\ DOMAIN s = 1 .. Len(s)
  BY DEF Forsaken
<1>4. Forsaken(s) \in Seq(Request)
  BY <1>2, <1>3 DEF Forsaken
<1>. QED  BY <1>1, <1>2, <1>3, <1>4 DEF Request

LEMMA ForsakenReplies == ASSUME NEW s \in Seq(Reply)
                         PROVE /\ Forsaken(s) \in Seq(Reply) /\ DOMAIN Forsaken(s) = DOMAIN s
                               /\ \A i \in DOMAIN s : Forsaken(s)[i].kind = s[i].kind /\ Forsaken(s)[i].acked = s[i].acked
<1>1. \A i \in DOMAIN s : s[i] \in Reply
  OBVIOUS
<1>2. \A i \in DOMAIN s : Forsaken(s)[i] \in Reply /\ Forsaken(s)[i] = [s[i] EXCEPT !.fresh = FALSE]
  BY <1>1 DEF Forsaken, Reply
<1>3. DOMAIN Forsaken(s) = 1 .. Len(s) /\ Len(s) \in Nat /\ DOMAIN s = 1 .. Len(s)
  BY DEF Forsaken
<1>4. Forsaken(s) \in Seq(Reply)
  BY <1>2, <1>3 DEF Forsaken
<1>. QED  BY <1>1, <1>2, <1>3, <1>4 DEF Reply

(* The hook asks: one more line, and it waits. *)
LEMMA AskTyped == ASSUME TypeOK, NEW op \in {"MODE_CHECK", "MODE_ACCEPT", "NL", "CONFIRM_YES"}, NEW word \in Words,
                         NEW pc \in {"check", "accept", "turn", "run"}, Ask(op, word, pc)
                  PROVE /\ hook' \in HookState /\ req' \in Seq(Request)
                        /\ hook'.pc = pc /\ hook'.word = hook.word /\ hook'.place = hook.place
                        /\ Len(req') = Len(req) + 1 /\ req'[Len(req) + 1].op = op /\ req'[Len(req) + 1].word = word
                        /\ req'[Len(req) + 1].place = hook.place
                        /\ \A i \in DOMAIN req' :
                              \/ i \in DOMAIN req /\ req'[i] = req[i]
                              \/ req'[i].op = op /\ req'[i].word = word /\ req'[i].place = hook.place
<1>. DEFINE line == [op |-> op, word |-> word, place |-> hook.place, fresh |-> TRUE]
<1>1. line \in Request
  BY DEF TypeOK, HookState, Request
<1>2. hook' = [hook EXCEPT !.pc = pc] /\ hook \in HookState /\ req' = Append(req, line)
  BY DEF Ask, Send, TypeOK
<1>3. hook' \in HookState /\ hook'.pc = pc /\ hook'.word = hook.word /\ hook'.place = hook.place
  BY <1>2 DEF HookState
<1>. HIDE DEF line
<1>4. /\ req' \in Seq(Request) /\ Len(req') = Len(req) + 1 /\ req'[Len(req) + 1] = line
      /\ \A i \in DOMAIN req' : (i \in DOMAIN req /\ req'[i] = req[i]) \/ req'[i] = line
  BY <1>1, <1>2, Back DEF TypeOK
<1>5. line.op = op /\ line.word = word /\ line.place = hook.place
  BY DEF line
<1>6. /\ req'[Len(req) + 1].op = op /\ req'[Len(req) + 1].word = word /\ req'[Len(req) + 1].place = hook.place
  BY <1>4, <1>5
<1>7. ASSUME NEW i \in DOMAIN req'
      PROVE  \/ i \in DOMAIN req /\ req'[i] = req[i]
             \/ req'[i].op = op /\ req'[i].word = word /\ req'[i].place = hook.place
  BY <1>4, <1>5
<1>. QED  BY <1>3, <1>4, <1>6, <1>7

LEMMA PromptTyped == AtPrompt \in HookState /\ AtPrompt.pc = "prompt"
  BY DEF AtPrompt, HookState, Words

(* The thread answers. *)
LEMMA AnswerTyped == ASSUME NEW kind \in {"ACCEPTED", "GRANT_REQUIRED", "MODE_OK", "DONE", "CONFIRM", "ERROR", "CANCELLED"},
                            TypeOK, Answer(kind)
                     PROVE reply' \in Reply /\ reply'.kind = kind /\ reply'.fresh = current.fresh /\ ~reply'.acked
<1>1. current.fresh \in BOOLEAN
  BY DEF TypeOK, Request
<1>. QED  BY <1>1 DEF Answer, NoReply, Reply, Modes, Scopes

(* More words typed cover no less. *)
LEMMA CoveredKept == ASSUME NEW t, NEW u, t \subseteq u, NEW mode, NEW scope, NEW place, Covered(t, mode, scope, place)
                     PROVE Covered(u, mode, scope, place)
  BY DEF Covered

LEMMA ForsakeKeeps == ASSUME IInv, Waiting, Forsake PROVE IInv'
<1>. TypeOK
  BY DEF IInv
<1>1. TypeOK'
  <2>1. current' \in Request /\ reply' \in Reply
    BY DEF Forsake, TypeOK, Request, Reply
  <2>2. req' \in Seq(Request) /\ rep' \in Seq(Reply)
    BY ForsakenRequests, ForsakenReplies DEF Forsake, TypeOK
  <2>3. abandoned' \in 0 .. MaxAbandons
    BY BoundsAssumption DEF Forsake, TypeOK
  <2>. QED  BY <2>1, <2>2, <2>3, PromptTyped DEF Forsake, flagVars, TypeOK
<1>2. PhaseOK'
  <2>1. DOMAIN req' = DOMAIN req /\ \A i \in DOMAIN req : req'[i].op = req[i].op
    BY ForsakenRequests DEF Forsake, TypeOK
  <2>. QED  BY <2>1, PromptTyped DEF IInv, PhaseOK, Forsake, flagVars, Waiting
<1>3. ToldOK'
  <2>1. /\ DOMAIN rep' = DOMAIN rep
        /\ \A i \in DOMAIN rep : rep'[i].kind = rep[i].kind /\ rep'[i].acked = rep[i].acked
        /\ reply'.kind = reply.kind /\ reply'.acked = reply.acked
    BY ForsakenReplies DEF Forsake, TypeOK, Reply
  <2>. QED  BY <2>1 DEF IInv, ToldOK, CancelledAsTold, Told, Forsake, flagVars
<1>4. abandoned' # 0
  BY DEF Forsake, TypeOK
<1>5. InFlight' /\ AuthorityOK'
  BY <1>4 DEF InFlight, AuthorityOK, AuthorityTyped
<1>6. ScopeOK'
  <2>1. /\ DOMAIN req' = DOMAIN req
        /\ \A i \in DOMAIN req : req'[i].op = req[i].op /\ req'[i].place = req[i].place
        /\ current'.op = current.op /\ current'.place = current.place
    BY ForsakenRequests DEF Forsake, TypeOK, Request
  <2>. QED  BY <1>4, <2>1, PromptTyped DEF IInv, ScopeOK, Forsake
<1>. QED  BY <1>1, <1>2, <1>3, <1>5, <1>6 DEF IInv

LEMMA EnterKeeps == ASSUME IInv, NEW line \in BOOLEAN, NEW word \in Words, NEW place \in Places, Enter(line, word, place) PROVE IInv'
<1>1. TypeOK'
  <2>. TypeOK
    BY DEF IInv
  <2>1. hook' \in HookState /\ req' \in Seq(Request)
    BY Back DEF Enter, Send, TypeOK, HookState, Request
  <2>2. entered' \in 0 .. MaxLines
    BY BoundsAssumption DEF Enter, TypeOK
  <2>. QED  BY <2>1, <2>2 DEF Enter, flagVars, TypeOK
<1>2. PhaseOK'
  <2>1. \A i \in DOMAIN req' : (i \in DOMAIN req /\ req'[i] = req[i]) \/ (req'[i].op = "MODE_CHECK")
    BY DEF IInv, TypeOK, Enter, Send
  <2>. QED  BY <2>1 DEF IInv, Enter, PhaseOK, flagVars, HookState
<1>3. ToldOK'
  BY DEF IInv, Enter, GrantWord, Send, flagVars, ToldOK, CancelledAsTold, Told
<1>4. InFlight'
  BY DEF IInv, Enter, GrantWord, Send, flagVars, InFlight, Waiting, Unheard, Asked, Answers, Working,
         ModeOf, ScopeOf
<1>5. AuthorityOK'
  BY DEF IInv, Enter, GrantWord, Send, flagVars, AuthorityOK, AuthorityTyped, TypeOK, HookState, Request,
         Reply, PhaseOK, Working, Unheard, Waiting, InFlight, Asked, Answers
<1>6. ScopeOK'
  BY DEF IInv, Enter, GrantWord, Send, flagVars, ScopeOK, Working, ScopeOf
<1>. QED  BY <1>1, <1>2, <1>3, <1>4, <1>5, <1>6 DEF IInv

(* Reading a reply takes one line away and leaves what the others say. *)
LEMMA Heard == ASSUME TypeOK, Hear
               PROVE /\ Head(rep) \in Reply /\ Head(rep) = rep[1]
                     /\ rep' \in Seq(Reply) /\ Len(rep') = Len(rep) - 1 /\ (Len(rep) = 1 => rep' = <<>>)
                     /\ \A i \in DOMAIN rep' : /\ i + 1 \in DOMAIN rep
                                               /\ rep'[i].kind = rep[i + 1].kind /\ rep'[i].acked = rep[i + 1].acked
                     /\ current' \in Request /\ reply' \in Reply
                     /\ current'.op = current.op /\ current'.word = current.word /\ current'.place = current.place
                     /\ reply'.kind = reply.kind /\ reply'.acked = reply.acked
<1>1. /\ Head(rep) \in Reply /\ Head(rep) = rep[1] /\ Tail(rep) \in Seq(Reply) /\ Len(Tail(rep)) = Len(rep) - 1
      /\ \A i \in DOMAIN Tail(rep) : i + 1 \in DOMAIN rep /\ Tail(rep)[i] = rep[i + 1]
  BY Front DEF Hear, TypeOK
<1>2. /\ rep' \in Seq(Reply) /\ DOMAIN rep' = DOMAIN Tail(rep)
      /\ \A i \in DOMAIN Tail(rep) : rep'[i].kind = Tail(rep)[i].kind /\ rep'[i].acked = Tail(rep)[i].acked
  BY <1>1, ForsakenReplies DEF Hear
<1>3. Len(rep') = Len(rep) - 1
  <2>1. DOMAIN rep' = 1 .. Len(rep') /\ DOMAIN Tail(rep) = 1 .. Len(Tail(rep)) /\ Len(rep') \in Nat /\ Len(Tail(rep)) \in Nat
    BY <1>1, <1>2, Length
  <2>2. Len(rep') = Len(Tail(rep))
    BY <1>2, <2>1, SameEnd
  <2>. QED  BY <1>1, <2>2
<1>4. Len(rep) = 1 => rep' = <<>>
  BY <1>2, <1>3
<1>5. current' = [current EXCEPT !.fresh = FALSE] /\ reply' = [reply EXCEPT !.fresh = FALSE]
  BY DEF Hear
<1>6. /\ current' \in Request /\ reply' \in Reply
      /\ current'.op = current.op /\ current'.word = current.word /\ current'.place = current.place
      /\ reply'.kind = reply.kind /\ reply'.acked = reply.acked
  BY <1>5 DEF TypeOK, Request, Reply
<1>. QED  BY <1>1, <1>2, <1>3, <1>4, <1>6

LEMMA HearCheckKeeps == ASSUME IInv, HearCheck PROVE IInv'
<1>0. /\ Head(rep) \in Reply /\ Head(rep) = rep[1]
      /\ rep' \in Seq(Reply) /\ Len(rep') = Len(rep) - 1 /\ (Len(rep) = 1 => rep' = <<>>)
      /\ \A i \in DOMAIN rep' : /\ i + 1 \in DOMAIN rep
                                /\ rep'[i].kind = rep[i + 1].kind /\ rep'[i].acked = rep[i + 1].acked
      /\ current' \in Request /\ reply' \in Reply
      /\ current'.op = current.op /\ current'.word = current.word /\ current'.place = current.place
      /\ reply'.kind = reply.kind /\ reply'.acked = reply.acked
  BY Heard DEF HearCheck, IInv
<1>1. TypeOK'
  <2>. TypeOK
    BY DEF IInv
  <2>1. hook' \in HookState /\ req' \in Seq(Request)
    <3>1. CASE Ask("MODE_ACCEPT", hook.word, "accept")
      BY <3>1, AskTyped DEF TypeOK, HookState
    <3>2. CASE hook' = [hook EXCEPT !.pc = "typing"] /\ UNCHANGED req
      BY <3>2 DEF TypeOK, HookState
    <3>3. CASE ToPrompt
      BY <3>3, PromptTyped DEF ToPrompt, TypeOK
    <3>. QED  BY <3>1, <3>2, <3>3 DEF HearCheck
  <2>2. UNCHANGED <<shellMode, scopeFile>> /\ shellScope' \in Scopes
    BY DEF HearCheck, ToPrompt, TypeOK
  <2>. QED  BY <1>0, <2>1, <2>2 DEF HearCheck, Hear, flagVars, TypeOK
<1>2. PhaseOK'
  <2>. TypeOK /\ PhaseOK
    BY DEF IInv
  <2>1. CASE Ask("MODE_ACCEPT", hook.word, "accept")
    <3>1. hook'.pc = "accept" /\ \A i \in DOMAIN req' : (i \in DOMAIN req /\ req'[i] = req[i]) \/ (req'[i].op = "MODE_ACCEPT")
      BY <2>1, AskTyped DEF TypeOK, HookState
    <3>. QED  BY <1>0, <3>1 DEF HearCheck, Hear, flagVars, PhaseOK
  <2>2. CASE ~Ask("MODE_ACCEPT", hook.word, "accept")
    BY <1>0, <2>2, PromptTyped DEF HearCheck, Hear, ToPrompt, TypeOK, HookState, flagVars, PhaseOK
  <2>. QED  BY <2>1, <2>2
<1>3. ToldOK'
  BY <1>0, SMTT(20) DEF IInv, HearCheck, Hear, Ask, ToPrompt, flagVars, Send, AtPrompt, NoPlace, ToldOK,
         CancelledAsTold, Told
<1>4. InFlight'
  <2>. SUFFICES ASSUME abandoned = 0 PROVE InFlight'
    BY DEF HearCheck, Hear, InFlight
  <2>1. ~stop /\ Waiting /\ rep # <<>> /\ hook.pc = "check"
    BY DEF IInv, PhaseOK, HearCheck, Hear, Waiting
  <2>2. Len(rep) = 1 /\ req = <<>> /\ ~Unheard /\ Answers(rep[1]) /\ ~crossed
    BY <2>1 DEF IInv, InFlight
  <2>3. rep' = <<>> /\ ~crossed' /\ ~Unheard' /\ UNCHANGED <<ipc, stop, abandoned>>
    BY <1>0, <2>2 DEF HearCheck, Hear, Answers, Unheard, Working, flagVars
  <2>4. CASE Ask("MODE_ACCEPT", hook.word, "accept")
    <3>1. req' = <<[op |-> "MODE_ACCEPT", word |-> hook.word, place |-> hook.place, fresh |-> TRUE]>>
      BY <2>2, <2>4 DEF Ask, Send
    <3>2. hook' = [hook EXCEPT !.pc = "accept"] /\ hook \in HookState
      BY <2>4 DEF Ask, IInv, TypeOK
    <3>3. Asked(req[1])' 
      BY <2>1, <2>2, <2>4, <1>0, <3>1, <3>2 DEF Asked, Answers, HookState, HearCheck, Reply, IInv, TypeOK
    <3>. QED  BY <2>3, <3>1, <3>2, <3>3 DEF InFlight, Waiting, Unheard, Working, HookState
  <2>5. CASE ~Ask("MODE_ACCEPT", hook.word, "accept")
    BY <2>1, <2>2, <2>3, <2>5 DEF HearCheck, Hear, ToPrompt, AtPrompt, InFlight, Waiting, Unheard, Working, HookState, IInv, TypeOK
  <2>. QED  BY <2>4, <2>5
<1>5. AuthorityOK'
  BY <1>0 DEF IInv, HearCheck, Hear, Ask, ToPrompt, flagVars, Send, AtPrompt, NoPlace, AuthorityOK,
         AuthorityTyped, TypeOK, HookState, Request, Reply, PhaseOK, Working, Unheard, Waiting, InFlight,
         Asked, Answers
<1>6. ScopeOK'
  <2>. TypeOK /\ ScopeOK
    BY DEF IInv
  <2>1. CASE Ask("MODE_ACCEPT", hook.word, "accept")
    <3>1. /\ hook'.pc = "accept" /\ hook'.place = hook.place /\ hook'.word = hook.word
          /\ \A i \in DOMAIN req' : (i \in DOMAIN req /\ req'[i] = req[i]) \/ (req'[i].op = "MODE_ACCEPT" /\ req'[i].place = hook.place)
      BY <2>1, AskTyped DEF TypeOK, HookState
    <3>. QED  BY <1>0, <3>1 DEF HearCheck, Hear, history, ScopeOK
  <2>2. CASE ~Ask("MODE_ACCEPT", hook.word, "accept")
    BY <1>0, <2>2, PromptTyped DEF HearCheck, Hear, ToPrompt, TypeOK, HookState, history, ScopeOK
  <2>. QED  BY <2>1, <2>2
<1>. QED  BY <1>1, <1>2, <1>3, <1>4, <1>5, <1>6 DEF IInv

LEMMA TypeGrantKeeps == ASSUME IInv, NEW yes \in BOOLEAN, TypeGrant(yes) PROVE IInv'
<1>1. TypeOK'
  <2>. TypeOK
    BY DEF IInv
  <2>1. hook' \in HookState /\ req' \in Seq(Request) /\ typed' \in SUBSET Grants /\ shellScope' \in Scopes
        /\ UNCHANGED <<shellMode, scopeFile>>
    <3>1. CASE yes
      <4>1. /\ Ask("MODE_ACCEPT", hook.word, "accept")
            /\ typed' = typed \cup {Grant(hook.word, hook.place)}
            /\ UNCHANGED <<shellMode, shellScope, scopeFile>>
        BY <3>1 DEF TypeGrant
      <4>2. Grant(hook.word, hook.place) \in Grants
        BY DEF TypeOK, HookState, Grants, Grant
      <4>3. hook' \in HookState /\ req' \in Seq(Request)
        BY <4>1, AskTyped DEF TypeOK, HookState
      <4> QED
        BY <4>1, <4>2, <4>3 DEF TypeOK
    <3>2. CASE ~yes
      BY <3>2, PromptTyped DEF TypeGrant, ToPrompt, TypeOK
    <3>. QED  BY <3>1, <3>2
  <2>. QED  BY <2>1 DEF TypeGrant, flagVars, TypeOK
<1>2. PhaseOK'
  <2>. TypeOK /\ PhaseOK
    BY DEF IInv
  <2>1. CASE Ask("MODE_ACCEPT", hook.word, "accept")
    <3>1. hook'.pc = "accept" /\ \A i \in DOMAIN req' : (i \in DOMAIN req /\ req'[i] = req[i]) \/ (req'[i].op = "MODE_ACCEPT")
      BY <2>1, AskTyped DEF TypeOK, HookState
    <3>. QED  BY <3>1 DEF TypeGrant, flagVars, PhaseOK
  <2>2. CASE ~Ask("MODE_ACCEPT", hook.word, "accept")
    BY <2>2, PromptTyped DEF TypeGrant, ToPrompt, TypeOK, HookState, flagVars, PhaseOK
  <2>. QED  BY <2>1, <2>2
<1>3. ToldOK'
  BY DEF IInv, TypeGrant, Grant, Ask, ToPrompt, flagVars, NoPlace, Send, AtPrompt, ToldOK, CancelledAsTold,
         Told
<1>4. InFlight'
  BY DEF IInv, TypeGrant, Grant, Ask, ToPrompt, flagVars, NoPlace, Send, AtPrompt, InFlight, Waiting,
         Unheard, Asked, Answers, Working, ModeOf, ScopeOf, TypeOK, HookState, Request, Reply, PhaseOK
<1>5. AuthorityOK'
  <2>. TypeOK /\ AuthorityOK /\ hook.pc = "typing" /\ hook.place \in Places
    BY DEF IInv, TypeGrant, ScopeOK
  <2>1. CASE ~yes
    BY <2>1, PromptTyped DEF TypeGrant, ToPrompt, flagVars, AuthorityOK, AuthorityTyped
  <2>2. CASE yes
    <3>1. typed \subseteq typed' /\ Grant(hook.word, hook.place) \in typed' /\ UNCHANGED <<grants, ipc, current, daemonScope, rep, reply, stop, abandoned>>
      BY <2>2 DEF TypeGrant, flagVars
    <3>2. hook.word \in Words /\ hook.place \in Within[hook.place]
      BY WithinAssumption DEF TypeOK, HookState
    <3>3. Earned(typed', hook.word, hook.place)
      BY <3>1, <3>2 DEF Earned, Covered, ModeOf, ScopeOf, Grant, Words
    <3>4. \A mode, scope, place : Covered(typed, mode, scope, place) => Covered(typed', mode, scope, place)
      BY <3>1, CoveredKept
    <3>5. \A word, place : Earned(typed, word, place) => Earned(typed', word, place)
      BY <3>4 DEF Earned
    <3>6. /\ hook'.pc = "accept"
          /\ \A i \in DOMAIN req' :
                \/ i \in DOMAIN req /\ req'[i] = req[i]
                \/ req'[i].op = "MODE_ACCEPT" /\ req'[i].word = hook.word /\ req'[i].place = hook.place
      BY <2>2, <3>2, AskTyped DEF TypeGrant
    <3>7. AuthorityTyped'
      BY <3>1, <3>4 DEF AuthorityOK, AuthorityTyped
    <3>. QED  BY <3>1, <3>3, <3>5, <3>6, <3>7 DEF AuthorityOK
  <2>. QED  BY <2>1, <2>2
<1>6. ScopeOK'
  <2>. TypeOK /\ ScopeOK
    BY DEF IInv
  <2>1. CASE Ask("MODE_ACCEPT", hook.word, "accept")
    <3>1. /\ hook'.pc = "accept" /\ hook'.place = hook.place /\ hook'.word = hook.word
          /\ \A i \in DOMAIN req' : (i \in DOMAIN req /\ req'[i] = req[i]) \/ (req'[i].op = "MODE_ACCEPT" /\ req'[i].place = hook.place)
      BY <2>1, AskTyped DEF TypeOK, HookState
    <3>. QED  BY <3>1 DEF TypeGrant, history, ScopeOK
  <2>2. CASE ~Ask("MODE_ACCEPT", hook.word, "accept")
    BY <2>2, PromptTyped DEF TypeGrant, ToPrompt, TypeOK, HookState, history, ScopeOK
  <2>. QED  BY <2>1, <2>2
<1>. QED  BY <1>1, <1>2, <1>3, <1>4, <1>5, <1>6 DEF IInv

LEMMA HearAcceptKeeps == ASSUME IInv, HearAccept PROVE IInv'
<1>0. /\ Head(rep) \in Reply /\ Head(rep) = rep[1]
      /\ rep' \in Seq(Reply) /\ Len(rep') = Len(rep) - 1 /\ (Len(rep) = 1 => rep' = <<>>)
      /\ \A i \in DOMAIN rep' : /\ i + 1 \in DOMAIN rep
                                /\ rep'[i].kind = rep[i + 1].kind /\ rep'[i].acked = rep[i + 1].acked
      /\ current' \in Request /\ reply' \in Reply
      /\ current'.op = current.op /\ current'.word = current.word /\ current'.place = current.place
      /\ reply'.kind = reply.kind /\ reply'.acked = reply.acked
  BY Heard DEF HearAccept, IInv
<1>1. TypeOK'
  <2>. TypeOK
    BY DEF IInv
  <2>1. hook' \in HookState /\ req' \in Seq(Request) /\ shellMode' \in Modes /\ shellScope' \in Scopes /\ scopeFile' \in Scopes
    <3>1. CASE Head(rep).kind = "MODE_OK" /\ hook.line
      <4>1. Head(rep).mode \in Modes /\ Head(rep).scope \in Scopes /\ Modes \subseteq Words
        BY <1>0 DEF Reply, Modes, Words
      <4>. QED  BY <3>1, <4>1, AskTyped DEF HearAccept
    <3>2. CASE Head(rep).kind = "MODE_OK" /\ ~hook.line
      BY <1>0, <3>2, PromptTyped DEF HearAccept, TypeOK, Reply
    <3>3. CASE Head(rep).kind # "MODE_OK"
      BY <3>3, PromptTyped DEF HearAccept, ToPrompt, TypeOK
    <3>. QED  BY <3>1, <3>2, <3>3
  <2>. QED  BY <1>0, <2>1 DEF HearAccept, Hear, flagVars, TypeOK
<1>2. PhaseOK'
  <2>. TypeOK /\ PhaseOK
    BY DEF IInv
  <2>1. CASE Ask("NL", Head(rep).mode, "turn")
    <3>0. Head(rep).mode \in Words
      BY <1>0 DEF Reply, Modes, Words
    <3>1. hook'.pc = "turn" /\ \A i \in DOMAIN req' : (i \in DOMAIN req /\ req'[i] = req[i]) \/ (req'[i].op = "NL")
      BY <3>0, <2>1, AskTyped DEF TypeOK, HookState
    <3>. QED  BY <1>0, <3>1 DEF HearAccept, Hear, flagVars, PhaseOK
  <2>2. CASE ~Ask("NL", Head(rep).mode, "turn")
    BY <1>0, <2>2, PromptTyped DEF HearAccept, Hear, ToPrompt, TypeOK, HookState, flagVars, PhaseOK
  <2>. QED  BY <2>1, <2>2
<1>3. ToldOK'
  BY <1>0 DEF IInv, HearAccept, Hear, Ask, AtPrompt, ToPrompt, flagVars, Send, NoPlace, ToldOK,
         CancelledAsTold, Told
<1>4. InFlight'
  <2>. SUFFICES ASSUME abandoned = 0 PROVE InFlight'
    BY DEF HearAccept, Hear, InFlight
  <2>1. ~stop /\ Waiting /\ rep # <<>> /\ hook.pc = "accept"
    BY DEF IInv, PhaseOK, HearAccept, Hear, Waiting
  <2>2. Len(rep) = 1 /\ req = <<>> /\ ~Unheard /\ Answers(rep[1]) /\ ~crossed
    BY <2>1 DEF IInv, InFlight
  <2>3. rep' = <<>> /\ ~crossed' /\ ~Unheard' /\ UNCHANGED <<ipc, stop, abandoned>>
    BY <1>0, <2>2 DEF HearAccept, Hear, Answers, Unheard, Working, flagVars
  <2>4. CASE Ask("NL", Head(rep).mode, "turn")
    <3>1. req' = <<[op |-> "NL", word |-> Head(rep).mode, place |-> hook.place, fresh |-> TRUE]>>
      BY <2>2, <2>4 DEF Ask, Send
    <3>2. hook' = [hook EXCEPT !.pc = "turn"] /\ hook \in HookState
      BY <2>4 DEF Ask, IInv, TypeOK
    <3>3. hook'.pc = "turn" /\ hook'.word = hook.word /\ hook'.place = hook.place
      BY <3>2 DEF HookState
    <3>4. Head(rep).kind = "MODE_OK"
      BY <3>3 DEF HearAccept, ToPrompt, AtPrompt
    <3>5. Head(rep).mode = ModeOf(hook.word)
      BY <1>0, <2>1, <2>2, <3>4 DEF Answers
    <3>6. Asked(req[1])'
      BY <3>1, <3>3, <3>5 DEF Asked
    <3>. QED  BY <2>3, <3>1, <3>3, <3>6 DEF InFlight, Waiting, Unheard, Working, HookState
  <2>5. CASE ~Ask("NL", Head(rep).mode, "turn")
    BY <2>1, <2>2, <2>3, <2>5 DEF HearAccept, Hear, ToPrompt, AtPrompt, InFlight, Waiting, Unheard, Working, HookState, IInv, TypeOK
  <2>. QED  BY <2>4, <2>5
<1>5. AuthorityOK'
  BY <1>0 DEF IInv, HearAccept, Hear, Ask, AtPrompt, ToPrompt, flagVars, Send, NoPlace, AuthorityOK,
         AuthorityTyped, TypeOK, HookState, Request, Reply, PhaseOK, Working, Unheard, Waiting, InFlight,
         Asked, Answers
<1>6. ScopeOK'
  <2>. TypeOK /\ ScopeOK
    BY DEF IInv
  <2>1. CASE Head(rep).kind = "MODE_OK" /\ hook.line
    <3>1. Head(rep).mode \in Words
      BY <1>0 DEF Reply, Modes, Words
    <3>2. Ask("NL", Head(rep).mode, "turn") /\ hook.pc = "accept" /\ scopeFile' = Head(rep).scope
      BY <2>1 DEF HearAccept
    <3>3. /\ hook'.pc = "turn" /\ hook'.place = hook.place /\ hook'.word = hook.word
          /\ \A i \in DOMAIN req' : (i \in DOMAIN req /\ req'[i] = req[i]) \/ (req'[i].op = "NL" /\ req'[i].place = hook.place)
      BY <3>1, <3>2, AskTyped
    <3>4. abandoned = 0 => Answers(Head(rep)) /\ ~Unheard
      BY <1>0, <3>2 DEF IInv, PhaseOK, InFlight, Waiting, HearAccept, Hear
    <3>5. abandoned = 0 => scopeFile' = ScopeOf(hook.word, scopeFile')
      BY <2>1, <3>2, <3>4 DEF Answers
    <3>. QED  BY <1>0, <3>2, <3>3, <3>4, <3>5 DEF HearAccept, Hear, Unheard, Working, ScopeOK
  <2>2. CASE ~(Head(rep).kind = "MODE_OK" /\ hook.line)
    BY <1>0, <2>2, PromptTyped DEF HearAccept, Hear, ToPrompt, history, ScopeOK
  <2>. QED  BY <2>1, <2>2
<1>. QED  BY <1>1, <1>2, <1>3, <1>4, <1>5, <1>6 DEF IInv

LEMMA HearTurnKeeps == ASSUME IInv, HearTurn PROVE IInv'
<1>0. /\ Head(rep) \in Reply /\ Head(rep) = rep[1]
      /\ rep' \in Seq(Reply) /\ Len(rep') = Len(rep) - 1 /\ (Len(rep) = 1 => rep' = <<>>)
      /\ \A i \in DOMAIN rep' : /\ i + 1 \in DOMAIN rep
                                /\ rep'[i].kind = rep[i + 1].kind /\ rep'[i].acked = rep[i + 1].acked
      /\ current' \in Request /\ reply' \in Reply
      /\ current'.op = current.op /\ current'.word = current.word /\ current'.place = current.place
      /\ reply'.kind = reply.kind /\ reply'.acked = reply.acked
  BY Heard DEF HearTurn, IInv
<1>1. TypeOK'
  <2>. TypeOK
    BY DEF IInv
  <2>1. hook' \in HookState /\ shellScope' \in Scopes /\ UNCHANGED <<shellMode, scopeFile, req>>
    <3>1. CASE Head(rep).kind = "CONFIRM"
      BY <3>1 DEF HearTurn, TypeOK, HookState
    <3>2. CASE Head(rep).kind # "CONFIRM"
      BY <3>2, PromptTyped DEF HearTurn, ToPrompt, TypeOK
    <3>. QED  BY <3>1, <3>2
  <2>. QED  BY <1>0, <2>1 DEF HearTurn, Hear, flagVars, TypeOK
<1>2. PhaseOK'
  BY <1>0 DEF IInv, HearTurn, Hear, ToPrompt, flagVars, AtPrompt, NoPlace, PhaseOK, Working, TypeOK,
         HookState,
         Request, Reply
<1>3. ToldOK'
  BY <1>0 DEF IInv, HearTurn, Hear, ToPrompt, flagVars, AtPrompt, NoPlace, ToldOK, CancelledAsTold, Told
<1>4. InFlight'
  BY <1>0 DEF IInv, HearTurn, Hear, ToPrompt, flagVars, AtPrompt, NoPlace, InFlight, Waiting, Unheard, Asked,
         Answers, Working, ModeOf, ScopeOf, TypeOK, HookState, Request, Reply, PhaseOK
<1>5. AuthorityOK'
  BY <1>0 DEF IInv, HearTurn, Hear, ToPrompt, flagVars, AtPrompt, NoPlace, AuthorityOK, AuthorityTyped,
         TypeOK, HookState, Request, Reply
<1>6. ScopeOK'
  BY <1>0 DEF IInv, HearTurn, Hear, ToPrompt, flagVars, AtPrompt, NoPlace, ScopeOK, Working, ScopeOf, TypeOK,
         HookState, Request, Reply
<1>. QED  BY <1>1, <1>2, <1>3, <1>4, <1>5, <1>6 DEF IInv

LEMMA ConfirmKeeps == ASSUME IInv, NEW yes \in BOOLEAN, Confirm(yes) PROVE IInv'
<1>1. TypeOK'
  <2>. TypeOK
    BY DEF IInv
  <2>1. hook' \in HookState /\ req' \in Seq(Request) /\ shellScope' \in Scopes /\ UNCHANGED <<shellMode, scopeFile>>
    <3>1. CASE yes
      BY <3>1, AskTyped DEF Confirm, TypeOK, Words
    <3>2. CASE ~yes
      BY <3>2, PromptTyped DEF Confirm, ToPrompt, TypeOK
    <3>. QED  BY <3>1, <3>2
  <2>. QED  BY <2>1 DEF Confirm, flagVars, history, TypeOK
<1>2. PhaseOK'
  <2>. TypeOK /\ PhaseOK
    BY DEF IInv
  <2>1. CASE Ask("CONFIRM_YES", "ask", "run")
    <3>1. hook'.pc = "run" /\ \A i \in DOMAIN req' : (i \in DOMAIN req /\ req'[i] = req[i]) \/ (req'[i].op = "CONFIRM_YES")
      BY <2>1, AskTyped DEF TypeOK, HookState, Words
    <3>. QED  BY <3>1 DEF Confirm, flagVars, PhaseOK
  <2>2. CASE ~Ask("CONFIRM_YES", "ask", "run")
    BY <2>2, PromptTyped DEF Confirm, ToPrompt, TypeOK, HookState, flagVars, PhaseOK
  <2>. QED  BY <2>1, <2>2
<1>3. ToldOK'
  BY DEF IInv, Confirm, Ask, ToPrompt, flagVars, history, Send, AtPrompt, NoPlace, ToldOK, CancelledAsTold,
         Told
<1>4. InFlight'
  BY DEF IInv, Confirm, Ask, ToPrompt, flagVars, history, Send, AtPrompt, NoPlace, InFlight, Waiting,
         Unheard, Asked, Answers, Working, ModeOf, ScopeOf, TypeOK, HookState, Request, Reply, PhaseOK
<1>5. AuthorityOK'
  BY DEF IInv, Confirm, Ask, ToPrompt, flagVars, history, Send, AtPrompt, NoPlace, AuthorityOK,
         AuthorityTyped, TypeOK, HookState, Request, Reply, PhaseOK, Working, Unheard, Waiting, InFlight,
         Asked, Answers
<1>6. ScopeOK'
  <2>. TypeOK /\ ScopeOK
    BY DEF IInv
  <2>1. CASE Ask("CONFIRM_YES", "ask", "run")
    <3>1. /\ hook'.pc = "run" /\ hook'.place = hook.place /\ hook'.word = hook.word
          /\ \A i \in DOMAIN req' : (i \in DOMAIN req /\ req'[i] = req[i]) \/ (req'[i].op = "CONFIRM_YES" /\ req'[i].place = hook.place)
      BY <2>1, AskTyped DEF TypeOK, HookState, Words
    <3>. QED  BY <3>1 DEF Confirm, history, ScopeOK
  <2>2. CASE ~Ask("CONFIRM_YES", "ask", "run")
    BY <2>2, PromptTyped DEF Confirm, ToPrompt, TypeOK, HookState, history, ScopeOK
  <2>. QED  BY <2>1, <2>2
<1>. QED  BY <1>1, <1>2, <1>3, <1>4, <1>5, <1>6 DEF IInv

LEMMA TimeOutKeeps == ASSUME IInv, TimeOut PROVE IInv'
  BY ForsakeKeeps DEF TimeOut

LEMMA CancelWorkKeeps == ASSUME IInv, CancelWork PROVE IInv'
<1>1. TypeOK'
  BY DEF IInv, CancelWork, shellVars, history, TypeOK, HookState, Modes, Scopes, Request, Reply, NoPlace,
         Grants, Words
<1>2. PhaseOK'
  BY DEF IInv, CancelWork, shellVars, history, PhaseOK, Working
<1>3. ToldOK'
  BY DEF IInv, CancelWork, shellVars, history, ToldOK, CancelledAsTold, Told
<1>4. InFlight'
  BY DEF IInv, CancelWork, shellVars, history, InFlight, Waiting, Unheard, Asked, Answers, Working, ModeOf,
         ScopeOf
<1>5. AuthorityOK'
  BY DEF IInv, CancelWork, shellVars, history, AuthorityOK, AuthorityTyped
<1>6. ScopeOK'
  BY DEF IInv, CancelWork, shellVars, history, ScopeOK, Working, ScopeOf
<1>. QED  BY <1>1, <1>2, <1>3, <1>4, <1>5, <1>6 DEF IInv

LEMMA AcknowledgeKeeps == ASSUME IInv, Acknowledge PROVE IInv'
<1>1. TypeOK'
  BY DEF IInv, Acknowledge, shellVars, history, TypeOK, HookState, Modes, Scopes, Request, Reply, NoPlace,
         Grants, Words
<1>2. PhaseOK'
  BY DEF IInv, Acknowledge, shellVars, history, PhaseOK, Working
<1>3. ToldOK'
  BY DEF IInv, Acknowledge, shellVars, history, ToldOK, CancelledAsTold, Told, TypeOK, HookState, Request,
         Reply, PhaseOK, Working, Unheard, Waiting
<1>4. InFlight'
  BY DEF IInv, Acknowledge, shellVars, history, InFlight, Waiting, Unheard, Asked, Answers, Working,
         ModeOf, ScopeOf
<1>5. AuthorityOK'
  BY DEF IInv, Acknowledge, shellVars, history, AuthorityOK, AuthorityTyped
<1>6. ScopeOK'
  BY DEF IInv, Acknowledge, shellVars, history, ScopeOK, Working, ScopeOf
<1>. QED  BY <1>1, <1>2, <1>3, <1>4, <1>5, <1>6 DEF IInv

LEMMA InterruptShellKeeps == ASSUME IInv, InterruptShell PROVE IInv'
<1>1. CASE Waiting /\ Forsake
  BY <1>1, ForsakeKeeps
<1>2. CASE ~(Waiting /\ Forsake)
  <2>. TypeOK /\ hook.pc \in {"typing", "confirm"} /\ ToPrompt
    BY <1>2 DEF IInv, InterruptShell
  <2>. hook'.pc = "prompt" /\ UNCHANGED <<shellMode, scopeFile, req, rep, ipc, current, reply, flagVars, display, grants,
                                          daemonScope, closing, history>>
    BY <1>2, PromptTyped DEF InterruptShell, ToPrompt
  <2>1. TypeOK'
    BY PromptTyped DEF TypeOK, ToPrompt, flagVars, history
  <2>2. PhaseOK' /\ ToldOK'
    BY PromptTyped DEF IInv, PhaseOK, ToldOK, CancelledAsTold, Told, flagVars
  <2>3. InFlight'
    <3>1. ~Unheard /\ ~Waiting
      BY DEF IInv, InterruptShell, PhaseOK, Unheard, Waiting
    <3>. QED  BY <3>1 DEF IInv, InFlight, Waiting, Unheard, Working, flagVars, history
  <2>4. AuthorityOK' /\ ScopeOK'
    BY DEF IInv, AuthorityOK, AuthorityTyped, ScopeOK, flagVars, history
  <2>. QED  BY <2>1, <2>2, <2>3, <2>4 DEF IInv
<1>. QED  BY <1>1, <1>2

LEMMA LoopKeeps == ASSUME IInv, Loop PROVE IInv'
<1>1. TypeOK'
  BY DEF IInv, Loop, shellVars, flagVars, history, TypeOK, HookState, Modes, Scopes, Request, Reply,
         NoPlace, Grants, Words
<1>2. PhaseOK'
  BY DEF IInv, Loop, shellVars, flagVars, history, PhaseOK, Working
<1>3. ToldOK'
  BY DEF IInv, Loop, shellVars, flagVars, history, ToldOK, CancelledAsTold, Told
<1>4. InFlight'
  BY DEF IInv, Loop, shellVars, flagVars, history, InFlight, Waiting, Unheard, Asked, Answers, Working,
         ModeOf, ScopeOf
<1>5. AuthorityOK'
  BY DEF IInv, Loop, shellVars, flagVars, history, AuthorityOK, AuthorityTyped
<1>6. ScopeOK'
  BY DEF IInv, Loop, shellVars, flagVars, history, ScopeOK, Working, ScopeOf
<1>. QED  BY <1>1, <1>2, <1>3, <1>4, <1>5, <1>6 DEF IInv

LEMMA BeginKeeps == ASSUME IInv, Begin PROVE IInv'
<1>0. /\ Head(req) \in Request /\ Head(req) = req[1] /\ Tail(req) \in Seq(Request) /\ Len(Tail(req)) = Len(req) - 1
      /\ \A i \in DOMAIN Tail(req) : i + 1 \in DOMAIN req /\ Tail(req)[i] = req[i + 1]
  BY Front DEF Begin, IInv, TypeOK
<1>1. TypeOK'
  <2>. TypeOK
    BY DEF IInv
  <2>1. current' \in Request /\ phase' \in {"Idle", "Active", "Publishing"} /\ cancelled' \in BOOLEAN
        /\ display' \in {"nothing", "output", "ack", "late"} /\ ipc' \in {"serving", "gone"} /\ req' \in Seq(Request)
    BY <1>0 DEF Begin, TypeOK
  <2>. QED  BY <2>1 DEF Begin, shellVars, history, TypeOK
<1>2. PhaseOK'
  <2>1. PhaseOK /\ req # <<>> /\ 1 \in DOMAIN req /\ req' = Tail(req)
    BY DEF IInv, Begin, TypeOK
  <2>2. \A i \in DOMAIN req' : req'[i].op = "STOP" => stop
    BY <1>0, <2>1 DEF PhaseOK
  <2>3. CASE Head(req).op = "STOP" \/ stop
    BY <1>0, <2>1, <2>2, <2>3 DEF Begin, shellVars, PhaseOK, Working
  <2>4. CASE ~(Head(req).op = "STOP" \/ stop)
    BY <2>1, <2>2, <2>4 DEF Begin, shellVars, PhaseOK, Working
  <2>. QED  BY <2>3, <2>4
<1>3. ToldOK'
  BY <1>0 DEF IInv, Begin, shellVars, history, ToldOK, CancelledAsTold, Told
<1>4. InFlight'
  BY DEF IInv, Begin, shellVars, history, InFlight, Waiting, Unheard, Asked, Answers, Working, ModeOf,
         ScopeOf
<1>5. AuthorityOK'
  BY <1>0 DEF IInv, Begin, shellVars, history, AuthorityOK, AuthorityTyped
<1>6. ScopeOK'
  BY DEF IInv, Begin, shellVars, history, ScopeOK, Working, ScopeOf
<1>. QED  BY <1>1, <1>2, <1>3, <1>4, <1>5, <1>6 DEF IInv

LEMMA RejectKeeps == ASSUME IInv, Reject PROVE IInv'
<1>1. TypeOK'
  <2>. TypeOK
    BY DEF IInv
  <2>1. reply' \in Reply
    BY AnswerTyped DEF Reject
  <2>. QED  BY <2>1 DEF Reject, shellVars, flagVars, history, TypeOK
<1>2. PhaseOK'
  BY DEF IInv, Reject, Answer, shellVars, flagVars, history, PhaseOK, Working
<1>3. ToldOK'
  BY DEF IInv, Reject, Answer, shellVars, flagVars, history, ToldOK, CancelledAsTold, Told
<1>4. InFlight'
  BY DEF IInv, Reject, Answer, shellVars, flagVars, history, NoReply, InFlight, Waiting, Unheard, Asked,
         Answers, Working, ModeOf, ScopeOf
<1>5. AuthorityOK'
  BY DEF IInv, Reject, Answer, shellVars, flagVars, history, AuthorityOK, AuthorityTyped
<1>6. ScopeOK'
  BY DEF IInv, Reject, Answer, shellVars, flagVars, history, ScopeOK, Working, ScopeOf
<1>. QED  BY <1>1, <1>2, <1>3, <1>4, <1>5, <1>6 DEF IInv

LEMMA ServeKeeps == ASSUME IInv, Serve PROVE IInv'
<1>1. TypeOK'
  <2>. TypeOK
    BY DEF IInv
  <2>1. daemonScope' \in Scopes /\ ipc' \in {"syncing", "running"}
    BY DEF Serve, TypeOK, ScopeOf, Scopes
  <2>2. reply' \in Reply
    <3>1. CASE current.op = "MODE_ACCEPT" /\ ~cancelled
      <4>1. ModeOf(current.word) \in Modes /\ ScopeOf(current.word, scopeFile) \in Scopes /\ current.fresh \in BOOLEAN
        BY DEF TypeOK, Request, Words, Modes, Scopes, ModeOf, ScopeOf
      <4>. QED  BY <3>1, <4>1 DEF Serve, NoReply, Reply
    <3>2. CASE ~(current.op = "MODE_ACCEPT" /\ ~cancelled)
      BY <3>2, AnswerTyped DEF Serve, TypeOK
    <3>. QED  BY <3>1, <3>2
  <2>3. grants' \in [allow : BOOLEAN, workspace : Places \cup {NoPlace}, host : BOOLEAN]
    <3>1. CASE current.op = "MODE_ACCEPT" /\ ~cancelled
      <4>1. current.place \in Places
        BY <3>1 DEF IInv, ScopeOK, Serve, Working
      <4>. QED  BY <3>1, <4>1 DEF Serve, Accept, TypeOK
    <3>2. CASE ~(current.op = "MODE_ACCEPT" /\ ~cancelled)
      BY <3>2 DEF Serve, TypeOK
    <3>. QED  BY <3>1, <3>2
  <2>. QED  BY <2>1, <2>2, <2>3 DEF Serve, shellVars, flagVars, history, TypeOK
<1>2. PhaseOK'
  BY DEF IInv, Serve, Answer, Accepted, ModeOf, ScopeOf, Accept, shellVars, flagVars, history, PhaseOK,
         Working
<1>3. ToldOK'
  <2>. ToldOK /\ UNCHANGED <<display, rep, phase, cancelled, lock, stop>> /\ ipc' \in {"syncing", "running"}
    BY DEF IInv, Serve, flagVars
  <2>1. ipc' = "syncing" /\ reply'.kind = "CANCELLED" => cancelled
    BY DEF Serve, Answer, NoReply
  <2>. QED  BY <2>1 DEF ToldOK, CancelledAsTold, Told
<1>4. InFlight'
  <2>. TypeOK /\ PhaseOK /\ InFlight /\ ipc = "serving"
    BY DEF IInv, Serve
  <2>1. UNCHANGED <<hook, req, rep, current, stop, abandoned, crossed>> /\ ipc' \in {"syncing", "running"}
    BY DEF Serve, shellVars, flagVars, history
  <2>2. ASSUME abandoned = 0, ~stop, ipc' = "syncing"
        PROVE  Answers(reply)'
    <3>1. Waiting /\ Asked(current)
      BY <2>2 DEF InFlight, Unheard, Working
    <3>2. reply'.fresh = current.fresh
      BY <2>2 DEF Serve, Answer, NoReply
    <3>3. CASE reply'.kind = "MODE_OK"
      <4>1. current.op = "MODE_ACCEPT" /\ reply'.mode = ModeOf(current.word)
            /\ reply'.scope = ScopeOf(current.word, scopeFile)
        BY <2>2, <3>3 DEF Serve, Answer, NoReply
      <4>2. hook.pc = "accept" => current.word = hook.word
        BY <3>1 DEF Asked
      <4>. QED  BY <2>1, <3>1, <3>2, <4>1, <4>2 DEF Answers, Asked, ScopeOf
    <3>4. CASE reply'.kind # "MODE_OK"
      BY <2>1, <3>1, <3>2, <3>4 DEF Answers, Asked
    <3>. QED  BY <3>3, <3>4
  <2>. QED  BY <2>1, <2>2 DEF InFlight, Waiting, Unheard, Working, Asked, Answers
<1>5. AuthorityOK'
  <2>. TypeOK /\ PhaseOK /\ InFlight /\ AuthorityOK /\ ScopeOK /\ ipc = "serving"
    BY DEF IInv, Serve
  <2>1. UNCHANGED <<hook, req, rep, current, stop, abandoned, typed>> /\ ipc' \in {"syncing", "running"}
    BY DEF Serve, shellVars, flagVars, history
  <2>2. ASSUME abandoned = 0, NEW word \in Words, NEW scope \in Scopes, NEW place \in Places,
               Accepted(grants, ModeOf(word), scope, place)
        PROVE  Covered(typed, ModeOf(word), scope, place)
    <3>1. CASE ModeOf(word) = "ask"
      BY <3>1 DEF Covered
    <3>2. CASE ModeOf(word) = "allow"
      BY <2>2, <3>2 DEF Accepted, AuthorityOK, AuthorityTyped, Covered, Grant
    <3>3. CASE ModeOf(word) = "agent" /\ grants.host
      BY <2>2, <3>3 DEF AuthorityOK, AuthorityTyped, Covered, Grant
    <3>4. CASE ModeOf(word) = "agent" /\ ~grants.host
      <4>1. scope # "host" /\ grants.workspace \in Within[place] /\ grants.workspace \in Places
            /\ Within[grants.workspace] \subseteq Within[place]
        BY <2>2, <3>4, WithinAssumption DEF Accepted
      <4>2. Covered(typed, "agent", "workspace", grants.workspace)
        BY <2>2, <4>1 DEF AuthorityOK, AuthorityTyped
      <4>. QED  BY <3>4, <4>1, <4>2 DEF Covered, Grant
    <3>. QED  BY <3>1, <3>2, <3>3, <3>4 DEF ModeOf, Words
  <2>3. current.word \in Words /\ scopeFile \in Scopes
    BY DEF TypeOK, Request
  <2>4. CASE ~cancelled /\ current.op = "MODE_ACCEPT"
    <3>. current.place \in Places /\ current.place \in Within[current.place]
      BY <2>4, WithinAssumption DEF ScopeOK, Working
    <3>. grants' = Accept(grants, ModeOf(current.word), ScopeOf(current.word, scopeFile), current.place)
      BY <2>4 DEF Serve
    <3>. reply'.kind = "MODE_OK"
      BY <2>4 DEF Serve, NoReply
    <3>1. abandoned = 0 => Earned(typed, current.word, current.place)
      BY <2>4 DEF AuthorityOK
    <3>2. abandoned = 0 /\ grants'.allow => \A p \in Places : Covered(typed, "allow", "workspace", p)
      BY <2>3, <3>1 DEF Accept, TypeOK, AuthorityOK, AuthorityTyped, Earned, Covered, ModeOf, ScopeOf,
             Grant, Words
    <3>3. abandoned = 0 /\ grants'.host => \A p \in Places : Covered(typed, "agent", "host", p)
      BY <2>3, <3>1 DEF Accept, TypeOK, AuthorityOK, AuthorityTyped, Earned, Covered, ModeOf, ScopeOf,
             Grant, Words
    <3>4. grants'.workspace \in {grants.workspace, current.place}
          /\ (grants'.workspace # grants.workspace => current.word = "agent")
      BY <2>3 DEF Accept, TypeOK, ModeOf, ScopeOf, Words
    <3>5. abandoned = 0 /\ grants'.workspace \in Places => Covered(typed, "agent", "workspace", grants'.workspace)
      BY <2>3, <3>1, <3>4 DEF AuthorityOK, AuthorityTyped, Earned, ModeOf, ScopeOf
    <3>. QED  BY <2>1, <2>4, <3>2, <3>3, <3>5 DEF Serve, AuthorityOK, AuthorityTyped
  <2>5. CASE ~(~cancelled /\ current.op = "MODE_ACCEPT")
    <3>1. UNCHANGED grants
      BY <2>5 DEF Serve
    <3>2. ASSUME abandoned = 0, ipc' = "running", current.op = "NL"
          PROVE  Covered(typed, current.word, daemonScope', current.place)
      <4>1. current.place \in Places /\ daemonScope' = scopeFile /\ Accepted(grants, current.word, scopeFile, current.place)
        BY <3>2 DEF Serve, ScopeOK, Working
      <4>2. ModeOf(current.word) = current.word \/ ~Accepted(grants, current.word, scopeFile, current.place)
        BY <2>3 DEF ModeOf, Accepted, Words
      <4>3. Covered(typed, ModeOf(current.word), scopeFile, current.place)
        BY <2>2, <2>3, <3>2, <4>1, <4>2
      <4>. QED  BY <4>1, <4>2, <4>3
    <3>3. ASSUME abandoned = 0, reply'.kind = "ACCEPTED", ipc' = "syncing"
          PROVE  Earned(typed, current.word, current.place)
      <4>1. current.op = "MODE_CHECK" /\ ~cancelled
            /\ Accepted(grants, ModeOf(current.word), ScopeOf(current.word, scopeFile), current.place)
        BY <3>3 DEF Serve, Answer, NoReply
      <4>2. current.place \in Places /\ ScopeOf(current.word, scopeFile) \in Scopes
        BY <2>3, <4>1 DEF ScopeOK, Working, ScopeOf, Scopes
      <4>3. Covered(typed, ModeOf(current.word), ScopeOf(current.word, scopeFile), current.place)
        BY <2>2, <2>3, <3>3, <4>1, <4>2
      <4>. QED  BY <2>3, <4>3 DEF Earned, Covered, ModeOf, ScopeOf, Words
    <3>. QED  BY <2>1, <3>1, <3>2, <3>3 DEF AuthorityOK, AuthorityTyped
  <2>. QED  BY <2>4, <2>5
<1>6. ScopeOK'
  BY DEF IInv, Serve, Answer, Accepted, ModeOf, ScopeOf, Accept, NoReply, shellVars, flagVars, history,
         ScopeOK, Working, TypeOK, HookState, Request, Reply, PhaseOK, Unheard, Waiting, InFlight, Asked,
         Answers
<1>. QED  BY <1>1, <1>2, <1>3, <1>4, <1>5, <1>6 DEF IInv

LEMMA ShowKeeps == ASSUME IInv, Show PROVE IInv'
<1>1. TypeOK'
  BY DEF IInv, Show, shellVars, flagVars, history, TypeOK, HookState, Modes, Scopes, Request, Reply,
         NoPlace, Grants, Words
<1>2. PhaseOK'
  BY DEF IInv, Show, shellVars, flagVars, history, PhaseOK, Working
<1>3. ToldOK'
  BY DEF IInv, Show, shellVars, flagVars, history, ToldOK, CancelledAsTold, Told
<1>4. InFlight'
  BY DEF IInv, Show, shellVars, flagVars, history, InFlight, Waiting, Unheard, Asked, Answers, Working,
         ModeOf, ScopeOf
<1>5. AuthorityOK'
  BY DEF IInv, Show, shellVars, flagVars, history, AuthorityOK, AuthorityTyped
<1>6. ScopeOK'
  BY DEF IInv, Show, shellVars, flagVars, history, ScopeOK, Working, ScopeOf
<1>. QED  BY <1>1, <1>2, <1>3, <1>4, <1>5, <1>6 DEF IInv

LEMMA EndTurnKeeps == ASSUME IInv, EndTurn PROVE IInv'
<1>1. TypeOK'
  <2>. TypeOK
    BY DEF IInv
  <2>1. reply' \in Reply
    BY AnswerTyped DEF EndTurn
  <2>. QED  BY <2>1 DEF EndTurn, shellVars, flagVars, history, TypeOK
<1>2. PhaseOK'
  BY DEF IInv, EndTurn, Answer, shellVars, flagVars, history, PhaseOK, Working
<1>3. ToldOK'
  BY DEF IInv, EndTurn, Answer, shellVars, flagVars, history, ToldOK, CancelledAsTold, Told
<1>4. InFlight'
  BY DEF IInv, EndTurn, Answer, shellVars, flagVars, history, NoReply, InFlight, Waiting, Unheard, Asked,
         Answers, Working, ModeOf, ScopeOf
<1>5. AuthorityOK'
  BY DEF IInv, EndTurn, Answer, shellVars, flagVars, history, AuthorityOK, AuthorityTyped
<1>6. ScopeOK'
  BY DEF IInv, EndTurn, Answer, shellVars, flagVars, history, ScopeOK, Working, ScopeOf
<1>. QED  BY <1>1, <1>2, <1>3, <1>4, <1>5, <1>6 DEF IInv

LEMMA SyncKeeps == ASSUME IInv, Sync PROVE IInv'
<1>1. TypeOK'
  BY DEF IInv, Sync, shellVars, flagVars, history, TypeOK, HookState, Modes, Scopes, Request, Reply,
         NoPlace, Grants, Words
<1>2. PhaseOK'
  BY DEF IInv, Sync, shellVars, flagVars, history, PhaseOK, Working
<1>3. ToldOK'
  BY DEF IInv, Sync, shellVars, flagVars, history, ToldOK, CancelledAsTold, Told
<1>4. InFlight'
  BY DEF IInv, Sync, shellVars, flagVars, history, InFlight, Waiting, Unheard, Asked, Answers, Working,
         ModeOf, ScopeOf
<1>5. AuthorityOK'
  BY DEF IInv, Sync, shellVars, flagVars, history, AuthorityOK, AuthorityTyped
<1>6. ScopeOK'
  BY DEF IInv, Sync, shellVars, flagVars, history, ScopeOK, Working, ScopeOf
<1>. QED  BY <1>1, <1>2, <1>3, <1>4, <1>5, <1>6 DEF IInv

LEMMA CommitKeeps == ASSUME IInv, Commit PROVE IInv'
<1>1. TypeOK'
  <2>. TypeOK
    BY DEF IInv
  <2>1. reply' \in Reply
    BY DEF Commit, TypeOK, Reply
  <2>. QED  BY <2>1 DEF Commit, shellVars, history, TypeOK
<1>2. PhaseOK'
  BY DEF IInv, Commit, shellVars, history, PhaseOK, Working
<1>3. ToldOK'
  BY DEF IInv, Commit, shellVars, history, ToldOK, CancelledAsTold, Told, TypeOK, HookState, Request,
         Reply, PhaseOK, Working, Unheard, Waiting
<1>4. InFlight'
  BY DEF IInv, Commit, shellVars, history, InFlight, Waiting, Unheard, Asked, Answers, Working, ModeOf,
         ScopeOf
<1>5. AuthorityOK'
  BY DEF IInv, Commit, shellVars, history, AuthorityOK, AuthorityTyped
<1>6. ScopeOK'
  BY DEF IInv, Commit, shellVars, history, ScopeOK, Working, ScopeOf
<1>. QED  BY <1>1, <1>2, <1>3, <1>4, <1>5, <1>6 DEF IInv

LEMMA PublishKeeps == ASSUME IInv, Publish PROVE IInv'
<1>1. TypeOK'
  BY DEF IInv, Publish, shellVars, flagVars, history, TypeOK, HookState, Modes, Scopes, Request, Reply,
         NoPlace, Grants, Words
<1>2. PhaseOK'
  BY DEF IInv, Publish, shellVars, flagVars, history, PhaseOK, Working
<1>3. ToldOK'
  BY DEF IInv, Publish, shellVars, flagVars, history, ToldOK, CancelledAsTold, Told
<1>4. InFlight'
  BY DEF IInv, Publish, shellVars, flagVars, history, InFlight, Waiting, Unheard, Asked, Answers, Working,
         ModeOf, ScopeOf
<1>5. AuthorityOK'
  <2>. TypeOK /\ AuthorityOK /\ PhaseOK /\ InFlight
    BY DEF IInv
  <2>1. ASSUME abandoned = 0, ~stop, hook.pc = "check", NEW i \in DOMAIN rep', rep'[i].kind = "ACCEPTED"
        PROVE  Earned(typed, hook.word, hook.place)
    <3>1. rep = <<>> /\ Asked(current)
      BY <2>1 DEF Publish, InFlight, Unheard, Waiting
    <3>2. rep' = <<reply>>
      BY <3>1 DEF Publish
    <3>3. Earned(typed, current.word, current.place)
      BY <2>1, <3>2 DEF Publish, AuthorityOK
    <3>. QED  BY <2>1, <3>1, <3>3 DEF Asked
  <2>. QED  BY <2>1 DEF Publish, AuthorityOK, AuthorityTyped, shellVars, flagVars, history
<1>6. ScopeOK'
  BY DEF IInv, Publish, shellVars, flagVars, history, ScopeOK, Working, ScopeOf
<1>. QED  BY <1>1, <1>2, <1>3, <1>4, <1>5, <1>6 DEF IInv

LEMMA RestKeeps == ASSUME IInv, Rest PROVE IInv'
<1>1. TypeOK'
  BY DEF IInv, Rest, NoRequest, NoReply, shellVars, history, NoPlace, TypeOK, HookState, Modes, Scopes,
         Request, Reply, Grants, Words
<1>2. PhaseOK'
  BY DEF IInv, Rest, NoRequest, shellVars, history, NoPlace, PhaseOK, Working
<1>3. ToldOK'
  BY DEF IInv, Rest, NoRequest, shellVars, history, NoPlace, ToldOK, CancelledAsTold, Told
<1>4. InFlight'
  BY DEF IInv, Rest, NoRequest, NoReply, shellVars, history, NoPlace, InFlight, Waiting, Unheard, Asked,
         Answers, Working, ModeOf, ScopeOf
<1>5. AuthorityOK'
  BY DEF IInv, Rest, NoRequest, shellVars, history, NoPlace, AuthorityOK, AuthorityTyped
<1>6. ScopeOK'
  BY DEF IInv, Rest, NoRequest, shellVars, history, NoPlace, ScopeOK, Working, ScopeOf
<1>. QED  BY <1>1, <1>2, <1>3, <1>4, <1>5, <1>6 DEF IInv

LEMMA StopKeeps == ASSUME IInv, Stop PROVE IInv'
<1>1. TypeOK'
  <2>1. hook' \in HookState
    BY PromptTyped DEF Stop, HookState
  <2>. QED  BY <2>1 DEF IInv, Stop, history, TypeOK
<1>2. PhaseOK'
  BY DEF IInv, Stop, AtPrompt, history, NoPlace, PhaseOK, Working
<1>3. ToldOK'
  BY DEF IInv, Stop, AtPrompt, history, NoPlace, ToldOK, CancelledAsTold, Told
<1>4. InFlight'
  BY DEF IInv, Stop, AtPrompt, history, NoPlace, InFlight, Waiting, Unheard, Asked, Answers, Working,
         ModeOf, ScopeOf
<1>5. AuthorityOK'
  BY DEF IInv, Stop, AtPrompt, history, NoPlace, AuthorityOK, AuthorityTyped
<1>6. ScopeOK'
  BY DEF IInv, Stop, AtPrompt, history, NoPlace, ScopeOK, Working, ScopeOf
<1>. QED  BY <1>1, <1>2, <1>3, <1>4, <1>5, <1>6 DEF IInv

LEMMA WakeUpKeeps == ASSUME IInv, WakeUp PROVE IInv'
<1>1. TypeOK'
  <2>. TypeOK
    BY DEF IInv
  <2>1. req' \in Seq(Request)
    BY Constants, Back DEF WakeUp, TypeOK
  <2>. QED  BY <2>1 DEF WakeUp, shellVars, flagVars, history, TypeOK
<1>2. PhaseOK'
  BY DEF IInv, WakeUp, NoRequest, shellVars, flagVars, history, NoPlace, PhaseOK, Working
<1>3. ToldOK'
  BY DEF IInv, WakeUp, NoRequest, shellVars, flagVars, history, NoPlace, ToldOK, CancelledAsTold, Told
<1>4. InFlight'
  BY DEF IInv, WakeUp, NoRequest, shellVars, flagVars, history, NoPlace, InFlight, Waiting, Unheard, Asked,
         Answers, Working, ModeOf, ScopeOf, TypeOK, HookState, Request, Reply, PhaseOK
<1>5. AuthorityOK'
  BY DEF IInv, WakeUp, NoRequest, shellVars, flagVars, history, NoPlace, AuthorityOK, AuthorityTyped
<1>6. ScopeOK'
  BY DEF IInv, WakeUp, NoRequest, shellVars, flagVars, history, NoPlace, ScopeOK, Working, ScopeOf
<1>. QED  BY <1>1, <1>2, <1>3, <1>4, <1>5, <1>6 DEF IInv

LEMMA JoinKeeps == ASSUME IInv, Join PROVE IInv'
<1>1. TypeOK'
  BY DEF IInv, Join, shellVars, flagVars, history, TypeOK, HookState, Modes, Scopes, Request, Reply,
         NoPlace, Grants, Words
<1>2. PhaseOK'
  BY DEF IInv, Join, shellVars, flagVars, history, PhaseOK, Working
<1>3. ToldOK'
  BY DEF IInv, Join, shellVars, flagVars, history, ToldOK, CancelledAsTold, Told
<1>4. InFlight'
  BY DEF IInv, Join, shellVars, flagVars, history, InFlight, Waiting, Unheard, Asked, Answers, Working,
         ModeOf, ScopeOf
<1>5. AuthorityOK'
  BY DEF IInv, Join, shellVars, flagVars, history, AuthorityOK, AuthorityTyped
<1>6. ScopeOK'
  BY DEF IInv, Join, shellVars, flagVars, history, ScopeOK, Working, ScopeOf
<1>. QED  BY <1>1, <1>2, <1>3, <1>4, <1>5, <1>6 DEF IInv

LEMMA InitKeeps == Init => IInv
<1>. SUFFICES ASSUME Init PROVE IInv
  OBVIOUS
<1>1. TypeOK
  <2>1. <<>> \in Seq(Request) /\ <<>> \in Seq(Reply) /\ 0 \in 0 .. MaxAbandons /\ 0 \in 0 .. MaxLines
    BY BoundsAssumption
  <2>. QED  BY <2>1, Constants, PromptTyped DEF Init, TypeOK
<1>2. PhaseOK /\ ToldOK
  BY PromptTyped DEF Init, PhaseOK, Working, ToldOK, CancelledAsTold
<1>3. InFlight
  BY PromptTyped DEF Init, InFlight, Waiting, Unheard, Working
<1>4. AuthorityOK
  BY PromptTyped, WithinAssumption DEF Init, NoRequest, AuthorityOK, AuthorityTyped
<1>5. ScopeOK
  BY PromptTyped DEF Init, ScopeOK, Working
<1>. QED  BY <1>1, <1>2, <1>3, <1>4, <1>5 DEF IInv

LEMMA NextKeeps == IInv /\ [Next]_vars => IInv'
<1>. SUFFICES ASSUME IInv, [Next]_vars PROVE IInv'
  OBVIOUS
<1>1. CASE User
  BY <1>1, EnterKeeps, TypeGrantKeeps, ConfirmKeeps, CancelWorkKeeps, InterruptShellKeeps, TimeOutKeeps,
         StopKeeps DEF User
<1>2. CASE Hears
  BY <1>2, HearCheckKeeps, HearAcceptKeeps, HearTurnKeeps DEF Hears
<1>3. CASE Daemon
  BY <1>3, LoopKeeps, BeginKeeps, RejectKeeps, ServeKeeps, ShowKeeps, EndTurnKeeps, SyncKeeps, CommitKeeps,
     PublishKeeps, RestKeeps DEF Daemon
<1>4. CASE Acknowledge
  BY <1>4, AcknowledgeKeeps
<1>5. CASE Closing
  BY <1>5, WakeUpKeeps, JoinKeeps DEF Closing
<1>6. CASE UNCHANGED vars
  <2>1. TypeOK' /\ PhaseOK' /\ ToldOK'
    BY <1>6 DEF vars, IInv, TypeOK, PhaseOK, ToldOK, CancelledAsTold, Told
  <2>2. InFlight'
    BY <1>6 DEF vars, IInv, InFlight, Waiting, Unheard, Asked, Answers
  <2>3. AuthorityOK' /\ ScopeOK'
    BY <1>6 DEF vars, IInv, AuthorityOK, AuthorityTyped, ScopeOK
  <2>. QED  BY <2>1, <2>2, <2>3 DEF IInv
<1>. QED  BY <1>1, <1>2, <1>3, <1>4, <1>5, <1>6 DEF Next

(* The inductive invariant: the phase follows the thread, a line is in one place, *)
(* and what could become a grant was typed.                                       *)
THEOREM Invariance == Spec => []IInv
  BY InitKeeps, NextKeeps, PTL DEF Spec

(* The hook's, the thread's and the FIFOs' values keep their types. *)
THEOREM TypeCorrect == Spec => []TypeOK
<1>1. IInv => TypeOK
  BY DEF IInv
<1>. QED  BY <1>1, Invariance, PTL

(* Told and done: an acknowledged Ctrl-C is the end of its request, and only it is. *)
THEOREM CancellationsTold == Spec => []CancelledAsTold
<1>1. IInv => CancelledAsTold
  BY DEF IInv, ToldOK
<1>. QED  BY <1>1, Invariance, PTL

(* Without a request given up, every reply read is the reply to what was asked. *)
THEOREM RepliesAligned == Spec => []Aligned
<1>1. IInv => Aligned
  BY DEF IInv, InFlight, Aligned
<1>. QED  BY <1>1, Invariance, PTL

(* Without a request given up, no grant is held and no turn runs that was not typed. *)
THEOREM GrantsTyped == Spec => []AuthorityTyped
<1>1. IInv => AuthorityTyped
  BY DEF IInv, AuthorityOK
<1>. QED  BY <1>1, Invariance, PTL

(* A turn runs in the mode, the scope and the place its prelude checked. *)
THEOREM TurnsAsAsked == Spec => []TurnAsAsked
<1>1. ASSUME IInv PROVE TurnAsAsked
  <2>1. SUFFICES ASSUME ipc = "running", current.op = "NL", abandoned = 0, ~stop
                 PROVE  /\ current.place = hook.place /\ current.word = ModeOf(hook.word)
                        /\ current.word = "agent" => GrantWord("agent", daemonScope) = hook.word
    BY DEF TurnAsAsked
  <2>2. Asked(current) /\ Waiting
    BY <1>1, <2>1 DEF IInv, InFlight, Unheard, Working
  <2>3. hook.pc = "turn"
    BY <2>1, <2>2 DEF Asked, Waiting
  <2>4. daemonScope = ScopeOf(hook.word, daemonScope) /\ hook.word \in Words
    BY <1>1, <2>1, <2>3 DEF IInv, ScopeOK, TypeOK, HookState
  <2>. QED  BY <2>2, <2>3, <2>4 DEF Asked, ModeOf, ScopeOf, GrantWord, Words
<1>. QED  BY <1>1, Invariance, PTL

(* A shell that closes begins no request. *)
THEOREM ClosedToRequests == Spec => ClosesAdmission
<1>1. ASSUME IInv, [Next]_vars, stop, phase = "Idle" PROVE phase' = "Idle"
  <2>. ipc \notin Working \cup {"publishing", "resting"}
    BY <1>1 DEF IInv, PhaseOK
  <2>1. CASE User
    BY <1>1, <2>1 DEF User, Enter, TypeGrant, Confirm, CancelWork, InterruptShell, TimeOut, Forsake, Stop,
           flagVars
  <2>2. CASE Hears
    BY <2>2, <1>1 DEF Hears, HearCheck, HearAccept, HearTurn, Hear, flagVars
  <2>3. CASE Daemon
    BY <2>3, <1>1 DEF Daemon, Loop, Begin, Reject, Serve, Show, EndTurn, Sync, Commit, Publish, Rest,
           flagVars, Working
  <2>4. CASE Acknowledge \/ Closing \/ UNCHANGED vars
    BY <2>4, <1>1 DEF Acknowledge, Closing, WakeUp, Join, vars, flagVars
  <2>. QED  BY <1>1, <2>1, <2>2, <2>3, <2>4 DEF Next
<1>. QED  BY <1>1, Invariance, PTL DEF Spec, ClosesAdmission
=============================================================================
