------------------------------ MODULE ToolBridge ------------------------------
(***************************************************************************)
(* The tool bridge of the managed-AI path (src/src/backend/bridge.rs) with *)
(* the foreground worker that serves it (src/src/agent/tool_worker.rs).    *)
(*                                                                         *)
(* The OpenCode plugin asks for a tool call; the supervisor admits it under *)
(* the lease of a foreground AIShe process, journals it, hands it to that  *)
(* process' worker, and answers the plugin with the worker's result.  A    *)
(* call is named by its key; the journal is what makes the key idempotent   *)
(* over retries, lost leases and restarts of the supervisor.               *)
(*                                                                         *)
(* Every method changes the state under the mutex, drops the mutex and     *)
(* only then calls persist(), which locks again and writes the state of    *)
(* that moment: the two halves are two actions here.                       *)
(***************************************************************************)
EXTENDS Naturals, Sequences, FiniteSets

CONSTANTS
    Sessions,    \* backend sessions, roots and children
    Calls,       \* call keys (session_id, message_id, call_id)
    SessionOf,   \* the session_id of a key
    Workers,     \* ToolWorkers; each registers once, so it stands for its lease_id
    Requests,    \* HTTP requests of the plugin: tool calls and child registrations
    MaxHops,     \* ancestry hops lease_owner follows (32)
    JournalCap,  \* calls persist() keeps (10 000)
    None

ASSUME BridgeAssumption ==
    /\ SessionOf \in [Calls -> Sessions]
    /\ IsFiniteSet(Calls)
    /\ MaxHops \in Nat \ {0}
    /\ JournalCap \in Nat \ {0}
    /\ None \notin Sessions \cup Calls \cup Workers

VARIABLES
    lease,     \* leases: session -> worker whose lease_id is registered
    queue,     \* the lease's queue of admitted keys
    children,  \* child session -> parent session
    calls,     \* calls: key -> ActiveCall
    clock,     \* created_at_ms: counts admissions, survives restarts
    journal,   \* the journal file
    pc, home, work,                        \* workers: position, session, call in hand
    rpc, rcall, rowner, answer, reported,  \* requests: position, key, lease owner, reply
    ran        \* history: the workers that ran each call's tool

serverVars == <<lease, queue, children, calls, clock>>
workerVars == <<pc, home, work>>
requestVars == <<rpc, rcall, rowner, answer, reported>>
vars == <<serverVars, journal, workerVars, requestVars, ran>>

Statuses == {"absent", "Admitted", "Dispatched", "Started", "Completed", "OutcomeUnknown"}

\* ActiveCall: `live` is request.is_some(), `result` names the run it reports
\* (the full and the redacted outcome report the same run).
CallRecord == [status : Statuses, owner : Sessions \cup {None}, live : BOOLEAN,
               result : Workers \cup {None}, created : Nat]

Absent == [status |-> "absent", owner |-> None, live |-> FALSE, result |-> None, created |-> 0]

WorkerPc == {"new", "polling", "dispatching", "got", "starting", "execute", "executed",
             "completing", "stopped"}
RequestPc == {"idle", "admitting", "attaching", "waiting", "returned"}
Answers == {"none", "result", "outcome_unknown", "unavailable", "timeout", "error",
            "attached", "conflict"}

-----------------------------------------------------------------------------
(* Ancestry. *)

\* The session n hops above s, None when the chain is shorter.
Ancestor[n \in Nat] ==
    [s \in Sessions |->
        IF n = 0 THEN s
        ELSE IF Ancestor[n - 1][s] = None THEN None
             ELSE children[Ancestor[n - 1][s]]]

\* Faulty variant: one hop more than the cycle check of register_child looks at.
LeaseOwnerDeeper(s, o) ==
    /\ children[o] = None
    /\ \E n \in 0 .. MaxHops : Ancestor[n][s] = o

\* lease_owner(s) returns o.
LeaseOwner(s, o) ==
    /\ children[o] = None
    /\ \E n \in 0 .. MaxHops - 1 : Ancestor[n][s] = o

\* register_child's cycle check: walking up from s meets the ancestor.
Descends(s, ancestor) == \E n \in 0 .. MaxHops - 1 : Ancestor[n][s] = ancestor

(* The journal. *)

\* persist() sorts by created_at and drains the oldest beyond the cap.
Kept(c) ==
    Cardinality({d \in Calls : calls[d].created > calls[c].created}) < JournalCap

Snapshot ==
    [calls |-> [c \in Calls |-> IF Kept(c) THEN [calls[c] EXCEPT !.live = FALSE] ELSE Absent],
     children |-> children]

Persist == journal' = Snapshot

\* Faulty variants: recovery forgets a call in flight, or doubts every call.
RecoveredForgets(call) ==
    IF call.status \in {"Dispatched", "Started"} THEN Absent ELSE call
RecoveredDoubtsAll(call) ==
    IF call.status = "absent" THEN call ELSE [call EXCEPT !.status = "OutcomeUnknown"]

\* What open() makes of a journalled call.
Recovered(call) ==
    IF call.status \in {"Dispatched", "Started"}
    THEN [call EXCEPT !.status = "OutcomeUnknown"]
    ELSE call

-----------------------------------------------------------------------------
Init ==
    /\ lease = [s \in Sessions |-> None]
    /\ queue = [s \in Sessions |-> <<>>]
    /\ children = [s \in Sessions |-> None]
    /\ calls = [c \in Calls |-> Absent]
    /\ clock = 1
    /\ journal = [calls |-> [c \in Calls |-> Absent], children |-> [s \in Sessions |-> None]]
    /\ pc = [w \in Workers |-> "new"]
    /\ home = [w \in Workers |-> None]
    /\ work = [w \in Workers |-> None]
    /\ rpc = [r \in Requests |-> "idle"]
    /\ rcall = [r \in Requests |-> None]
    /\ rowner = [r \in Requests |-> None]
    /\ answer = [r \in Requests |-> "none"]
    /\ reported = [r \in Requests |-> None]
    /\ ran = [c \in Calls |-> <<>>]

-----------------------------------------------------------------------------
(* The foreground worker and its lease. *)

\* lease_for_identity: the lease of the session is still this worker's.
Holds(w, s) == s # None /\ lease[s] = w

\* register replaces any lease of the session, and with it the queue.
Register(w, s) ==
    /\ pc[w] = "new"
    /\ lease' = [lease EXCEPT ![s] = w]
    /\ queue' = [queue EXCEPT ![s] = <<>>]
    /\ pc' = [pc EXCEPT ![w] = "polling"]
    /\ home' = [home EXCEPT ![w] = s]
    /\ UNCHANGED <<children, calls, clock, journal, work, requestVars, ran>>

\* unregister, sent by shutdown() whatever the worker thread is doing.
Unregister(w) ==
    /\ Holds(w, home[w])
    /\ lease' = [lease EXCEPT ![home[w]] = None]
    /\ queue' = [queue EXCEPT ![home[w]] = <<>>]
    /\ UNCHANGED <<children, calls, clock, journal, workerVars, requestVars, ran>>

\* The TTL runs out.  No method revives an expired lease, so an expired lease
\* is an absent one, whether or not cleanup_expired has dropped it yet.
Expire(s) ==
    /\ lease[s] # None
    /\ lease' = [lease EXCEPT ![s] = None]
    /\ queue' = [queue EXCEPT ![s] = <<>>]
    /\ UNCHANGED <<children, calls, clock, journal, workerVars, requestVars, ran>>

\* Faulty variant: next takes the whole queue and serves its head.
Next_popDrains(w) ==
    /\ pc[w] = "polling"
    /\ Holds(w, home[w])
    /\ queue[home[w]] # <<>>
    /\ LET c == Head(queue[home[w]]) IN
        /\ calls' = [calls EXCEPT ![c].status = "Dispatched"]
        /\ queue' = [queue EXCEPT ![home[w]] = <<>>]
        /\ pc' = [pc EXCEPT ![w] = "dispatching"]
        /\ work' = [work EXCEPT ![w] = c]
    /\ UNCHANGED <<lease, children, clock, journal, home, requestVars, ran>>

\* next, first half: pop the queue and mark the call Dispatched.
Next_pop(w) ==
    /\ pc[w] = "polling"
    /\ Holds(w, home[w])
    /\ queue[home[w]] # <<>>
    /\ LET c == Head(queue[home[w]]) IN
        /\ calls' = [calls EXCEPT ![c].status = "Dispatched"]
        /\ queue' = [queue EXCEPT ![home[w]] = Tail(@)]
        /\ pc' = [pc EXCEPT ![w] = IF calls[c].live THEN "dispatching" ELSE "stopped"]
        /\ work' = [work EXCEPT ![w] = c]
    /\ UNCHANGED <<lease, children, clock, journal, home, requestVars, ran>>

\* started and complete run under the lease of the call's owner.
OwnsCall(w) == Holds(w, calls[work[w]].owner)

\* started, first half.
Started(w) ==
    /\ pc[w] = "got"
    /\ OwnsCall(w)
    /\ calls[work[w]].status = "Dispatched"
    /\ calls' = [calls EXCEPT ![work[w]].status = "Started"]
    /\ pc' = [pc EXCEPT ![w] = "starting"]
    /\ UNCHANGED <<lease, queue, children, clock, journal, home, work, requestVars, ran>>

\* execute(): the tool runs, outside every lock of the bridge.
Execute(w) ==
    /\ pc[w] = "execute"
    /\ ran' = [ran EXCEPT ![work[w]] = Append(@, w)]
    /\ pc' = [pc EXCEPT ![w] = "executed"]
    /\ UNCHANGED <<serverVars, journal, home, work, requestVars>>

\* complete, first half; a second completion is accepted and changes nothing.
Complete(w) ==
    /\ pc[w] = "executed"
    /\ OwnsCall(w)
    /\ calls[work[w]].status = "Started"
    /\ calls' = [calls EXCEPT ![work[w]].status = "Completed", ![work[w]].result = w]
    /\ pc' = [pc EXCEPT ![w] = "completing"]
    /\ UNCHANGED <<lease, queue, children, clock, journal, home, work, requestVars, ran>>

\* The second half of next, started and complete: persist, then reply.
WorkerPersists(w) ==
    /\ \/ pc[w] = "dispatching" /\ pc' = [pc EXCEPT ![w] = "got"]
       \/ pc[w] = "starting" /\ pc' = [pc EXCEPT ![w] = "execute"]
       \/ pc[w] = "completing" /\ pc' = [pc EXCEPT ![w] = "polling"]
    /\ Persist
    /\ UNCHANGED <<serverVars, home, work, requestVars, ran>>

\* The worker leaves its loop: a call is refused (its lease is gone, or the
\* status does not admit it), persist fails, a reply is lost, the process dies.
WorkerStops(w) ==
    /\ pc[w] \notin {"new", "stopped"}
    /\ pc' = [pc EXCEPT ![w] = "stopped"]
    /\ UNCHANGED <<serverVars, journal, home, work, requestVars, ran>>

-----------------------------------------------------------------------------
(* Requests of the plugin. *)

\* Every request ends in one reply.
Reply(r, kind, w) ==
    /\ rpc' = [rpc EXCEPT ![r] = "returned"]
    /\ answer' = [answer EXCEPT ![r] = kind]
    /\ reported' = [reported EXCEPT ![r] = w]

\* Faulty variant: a completed key is admitted again.
AdmitCompleted(r, c, o) ==
    /\ rpc[r] = "idle"
    /\ LeaseOwner(SessionOf[c], o)
    /\ calls[c].status \in {"absent", "Completed"}
    /\ lease[o] # None
    /\ calls' = [calls EXCEPT ![c] = [status |-> "Admitted", owner |-> o, live |-> TRUE,
                                      result |-> None, created |-> clock]]
    /\ clock' = clock + 1
    /\ queue' = [queue EXCEPT ![o] = Append(@, c)]
    /\ rpc' = [rpc EXCEPT ![r] = "admitting"]
    /\ rcall' = [rcall EXCEPT ![r] = c]
    /\ rowner' = [rowner EXCEPT ![r] = o]
    /\ UNCHANGED <<lease, children, journal, workerVars, answer, reported, ran>>

\* admit_and_wait, a key it has not seen: insert, queue, then persist.
Admit(r, c, o) ==
    /\ rpc[r] = "idle"
    /\ LeaseOwner(SessionOf[c], o)
    /\ calls[c].status = "absent"
    /\ lease[o] # None
    /\ calls' = [calls EXCEPT ![c] = [status |-> "Admitted", owner |-> o, live |-> TRUE,
                                      result |-> None, created |-> clock]]
    /\ clock' = clock + 1
    /\ queue' = [queue EXCEPT ![o] = Append(@, c)]
    /\ rpc' = [rpc EXCEPT ![r] = "admitting"]
    /\ rcall' = [rcall EXCEPT ![r] = c]
    /\ rowner' = [rowner EXCEPT ![r] = o]
    /\ UNCHANGED <<lease, children, journal, workerVars, answer, reported, ran>>

\* A known key: replay the result, refuse, or join the wait.  No lease is
\* looked at, and a call that is still Admitted is not queued again.
Retry(r, c, o) ==
    /\ rpc[r] = "idle"
    /\ LeaseOwner(SessionOf[c], o)
    /\ rcall' = [rcall EXCEPT ![r] = c]
    /\ rowner' = [rowner EXCEPT ![r] = o]
    /\ \/ /\ calls[c].status = "Completed"
          /\ Reply(r, "result", calls[c].result)
       \/ /\ \/ calls[c].status \in {"Started", "OutcomeUnknown"}
             \/ calls[c].status = "Admitted" /\ ~calls[c].live
          /\ Reply(r, "outcome_unknown", None)
       \/ /\ \/ calls[c].status = "Admitted" /\ calls[c].live
             \/ calls[c].status = "Dispatched"
          /\ rpc' = [rpc EXCEPT ![r] = "waiting"]
          /\ UNCHANGED <<answer, reported>>
    /\ UNCHANGED <<serverVars, journal, workerVars, ran>>

\* A new key and no live lease: fail closed.
AdmitUnavailable(r, c, o) ==
    /\ rpc[r] = "idle"
    /\ LeaseOwner(SessionOf[c], o)
    /\ calls[c].status = "absent"
    /\ lease[o] = None
    /\ rcall' = [rcall EXCEPT ![r] = c]
    /\ rowner' = [rowner EXCEPT ![r] = o]
    /\ Reply(r, "unavailable", None)
    /\ UNCHANGED <<serverVars, journal, workerVars, ran>>

\* Ancestry deeper than MaxHops: the session has no owner, and no authority.
NoOwner(r, s) ==
    /\ rpc[r] = "idle"
    /\ ~\E o \in Sessions : LeaseOwner(s, o)
    /\ Reply(r, "conflict", None)
    /\ UNCHANGED <<serverVars, journal, workerVars, rcall, rowner, ran>>

\* The wait loop: a result, the deadline, or no lease for the owner.
WaitResult(r) ==
    /\ rpc[r] = "waiting"
    /\ calls[rcall[r]].status = "Completed"
    /\ Reply(r, "result", calls[rcall[r]].result)
    /\ UNCHANGED <<serverVars, journal, workerVars, rcall, rowner, ran>>

WaitTimeout(r) ==
    /\ rpc[r] = "waiting"
    /\ calls[rcall[r]].status # "Completed"
    /\ Reply(r, "timeout", None)
    /\ UNCHANGED <<serverVars, journal, workerVars, rcall, rowner, ran>>

WaitLost(r) ==
    /\ rpc[r] = "waiting"
    /\ calls[rcall[r]].status # "Completed"
    /\ lease[rowner[r]] = None
    /\ Reply(r, "unavailable", None)
    /\ UNCHANGED <<serverVars, journal, workerVars, rcall, rowner, ran>>

\* register_child: the parent's owner must hold a lease; a child keeps its
\* first parent; the parent must not descend from the child.
RegisterChild(r, child, parent, o) ==
    /\ rpc[r] = "idle"
    /\ child # parent
    /\ LeaseOwner(parent, o)
    /\ lease[o] # None
    /\ IF /\ children[child] = None
          /\ ~Descends(parent, child)
       THEN /\ children' = [children EXCEPT ![child] = parent]
            /\ rpc' = [rpc EXCEPT ![r] = "attaching"]
            /\ UNCHANGED <<answer, reported>>
       ELSE /\ Reply(r, IF children[child] = parent THEN "attached" ELSE "conflict", None)
            /\ UNCHANGED children
    /\ UNCHANGED <<lease, queue, calls, clock, journal, workerVars, rcall, rowner, ran>>

\* The second half of admit_and_wait and register_child.
RequestPersists(r) ==
    /\ \/ /\ rpc[r] = "admitting"
          /\ rpc' = [rpc EXCEPT ![r] = "waiting"]
          /\ UNCHANGED <<answer, reported>>
       \/ /\ rpc[r] = "attaching"
          /\ Reply(r, "attached", None)
    /\ Persist
    /\ UNCHANGED <<serverVars, workerVars, rcall, rowner, ran>>

\* persist fails: the reply is an error, the state stays changed.
RequestPersistFails(r) ==
    /\ rpc[r] \in {"admitting", "attaching"}
    /\ Reply(r, "error", None)
    /\ UNCHANGED <<serverVars, journal, workerVars, rcall, rowner, ran>>

-----------------------------------------------------------------------------
\* The supervisor dies and open() recovers from the journal: no lease, no
\* request body, and an error for every request and worker call in flight.
\* A tool that is already running keeps running.
Restart ==
    LET recovered == [c \in Calls |-> Recovered(journal.calls[c])] IN
    /\ lease' = [s \in Sessions |-> None]
    /\ queue' = [s \in Sessions |-> <<>>]
    /\ children' = journal.children
    /\ calls' = recovered
    /\ journal' = [journal EXCEPT !.calls = recovered]
    /\ pc' = [w \in Workers |->
                IF pc[w] \in {"dispatching", "starting", "completing"} THEN "stopped" ELSE pc[w]]
    /\ rpc' = [r \in Requests |->
                IF rpc[r] \in {"admitting", "attaching", "waiting"} THEN "returned" ELSE rpc[r]]
    /\ answer' = [r \in Requests |->
                IF rpc[r] \in {"admitting", "attaching", "waiting"} THEN "error" ELSE answer[r]]
    /\ UNCHANGED <<clock, home, work, rcall, rowner, reported, ran>>

WorkerStep(w) ==
    Next_pop(w) \/ Started(w) \/ Execute(w) \/ Complete(w) \/ WorkerPersists(w)

RequestStep(r) ==
    WaitResult(r) \/ WaitTimeout(r) \/ WaitLost(r) \/ RequestPersists(r) \/ RequestPersistFails(r)

Next ==
    \/ \E w \in Workers : WorkerStep(w) \/ WorkerStops(w) \/ Unregister(w)
    \/ \E w \in Workers, s \in Sessions : Register(w, s)
    \/ \E s \in Sessions : Expire(s)
    \/ \E r \in Requests : RequestStep(r)
    \/ \E r \in Requests, s \in Sessions : NoOwner(r, s)
    \/ \E r \in Requests, c \in Calls, o \in Sessions :
          Admit(r, c, o) \/ Retry(r, c, o) \/ AdmitUnavailable(r, c, o)
    \/ \E r \in Requests, child, parent, o \in Sessions : RegisterChild(r, child, parent, o)
    \/ Restart

Spec == Init /\ [][Next]_vars

\* The worker thread loops while its lease holds, and every bridge call and
\* tool of its loop returns (HTTP and tools are timeout-bounded).
FairSpec == Spec /\ \A w \in Workers : WF_vars(WorkerStep(w))

-----------------------------------------------------------------------------
\* The positions at which a worker has a call in hand.
Holding == {"dispatching", "got", "starting", "execute", "executed", "completing"}

\* Types; a worker that holds a call and a request that waits know their key.
TypeOK ==
    /\ lease \in [Sessions -> Workers \cup {None}]
    /\ queue \in [Sessions -> Seq(Calls)]
    /\ children \in [Sessions -> Sessions \cup {None}]
    /\ calls \in [Calls -> CallRecord]
    /\ clock \in Nat
    /\ journal \in [calls : [Calls -> CallRecord], children : [Sessions -> Sessions \cup {None}]]
    /\ pc \in [Workers -> WorkerPc]
    /\ home \in [Workers -> Sessions \cup {None}]
    /\ work \in [Workers -> Calls \cup {None}]
    /\ rpc \in [Requests -> RequestPc]
    /\ rcall \in [Requests -> Calls \cup {None}]
    /\ rowner \in [Requests -> Sessions \cup {None}]
    /\ answer \in [Requests -> Answers]
    /\ reported \in [Requests -> Workers \cup {None}]
    /\ ran \in [Calls -> Seq(Workers)]
    /\ \A w \in Workers : pc[w] \in Holding => work[w] \in Calls
    /\ \A r \in Requests : rpc[r] \in {"admitting", "waiting"} => rcall[r] \in Calls

\* A tool runs at most once per call key, over every retry of the plugin,
\* loss or takeover of the lease, failed write and restart of the supervisor.
AtMostOnce == \A c \in Calls : Len(ran[c]) <= 1

\* Write-ahead: before the tool of a call runs the journal already says that
\* it may have run, and it never forgets (started, persist before the reply).
WriteAhead ==
    \A c \in Calls :
        ran[c] # <<>> => journal.calls[c].status \in {"Started", "Completed", "OutcomeUnknown"}

\* A reply that carries a result, first or replayed, reports the one run of
\* the tool (admit_and_wait's replay and its wait loop).
HonestResult ==
    \A r \in Requests : answer[r] = "result" => ran[rcall[r]] = <<reported[r]>>

\* No two workers ever have the same call in hand, not even a worker whose
\* lease was taken over and its successor (next pops a key for good).
ExclusiveExecutor ==
    \A v, w \in Workers :
        pc[v] \in Holding /\ pc[w] \in Holding /\ work[v] = work[w] => v = w

\* register_child never closes a loop, whatever the order of registrations
\* and restarts: no session is its own ancestor.
AncestryAcyclic ==
    \A s \in Sessions : \A n \in 1 .. Cardinality(Sessions) : Ancestor[n][s] # s

(* The inductive invariant behind AtMostOnce. *)

Taken == {"Dispatched", "Started", "Completed", "OutcomeUnknown"}
Begun == {"Started", "Completed", "OutcomeUnknown"}

\* A queued key waits there once, admitted, for the lease of its owner.
QueueInv ==
    \A s \in Sessions : \A i \in 1 .. Len(queue[s]) :
        /\ calls[queue[s][i]].status = "Admitted"
        /\ calls[queue[s][i]].owner = s
        /\ \A j \in 1 .. Len(queue[s]) : queue[s][i] = queue[s][j] => i = j

\* What the position of a worker says of the call in its hands.
WorkerInv ==
    \A w \in Workers :
        /\ pc[w] \in Holding => calls[work[w]].status \in Taken
        /\ pc[w] \in Holding \ {"dispatching"} => journal.calls[work[w]].status \in Taken
        /\ pc[w] \in {"dispatching", "got", "starting", "execute"} => ran[work[w]] = <<>>
        /\ pc[w] = "starting" => calls[work[w]].status \in Begun
        /\ pc[w] = "execute" =>
            /\ calls[work[w]].status \in Begun
            /\ journal.calls[work[w]].status \in Begun
        /\ pc[w] \in {"executed", "completing"} => ran[work[w]] = <<w>>

\* A call that ran is begun, in memory and in the journal, and a recorded
\* result is the result of that run.
RunInv ==
    \A c \in Calls :
        /\ ran[c] # <<>> => /\ calls[c].status \in Begun
                            /\ journal.calls[c].status \in Begun
        /\ Len(ran[c]) <= 1
        /\ calls[c].status = "Completed" => ran[c] = <<calls[c].result>>
        /\ journal.calls[c].status = "Completed" => ran[c] = <<journal.calls[c].result>>

RequestInv ==
    \A r \in Requests :
        answer[r] = "result" => /\ rcall[r] \in Calls
                                /\ rpc[r] = "returned"
                                /\ ran[rcall[r]] = <<reported[r]>>

IInv == TypeOK /\ ExclusiveExecutor /\ QueueInv /\ WorkerInv /\ RunInv /\ RequestInv

Rank == [absent |-> 0, Admitted |-> 1, Dispatched |-> 2, Started |-> 3,
         Completed |-> 4, OutcomeUnknown |-> 4]

\* A record of a call that is `old`, later on: the status only advances, and a completed or
\* unknown call stays as it is, result included.
Advanced(old, new) ==
    /\ Rank[old.status] <= Rank[new.status]
    /\ Rank[old.status] = 4 => new.status = old.status /\ new.result = old.result

\* A write or a recovery only ever advances a journalled call.
JournalAdvances == [][\A c \in Calls : Advanced(journal.calls[c], journal'.calls[c])]_vars

\* The inductive invariant behind it: the memory is never behind the journal.
MemoryAhead == \A c \in Calls : Advanced(journal.calls[c], calls[c])

\* A call in the queue of a live lease is served: it completes, unless the
\* lease or its worker goes first.  A worker that reports nothing cannot
\* leave the rest of its queue waiting.
QueuedFor(c, w) == \E s \in Sessions : lease[s] = w /\ \E i \in 1 .. Len(queue[s]) : queue[s][i] = c
QueuedServed ==
    \A c \in Calls, w \in Workers :
        QueuedFor(c, w) ~> calls[c].status = "Completed" \/ pc[w] = "stopped" \/ w \notin {lease[s] : s \in Sessions}

\* The results reported for each call so far.
Told ==
    [c \in Calls |->
        {reported[r] : r \in {q \in Requests : answer[q] = "result" /\ rcall[q] = c}}]

Contract == INSTANCE ToolCallContract WITH told <- Told

\* The bridge implements the contract of ToolCallContract.
ImplementsContract == Contract!Spec

=============================================================================
