----------------------------- MODULE BridgeBudget -----------------------------
(***************************************************************************)
(* The hard budget of a foreground lease (backend/bridge.rs): the OpenCode *)
(* plugin asks for every provider turn and reports what it cost; the bridge *)
(* caps the output it grants, reserves its price, and counts the reports.  *)
(*                                                                         *)
(* One root session and its attached children share the lease.  A turn is  *)
(* named by the message id its report will carry.  The turns of a session  *)
(* are sequential; those of different sessions run in parallel.            *)
(*                                                                         *)
(* Amounts are whole units (the code has f64 dollars) and the plugin's     *)
(* price is the bridge's.  Every reader of a reservation prunes first, so  *)
(* a reservation that passes its expiry is simply dropped here.  The       *)
(* journal file also changes whenever another handler persists.            *)
(***************************************************************************)
EXTENDS Naturals, Sequences, SequencesExt, FiniteSets, FiniteSetsExt, Functions

CONSTANTS
    Root, Kids,    \* the session that owns the lease, its attached child sessions
    Turns,         \* provider turns, named by the message id of their report
    Budget,        \* budget_usd of the lease
    Price,         \* price of one unit of output
    MaxOutput,     \* largest requested_max_output_tokens
    MaxInput,      \* largest cost of the input of a turn
    Environments,  \* the sets of faults a behaviour may meet; {} is the orderly course
    Unset

LeaseSessions == Kids \cup {Root}

\* early: the client registers again while turns run or are unreported; late: a
\* reservation expires although its turn runs or is unreported; reordered: reports of one
\* session overtake each other; lost: a report or a lease is lost; restart: the bridge
\* process is replaced.
ASSUME BudgetAssumption ==
    /\ Root \notin Kids /\ IsFiniteSet(Kids) /\ IsFiniteSet(Turns)
    /\ Budget \in Nat /\ Price \in Nat /\ MaxInput \in Nat /\ MaxOutput \in Nat \ {0}
    /\ Environments \subseteq SUBSET {"early", "late", "reordered", "lost", "restart"}
    /\ Unset \notin Nat

VARIABLES
    faults,     \* what the environment does beyond the orderly course
    budgetLease,   \* Unset, or the baseline and the reservations of the live lease
    retired,    \* Unset, or the reservations kept for usage reports after unregister
    usage,      \* usage: turn -> recorded cost
    usageJournal,  \* the usage in the journal file
    phase,      \* turns: idle, running, done or failed
    session,    \* the session of each turn
    output,     \* the output each turn may have while it runs, and had when it is done
    cost,       \* what each turn cost
    events      \* completed messages the plugin may still report, oldest first

bridgeVars == <<budgetLease, retired, usage, usageJournal>>
turnVars == <<faults, phase, session, output, cost, events>>
budgetVars == <<bridgeVars, turnVars>>

\* BudgetReservation; the turn it was made for is history.
Reservation == [amount : Nat, turn : Turns]
Queues == [LeaseSessions -> Seq(Reservation)]
NoReservations == [s \in LeaseSessions |-> <<>>]

BudgetInit ==
    /\ faults \in Environments
    /\ budgetLease = Unset
    /\ retired = Unset
    /\ usage = [t \in Turns |-> Unset]
    /\ usageJournal = usage
    /\ phase = [t \in Turns |-> "idle"]
    /\ session = [t \in Turns |-> Root]
    /\ output = [t \in Turns |-> 0]
    /\ cost = [t \in Turns |-> 0]
    /\ events = <<>>

Running == {t \in Turns : phase[t] = "running"}
Done == {t \in Turns : phase[t] = "done"}
Unreported == {t \in ToSet(events) : usage[t] = Unset}
Outstanding == Running \cup Unreported

-----------------------------------------------------------------------------
(* Leases. *)

\* What the client reads from the backend before it registers: the root session's messages.
UsageSnapshot == SumFunctionOnSet(cost, {t \in Done : session[t] = Root})

Orderly == Outstanding = {}

RegisterBudget ==
    /\ Orderly \/ "early" \in faults
    /\ budgetLease' = [baseline |-> UsageSnapshot, reserved |-> NoReservations]
    /\ retired' = Unset
    /\ UNCHANGED <<usage, usageJournal, turnVars>>

UnregisterBudget ==
    /\ budgetLease # Unset
    /\ retired' = budgetLease.reserved
    /\ budgetLease' = Unset
    /\ UNCHANGED <<usage, usageJournal, turnVars>>

\* cleanup_expired: a lease nobody renewed, a retired lease after its grace.
LeaseExpires ==
    /\ budgetLease # Unset
    /\ "lost" \in faults
    /\ budgetLease' = Unset
    /\ UNCHANGED <<retired, usage, usageJournal, turnVars>>

GraceExpires ==
    /\ retired # Unset
    /\ Orderly \/ "lost" \in faults
    /\ retired' = Unset
    /\ UNCHANGED <<budgetLease, usage, usageJournal, turnVars>>

-----------------------------------------------------------------------------
(* Provider turns. *)

Durable == SumFunctionOnSet(usage, {t \in Turns : usage[t] # Unset})
QueueSum(queue) == SumFunctionOnSet([i \in DOMAIN queue |-> queue[i].amount], DOMAIN queue)
Reserved(reserved) == SumFunctionOnSet([s \in LeaseSessions |-> QueueSum(reserved[s])], LeaseSessions)

\* A faulty remainder that forgets the turns still under way.
RemainingSpent ==
    LET spent == Max({budgetLease.baseline, Durable})
    IN  IF spent >= Budget THEN 0 ELSE Budget - spent

Remaining ==
    LET spent == Max({budgetLease.baseline, Durable}) + Reserved(budgetLease.reserved)
    IN  IF spent >= Budget THEN 0 ELSE Budget - spent

\* authorize_provider_turn: the output a request may have, 0 when it is refused.
Cap(requested) ==
    IF Remaining = 0 THEN 0
    ELSE IF Price = 0 THEN requested
         ELSE Min({requested, Remaining \div Price})

Authorize(t, s) ==
    /\ phase[t] = "idle"
    /\ budgetLease # Unset
    /\ \A u \in Running : session[u] # s
    /\ \E requested \in 1 .. MaxOutput :
          /\ Cap(requested) > 0
          /\ output' = [output EXCEPT ![t] = Cap(requested)]
          /\ budgetLease' = [budgetLease EXCEPT !.reserved[s] =
                           Append(@, [amount |-> Cap(requested) * Price, turn |-> t])]
    /\ phase' = [phase EXCEPT ![t] = "running"]
    /\ session' = [session EXCEPT ![t] = s]
    /\ UNCHANGED <<faults, retired, usage, usageJournal, cost, events>>

\* The provider bills the input and at most the output that was granted.
CompleteTurn(t) ==
    /\ phase[t] = "running"
    /\ \E input \in 0 .. MaxInput, used \in 0 .. output[t] :
          /\ output' = [output EXCEPT ![t] = used]
          /\ cost' = [cost EXCEPT ![t] = input + used * Price]
    /\ phase' = [phase EXCEPT ![t] = "done"]
    /\ events' = Append(events, t)
    /\ UNCHANGED <<faults, bridgeVars, session>>

\* A turn the provider refused: nothing is billed and nothing will be reported.
Fail(t) ==
    /\ phase[t] = "running"
    /\ phase' = [phase EXCEPT ![t] = "failed"]
    /\ UNCHANGED <<faults, bridgeVars, session, output, cost, events>>

PopFront(reserved, s) ==
    [reserved EXCEPT ![s] = IF @ = <<>> THEN @ ELSE Tail(@)]

\* A faulty report that releases a reservation before it looks for a duplicate.
RecordUsageTwice(t) ==
    \/ /\ budgetLease # Unset
       /\ budgetLease' = [budgetLease EXCEPT !.reserved = PopFront(@, session[t])]
       /\ UNCHANGED retired
       /\ usage' = [usage EXCEPT ![t] = cost[t]]
    \/ /\ budgetLease = Unset /\ retired # Unset
       /\ retired' = PopFront(retired, session[t])
       /\ UNCHANGED budgetLease
       /\ usage' = [usage EXCEPT ![t] = cost[t]]

\* record_provider_usage: counted once, under the live or the retired lease; the oldest
\* reservation of the session is released.
RecordUsage(t) ==
    IF usage[t] # Unset
    THEN UNCHANGED <<budgetLease, retired, usage>>
    ELSE /\ usage' = [usage EXCEPT ![t] = cost[t]]
         /\ \/ /\ budgetLease # Unset
               /\ budgetLease' = [budgetLease EXCEPT !.reserved = PopFront(@, session[t])]
               /\ UNCHANGED retired
            \/ /\ budgetLease = Unset /\ retired # Unset
               /\ retired' = PopFront(retired, session[t])
               /\ UNCHANGED budgetLease

FirstUnreported(t) ==
    \A i, j \in DOMAIN events :
        /\ events[i] \in Unreported /\ session[events[i]] = session[t] /\ events[j] = t
        => j <= i

\* The plugin reports a completed message, once or again.
Report(t) ==
    /\ "reordered" \in faults \/ FirstUnreported(t)
    /\ RecordUsage(t)
    /\ \E i \in DOMAIN events : events[i] = t /\ events' \in {events, RemoveAt(events, i)}
    /\ UNCHANGED <<faults, usageJournal, phase, session, output, cost>>

\* Refused for want of a lease, or never sent: the event is gone.
ReportLost(t) ==
    /\ "lost" \in faults
    /\ \E i \in DOMAIN events : events[i] = t /\ events' = RemoveAt(events, i)
    /\ UNCHANGED <<faults, bridgeVars, phase, session, output, cost>>

\* prune_budget_reservations: the oldest reservation of a session passes its expiry.
ReservationExpires(s) ==
    /\ budgetLease # Unset
    /\ budgetLease.reserved[s] # <<>>
    /\ "late" \in faults \/ Head(budgetLease.reserved[s]).turn \notin Outstanding
    /\ budgetLease' = [budgetLease EXCEPT !.reserved = PopFront(@, s)]
    /\ UNCHANGED <<retired, usage, usageJournal, turnVars>>

-----------------------------------------------------------------------------
(* The journal. *)

PersistUsage ==
    /\ usageJournal # usage
    /\ usageJournal' = usage
    /\ UNCHANGED <<budgetLease, retired, usage, turnVars>>

\* A faulty restart that starts counting afresh.
RestartForgets ==
    /\ "restart" \in faults
    /\ usage' = [t \in Turns |-> Unset]
    /\ budgetLease' = Unset
    /\ retired' = Unset
    /\ phase' = [t \in Turns |-> IF phase[t] = "running" THEN "failed" ELSE phase[t]]
    /\ events' = <<>>
    /\ UNCHANGED <<faults, usageJournal, session, output, cost>>

\* A restart of the supervisor: OpenCode goes with it.
RestartBridge ==
    /\ "restart" \in faults
    /\ usage' = usageJournal
    /\ budgetLease' = Unset
    /\ retired' = Unset
    /\ phase' = [t \in Turns |-> IF phase[t] = "running" THEN "failed" ELSE phase[t]]
    /\ events' = <<>>
    /\ UNCHANGED <<faults, usageJournal, session, output, cost>>

BudgetNext ==
    \/ RegisterBudget \/ UnregisterBudget \/ LeaseExpires \/ GraceExpires
    \/ \E t \in Turns : \/ \E s \in LeaseSessions : Authorize(t, s)
                        \/ CompleteTurn(t) \/ Fail(t) \/ Report(t) \/ ReportLost(t)
    \/ \E s \in LeaseSessions : ReservationExpires(s)
    \/ PersistUsage \/ RestartBridge

BudgetSpec == BudgetInit /\ [][BudgetNext]_budgetVars

-----------------------------------------------------------------------------
(* Properties. *)

\* Every variable has its type; a lease is live or retired, never both.
BudgetTypeOK ==
    /\ faults \in Environments
    /\ budgetLease \in {Unset} \cup [baseline : Nat, reserved : Queues]
    /\ retired \in {Unset} \cup Queues
    /\ budgetLease = Unset \/ retired = Unset
    /\ usage \in [Turns -> Nat \cup {Unset}]
    /\ usageJournal \in [Turns -> Nat \cup {Unset}]
    /\ phase \in [Turns -> {"idle", "running", "done", "failed"}]
    /\ session \in [Turns -> LeaseSessions]
    /\ output \in [Turns -> 0 .. MaxOutput]
    /\ cost \in [Turns -> Nat]
    /\ events \in Seq(Done)

OutputSpent == SumFunctionOnSet([t \in Turns |-> output[t] * Price], Running \cup Done)

\* docs/architecture.md:334: the bridge "reserves estimated cost before provider turns,
\* caps output, ... and denies the next call before budget overrun".  The output that was
\* paid for, and all that the turns under way may still produce, stays within the budget,
\* whatever the input of the turns cost.
SpendWithinBudget == faults = {} => OutputSpent <= Budget

\* What the bridge counts against the budget covers every turn it granted: what is
\* recorded, and a reservation for each turn that runs or is not reported yet.
AccountedFor ==
    faults = {} /\ budgetLease # Unset =>
        Max({budgetLease.baseline, Durable}) + Reserved(budgetLease.reserved) >= OutputSpent

\* Usage that reached the journal stays counted, at its cost, over restarts and whatever is
\* reported again (record_provider_usage, open).
UsageKept == [][\A t \in Turns : usageJournal[t] # Unset => usageJournal'[t] = usageJournal[t]]_budgetVars

-----------------------------------------------------------------------------
(* The inductive invariant. *)

\* A recorded turn is done and counted at its cost, in the journal too; a turn that is
\* done cost at least its output.
RecordsOK ==
    \A t \in Turns :
        /\ usage[t] # Unset => phase[t] = "done" /\ usage[t] = cost[t]
        /\ usageJournal[t] # Unset => usageJournal[t] = usage[t]
        /\ phase[t] = "done" => output[t] * Price <= cost[t]

\* A turn that is done is recorded or still to be reported, once.
EventsOK ==
    /\ \A i, j \in DOMAIN events : events[i] = events[j] => i = j
    /\ faults = {} => \A t \in Done : usage[t] = Unset => \E i \in DOMAIN events : events[i] = t

\* Every turn that runs or is unreported has a reservation that covers it.
Covered(queue, u) == \E i \in DOMAIN queue : queue[i].turn = u /\ output[u] * Price <= queue[i].amount

\* Reservations are queued in the order their turns ran and will be reported.
InTurn(a, b) ==
    /\ a # b /\ phase[a] # "running"
    /\ a \in Unreported /\ b \in Unreported =>
          \A p, q \in DOMAIN events : events[p] = a /\ events[q] = b => p < q

InOrder(queue, s) ==
    \A i \in DOMAIN queue :
        /\ session[queue[i].turn] = s
        /\ phase[queue[i].turn] # "idle"
        /\ \A j \in DOMAIN queue : i < j => InTurn(queue[i].turn, queue[j].turn)

ReservationsOK ==
    faults = {} /\ budgetLease # Unset =>
        /\ \A u \in Outstanding : Covered(budgetLease.reserved[session[u]], u)
        /\ \A s \in LeaseSessions : InOrder(budgetLease.reserved[s], s)

BudgetIInv == BudgetTypeOK /\ RecordsOK /\ EventsOK /\ ReservationsOK /\ SpendWithinBudget
=============================================================================
