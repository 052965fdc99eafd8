--------------------------- MODULE ToolBridgeProofs ---------------------------
(***************************************************************************)
(* The two halves of the bridge.  The tool bridge: type correctness, the   *)
(* at-most-once guarantee of a tool call and the contract it implements,   *)
(* for any number of sessions, calls, workers and requests.  The provider  *)
(* budget: what is counted covers what was granted, for any number of      *)
(* sessions and turns, any price and any budget.                           *)
(***************************************************************************)
EXTENDS ToolBridge, BridgeBudget, FiniteSetTheorems, WellFoundedInduction, TLAPS

\* A call record after one of its fields was assigned.
LEMMA WithStatus ==
    ASSUME NEW call \in CallRecord, NEW st \in Statuses
    PROVE  [call EXCEPT !.status = st] \in CallRecord
BY DEF CallRecord

LEMMA WithResult ==
    ASSUME NEW call \in CallRecord, NEW st \in Statuses, NEW w \in Workers
    PROVE  [call EXCEPT !.status = st, !.result = w] \in CallRecord
BY DEF CallRecord

LEMMA WithoutRequest ==
    ASSUME NEW call \in CallRecord
    PROVE  [call EXCEPT !.live = FALSE] \in CallRecord
BY DEF CallRecord

\* What persist() writes and what a restart recovers are call tables.
LEMMA SnapshotType ==
    ASSUME TypeOK
    PROVE  Snapshot \in [calls : [Calls -> CallRecord], children : [Sessions -> Sessions \cup {None}]]
<1>1. ASSUME NEW c \in Calls
      PROVE  [calls[c] EXCEPT !.live = FALSE] \in CallRecord
  BY WithoutRequest DEF TypeOK
<1>2. Absent \in CallRecord
  BY DEF Absent, CallRecord, Statuses
<1> QED
  BY <1>1, <1>2 DEF Snapshot, TypeOK

LEMMA RecoveredType ==
    ASSUME NEW call \in CallRecord
    PROVE  Recovered(call) \in CallRecord
BY DEF Recovered, CallRecord, Statuses

-----------------------------------------------------------------------------
(* Type correctness. *)

LEMMA TypeInit == Init => TypeOK
<1> SUFFICES ASSUME Init PROVE TypeOK
  OBVIOUS
<1>1. Absent \in CallRecord
  BY DEF Absent, CallRecord, Statuses
<1> QED
  BY <1>1 DEF Init, TypeOK, Holding, WorkerPc, RequestPc, Answers

LEMMA TypeNext == TypeOK /\ [Next]_vars => TypeOK'
<1> SUFFICES ASSUME TypeOK, [Next]_vars PROVE TypeOK'
  OBVIOUS
<1> USE DEF TypeOK, Holding, WorkerPc, RequestPc, Answers, serverVars, workerVars, requestVars
<1>1. ASSUME NEW w \in Workers, Next_pop(w) PROVE TypeOK'
  <2>1. queue[home[w]] \in Seq(Calls) /\ home[w] \in Sessions
    BY <1>1 DEF Next_pop, Holds
  <2> DEFINE c == Head(queue[home[w]])
  <2>2. c \in Calls /\ Tail(queue[home[w]]) \in Seq(Calls)
    BY <1>1, <2>1 DEF Next_pop
  <2>3. [calls[c] EXCEPT !.status = "Dispatched"] \in CallRecord
    BY <2>2, WithStatus DEF Statuses
  <2>4. calls' = [calls EXCEPT ![c] = [calls[c] EXCEPT !.status = "Dispatched"]]
    BY <1>1 DEF Next_pop
  <2>5. calls' \in [Calls -> CallRecord]
    BY <2>2, <2>3, <2>4
  <2> QED
    BY <1>1, <2>1, <2>2, <2>5 DEF Next_pop
<1>2. ASSUME NEW w \in Workers, Started(w) PROVE TypeOK'
  <2>1. work[w] \in Calls => [calls[work[w]] EXCEPT !.status = "Started"] \in CallRecord
    BY WithStatus DEF Statuses
  <2>2. calls' \in [Calls -> CallRecord]
    BY <1>2, <2>1 DEF Started
  <2> QED
    BY <1>2, <2>2 DEF Started
<1>3. ASSUME NEW w \in Workers, Execute(w) PROVE TypeOK'
  <2>1. work[w] \in Calls => Append(ran[work[w]], w) \in Seq(Workers)
    OBVIOUS
  <2>2. ran' \in [Calls -> Seq(Workers)]
    BY <1>3, <2>1 DEF Execute
  <2> QED
    BY <1>3, <2>2 DEF Execute
<1>4. ASSUME NEW w \in Workers, Complete(w) PROVE TypeOK'
  <2>1. work[w] \in Calls =>
            [calls[work[w]] EXCEPT !.status = "Completed", !.result = w] \in CallRecord
    BY WithResult DEF Statuses
  <2>2. calls' \in [Calls -> CallRecord]
    BY <1>4, <2>1 DEF Complete
  <2> QED
    BY <1>4, <2>2 DEF Complete
<1>5. ASSUME NEW w \in Workers, WorkerPersists(w) PROVE TypeOK'
  BY <1>5, SnapshotType DEF WorkerPersists, Persist
<1>6. ASSUME NEW w \in Workers, WorkerStops(w) PROVE TypeOK'
  BY <1>6 DEF WorkerStops
<1>7. ASSUME NEW w \in Workers, Unregister(w) PROVE TypeOK'
  <2>1. lease' \in [Sessions -> Workers \cup {None}]
    BY <1>7 DEF Unregister
  <2>2. queue' \in [Sessions -> Seq(Calls)]
    BY <1>7 DEF Unregister, Holds
  <2> QED
    BY <1>7, <2>1, <2>2 DEF Unregister
<1>8. ASSUME NEW w \in Workers, NEW s \in Sessions, Register(w, s) PROVE TypeOK'
  BY <1>8 DEF Register
<1>9. ASSUME NEW s \in Sessions, Expire(s) PROVE TypeOK'
  BY <1>9 DEF Expire
<1>10. ASSUME NEW r \in Requests, WaitResult(r) PROVE TypeOK'
  <2>1. rcall[r] \in Calls => calls[rcall[r]].result \in Workers \cup {None}
    BY DEF CallRecord
  <2>2. reported' \in [Requests -> Workers \cup {None}]
    BY <1>10, <2>1 DEF WaitResult, Reply
  <2> QED
    BY <1>10, <2>2 DEF WaitResult, Reply
<1>11. ASSUME NEW r \in Requests, WaitTimeout(r) \/ WaitLost(r) PROVE TypeOK'
  BY <1>11, ZenonT(40) DEF WaitTimeout, WaitLost, Reply
<1>12. ASSUME NEW r \in Requests, RequestPersists(r) PROVE TypeOK'
  BY <1>12, SnapshotType, ZenonT(40) DEF RequestPersists, Persist, Reply
<1>13. ASSUME NEW r \in Requests, RequestPersistFails(r) PROVE TypeOK'
  BY <1>13 DEF RequestPersistFails, Reply
<1>14. ASSUME NEW r \in Requests, NEW s \in Sessions, NoOwner(r, s) PROVE TypeOK'
  BY <1>14 DEF NoOwner, Reply
<1>15. ASSUME NEW r \in Requests, NEW c \in Calls, NEW o \in Sessions, Admit(r, c, o)
       PROVE  TypeOK'
  <2>1. [status |-> "Admitted", owner |-> o, live |-> TRUE, result |-> None, created |-> clock]
            \in CallRecord
    BY DEF CallRecord, Statuses
  <2> QED
    BY <1>15, <2>1 DEF Admit
<1>16. ASSUME NEW r \in Requests, NEW c \in Calls, NEW o \in Sessions, Retry(r, c, o)
       PROVE  TypeOK'
  <2>1. calls[c].result \in Workers \cup {None}
    BY DEF CallRecord
  <2> QED
    BY <1>16, <2>1, ZenonT(40) DEF Retry, Reply
<1>17. ASSUME NEW r \in Requests, NEW c \in Calls, NEW o \in Sessions, AdmitUnavailable(r, c, o)
       PROVE  TypeOK'
  BY <1>17 DEF AdmitUnavailable, Reply
<1>18. ASSUME NEW r \in Requests, NEW child \in Sessions, NEW parent \in Sessions,
              NEW o \in Sessions, RegisterChild(r, child, parent, o)
       PROVE  TypeOK'
  <2>1. CASE children[child] = None /\ ~Descends(parent, child)
    BY <1>18, <2>1, ZenonT(40) DEF RegisterChild
  <2>2. CASE ~(children[child] = None /\ ~Descends(parent, child))
    <3>1. \E kind \in {"attached", "conflict"} : Reply(r, kind, None)
      BY <1>18, <2>2 DEF RegisterChild
    <3>2. UNCHANGED <<lease, queue, children, calls, clock, journal, pc, home, work, rcall,
                      rowner, ran>>
      BY <1>18, <2>2 DEF RegisterChild
    <3> QED
      BY <3>1, <3>2 DEF Reply
  <2> QED
    BY <2>1, <2>2
<1>19. CASE Restart
  <2> DEFINE recovered == [c \in Calls |-> Recovered(journal.calls[c])]
  <2>1. recovered \in [Calls -> CallRecord]
    BY RecoveredType
  <2>2. calls' = recovered /\ journal' = [journal EXCEPT !.calls = recovered]
    BY <1>19 DEF Restart
  <2>3. calls' \in [Calls -> CallRecord]
    BY <2>1, <2>2
  <2>4. journal' \in [calls : [Calls -> CallRecord], children : [Sessions -> Sessions \cup {None}]]
    BY <2>1, <2>2
  <2>5. pc' \in [Workers -> WorkerPc] /\ rpc' \in [Requests -> RequestPc]
    BY <1>19 DEF Restart
  <2>6. answer' \in [Requests -> Answers]
    BY <1>19 DEF Restart
  <2>7. /\ lease' \in [Sessions -> Workers \cup {None}]
        /\ queue' \in [Sessions -> Seq(Calls)]
        /\ children' \in [Sessions -> Sessions \cup {None}]
    BY <1>19 DEF Restart
  <2> QED
    BY <1>19, <2>3, <2>4, <2>5, <2>6, <2>7 DEF Restart
<1>20. CASE UNCHANGED vars
  BY <1>20 DEF vars
<1> QED
  BY <1>1, <1>2, <1>3, <1>4, <1>5, <1>6, <1>7, <1>8, <1>9, <1>10, <1>11, <1>12, <1>13, <1>14,
     <1>15, <1>16, <1>17, <1>18, <1>19, <1>20 DEF Next, WorkerStep, RequestStep

\* Every variable keeps its type, whatever the constants.
THEOREM TypeCorrect == Spec => []TypeOK
<1>1. Init => TypeOK
  BY TypeInit
<1>2. TypeOK /\ [Next]_vars => TypeOK'
  BY TypeNext
<1> QED
  BY <1>1, <1>2, PTL DEF Spec

-----------------------------------------------------------------------------
(* At most once. *)

\* A journal with room for every call keeps every call.
LEMMA KeptAll ==
    ASSUME TypeOK, Cardinality(Calls) <= JournalCap, NEW c \in Calls
    PROVE  Kept(c)
<1> DEFINE newer == {d \in Calls : calls[d].created > calls[c].created}
<1>1. calls[c].created \in Nat
  BY DEF TypeOK, CallRecord
<1>2. newer \subseteq Calls \ {c}
  BY <1>1
<1>3. /\ IsFiniteSet(Calls \ {c})
      /\ Cardinality(Calls \ {c}) = Cardinality(Calls) - 1
  BY BridgeAssumption, FS_RemoveElement DEF BridgeAssumption
<1>4. Cardinality(newer) <= Cardinality(Calls \ {c})
  BY <1>2, <1>3, FS_Subset
<1>5. Cardinality(Calls) \in Nat /\ Cardinality(newer) \in Nat
  BY BridgeAssumption, <1>2, <1>3, FS_Subset, FS_CardinalityType DEF BridgeAssumption
<1> QED
  BY <1>3, <1>4, <1>5, BridgeAssumption DEF Kept, BridgeAssumption

\* So what persist() writes of a call is the call, without its request.
LEMMA SnapshotFaithful ==
    ASSUME TypeOK, Cardinality(Calls) <= JournalCap, NEW c \in Calls
    PROVE  /\ Snapshot.calls[c].status = calls[c].status
           /\ Snapshot.calls[c].result = calls[c].result
<1>1. Kept(c)
  BY KeptAll
<1>2. Snapshot.calls[c] = [calls[c] EXCEPT !.live = FALSE]
  BY <1>1 DEF Snapshot
<1>3. calls[c] \in CallRecord
  BY DEF TypeOK
<1> QED
  BY <1>2, <1>3 DEF CallRecord

\* The part of the invariant about the server and its workers.
ServerInv == ExclusiveExecutor /\ QueueInv /\ WorkerInv /\ RunInv

LEMMA ServerFrame ==
    ServerInv /\ UNCHANGED <<queue, calls, journal, pc, work, ran>> => ServerInv'
BY DEF ServerInv, ExclusiveExecutor, QueueInv, WorkerInv, RunInv

LEMMA RequestFrame ==
    RequestInv /\ UNCHANGED <<rpc, rcall, answer, reported, ran>> => RequestInv'
BY DEF RequestInv

LEMMA InvInit == Init => ServerInv /\ RequestInv
BY DEF Init, ServerInv, ExclusiveExecutor, QueueInv, WorkerInv, RunInv, RequestInv, Absent, Holding

\* A write makes the journal say what the memory says.
LEMMA PersistKeeps ==
    ASSUME TypeOK, Cardinality(Calls) <= JournalCap, ServerInv, Persist,
           UNCHANGED <<queue, calls, work, ran>>,
           NEW w \in Workers,
           \/ pc' = pc
           \/ pc[w] = "dispatching" /\ pc' = [pc EXCEPT ![w] = "got"]
           \/ pc[w] = "starting" /\ pc' = [pc EXCEPT ![w] = "execute"]
           \/ pc[w] = "completing" /\ pc' = [pc EXCEPT ![w] = "polling"]
    PROVE  ServerInv'
<1>1. \A c \in Calls : /\ journal'.calls[c].status = calls[c].status
                       /\ journal'.calls[c].result = calls[c].result
  BY SnapshotFaithful DEF Persist
<1>2. \A v \in Workers :
        /\ pc'[v] \in Holding => pc[v] \in Holding
        /\ pc'[v] = "dispatching" => pc[v] = "dispatching"
        /\ pc'[v] = "starting" => pc[v] = "starting"
        /\ pc'[v] = "got" => pc[v] \in {"dispatching", "got"}
        /\ pc'[v] = "execute" => pc[v] \in {"starting", "execute"}
        /\ pc'[v] \in {"executed", "completing"} => pc[v] \in {"executed", "completing"}
  BY DEF TypeOK, WorkerPc, Holding
<1>3. ExclusiveExecutor'
  BY <1>2 DEF ServerInv, ExclusiveExecutor
<1>4. QueueInv'
  BY DEF ServerInv, QueueInv
<1>5. WorkerInv'
  BY <1>1, <1>2 DEF ServerInv, WorkerInv, TypeOK, Holding, Taken, Begun
<1>6. RunInv'
  BY <1>1 DEF ServerInv, RunInv
<1> QED
  BY <1>3, <1>4, <1>5, <1>6 DEF ServerInv

\* A queue without its head.
LEMMA TailIs ==
    ASSUME NEW S, NEW q \in Seq(S), q # <<>>
    PROVE  /\ Len(q) \in Nat /\ Len(q) >= 1 /\ DOMAIN q = 1 .. Len(q) /\ Head(q) = q[1]
           /\ Tail(q) \in Seq(S) /\ Len(Tail(q)) = Len(q) - 1 /\ DOMAIN Tail(q) = 1 .. Len(q) - 1
           /\ \A j \in 1 .. Len(q) - 1 : Tail(q)[j] = q[j + 1] /\ j + 1 \in 1 .. Len(q)
OBVIOUS

LEMMA ServerNext ==
    ASSUME TypeOK, Cardinality(Calls) <= JournalCap, ServerInv, [Next]_vars
    PROVE  ServerInv'
<1> USE DEF serverVars, workerVars, requestVars
<1>1. ASSUME NEW w \in Workers, Next_pop(w) PROVE ServerInv'
  <2> DEFINE c == Head(queue[home[w]])
             q == queue[home[w]]
  <2>1. home[w] \in Sessions /\ q \in Seq(Calls) /\ q # <<>> /\ c \in Calls /\ c = q[1]
    BY <1>1 DEF Next_pop, Holds, TypeOK
  <2>2. /\ calls[c].status = "Admitted"
        /\ calls[c].owner = home[w]
        /\ \A j \in 1 .. Len(q) : q[j] = c => j = 1
    BY <2>1 DEF ServerInv, QueueInv
  <2>3. /\ pc[w] = "polling"
        /\ \A v \in Workers : pc[v] \in Holding => work[v] # c
    BY <1>1, <2>2 DEF Next_pop, ServerInv, WorkerInv, Taken
  <2>4. ran[c] = <<>>
    BY <2>1, <2>2 DEF ServerInv, RunInv, Begun
  <2>5. /\ \A d \in Calls \ {c} : calls'[d] = calls[d]
        /\ calls'[c].status = "Dispatched"
        /\ calls'[c].owner = calls[c].owner
        /\ queue' = [queue EXCEPT ![home[w]] = Tail(q)]
        /\ pc'[w] \in {"dispatching", "stopped"} /\ work'[w] = c
        /\ \A v \in Workers \ {w} : pc'[v] = pc[v] /\ work'[v] = work[v]
        /\ journal' = journal /\ ran' = ran
    BY <1>1, <2>1 DEF Next_pop, TypeOK, CallRecord
  <2>6. ExclusiveExecutor'
    BY <2>3, <2>5 DEF ServerInv, ExclusiveExecutor
  <2>7. QueueInv'
    <3>1. ASSUME NEW s \in Sessions, NEW i \in 1 .. Len(queue'[s])
          PROVE  /\ calls'[queue'[s][i]].status = "Admitted"
                 /\ calls'[queue'[s][i]].owner = s
                 /\ \A j \in 1 .. Len(queue'[s]) : queue'[s][i] = queue'[s][j] => i = j
      <4>1. CASE s = home[w]
        <5>1. /\ queue'[s] = Tail(q) /\ Len(Tail(q)) = Len(q) - 1
              /\ \A j \in 1 .. Len(Tail(q)) : Tail(q)[j] = q[j + 1] /\ j + 1 \in 1 .. Len(q)
          <6>1. queue'[s] = Tail(q)
            BY <2>5, <4>1 DEF TypeOK
          <6> HIDE DEF q
          <6> QED
            BY <2>1, <6>1, TailIs
        <5>2. queue'[s][i] # c /\ queue'[s][i] \in Calls
          BY <2>1, <2>2, <5>1
        <5>3. /\ calls[q[i + 1]].status = "Admitted"
              /\ calls[q[i + 1]].owner = s
              /\ \A j \in 1 .. Len(q) : q[i + 1] = q[j] => i + 1 = j
          BY <4>1, <5>1, <2>1 DEF ServerInv, QueueInv
        <5> QED
          BY <5>1, <5>2, <5>3, <2>5
      <4>2. CASE s # home[w]
        <5>1. queue'[s] = queue[s] /\ queue[s] \in Seq(Calls)
          BY <2>5, <4>2 DEF TypeOK
        <5>2. /\ calls[queue[s][i]].status = "Admitted"
              /\ calls[queue[s][i]].owner = s
              /\ \A j \in 1 .. Len(queue[s]) : queue[s][i] = queue[s][j] => i = j
          BY <5>1 DEF ServerInv, QueueInv
        <5>3. queue[s][i] \in Calls \ {c}
          BY <5>1, <5>2, <2>2, <4>2
        <5> QED
          BY <5>1, <5>2, <5>3, <2>5
      <4> QED
        BY <4>1, <4>2
    <3> QED
      BY <3>1 DEF QueueInv
  <2>8. WorkerInv'
    <3>1. ASSUME NEW v \in Workers, v # w, pc[v] \in Holding
          PROVE  pc'[v] = pc[v] /\ work'[v] = work[v] /\ calls'[work[v]] = calls[work[v]]
      BY <2>3, <2>5, <3>1 DEF TypeOK
    <3> QED
      BY <3>1, <2>4, <2>5 DEF ServerInv, WorkerInv, Holding, Taken
  <2>9. RunInv'
    BY <2>4, <2>5 DEF ServerInv, RunInv
  <2> QED
    BY <2>6, <2>7, <2>8, <2>9 DEF ServerInv
<1>2. ASSUME NEW w \in Workers, Started(w) PROVE ServerInv'
  <2> DEFINE c == work[w]
  <2>1. /\ c \in Calls /\ pc[w] = "got" /\ calls[c].status = "Dispatched"
        /\ \A d \in Calls \ {c} : calls'[d] = calls[d]
        /\ calls'[c].status = "Started"
        /\ calls'[c].owner = calls[c].owner
        /\ pc' = [pc EXCEPT ![w] = "starting"]
        /\ UNCHANGED <<queue, work, journal, ran>>
    BY <1>2 DEF Started, TypeOK, Holding, CallRecord
  <2>2. \A v \in Workers \ {w} : pc[v] \in Holding => work[v] \in Calls \ {c}
    BY <2>1 DEF ServerInv, ExclusiveExecutor, TypeOK, Holding
  <2>3. ExclusiveExecutor'
    BY <2>1 DEF ServerInv, ExclusiveExecutor, TypeOK, Holding
  <2>4. QueueInv'
    <3>1. \A s \in Sessions : \A i \in 1 .. Len(queue[s]) : queue[s][i] \in Calls \ {c}
      BY <2>1 DEF ServerInv, QueueInv, TypeOK
    <3> QED
      BY <3>1, <2>1 DEF ServerInv, QueueInv
  <2>5. WorkerInv'
    BY <2>1, <2>2 DEF ServerInv, WorkerInv, TypeOK, Holding, Taken, Begun
  <2>6. RunInv'
    BY <2>1 DEF ServerInv, RunInv, Begun
  <2> QED
    BY <2>3, <2>4, <2>5, <2>6 DEF ServerInv
<1>3. ASSUME NEW w \in Workers, Execute(w) PROVE ServerInv'
  <2> DEFINE c == work[w]
  <2>1. /\ c \in Calls /\ pc[w] = "execute" /\ ran[c] = <<>>
        /\ calls[c].status \in Begun /\ journal.calls[c].status \in Begun
        /\ pc' = [pc EXCEPT ![w] = "executed"]
        /\ UNCHANGED <<queue, calls, work, journal>>
    BY <1>3 DEF Execute, TypeOK, Holding, ServerInv, WorkerInv
  <2>2. /\ ran'[c] = <<w>>
        /\ \A d \in Calls \ {c} : ran'[d] = ran[d]
    BY <1>3, <2>1 DEF Execute, TypeOK
  <2>3. \A v \in Workers \ {w} : pc[v] \in Holding => work[v] \in Calls \ {c}
    BY <2>1 DEF ServerInv, ExclusiveExecutor, TypeOK, Holding
  <2>4. ExclusiveExecutor'
    BY <2>1 DEF ServerInv, ExclusiveExecutor, TypeOK, Holding
  <2>5. QueueInv'
    BY <2>1 DEF ServerInv, QueueInv
  <2>6. WorkerInv'
    BY <2>1, <2>2, <2>3 DEF ServerInv, WorkerInv, TypeOK, Holding, Taken, Begun
  <2>7. calls[c].status # "Completed" /\ journal.calls[c].status # "Completed"
    <3>1. \A x : <<x>> # <<>>
      OBVIOUS
    <3> QED
      BY <3>1, <2>1 DEF ServerInv, RunInv
  <2>8. RunInv'
    <3>1. Len(ran'[c]) <= 1
      BY <2>2
    <3> QED
      BY <3>1, <2>1, <2>2, <2>7 DEF ServerInv, RunInv
  <2> QED
    BY <2>4, <2>5, <2>6, <2>8 DEF ServerInv
<1>4. ASSUME NEW w \in Workers, Complete(w) PROVE ServerInv'
  <2> DEFINE c == work[w]
  <2>1. /\ c \in Calls /\ pc[w] = "executed" /\ calls[c].status = "Started"
        /\ \A d \in Calls \ {c} : calls'[d] = calls[d]
        /\ calls'[c].status = "Completed" /\ calls'[c].result = w
        /\ calls'[c].owner = calls[c].owner
        /\ pc' = [pc EXCEPT ![w] = "completing"]
        /\ UNCHANGED <<queue, work, journal, ran>>
    BY <1>4 DEF Complete, TypeOK, Holding, CallRecord
  <2>2. \A v \in Workers \ {w} : pc[v] \in Holding => work[v] \in Calls \ {c}
    BY <2>1 DEF ServerInv, ExclusiveExecutor, TypeOK, Holding
  <2>3. ran[c] = <<w>>
    BY <2>1 DEF ServerInv, WorkerInv
  <2>4. ExclusiveExecutor'
    BY <2>1 DEF ServerInv, ExclusiveExecutor, TypeOK, Holding
  <2>5. QueueInv'
    BY <2>1 DEF ServerInv, QueueInv, TypeOK
  <2>6. WorkerInv'
    BY <2>1, <2>2, <2>3 DEF ServerInv, WorkerInv, TypeOK, Holding, Taken, Begun
  <2>7. RunInv'
    BY <2>1, <2>3 DEF ServerInv, RunInv, Begun
  <2> QED
    BY <2>4, <2>5, <2>6, <2>7 DEF ServerInv
<1>5. ASSUME NEW w \in Workers, WorkerPersists(w) PROVE ServerInv'
  BY <1>5, PersistKeeps DEF WorkerPersists
<1>6. ASSUME NEW w \in Workers, WorkerStops(w) PROVE ServerInv'
  <2>1. /\ pc' = [pc EXCEPT ![w] = "stopped"]
        /\ UNCHANGED <<queue, calls, journal, work, ran>>
    BY <1>6 DEF WorkerStops
  <2>2. \A v \in Workers : pc'[v] = pc[v] \/ pc'[v] = "stopped"
    BY <2>1 DEF TypeOK
  <2>3. ExclusiveExecutor' /\ QueueInv'
    BY <2>1, <2>2 DEF ServerInv, ExclusiveExecutor, QueueInv, Holding
  <2>4. WorkerInv'
    BY <2>1, <2>2 DEF ServerInv, WorkerInv, Holding
  <2>5. RunInv'
    BY <2>1 DEF ServerInv, RunInv
  <2> QED
    BY <2>3, <2>4, <2>5 DEF ServerInv
<1>7. ASSUME UNCHANGED <<calls, journal, work, ran>>,
             \A v \in Workers : pc'[v] = pc[v] \/ pc'[v] \notin Holding,
             \A s \in Sessions : queue'[s] = queue[s] \/ queue'[s] = <<>>
      PROVE  ServerInv'
  <2>1. QueueInv'
    BY <1>7 DEF ServerInv, QueueInv
  <2> QED
    BY <1>7, <2>1 DEF ServerInv, ExclusiveExecutor, WorkerInv, RunInv, Holding
<1>8. ASSUME NEW w \in Workers, NEW s \in Sessions, Register(w, s) PROVE ServerInv'
  BY <1>7, <1>8 DEF Register, TypeOK, Holding
<1>9. ASSUME NEW w \in Workers, Unregister(w) PROVE ServerInv'
  BY <1>7, <1>9 DEF Unregister, TypeOK
<1>10. ASSUME NEW s \in Sessions, Expire(s) PROVE ServerInv'
  BY <1>7, <1>10 DEF Expire, TypeOK
<1>11. ASSUME NEW r \in Requests, NEW c \in Calls, NEW o \in Sessions, Admit(r, c, o)
       PROVE  ServerInv'
  <2>1. /\ calls[c].status = "absent"
        /\ \A d \in Calls \ {c} : calls'[d] = calls[d]
        /\ calls'[c].status = "Admitted" /\ calls'[c].owner = o
        /\ queue' = [queue EXCEPT ![o] = Append(queue[o], c)]
        /\ UNCHANGED <<pc, work, journal, ran>>
    BY <1>11 DEF Admit, TypeOK
  <2>2. \A v \in Workers : pc[v] \in Holding => work[v] \in Calls \ {c}
    BY <2>1 DEF ServerInv, WorkerInv, TypeOK, Taken
  <2>3. \A s \in Sessions : \A i \in 1 .. Len(queue[s]) : queue[s][i] \in Calls \ {c}
    <3>1. \A s \in Sessions : \A i \in 1 .. Len(queue[s]) : queue[s][i] \in Calls
      BY DEF TypeOK
    <3> QED
      BY <3>1, <2>1 DEF ServerInv, QueueInv
  <2>4. QueueInv'
    <3>1. ASSUME NEW s \in Sessions, NEW i \in 1 .. Len(queue'[s])
          PROVE  /\ calls'[queue'[s][i]].status = "Admitted"
                 /\ calls'[queue'[s][i]].owner = s
                 /\ \A j \in 1 .. Len(queue'[s]) : queue'[s][i] = queue'[s][j] => i = j
      <4>1. CASE s = o
        <5>1. /\ queue'[s] = Append(queue[s], c) /\ queue[s] \in Seq(Calls)
              /\ Len(queue'[s]) = Len(queue[s]) + 1
              /\ queue'[s][Len(queue[s]) + 1] = c
              /\ \A j \in 1 .. Len(queue[s]) : queue'[s][j] = queue[s][j]
          BY <2>1, <4>1 DEF TypeOK
        <5>2. CASE i = Len(queue[s]) + 1
          BY <5>1, <5>2, <2>1, <2>3, <4>1
        <5>3. CASE i \in 1 .. Len(queue[s])
          BY <5>1, <5>3, <2>1, <2>3, <4>1 DEF ServerInv, QueueInv
        <5> QED
          BY <5>1, <5>2, <5>3
      <4>2. CASE s # o
        <5>1. queue'[s] = queue[s]
          BY <2>1, <4>2 DEF TypeOK
        <5> QED
          BY <5>1, <2>1, <2>3 DEF ServerInv, QueueInv
      <4> QED
        BY <4>1, <4>2
    <3> QED
      BY <3>1 DEF QueueInv
  <2>5. WorkerInv' /\ ExclusiveExecutor'
    BY <2>1, <2>2 DEF ServerInv, WorkerInv, ExclusiveExecutor, Holding
  <2>6. RunInv'
    BY <2>1 DEF ServerInv, RunInv, Begun
  <2> QED
    BY <2>4, <2>5, <2>6 DEF ServerInv
<1>12. ASSUME NEW r \in Requests, RequestPersists(r) PROVE ServerInv'
  <2>1. Persist /\ UNCHANGED <<queue, calls, pc, work, ran>>
    BY <1>12 DEF RequestPersists
  <2>2. CASE Workers = {}
    <3>1. /\ \A c \in Calls : /\ journal'.calls[c].status = calls[c].status
                             /\ journal'.calls[c].result = calls[c].result
      BY <2>1, SnapshotFaithful DEF Persist
    <3> QED
      BY <2>1, <2>2, <3>1 DEF ServerInv, ExclusiveExecutor, QueueInv, WorkerInv, RunInv
  <2>3. CASE Workers # {}
    BY <2>1, <2>3, PersistKeeps
  <2> QED
    BY <2>2, <2>3
<1>13. CASE Restart
  <2>1. /\ \A c \in Calls : /\ calls'[c] = Recovered(journal.calls[c])
                           /\ journal'.calls[c] = Recovered(journal.calls[c])
        /\ \A s \in Sessions : queue'[s] = <<>>
        /\ \A v \in Workers : pc'[v] = pc[v] \/ pc'[v] = "stopped"
        /\ \A v \in Workers : pc'[v] \notin {"dispatching", "starting", "completing"}
        /\ UNCHANGED <<work, ran>>
    BY <1>13 DEF Restart, TypeOK
  <2>2. \A c \in Calls :
            /\ journal.calls[c] \in CallRecord
            /\ journal.calls[c].status \in Taken => Recovered(journal.calls[c]).status \in Taken
            /\ journal.calls[c].status \in Begun => Recovered(journal.calls[c]).status \in Begun
            /\ Recovered(journal.calls[c]).status = "Completed" =>
                  /\ journal.calls[c].status = "Completed"
                  /\ Recovered(journal.calls[c]).result = journal.calls[c].result
    BY DEF TypeOK, Recovered, CallRecord, Taken, Begun
  <2>3. ExclusiveExecutor' /\ QueueInv'
    BY <2>1 DEF ServerInv, ExclusiveExecutor, QueueInv, Holding
  <2>4. WorkerInv'
    BY <2>1, <2>2 DEF ServerInv, WorkerInv, TypeOK, Holding, Taken, Begun
  <2>5. RunInv'
    BY <2>1, <2>2 DEF ServerInv, RunInv
  <2> QED
    BY <2>3, <2>4, <2>5 DEF ServerInv
<1>14. ASSUME NEW r \in Requests,
              WaitResult(r) \/ WaitTimeout(r) \/ WaitLost(r) \/ RequestPersistFails(r)
       PROVE  ServerInv'
  BY <1>14, ServerFrame DEF WaitResult, WaitTimeout, WaitLost, RequestPersistFails
<1>15. ASSUME NEW r \in Requests, NEW c \in Calls, NEW o \in Sessions,
              Retry(r, c, o) \/ AdmitUnavailable(r, c, o)
       PROVE  ServerInv'
  BY <1>15, ServerFrame DEF Retry, AdmitUnavailable
<1>16. ASSUME NEW r \in Requests, NEW child \in Sessions, NEW parent \in Sessions,
              NEW o \in Sessions, RegisterChild(r, child, parent, o)
       PROVE  ServerInv'
  BY <1>16, ServerFrame DEF RegisterChild
<1>17. CASE UNCHANGED vars
  BY <1>17, ServerFrame DEF vars
<1>18. ASSUME NEW w \in Workers, WorkerStep(w) PROVE ServerInv'
  BY <1>1, <1>2, <1>3, <1>4, <1>5, <1>18 DEF WorkerStep
<1>19. ASSUME NEW r \in Requests, RequestStep(r) PROVE ServerInv'
  BY <1>12, <1>14, <1>19 DEF RequestStep
<1>20. ASSUME NEW r \in Requests, NEW s \in Sessions, NoOwner(r, s) PROVE ServerInv'
  BY <1>20, ServerFrame DEF NoOwner
<1> QED
  BY <1>6, <1>8, <1>9, <1>10, <1>11, <1>13, <1>15, <1>16, <1>17, <1>18, <1>19, <1>20 DEF Next

\* Who is told a result is told the result of the run.
LEMMA RequestNext ==
    ASSUME TypeOK, ServerInv, RequestInv, [Next]_vars
    PROVE  RequestInv'
<1> USE DEF serverVars, workerVars, requestVars
<1>1. ASSUME NEW w \in Workers, Execute(w) PROVE RequestInv'
  <2>1. ran[work[w]] = <<>> /\ work[w] \in Calls
    BY <1>1 DEF Execute, ServerInv, WorkerInv, TypeOK, Holding
  <2>2. \A c \in Calls : c # work[w] => ran'[c] = ran[c]
    BY <1>1, <2>1 DEF Execute, TypeOK
  <2>3. \A x : <<x>> # <<>>
    OBVIOUS
  <2> QED
    BY <1>1, <2>1, <2>2, <2>3 DEF Execute, RequestInv
<1>2. ASSUME NEW r \in Requests, WaitResult(r) PROVE RequestInv'
  <2>1. rcall[r] \in Calls /\ ran[rcall[r]] = <<calls[rcall[r]].result>>
    BY <1>2 DEF WaitResult, TypeOK, ServerInv, RunInv
  <2>2. /\ rpc' = [rpc EXCEPT ![r] = "returned"]
        /\ answer' = [answer EXCEPT ![r] = "result"]
        /\ reported' = [reported EXCEPT ![r] = calls[rcall[r]].result]
        /\ UNCHANGED <<rcall, ran>>
    BY <1>2 DEF WaitResult, Reply
  <2> QED
    BY <2>1, <2>2 DEF RequestInv, TypeOK
<1>3. ASSUME NEW r \in Requests, NEW c \in Calls, NEW o \in Sessions, Retry(r, c, o)
      PROVE  RequestInv'
  <2>1. calls[c].status = "Completed" => ran[c] = <<calls[c].result>>
    BY DEF ServerInv, RunInv
  <2>2. /\ rpc[r] = "idle" /\ rcall' = [rcall EXCEPT ![r] = c] /\ ran' = ran
        /\ \/ calls[c].status = "Completed" /\ Reply(r, "result", calls[c].result)
           \/ Reply(r, "outcome_unknown", None)
           \/ rpc' = [rpc EXCEPT ![r] = "waiting"] /\ UNCHANGED <<answer, reported>>
    BY <1>3 DEF Retry
  <2> QED
    BY <2>1, <2>2 DEF RequestInv, TypeOK, Reply
<1>4. ASSUME NEW r \in Requests, NEW kind \in Answers \ {"result"}, Reply(r, kind, None),
             rpc[r] # "returned", ran' = ran,
             \/ rcall' = rcall
             \/ \E c \in Calls : rcall' = [rcall EXCEPT ![r] = c]
      PROVE  RequestInv'
  BY <1>4 DEF RequestInv, TypeOK, Reply
<1>5. ASSUME NEW r \in Requests, WaitTimeout(r) \/ WaitLost(r) \/ RequestPersistFails(r)
      PROVE  RequestInv'
  BY <1>4, <1>5 DEF WaitTimeout, WaitLost, RequestPersistFails, Answers
<1>6. ASSUME NEW r \in Requests, RequestPersists(r) PROVE RequestInv'
  <2>1. CASE rpc[r] = "attaching"
    BY <1>4, <1>6, <2>1 DEF RequestPersists, Answers
  <2>2. CASE rpc[r] = "admitting"
    BY <1>6, <2>2 DEF RequestPersists, RequestInv, TypeOK
  <2> QED
    BY <1>6, <2>1, <2>2 DEF RequestPersists
<1>7. ASSUME NEW r \in Requests, NEW s \in Sessions, NoOwner(r, s) PROVE RequestInv'
  BY <1>4, <1>7 DEF NoOwner, Answers
<1>8. ASSUME NEW r \in Requests, NEW c \in Calls, NEW o \in Sessions, AdmitUnavailable(r, c, o)
      PROVE  RequestInv'
  BY <1>4, <1>8 DEF AdmitUnavailable, Answers
<1>9. ASSUME NEW r \in Requests, NEW c \in Calls, NEW o \in Sessions, Admit(r, c, o)
      PROVE  RequestInv'
  BY <1>9 DEF Admit, RequestInv, TypeOK
<1>10. ASSUME NEW r \in Requests, NEW child \in Sessions, NEW parent \in Sessions,
              NEW o \in Sessions, RegisterChild(r, child, parent, o)
       PROVE  RequestInv'
  <2>1. CASE children[child] = None /\ ~Descends(parent, child)
    BY <1>10, <2>1 DEF RegisterChild, RequestInv, TypeOK
  <2>2. CASE ~(children[child] = None /\ ~Descends(parent, child))
    <3>1. \E kind \in {"attached", "conflict"} : Reply(r, kind, None)
      BY <1>10, <2>2 DEF RegisterChild
    <3> QED
      BY <1>4, <1>10, <3>1 DEF RegisterChild, Answers
  <2> QED
    BY <2>1, <2>2
<1>11. CASE Restart
  <2>1. \A r \in Requests :
            answer'[r] = "result" => answer[r] = "result" /\ (rpc[r] = "returned" => rpc'[r] = "returned")
    BY <1>11 DEF Restart
  <2> QED
    BY <1>11, <2>1 DEF Restart, RequestInv
<1>12. ASSUME NEW w \in Workers,
              \/ Next_pop(w) \/ Started(w) \/ Complete(w) \/ WorkerPersists(w)
              \/ WorkerStops(w) \/ Unregister(w)
       PROVE  RequestInv'
  BY <1>12, RequestFrame
     DEF Next_pop, Started, Complete, WorkerPersists, WorkerStops, Unregister
<1>13. ASSUME NEW w \in Workers, NEW s \in Sessions, Register(w, s) \/ Expire(s)
       PROVE  RequestInv'
  BY <1>13, RequestFrame DEF Register, Expire
<1>14. ASSUME NEW s \in Sessions, Expire(s) PROVE RequestInv'
  BY <1>14, RequestFrame DEF Expire
<1>15. CASE UNCHANGED vars
  BY <1>15, RequestFrame DEF vars
<1>16. ASSUME NEW w \in Workers, WorkerStep(w) PROVE RequestInv'
  BY <1>1, <1>12, <1>16 DEF WorkerStep
<1>17. ASSUME NEW r \in Requests, RequestStep(r) PROVE RequestInv'
  BY <1>2, <1>5, <1>6, <1>17 DEF RequestStep
<1> QED
  BY <1>3, <1>7, <1>8, <1>9, <1>10, <1>11, <1>12, <1>13, <1>14, <1>15, <1>16, <1>17 DEF Next

\* The inductive invariant, under a journal with room for every call.
THEOREM Inductive ==
    ASSUME Cardinality(Calls) <= JournalCap
    PROVE  Spec => []IInv
<1> USE DEF IInv
<1>1. Init => IInv
  BY TypeInit, InvInit DEF ServerInv
<1>2. IInv /\ [Next]_vars => IInv'
  BY TypeNext, ServerNext, RequestNext DEF ServerInv
<1> QED
  BY <1>1, <1>2, PTL DEF Spec

\* The tool of a call key runs at most once.
THEOREM RunsAtMostOnce ==
    ASSUME Cardinality(Calls) <= JournalCap
    PROVE  Spec => []AtMostOnce
<1>1. IInv => AtMostOnce
  BY DEF IInv, RunInv, AtMostOnce
<1> QED
  BY <1>1, Inductive, PTL

\* What ran is in the journal, whatever fails or restarts afterwards.
THEOREM JournalledBeforeRun ==
    ASSUME Cardinality(Calls) <= JournalCap
    PROVE  Spec => []WriteAhead
<1>1. IInv => WriteAhead
  BY DEF IInv, RunInv, WriteAhead, Begun
<1> QED
  BY <1>1, Inductive, PTL

\* Every result told to the plugin is the result of the one run.
THEOREM ResultsAreHonest ==
    ASSUME Cardinality(Calls) <= JournalCap
    PROVE  Spec => []HonestResult
<1>1. IInv => HonestResult
  BY DEF IInv, RequestInv, HonestResult
<1> QED
  BY <1>1, Inductive, PTL

\* A call is never in the hands of two workers.
THEOREM OneExecutor ==
    ASSUME Cardinality(Calls) <= JournalCap
    PROVE  Spec => []ExclusiveExecutor
<1>1. IInv => ExclusiveExecutor
  BY DEF IInv
<1> QED
  BY <1>1, Inductive, PTL

-----------------------------------------------------------------------------
(* The journal only advances. *)

LEMMA AdvancedReflexive == \A a \in CallRecord : Advanced(a, a)
BY DEF Advanced, CallRecord, Statuses, Rank

LEMMA AdvancedTransitive ==
    \A a, b, c \in CallRecord : Advanced(a, b) /\ Advanced(b, c) => Advanced(a, c)
BY DEF Advanced, CallRecord, Statuses, Rank

LEMMA RecoveredAdvances ==
    \A a \in CallRecord : Recovered(a) \in CallRecord /\ Advanced(a, Recovered(a))
BY DEF Advanced, CallRecord, Statuses, Rank, Recovered

\* What the supervisor does to a call in memory, restarts apart.
LEMMA CallsAdvance ==
    ASSUME TypeOK, ServerInv, [Next]_vars, ~Restart, NEW c \in Calls
    PROVE  Advanced(calls[c], calls'[c])
<1> USE DEF serverVars, workerVars, requestVars
<1>0. calls[c] \in CallRecord
  BY DEF TypeOK
<1>1. CASE UNCHANGED calls
  BY <1>0, <1>1, AdvancedReflexive
<1>2. ASSUME NEW w \in Workers, Next_pop(w) PROVE Advanced(calls[c], calls'[c])
  <2> DEFINE q == queue[home[w]]
  <2>1. home[w] \in Sessions /\ q \in Seq(Calls) /\ q # <<>>
    BY <1>2 DEF Next_pop, Holds, TypeOK
  <2>2. Head(q) \in Calls /\ Head(q) = q[1] /\ 1 \in 1 .. Len(q)
    BY <2>1
  <2>3. calls[Head(q)].status = "Admitted"
    BY <2>1, <2>2 DEF ServerInv, QueueInv
  <2>4. calls' = [calls EXCEPT ![Head(q)].status = "Dispatched"]
    BY <1>2 DEF Next_pop
  <2>5. CASE c # Head(q)
    <3>1. calls'[c] = calls[c]
      BY <2>4, <2>5 DEF TypeOK
    <3> QED
      BY <1>0, <3>1, AdvancedReflexive
  <2>6. CASE c = Head(q)
    <3>1. calls[c].status = "Admitted" /\ calls'[c].status = "Dispatched"
      BY <1>0, <2>3, <2>4, <2>6 DEF TypeOK, CallRecord
    <3> QED
      BY <3>1 DEF Advanced, Rank
  <2> QED
    BY <2>5, <2>6
<1>3. ASSUME NEW w \in Workers, Started(w) PROVE Advanced(calls[c], calls'[c])
  BY <1>0, <1>3, AdvancedReflexive DEF Started, Advanced, Rank, CallRecord, TypeOK
<1>4. ASSUME NEW w \in Workers, Complete(w) PROVE Advanced(calls[c], calls'[c])
  BY <1>0, <1>4, AdvancedReflexive DEF Complete, Advanced, Rank, CallRecord, TypeOK
<1>5. ASSUME NEW r \in Requests, NEW d \in Calls, NEW o \in Sessions, Admit(r, d, o)
      PROVE  Advanced(calls[c], calls'[c])
  <2>1. CASE c = d
    <3>1. calls[c].status = "absent" /\ calls'[c].status = "Admitted"
      BY <1>5, <2>1 DEF Admit, TypeOK
    <3> QED
      BY <3>1 DEF Advanced, Rank
  <2>2. CASE c # d
    BY <1>0, <1>5, <2>2, AdvancedReflexive DEF Admit, TypeOK
  <2> QED
    BY <2>1, <2>2
<1>6. ASSUME NEW w \in Workers,
             Execute(w) \/ WorkerPersists(w) \/ WorkerStops(w) \/ Unregister(w)
      PROVE  UNCHANGED calls
  BY <1>6 DEF Execute, WorkerPersists, WorkerStops, Unregister
<1>7. ASSUME NEW w \in Workers, NEW s \in Sessions, Register(w, s) PROVE UNCHANGED calls
  BY <1>7 DEF Register
<1>8. ASSUME NEW s \in Sessions, Expire(s) PROVE UNCHANGED calls
  BY <1>8 DEF Expire
<1>9. ASSUME NEW r \in Requests, RequestStep(r) PROVE UNCHANGED calls
  BY <1>9 DEF RequestStep, WaitResult, WaitTimeout, WaitLost, RequestPersists, RequestPersistFails
<1>10. ASSUME NEW r \in Requests, NEW s \in Sessions, NoOwner(r, s) PROVE UNCHANGED calls
  BY <1>10 DEF NoOwner
<1>11. ASSUME NEW r \in Requests, NEW d \in Calls, NEW o \in Sessions,
              Retry(r, d, o) \/ AdmitUnavailable(r, d, o)
       PROVE  UNCHANGED calls
  BY <1>11 DEF Retry, AdmitUnavailable
<1>12. ASSUME NEW r \in Requests, NEW child \in Sessions, NEW parent \in Sessions,
              NEW o \in Sessions, RegisterChild(r, child, parent, o)
       PROVE  UNCHANGED calls
  BY <1>12 DEF RegisterChild
<1>13. CASE UNCHANGED vars
  BY <1>1, <1>13 DEF vars
<1> QED
  BY <1>1, <1>2, <1>3, <1>4, <1>5, <1>6, <1>7, <1>8, <1>9, <1>10, <1>11, <1>12, <1>13
     DEF Next, WorkerStep

\* Who writes the journal: whoever persists the memory as it stands, or open().
LEMMA JournalWritten ==
    ASSUME [Next]_vars, journal' # journal, ~Restart
    PROVE  Persist /\ UNCHANGED calls
<1> USE DEF serverVars, workerVars, requestVars
<1>1. ASSUME NEW w \in Workers, WorkerStep(w) \/ WorkerStops(w) \/ Unregister(w)
      PROVE  Persist /\ UNCHANGED calls
  BY <1>1 DEF WorkerStep, Next_pop, Started, Execute, Complete, WorkerPersists, WorkerStops,
              Unregister
<1>2. ASSUME NEW r \in Requests, RequestStep(r) PROVE Persist /\ UNCHANGED calls
  BY <1>2 DEF RequestStep, WaitResult, WaitTimeout, WaitLost, RequestPersists,
              RequestPersistFails
<1> QED
  BY <1>1, <1>2 DEF Next, Register, Expire, NoOwner, Admit, Retry, AdmitUnavailable,
                    RegisterChild, vars

\* A step advances the journal, and leaves the memory ahead of it.
LEMMA JournalStep ==
    ASSUME Cardinality(Calls) <= JournalCap, TypeOK, ServerInv, MemoryAhead, [Next]_vars,
           NEW c \in Calls
    PROVE  /\ Advanced(journal.calls[c], journal'.calls[c])
           /\ Advanced(journal'.calls[c], calls'[c])
<1>1. calls[c] \in CallRecord /\ journal.calls[c] \in CallRecord
  BY DEF TypeOK
<1>2. Advanced(journal.calls[c], calls[c])
  BY DEF MemoryAhead
<1>3. CASE Restart
  <2>1. journal'.calls[c] = Recovered(journal.calls[c]) /\ calls'[c] = journal'.calls[c]
    BY <1>3 DEF Restart, TypeOK
  <2> QED
    BY <1>1, <2>1, RecoveredAdvances, AdvancedReflexive
<1>4. CASE ~Restart /\ journal' = journal
  <2>1. calls'[c] \in CallRecord
    BY TypeNext DEF TypeOK
  <2>2. Advanced(calls[c], calls'[c])
    BY <1>4, CallsAdvance
  <2> QED
    BY <1>1, <1>2, <1>4, <2>1, <2>2, AdvancedReflexive, AdvancedTransitive
<1>5. CASE ~Restart /\ journal' # journal
  <2>1. Persist /\ UNCHANGED calls
    BY <1>5, JournalWritten
  <2>2. /\ journal'.calls[c].status = calls[c].status
        /\ journal'.calls[c].result = calls[c].result
    BY <2>1, SnapshotFaithful DEF Persist
  <2>3. Rank[calls[c].status] \in Nat
    BY <1>1 DEF Rank, CallRecord, Statuses
  <2> QED
    BY <1>2, <2>1, <2>2, <2>3 DEF Advanced
<1> QED
  BY <1>3, <1>4, <1>5

\* A journalled call only advances, over every write, failed write and restart.
THEOREM Advances ==
    ASSUME Cardinality(Calls) <= JournalCap
    PROVE  Spec => JournalAdvances
<1>1. Init => MemoryAhead
  BY DEF Init, MemoryAhead, Advanced, Absent, Rank
<1>2. IInv /\ MemoryAhead /\ [Next]_vars =>
        MemoryAhead' /\ \A c \in Calls : Advanced(journal.calls[c], journal'.calls[c])
  BY JournalStep DEF IInv, ServerInv, MemoryAhead
<1>3. Spec => []IInv
  BY Inductive
<1>4. \/ ~(IInv /\ MemoryAhead)
      \/ ~[Next]_vars
      \/ [\A c \in Calls : Advanced(journal.calls[c], journal'.calls[c])]_vars
  BY <1>2
<1> QED
  BY <1>1, <1>2, <1>3, <1>4, PTL DEF Spec, JournalAdvances

-----------------------------------------------------------------------------
(* The bridge implements its contract. *)

\* Nobody new is told a result.
LEMMA ToldFrame ==
    ASSUME \A q \in Requests :
              /\ answer'[q] = "result" <=> answer[q] = "result"
              /\ answer[q] = "result" => reported'[q] = reported[q] /\ rcall'[q] = rcall[q]
    PROVE  Told' = Told
<1> DEFINE before(c) == {q \in Requests : answer[q] = "result" /\ rcall[q] = c}
           after(c) == {q \in Requests : answer'[q] = "result" /\ rcall'[q] = c}
<1>1. ASSUME NEW c \in Calls
      PROVE  {reported'[q] : q \in after(c)} = {reported[q] : q \in before(c)}
  <2>1. after(c) = before(c)
    OBVIOUS
  <2>2. \A q \in before(c) : reported'[q] = reported[q]
    OBVIOUS
  <2> HIDE DEF before, after
  <2> QED
    BY <2>1, <2>2
<1> QED
  BY <1>1 DEF Told

\* One request is told the result of a worker.
LEMMA ToldOne ==
    ASSUME NEW r \in Requests, NEW c \in Calls, NEW w,
           answer[r] # "result", answer'[r] = "result", rcall'[r] = c, reported'[r] = w,
           \A q \in Requests \ {r} :
              answer'[q] = answer[q] /\ reported'[q] = reported[q] /\ rcall'[q] = rcall[q]
    PROVE  Told' = [Told EXCEPT ![c] = @ \cup {w}]
<1> DEFINE before(d) == {q \in Requests : answer[q] = "result" /\ rcall[q] = d}
           after(d) == {q \in Requests : answer'[q] = "result" /\ rcall'[q] = d}
<1>1. ASSUME NEW d \in Calls
      PROVE  {reported'[q] : q \in after(d)} =
                 {reported[q] : q \in before(d)} \cup (IF d = c THEN {w} ELSE {})
  <2>1. after(d) = before(d) \cup (IF d = c THEN {r} ELSE {})
    OBVIOUS
  <2>2. r \notin before(d) /\ \A q \in before(d) : reported'[q] = reported[q]
    OBVIOUS
  <2> HIDE DEF before, after
  <2> QED
    BY <2>1, <2>2
<1>2. /\ Told = [d \in Calls |-> {reported[q] : q \in before(d)}]
      /\ Told' = [d \in Calls |-> {reported'[q] : q \in after(d)}]
  BY DEF Told
<1> HIDE DEF before, after
<1> QED
  BY <1>1, <1>2

LEMMA ContractInit == Init => Contract!Init
<1> SUFFICES ASSUME Init PROVE Contract!Init
  OBVIOUS
<1>1. \A c \in Calls : {q \in Requests : answer[q] = "result" /\ rcall[q] = c} = {}
  BY DEF Init
<1>2. Told = [c \in Calls |-> {}]
  BY <1>1 DEF Told
<1> QED
  BY <1>2 DEF Init, Contract!Init

\* A reply other than a result tells nobody anything.
LEMMA ReplyFrame ==
    ASSUME TypeOK, RequestInv, NEW r \in Requests, rpc[r] # "returned", answer'[r] # "result",
           \A q \in Requests \ {r} :
              answer'[q] = answer[q] /\ reported'[q] = reported[q] /\ rcall'[q] = rcall[q]
    PROVE  Told' = Told
BY ToldFrame DEF RequestInv

\* A reply that carries the recorded result of a completed call.
LEMMA ReplyTells ==
    ASSUME TypeOK, ServerInv, RequestInv, NEW r \in Requests, NEW c \in Calls,
           rpc[r] # "returned", calls[c].status = "Completed",
           Reply(r, "result", calls[c].result), rcall' = [rcall EXCEPT ![r] = c]
    PROVE  \E w \in Workers : /\ ran[c] = <<w>>
                              /\ Told' = [Told EXCEPT ![c] = @ \cup {w}]
<1> DEFINE w == calls[c].result
<1>1. ran[c] = <<w>>
  BY DEF ServerInv, RunInv
<1>2. w \in Workers
  <2>1. ran[c] \in Seq(Workers)
    BY DEF TypeOK
  <2>2. Len(ran[c]) = 1 /\ ran[c][1] = w
    BY <1>1
  <2> QED
    BY <2>1, <2>2
<1>3. answer[r] # "result"
  BY DEF RequestInv
<1>4. /\ answer'[r] = "result" /\ reported'[r] = w /\ rcall'[r] = c
      /\ \A q \in Requests \ {r} :
            answer'[q] = answer[q] /\ reported'[q] = reported[q] /\ rcall'[q] = rcall[q]
  BY DEF Reply, TypeOK
<1>5. Told' = [Told EXCEPT ![c] = @ \cup {w}]
  BY <1>3, <1>4, ToldOne
<1> QED
  BY <1>1, <1>2, <1>5

\* Every step of the bridge is a step of the contract or leaves it alone.
LEMMA ContractStep ==
    ASSUME IInv, [Next]_vars
    PROVE  [Contract!Next]_<<ran, Told>>
<1> USE DEF serverVars, workerVars, requestVars
<1>0. TypeOK /\ ServerInv /\ RequestInv
  BY DEF IInv, ServerInv
<1>1. ASSUME NEW w \in Workers, Execute(w) PROVE Contract!Next
  <2>1. /\ work[w] \in Calls
        /\ ran[work[w]] = <<>>
    BY <1>0, <1>1 DEF Execute, ServerInv, WorkerInv, TypeOK, Holding
  <2>2. ran' = [ran EXCEPT ![work[w]] = <<w>>]
    BY <1>1, <2>1 DEF Execute, TypeOK
  <2>3. Told' = Told
    BY <1>1, ToldFrame DEF Execute
  <2>4. Contract!Run(work[w], w)
    BY <2>1, <2>2, <2>3 DEF Contract!Run
  <2> QED
    BY <2>1, <2>4 DEF Contract!Next
<1>2. ASSUME NEW r \in Requests, WaitResult(r) PROVE Contract!Next
  <2>1. /\ rpc[r] = "waiting" /\ rcall[r] \in Calls /\ rcall' = [rcall EXCEPT ![r] = rcall[r]]
        /\ calls[rcall[r]].status = "Completed"
        /\ Reply(r, "result", calls[rcall[r]].result)
        /\ ran' = ran
    BY <1>0, <1>2 DEF WaitResult, TypeOK
  <2>2. PICK w \in Workers : /\ ran[rcall[r]] = <<w>>
                             /\ Told' = [Told EXCEPT ![rcall[r]] = @ \cup {w}]
    BY <1>0, <2>1, ReplyTells
  <2>3. Contract!Tell(rcall[r], w)
    BY <2>1, <2>2 DEF Contract!Tell
  <2> QED
    BY <2>1, <2>3 DEF Contract!Next
<1>3. ASSUME NEW r \in Requests, NEW c \in Calls, NEW o \in Sessions, Retry(r, c, o)
      PROVE  Contract!Next \/ UNCHANGED <<ran, Told>>
  <2>1. /\ rpc[r] = "idle" /\ rcall' = [rcall EXCEPT ![r] = c] /\ ran' = ran
        /\ \/ calls[c].status = "Completed" /\ Reply(r, "result", calls[c].result)
           \/ Reply(r, "outcome_unknown", None)
           \/ UNCHANGED <<answer, reported>>
    BY <1>3 DEF Retry
  <2>2. CASE calls[c].status = "Completed" /\ Reply(r, "result", calls[c].result)
    <3>1. PICK w \in Workers : /\ ran[c] = <<w>>
                               /\ Told' = [Told EXCEPT ![c] = @ \cup {w}]
      BY <1>0, <2>1, <2>2, ReplyTells
    <3>2. Contract!Tell(c, w)
      BY <2>1, <3>1 DEF Contract!Tell
    <3> QED
      BY <3>2 DEF Contract!Next
  <2>3. CASE Reply(r, "outcome_unknown", None) \/ UNCHANGED <<answer, reported>>
    <3>1. answer[r] # "result"
      BY <1>0, <2>1 DEF RequestInv
    <3>2. Told' = Told
      BY <1>0, <2>1, <2>3, <3>1, ReplyFrame DEF Reply, TypeOK
    <3> QED
      BY <2>1, <3>2
  <2> QED
    BY <2>1, <2>2, <2>3
<1>4. ASSUME NEW r \in Requests, NEW kind \in Answers \ {"result"}, Reply(r, kind, None),
             rpc[r] # "returned", ran' = ran,
             \/ rcall' = rcall
             \/ \E c \in Calls : rcall' = [rcall EXCEPT ![r] = c]
      PROVE  UNCHANGED <<ran, Told>>
  BY <1>0, <1>4, ReplyFrame DEF Reply, TypeOK
<1>5. ASSUME NEW r \in Requests, WaitTimeout(r) \/ WaitLost(r) \/ RequestPersistFails(r)
      PROVE  UNCHANGED <<ran, Told>>
  BY <1>4, <1>5 DEF WaitTimeout, WaitLost, RequestPersistFails, Answers
<1>6. ASSUME NEW r \in Requests, RequestPersists(r) PROVE UNCHANGED <<ran, Told>>
  <2>1. CASE rpc[r] = "attaching"
    BY <1>4, <1>6, <2>1 DEF RequestPersists, Answers
  <2>2. CASE rpc[r] = "admitting"
    BY <1>6, <2>2, ToldFrame DEF RequestPersists
  <2> QED
    BY <1>6, <2>1, <2>2 DEF RequestPersists
<1>7. ASSUME NEW r \in Requests, NEW s \in Sessions, NoOwner(r, s)
      PROVE  UNCHANGED <<ran, Told>>
  BY <1>4, <1>7 DEF NoOwner, Answers
<1>8. ASSUME NEW r \in Requests, NEW c \in Calls, NEW o \in Sessions, AdmitUnavailable(r, c, o)
      PROVE  UNCHANGED <<ran, Told>>
  BY <1>4, <1>8 DEF AdmitUnavailable, Answers
<1>9. ASSUME NEW r \in Requests, NEW c \in Calls, NEW o \in Sessions, Admit(r, c, o)
      PROVE  UNCHANGED <<ran, Told>>
  <2>1. answer[r] # "result"
    BY <1>0, <1>9 DEF Admit, RequestInv
  <2>2. \A q \in Requests : answer[q] = "result" => q # r /\ rcall'[q] = rcall[q]
    BY <1>0, <1>9, <2>1 DEF Admit, TypeOK
  <2> QED
    BY <1>9, <2>2, ToldFrame DEF Admit
<1>10. ASSUME NEW r \in Requests, NEW child \in Sessions, NEW parent \in Sessions,
              NEW o \in Sessions, RegisterChild(r, child, parent, o)
       PROVE  UNCHANGED <<ran, Told>>
  <2>1. CASE children[child] = None /\ ~Descends(parent, child)
    BY <1>10, <2>1, ToldFrame DEF RegisterChild
  <2>2. CASE ~(children[child] = None /\ ~Descends(parent, child))
    <3>1. \E kind \in {"attached", "conflict"} : Reply(r, kind, None)
      BY <1>10, <2>2 DEF RegisterChild
    <3> QED
      BY <1>4, <1>10, <3>1 DEF RegisterChild, Answers
  <2> QED
    BY <2>1, <2>2
<1>11. CASE Restart
  <2>1. \A q \in Requests : answer'[q] = "result" <=> answer[q] = "result"
    BY <1>0, <1>11 DEF Restart, RequestInv
  <2> QED
    BY <1>11, <2>1, ToldFrame DEF Restart
<1>12. ASSUME NEW w \in Workers,
              \/ Next_pop(w) \/ Started(w) \/ Complete(w) \/ WorkerPersists(w)
              \/ WorkerStops(w) \/ Unregister(w)
       PROVE  UNCHANGED <<ran, Told>>
  BY <1>12, ToldFrame
     DEF Next_pop, Started, Complete, WorkerPersists, WorkerStops, Unregister
<1>13. ASSUME NEW w \in Workers, NEW s \in Sessions, Register(w, s) PROVE UNCHANGED <<ran, Told>>
  BY <1>13, ToldFrame DEF Register
<1>14. ASSUME NEW s \in Sessions, Expire(s) PROVE UNCHANGED <<ran, Told>>
  BY <1>14, ToldFrame DEF Expire
<1>15. CASE UNCHANGED vars
  BY <1>15, ToldFrame DEF vars
<1>16. ASSUME NEW w \in Workers, WorkerStep(w) PROVE Contract!Next \/ UNCHANGED <<ran, Told>>
  BY <1>1, <1>12, <1>16 DEF WorkerStep
<1>17. ASSUME NEW r \in Requests, RequestStep(r) PROVE Contract!Next \/ UNCHANGED <<ran, Told>>
  BY <1>2, <1>5, <1>6, <1>17 DEF RequestStep
<1> QED
  BY <1>3, <1>7, <1>8, <1>9, <1>10, <1>11, <1>12, <1>13, <1>14, <1>15, <1>16, <1>17 DEF Next

\* Whatever happens to leases, writes, processes and requests, what the bridge does to tools
\* and results is what its contract allows.
THEOREM Implements ==
    ASSUME Cardinality(Calls) <= JournalCap
    PROVE  Spec => ImplementsContract
<1>1. Init => Contract!Init
  BY ContractInit
<1>2. IInv /\ [Next]_vars => [Contract!Next]_<<ran, Told>>
  BY ContractStep
<1>3. Spec => []IInv
  BY Inductive
<1> QED
  BY <1>1, <1>2, <1>3, PTL DEF Spec, ImplementsContract, Contract!Spec

-----------------------------------------------------------------------------
(* Induction over numbers.  The library's induction theorems take an operator as a  *)
(* parameter; least elements of a set of numbers need none.                         *)

\* A nonempty set of numbers has a least one.
LEMMA LeastNumber ==
  ASSUME NEW T, T \subseteq Nat, T # {}
  PROVE  \E x \in T : \A y \in T : x <= y
<1> DEFINE R == OpToRel(<, Nat)
<1>1. IsWellFoundedOn(R, Nat)
  BY NatLessThanWellFounded
<1>2. PICK x \in T : \A y \in T : ~ (<<y, x>> \in R)
  <2> HIDE DEF R
  <2> QED
    BY <1>1, WFMin
<1>3. \A y \in T : ~(y < x)
  BY <1>2 DEF OpToRel
<1>4. x \in Nat /\ \A y \in T : y \in Nat
  OBVIOUS
<1>5. \A y \in T : x <= y
  <2> HIDE DEF R
  <2> QED
    BY <1>3, <1>4
<1> QED
  BY <1>5

\* A set of numbers that holds 0 and every successor holds them all.
LEMMA Induction ==
  ASSUME NEW S, 0 \in S, \A n \in Nat : n \in S => n + 1 \in S
  PROVE  \A n \in Nat : n \in S
<1> DEFINE T == Nat \ S
<1>1. SUFFICES ASSUME T # {} PROVE FALSE
  OBVIOUS
<1>2. PICK x \in T : \A y \in T : x <= y
  BY <1>1, LeastNumber
<1>3. x \in Nat /\ x # 0 /\ x - 1 \in Nat /\ x - 1 \notin T
  BY <1>2
<1> QED
  BY <1>2, <1>3

\* A function on a set can be iterated: the recursion theorem, for a step that is a function.
Iterates(X, F, x0) == {f \in [Nat -> X] : f[0] = x0 /\ \A n \in Nat : f[n + 1] = F[f[n]]}

LEMMA Iteration ==
  ASSUME NEW X, NEW F \in [X -> X], NEW x0 \in X
  PROVE  Iterates(X, F, x0) # {}
<1> DEFINE Upto(n) == {g \in [0 .. n -> X] : g[0] = x0 /\ \A i \in 0 .. n - 1 : g[i + 1] = F[g[i]]}
           S == {n \in Nat : Upto(n) # {} }
           U == {n \in Nat : \A m, k \in Nat : n <= m /\ n <= k =>
                    \A g \in Upto(m), h \in Upto(k) : g[n] = h[n]}
<1>1. \A n \in Nat : n \in S
  <2>1. 0 \in S
    <3>1. [i \in 0 .. 0 |-> x0] \in Upto(0)
      OBVIOUS
    <3> QED
      BY <3>1
  <2>2. ASSUME NEW n \in Nat, n \in S PROVE n + 1 \in S
    <3>1. PICK g : g \in Upto(n)
      BY <2>2
    <3>2. [i \in 0 .. n + 1 |-> IF i = n + 1 THEN F[g[n]] ELSE g[i]] \in Upto(n + 1)
      BY <3>1
    <3> QED
      BY <3>2
  <2> HIDE DEF S
  <2> QED
    BY <2>1, <2>2, Induction
<1>2. \A n \in Nat : n \in U
  <2>1. 0 \in U
    OBVIOUS
  <2>2. ASSUME NEW n \in Nat, n \in U PROVE n + 1 \in U
    <3>1. ASSUME NEW m \in Nat, NEW k \in Nat, n + 1 <= m, n + 1 <= k,
                 NEW g \in Upto(m), NEW h \in Upto(k)
          PROVE  g[n + 1] = h[n + 1]
      <4>1. n <= m /\ n <= k /\ n \in 0 .. m - 1 /\ n \in 0 .. k - 1
        BY <3>1
      <4>2. g[n] = h[n]
        <5> HIDE DEF Upto
        <5> QED
          BY <2>2, <3>1, <4>1
      <4>3. g[n + 1] = F[g[n]] /\ h[n + 1] = F[h[n]]
        BY <3>1, <4>1
      <4> QED
        BY <4>2, <4>3
    <3> HIDE DEF Upto
    <3> QED
      BY <3>1
  <2> HIDE DEF U
  <2> QED
    BY <2>1, <2>2, Induction
<1> DEFINE h(n) == CHOOSE g \in Upto(n) : TRUE
           f == [n \in Nat |-> h(n)[n]]
<1>3. \A n \in Nat : h(n) \in Upto(n)
  BY <1>1
<1>4. \A n \in Nat : f[n] = h(n)[n]
  OBVIOUS
<1>5. f \in [Nat -> X] /\ f[0] = x0
  <2>1. ASSUME NEW n \in Nat PROVE h(n)[n] \in X /\ h(n)[0] = x0
    <3> HIDE DEF h
    <3> QED
      BY <1>3
  <2> HIDE DEF h
  <2> QED
    BY <2>1
<1>6. ASSUME NEW n \in Nat PROVE f[n + 1] = F[f[n]]
  <2>1. h(n + 1)[n + 1] = F[h(n + 1)[n]]
    <3>1. h(n + 1) \in Upto(n + 1) /\ n \in 0 .. (n + 1) - 1
      <4> HIDE DEF h, Upto
      <4> QED
        BY <1>3
    <3> HIDE DEF h
    <3> QED
      BY <3>1
  <2>2. h(n + 1)[n] = h(n)[n]
    <3>1. h(n + 1) \in Upto(n + 1) /\ h(n) \in Upto(n) /\ n \in U
      <4> HIDE DEF h, Upto, U
      <4> QED
        BY <1>2, <1>3
    <3> HIDE DEF h, Upto
    <3> QED
      BY <3>1
  <2> HIDE DEF h
  <2> QED
    BY <2>1, <2>2
<1> HIDE DEF f
<1> QED
  BY <1>5, <1>6 DEF Iterates
-----------------------------------------------------------------------------
(* Ancestry. *)

\* The recursive definition of Ancestor means what it says.
LEMMA AncestorUnfold ==
    ASSUME children \in [Sessions -> Sessions \cup {None}]
    PROVE  /\ \A s \in Sessions : Ancestor[0][s] = s
           /\ \A n \in Nat, s \in Sessions :
                 Ancestor[n + 1][s] =
                     IF Ancestor[n][s] = None THEN None ELSE children[Ancestor[n][s]]
<1> DEFINE X == [Sessions -> Sessions \cup {None}]
           F == [a \in X |->
                   [s \in Sessions |-> IF a[s] = None THEN None ELSE children[a[s]]]]
           x0 == [s \in Sessions |-> s]
           G(f) == [n \in Nat |->
                      [s \in Sessions |->
                          IF n = 0 THEN s
                          ELSE IF f[n - 1][s] = None THEN None ELSE children[f[n - 1][s]]]]
<1>1. F \in [X -> X] /\ x0 \in X
  OBVIOUS
<1>2. PICK f \in [Nat -> X] : f[0] = x0 /\ \A n \in Nat : f[n + 1] = F[f[n]]
  <2>1. Iterates(X, F, x0) # {}
    <3> HIDE DEF X, F, x0
    <3> QED
      BY <1>1, Iteration
  <2> HIDE DEF X, F, x0
  <2> QED
    BY <2>1 DEF Iterates
<1>3. \A n \in Nat : f[n] = G(f)[n]
  <2>1. f[0] = G(f)[0]
    BY <1>2
  <2>2. ASSUME NEW n \in Nat, n # 0 PROVE f[n] = G(f)[n]
    <3>1. n - 1 \in Nat /\ (n - 1) + 1 = n
      BY <2>2
    <3>2. f[n] = F[f[n - 1]] /\ f[n - 1] \in X
      <4> HIDE DEF F, X
      <4> QED
        BY <1>2, <3>1
    <3> QED
      BY <2>2, <3>2
  <2> QED
    BY <2>1, <2>2
<1>4. f = G(f)
  BY <1>2, <1>3
<1>5. Ancestor = G(Ancestor)
  BY <1>4 DEF Ancestor
<1>6. \A n \in Nat : Ancestor[n] = G(Ancestor)[n]
  <2> HIDE DEF G
  <2> QED
    BY <1>5
<1>7. \A s \in Sessions : Ancestor[0][s] = s
  <2>1. Ancestor[0] = G(Ancestor)[0]
    BY <1>6
  <2> QED
    BY <2>1
<1>8. ASSUME NEW n \in Nat, NEW s \in Sessions
      PROVE  Ancestor[n + 1][s] =
                 IF Ancestor[n][s] = None THEN None ELSE children[Ancestor[n][s]]
  <2>1. n + 1 \in Nat /\ n + 1 # 0 /\ (n + 1) - 1 = n
    OBVIOUS
  <2>2. Ancestor[n + 1] = G(Ancestor)[n + 1]
    BY <1>6, <2>1
  <2> QED
    BY <2>1, <2>2
<1> QED
  BY <1>7, <1>8

Parents == [Sessions -> Sessions \cup {None}]

\* A chain of ancestors that ended has ended for good.
LEMMA AncestorEnds ==
    ASSUME children \in Parents, NEW s \in Sessions, NEW k \in Nat, Ancestor[k][s] = None
    PROVE  \A n \in Nat : n >= k => Ancestor[n][s] = None
<1> DEFINE S == {j \in Nat : Ancestor[k + j][s] = None}
<1>1. 0 \in S
  OBVIOUS
<1>2. ASSUME NEW j \in Nat, j \in S PROVE j + 1 \in S
  <2>1. Ancestor[(k + j) + 1][s] = None
    BY <1>2, AncestorUnfold DEF Parents
  <2>2. k + (j + 1) = (k + j) + 1
    OBVIOUS
  <2> QED
    BY <2>1, <2>2
<1>3. \A j \in Nat : j \in S
  <2> HIDE DEF S
  <2> QED
    BY <1>1, <1>2, Induction
<1> SUFFICES ASSUME NEW n \in Nat, n >= k PROVE Ancestor[n][s] = None
  OBVIOUS
<1>4. n - k \in Nat /\ k + (n - k) = n
  OBVIOUS
<1>5. n - k \in S
  BY <1>3, <1>4
<1> QED
  BY <1>4, <1>5

\* Before it ends, every ancestor is a session, and its parent is the next ancestor.
LEMMA AncestorParent ==
    ASSUME children \in Parents, NEW s \in Sessions, NEW n \in Nat, Ancestor[n][s] # None
    PROVE  Ancestor[n][s] \in Sessions /\ children[Ancestor[n][s]] = Ancestor[n + 1][s]
<1> DEFINE S == {j \in Nat : Ancestor[j][s] \in Sessions \cup {None}}
<1>1. 0 \in S
  BY AncestorUnfold DEF Parents
<1>2. ASSUME NEW j \in Nat, j \in S PROVE j + 1 \in S
  BY <1>2, AncestorUnfold DEF Parents
<1>3. \A j \in Nat : j \in S
  <2> HIDE DEF S
  <2> QED
    BY <1>1, <1>2, Induction
<1> QED
  BY <1>3, AncestorUnfold DEF Parents

\* No set of sessions has all its parents inside: the loop-freedom that a registration keeps.
Rooted(parents) ==
    \A S \in SUBSET Sessions : S # {} => \E s \in S : parents[s] \notin S

LEMMA RootedRegister ==
    ASSUME children \in Parents, Rooted(children),
           NEW child \in Sessions, NEW parent \in Sessions, NEW o \in Sessions,
           child # parent, LeaseOwner(parent, o), ~Descends(parent, child)
    PROVE  Rooted([children EXCEPT ![child] = parent])
<1> DEFINE new == [children EXCEPT ![child] = parent]
<1>1. SUFFICES ASSUME NEW S \in SUBSET Sessions, S # {}, \A s \in S : new[s] \in S
               PROVE  FALSE
  BY DEF Rooted
<1>2. \A s \in S : s # child => new[s] = children[s]
  BY DEF Parents
<1>3. CASE child \notin S
  BY <1>1, <1>2, <1>3 DEF Rooted
<1>4. CASE child \in S
  <2> DEFINE D == {x \in S : \E n \in 0 .. MaxHops - 1 : Ancestor[n][parent] = x}
  <2>1. parent \in D
    <3>1. new[child] = parent
      BY DEF Parents
    <3>2. 0 \in 0 .. MaxHops - 1
      BY BridgeAssumption DEF BridgeAssumption
    <3> QED
      BY <1>1, <1>4, <3>1, <3>2, AncestorUnfold DEF Parents
  <2>2. child \notin D
    BY DEF Descends
  <2>3. ASSUME NEW x \in D PROVE children[x] \in D
    <3>1. PICK n \in 0 .. MaxHops - 1 : Ancestor[n][parent] = x
      OBVIOUS
    <3>2. n \in Nat /\ x # None /\ children[x] = new[x] /\ children[x] \in S
      BY <1>1, <1>2, <2>2, <2>3, <3>1, BridgeAssumption DEF BridgeAssumption
    <3>3. children[x] = Ancestor[n + 1][parent]
      BY <3>1, <3>2, AncestorParent
    <3>4. n # MaxHops - 1
      <4>1. SUFFICES ASSUME n = MaxHops - 1 PROVE FALSE
        OBVIOUS
      <4>2. PICK k \in 0 .. MaxHops - 1 : Ancestor[k][parent] = o
        BY DEF LeaseOwner
      <4>3. children[o] = None /\ o # None /\ None \notin S
        BY BridgeAssumption DEF LeaseOwner, BridgeAssumption
      <4>4. k \in Nat /\ k # n
        BY <3>1, <3>2, <4>2, <4>3, BridgeAssumption DEF BridgeAssumption
      <4>5. Ancestor[k + 1][parent] = None
        BY <4>2, <4>3, <4>4, AncestorParent
      <4>6. k + 1 \in Nat /\ n >= k + 1
        BY <4>1, <4>2, <4>4, BridgeAssumption DEF BridgeAssumption
      <4>7. Ancestor[n][parent] = None
        BY <3>2, <4>5, <4>6, AncestorEnds
      <4> QED
        BY <3>1, <3>2, <4>7
    <3>5. n + 1 \in 0 .. MaxHops - 1
      BY <3>1, <3>4, BridgeAssumption DEF BridgeAssumption
    <3> QED
      BY <3>2, <3>3, <3>5
  <2>4. D \in SUBSET Sessions /\ D # {}
    BY <2>1
  <2> HIDE DEF D
  <2> QED
    BY <2>3, <2>4 DEF Rooted
<1> QED
  BY <1>3, <1>4

\* Loop-free parents make every chain of ancestors leave its session for good.
LEMMA RootedAcyclic ==
    ASSUME children \in Parents, Rooted(children)
    PROVE  AncestryAcyclic
<1>1. SUFFICES ASSUME NEW s \in Sessions, NEW n \in 1 .. Cardinality(Sessions),
                      Ancestor[n][s] = s
               PROVE  FALSE
  BY DEF AncestryAcyclic
<1>2. n \in Nat /\ n >= 1 /\ s # None
  BY <1>1, BridgeAssumption DEF BridgeAssumption
<1> DEFINE D == {Ancestor[k][s] : k \in 0 .. n}
<1>3. ASSUME NEW k \in 0 .. n PROVE Ancestor[k][s] # None
  <2>1. SUFFICES ASSUME Ancestor[k][s] = None PROVE FALSE
    OBVIOUS
  <2>2. k \in Nat /\ n >= k
    BY <1>2
  <2>3. Ancestor[n][s] = None
    BY <1>2, <2>1, <2>2, AncestorEnds
  <2> QED
    BY <1>1, <1>2, <2>3
<1>4. ASSUME NEW k \in 0 .. n
      PROVE  Ancestor[k][s] \in Sessions /\ children[Ancestor[k][s]] \in D
  <2>1. k \in Nat
    OBVIOUS
  <2>2. Ancestor[k][s] \in Sessions /\ children[Ancestor[k][s]] = Ancestor[k + 1][s]
    BY <1>3, <2>1, AncestorParent
  <2>3. CASE k < n
    <3>1. k + 1 \in 0 .. n
      BY <1>2, <2>3
    <3> QED
      BY <2>2, <3>1
  <2>4. CASE k = n
    <3>1. 0 \in Nat /\ 0 \in 0 .. n /\ 0 + 1 \in 0 .. n /\ Ancestor[0][s] = s
      BY <1>2, AncestorUnfold DEF Parents
    <3>2. children[Ancestor[0][s]] = Ancestor[0 + 1][s]
      BY <1>3, <3>1, AncestorParent
    <3> QED
      BY <1>1, <2>2, <2>4, <3>1, <3>2
  <2> QED
    BY <1>2, <2>3, <2>4
<1>5. D \in SUBSET Sessions /\ D # {} /\ \A x \in D : children[x] \in D
  BY <1>2, <1>4
<1> HIDE DEF D
<1> QED
  BY <1>5 DEF Rooted

\* What registrations, writes and restarts keep: the parents in memory and in the journal.
LoopFree == Rooted(children) /\ Rooted(journal.children)

LEMMA LoopFreeNext ==
    ASSUME TypeOK, LoopFree, [Next]_vars
    PROVE  LoopFree'
<1> USE DEF serverVars, workerVars, requestVars
<1>1. ASSUME UNCHANGED children, journal'.children = journal.children PROVE LoopFree'
  BY <1>1 DEF LoopFree, Rooted
<1>2. ASSUME UNCHANGED children, Persist PROVE LoopFree'
  BY <1>2 DEF LoopFree, Rooted, Persist, Snapshot
<1>3. ASSUME NEW w \in Workers, WorkerStep(w) \/ WorkerStops(w) \/ Unregister(w)
      PROVE  LoopFree'
  BY <1>1, <1>2, <1>3 DEF WorkerStep, Next_pop, Started, Execute, Complete, WorkerPersists,
                          WorkerStops, Unregister
<1>4. ASSUME NEW r \in Requests, RequestStep(r) PROVE LoopFree'
  BY <1>1, <1>2, <1>4 DEF RequestStep, WaitResult, WaitTimeout, WaitLost, RequestPersists,
                          RequestPersistFails
<1>5. ASSUME NEW r \in Requests, NEW child \in Sessions, NEW parent \in Sessions,
             NEW o \in Sessions, RegisterChild(r, child, parent, o)
      PROVE  LoopFree'
  <2>1. CASE children[child] = None /\ ~Descends(parent, child)
    <3>1. /\ child # parent /\ LeaseOwner(parent, o)
          /\ children' = [children EXCEPT ![child] = parent] /\ journal' = journal
      BY <1>5, <2>1 DEF RegisterChild
    <3>2. children \in Parents /\ Rooted(children) /\ Rooted(journal.children)
      BY DEF TypeOK, Parents, LoopFree
    <3>3. Rooted(children')
      BY <2>1, <3>1, <3>2, RootedRegister
    <3> QED
      BY <3>1, <3>2, <3>3 DEF LoopFree, Rooted
  <2>2. CASE ~(children[child] = None /\ ~Descends(parent, child))
    BY <1>1, <1>5, <2>2 DEF RegisterChild
  <2> QED
    BY <2>1, <2>2
<1>6. CASE Restart
  <2>1. children' = journal.children /\ journal'.children = journal.children
    BY <1>6 DEF Restart, TypeOK
  <2> QED
    BY <2>1 DEF LoopFree, Rooted
<1>7. CASE UNCHANGED vars
  BY <1>1, <1>7 DEF vars
<1> QED
  BY <1>1, <1>3, <1>4, <1>5, <1>6, <1>7
     DEF Next, Register, Expire, NoOwner, Admit, Retry, AdmitUnavailable

\* However children are attached, whatever writes fail and whenever the supervisor restarts,
\* no session becomes its own ancestor.
THEOREM NoAncestryLoop == Spec => []AncestryAcyclic
<1>1. Init => LoopFree
  BY BridgeAssumption DEF Init, LoopFree, Rooted, BridgeAssumption
<1>2. TypeOK /\ LoopFree /\ [Next]_vars => LoopFree'
  BY LoopFreeNext
<1>3. TypeOK /\ LoopFree => AncestryAcyclic
  BY RootedAcyclic DEF TypeOK, Parents, LoopFree
<1> QED
  BY <1>1, <1>2, <1>3, TypeCorrect, PTL DEF Spec


-----------------------------------------------------------------------------
(* Sums of a function over a finite set.                                     *)

\* A property of finite sets that holds of the empty one and survives one more element.
LEMMA FiniteInduction ==
  ASSUME NEW S, IsFiniteSet(S), NEW F, {} \in F,
         \A T \in SUBSET S, x \in S : T \in F /\ x \notin T => T \cup {x} \in F
  PROVE  S \in F
<1> DEFINE N == {n \in Nat : \A T \in SUBSET S : Cardinality(T) = n => T \in F}
<1>1. \A T \in SUBSET S : IsFiniteSet(T) /\ Cardinality(T) \in Nat
  BY FS_Subset, FS_CardinalityType
<1>2. 0 \in N
  BY <1>1, FS_EmptySet
<1>3. ASSUME NEW n \in Nat, n \in N PROVE n + 1 \in N
  <2>1. ASSUME NEW T \in SUBSET S, Cardinality(T) = n + 1 PROVE T \in F
    <3>1. PICK x \in T : TRUE
      BY <1>1, <2>1, FS_EmptySet
    <3>2. Cardinality(T \ {x}) = n
      <4>1. IsFiniteSet(T) /\ Cardinality(T) = n + 1 /\ x \in T
        BY <1>1, <2>1, <3>1
      <4>2. Cardinality(T \ {x}) = Cardinality(T) - 1
        BY <4>1, FS_RemoveElement
      <4> QED
        BY <4>1, <4>2
    <3>3. T \ {x} \in F /\ x \in S
      BY <1>3, <3>2, <3>1
    <3>4. (T \ {x}) \cup {x} = T
      BY <3>1
    <3> QED
      BY <3>3, <3>4
  <2> QED
    BY <2>1
<1>4. \A n \in Nat : n \in N
  <2> HIDE DEF N
  <2> QED
    BY <1>2, <1>3, Induction
<1> QED
  BY <1>1, <1>4

\* g is the sum of f over every subset of A, as the community module defines it.
Chosen(s) == CHOOSE x \in s : TRUE
SumsUp(f, g) == [s \in DOMAIN g |-> IF s = {} THEN 0 ELSE f[Chosen(s)] + g[s \ {Chosen(s)}]]
Sums(f, A, g) == DOMAIN g = SUBSET A /\ g = SumsUp(f, g)

LEMMA SumsStep ==
  ASSUME NEW f, NEW A, NEW g, Sums(f, A, g)
  PROVE  /\ g[{}] = 0
         /\ \A s \in SUBSET A : s # {} => /\ Chosen(s) \in s
                                          /\ g[s] = f[Chosen(s)] + g[s \ {Chosen(s)}]
<1>1. \A s \in SUBSET A : g[s] = IF s = {} THEN 0 ELSE f[Chosen(s)] + g[s \ {Chosen(s)}]
  BY DEF Sums, SumsUp
<1>2. \A s : s # {} => Chosen(s) \in s
  BY DEF Chosen
<1> QED
  BY <1>1, <1>2

\* Two such functions agree, and their values are numbers.
LEMMA SumsAgree ==
  ASSUME NEW f, NEW A, NEW a, Sums(f, A, a), NEW B, NEW b, Sums(f, B, b),
         NEW T \in SUBSET (A \cap B), IsFiniteSet(T)
  PROVE  a[T] = b[T]
<1> DEFINE N == {n \in Nat : \A U \in SUBSET T : Cardinality(U) = n => a[U] = b[U]}
<1>1. \A U \in SUBSET T : /\ IsFiniteSet(U) /\ Cardinality(U) \in Nat /\ (Cardinality(U) = 0 <=> U = {})
                          /\ U \in SUBSET A /\ U \in SUBSET B
  BY FS_Subset, FS_CardinalityType, FS_EmptySet
<1>2. 0 \in N
  BY <1>1, SumsStep
<1>3. ASSUME NEW n \in Nat, n \in N PROVE n + 1 \in N
  <2>1. ASSUME NEW U \in SUBSET T, Cardinality(U) = n + 1 PROVE a[U] = b[U]
    <3> DEFINE x == Chosen(U)
    <3>1. U # {} /\ U \in SUBSET A /\ U \in SUBSET B /\ IsFiniteSet(U)
      BY <1>1, <2>1
    <3>2. x \in U /\ a[U] = f[x] + a[U \ {x}] /\ b[U] = f[x] + b[U \ {x}]
      BY <3>1, SumsStep
    <3>3. Cardinality(U \ {x}) = n /\ U \ {x} \in SUBSET T
      <4>1. IsFiniteSet(U) /\ x \in U
        BY <3>1, <3>2
      <4> HIDE DEF x
      <4>2. Cardinality(U \ {x}) = Cardinality(U) - 1
        BY <4>1, FS_RemoveElement
      <4> QED
        BY <2>1, <4>2
    <3>4. a[U \ {x}] = b[U \ {x}]
      BY <1>3, <3>3
    <3> QED
      BY <3>2, <3>4
  <2> QED
    BY <2>1
<1>4. \A n \in Nat : n \in N
  <2> HIDE DEF N
  <2> QED
    BY <1>2, <1>3, Induction
<1> QED
  BY <1>1, <1>4

LEMMA SumsExist ==
  ASSUME NEW f, NEW A, IsFiniteSet(A)
  PROVE  \E g : Sums(f, A, g)
<1> DEFINE N == {n \in Nat : \A T \in SUBSET A : Cardinality(T) <= n => \E g : Sums(f, T, g)}
<1>1. \A U \in SUBSET A : /\ IsFiniteSet(U) /\ Cardinality(U) \in Nat /\ (Cardinality(U) = 0 <=> U = {})
  BY FS_Subset, FS_CardinalityType, FS_EmptySet
<1>2. \E g : Sums(f, {}, g)
  <2> DEFINE g == [s \in SUBSET {} |-> 0]
  <2>1. DOMAIN g = SUBSET {} /\ SumsUp(f, g) = g
    BY DEF SumsUp
  <2> QED
    BY <2>1 DEF Sums
<1>3. 0 \in N
  <2>1. \A T \in SUBSET A : Cardinality(T) <= 0 => T = {}
    BY <1>1
  <2> QED
    BY <1>2, <2>1
<1>4. ASSUME NEW n \in Nat, n \in N PROVE n + 1 \in N
  <2>1. ASSUME NEW T \in SUBSET A, Cardinality(T) <= n + 1 PROVE \E g : Sums(f, T, g)
    <3> DEFINE h(s) == CHOOSE g : Sums(f, s, g)
               x == Chosen(T)
               g == [s \in SUBSET T |-> IF s = {} THEN 0
                                        ELSE IF s = T THEN f[x] + h(T \ {x})[T \ {x}]
                                        ELSE h(s)[s]]
    <3>1. ASSUME NEW s \in SUBSET T, s # T PROVE Sums(f, s, h(s))
      <4>1. Cardinality(s) < Cardinality(T)
        BY <1>1, <2>1, <3>1, FS_Subset
      <4>2. Cardinality(s) <= n /\ s \in SUBSET A
        BY <1>1, <2>1, <3>1, <4>1
      <4>3. \E g2 : Sums(f, s, g2)
        BY <1>4, <4>2
      <4> QED
        BY <4>3
    <3>2. CASE T = {}
      BY <1>2, <3>2
    <3>3. CASE T # {}
      <4>0. x \in T
        BY <3>3 DEF Chosen
      <4>1. ASSUME NEW s \in SUBSET T, s # {}
            PROVE  g[s] = f[Chosen(s)] + g[s \ {Chosen(s)}]
        <5> DEFINE y == Chosen(s)
                   r == s \ {y}
        <5>1. y \in s /\ r \in SUBSET T /\ r # s /\ r \subseteq s /\ r # T
          BY <4>1 DEF Chosen
        <5>2. Sums(f, r, h(r))
          BY <3>1, <5>1
        <5>3. g[r] = h(r)[r]
          <6>1. CASE r = {}
            <7>1. h(r)[r] = 0
              BY <5>2, <6>1, SumsStep
            <7> QED
              BY <5>1, <6>1, <7>1
          <6>2. CASE r # {}
            BY <5>1, <6>2
          <6> QED
            BY <6>1, <6>2
        <5>4. CASE s = T
          BY <4>1, <5>3, <5>4
        <5>5. CASE s # T
          <6>1. Sums(f, s, h(s)) /\ g[s] = h(s)[s]
            BY <3>1, <4>1, <5>5
          <6>2. h(s)[s] = f[y] + h(s)[r]
            <7> HIDE DEF h
            <7> QED
              BY <4>1, <6>1, SumsStep
          <6>3. h(s)[r] = h(r)[r]
            <7>1. IsFiniteSet(r) /\ r \in SUBSET (s \cap r)
              BY <1>1, <5>1
            <7> HIDE DEF h, r
            <7> QED
              BY <5>2, <6>1, <7>1, SumsAgree
          <6> QED
            BY <5>3, <6>1, <6>2, <6>3
        <5> QED
          BY <5>4, <5>5
      <4>2. DOMAIN g = SUBSET T /\ g[{}] = 0
        OBVIOUS
      <4> HIDE DEF g
      <4>3. SumsUp(f, g) = [s \in SUBSET T |-> g[s]]
        BY <4>1, <4>2 DEF SumsUp
      <4>4. g = [s \in SUBSET T |-> g[s]]
        BY DEF g
      <4>5. Sums(f, T, g)
        BY <4>2, <4>3, <4>4 DEF Sums
      <4> QED
        BY <4>5
    <3> QED
      BY <3>2, <3>3
  <2> QED
    BY <2>1
<1>5. \A n \in Nat : n \in N
  <2> HIDE DEF N
  <2> QED
    BY <1>3, <1>4, Induction
<1>6. Cardinality(A) \in Nat /\ Cardinality(A) \in N /\ A \in SUBSET A /\ Cardinality(A) <= Cardinality(A)
  BY <1>1, <1>5
<1> QED
  BY <1>6

LEMMA SumIs ==
  ASSUME NEW f, NEW A, IsFiniteSet(A)
  PROVE  \E g : Sums(f, A, g) /\ SumFunctionOnSet(f, A) = g[A]
<1> DEFINE G(g) == [s \in SUBSET A |-> IF s = {} THEN 0 ELSE f[CHOOSE x \in s : TRUE] + g[s \ {CHOOSE x \in s : TRUE}]]
           iter == CHOOSE g : g = G(g)
<1>1. \E g : g = G(g)
  <2>1. PICK g : Sums(f, A, g)
    BY SumsExist
  <2>2. g = G(g)
    BY <2>1 DEF Sums, SumsUp, Chosen
  <2> QED
    BY <2>2
<1>2. iter = G(iter)
  <2> HIDE DEF G
  <2> QED
    BY <1>1
<1>3. SumFunctionOnSet(f, A) = iter[A]
  BY DEF SumFunctionOnSet, FoldFunctionOnSet, MapThenFoldSet
<1>4. Sums(f, A, iter)
  <2> HIDE DEF iter
  <2> QED
    BY <1>2 DEF Sums, SumsUp, Chosen
<1> QED
  BY <1>3, <1>4

Counts(f, A) == \A x \in A : f[x] \in Nat

LEMMA SumEmpty == ASSUME NEW f PROVE SumFunctionOnSet(f, {}) = 0
<1>1. IsFiniteSet({})
  BY FS_EmptySet
<1>2. PICK g : Sums(f, {}, g) /\ SumFunctionOnSet(f, {}) = g[{}]
  BY <1>1, SumIs
<1> QED
  BY <1>2, SumsStep

LEMMA SumChosen ==
  ASSUME NEW f, NEW A, IsFiniteSet(A), A # {}
  PROVE  /\ Chosen(A) \in A
         /\ SumFunctionOnSet(f, A) = f[Chosen(A)] + SumFunctionOnSet(f, A \ {Chosen(A)})
<1> DEFINE x == Chosen(A)
           B == A \ {x}
<1>1. IsFiniteSet(B)
  BY FS_RemoveElement
<1>2. PICK g : Sums(f, A, g) /\ SumFunctionOnSet(f, A) = g[A]
  BY SumIs
<1>3. PICK h : Sums(f, B, h) /\ SumFunctionOnSet(f, B) = h[B]
  BY <1>1, SumIs
<1>4. x \in A /\ g[A] = f[x] + g[B]
  <2>1. A \in SUBSET A
    OBVIOUS
  <2>2. \A s \in SUBSET A : s # {} => /\ Chosen(s) \in s
                                      /\ g[s] = f[Chosen(s)] + g[s \ {Chosen(s)}]
    BY <1>2, SumsStep
  <2>3. /\ Chosen(A) \in A
        /\ g[A] = f[Chosen(A)] + g[A \ {Chosen(A)}]
    BY <2>1, <2>2, Zenon
  <2> QED
    BY <2>3
<1>5. g[B] = h[B]
  <2>1. B \in SUBSET (A \cap B)
    OBVIOUS
  <2> HIDE DEF B
  <2> QED
    BY <1>1, <1>2, <1>3, <2>1, SumsAgree
<1> QED
  BY <1>2, <1>3, <1>4, <1>5

LEMMA SumType ==
  ASSUME NEW f, NEW A, IsFiniteSet(A), Counts(f, A)
  PROVE  SumFunctionOnSet(f, A) \in Nat
<1> DEFINE N == {n \in Nat : \A T \in SUBSET A : Cardinality(T) = n => SumFunctionOnSet(f, T) \in Nat}
<1>1. \A U \in SUBSET A : /\ IsFiniteSet(U) /\ Cardinality(U) \in Nat /\ (Cardinality(U) = 0 <=> U = {})
  BY FS_Subset, FS_CardinalityType, FS_EmptySet
<1>2. 0 \in N
  BY <1>1, SumEmpty
<1>3. ASSUME NEW n \in Nat, n \in N PROVE n + 1 \in N
  <2>1. ASSUME NEW T \in SUBSET A, Cardinality(T) = n + 1 PROVE SumFunctionOnSet(f, T) \in Nat
    <3> DEFINE x == Chosen(T)
    <3>1. T # {} /\ IsFiniteSet(T)
      BY <1>1, <2>1
    <3>2. x \in T /\ SumFunctionOnSet(f, T) = f[x] + SumFunctionOnSet(f, T \ {x})
      BY <3>1, SumChosen
    <3>3. Cardinality(T \ {x}) = Cardinality(T) - 1
      BY <3>1, <3>2, FS_RemoveElement
    <3>4. SumFunctionOnSet(f, T \ {x}) \in Nat
      BY <1>3, <2>1, <3>3
    <3>5. f[x] \in Nat
      BY <3>2 DEF Counts
    <3> QED
      BY <3>2, <3>4, <3>5
  <2> QED
    BY <2>1
<1>4. \A n \in Nat : n \in N
  <2> HIDE DEF N
  <2> QED
    BY <1>2, <1>3, Induction
<1> QED
  BY <1>1, <1>4

\* The order of the summands does not matter: any element may be taken out.
LEMMA SumRemove ==
  ASSUME NEW f, NEW A, IsFiniteSet(A), Counts(f, A), NEW z \in A
  PROVE  SumFunctionOnSet(f, A) = f[z] + SumFunctionOnSet(f, A \ {z})
<1> DEFINE N == {n \in Nat : \A T \in SUBSET A : Cardinality(T) = n =>
                    \A y \in T : SumFunctionOnSet(f, T) = f[y] + SumFunctionOnSet(f, T \ {y})}
<1>1. \A U \in SUBSET A : /\ IsFiniteSet(U) /\ Cardinality(U) \in Nat /\ (Cardinality(U) = 0 <=> U = {})
                          /\ SumFunctionOnSet(f, U) \in Nat
  <2>1. \A U \in SUBSET A : Counts(f, U)
    BY DEF Counts
  <2> QED
    BY <2>1, SumType, FS_Subset, FS_CardinalityType, FS_EmptySet
<1>2. 0 \in N
  BY <1>1
<1>3. ASSUME NEW n \in Nat, n \in N PROVE n + 1 \in N
  <2>1. ASSUME NEW T \in SUBSET A, Cardinality(T) = n + 1, NEW y \in T
        PROVE  SumFunctionOnSet(f, T) = f[y] + SumFunctionOnSet(f, T \ {y})
    <3> DEFINE x == Chosen(T)
    <3>1. T # {} /\ IsFiniteSet(T)
      BY <1>1, <2>1
    <3>2. x \in T /\ SumFunctionOnSet(f, T) = f[x] + SumFunctionOnSet(f, T \ {x})
      BY <3>1, SumChosen
    <3> HIDE DEF x
    <3>3. CASE x = y
      BY <3>2, <3>3
    <3>4. CASE x # y
      <4>1. Cardinality(T \ {x}) = Cardinality(T) - 1 /\ Cardinality(T \ {y}) = Cardinality(T) - 1
        BY <2>1, <3>1, <3>2, FS_RemoveElement
      <4>2. Cardinality(T \ {x}) = n /\ Cardinality(T \ {y}) = n
        BY <2>1, <4>1
      <4>3. SumFunctionOnSet(f, T \ {x}) = f[y] + SumFunctionOnSet(f, (T \ {x}) \ {y})
        BY <1>3, <2>1, <3>4, <4>2
      <4>4. SumFunctionOnSet(f, T \ {y}) = f[x] + SumFunctionOnSet(f, (T \ {y}) \ {x})
        BY <1>3, <3>2, <3>4, <4>2
      <4>5. (T \ {x}) \ {y} = (T \ {y}) \ {x} /\ (T \ {x}) \ {y} \in SUBSET A
        OBVIOUS
      <4>6. f[x] \in Nat /\ f[y] \in Nat /\ SumFunctionOnSet(f, (T \ {x}) \ {y}) \in Nat
        BY <1>1, <3>2, <4>5 DEF Counts
      <4> DEFINE rest == SumFunctionOnSet(f, (T \ {x}) \ {y})
      <4>7. SumFunctionOnSet(f, T \ {x}) = f[y] + rest /\ SumFunctionOnSet(f, T \ {y}) = f[x] + rest
        BY <4>3, <4>4, <4>5, Zenon
      <4>8. rest \in Nat
        BY <4>6
      <4> HIDE DEF rest
      <4> QED
        BY <3>2, <4>6, <4>7, <4>8
    <3> QED
      BY <3>3, <3>4
  <2> QED
    BY <2>1
<1>4. \A n \in Nat : n \in N
  <2> HIDE DEF N
  <2> QED
    BY <1>2, <1>3, Induction
<1>5. Cardinality(A) \in N /\ A \in SUBSET A
  BY <1>1, <1>4
<1> QED
  BY <1>5

LEMMA SumAdd ==
  ASSUME NEW f, NEW A, IsFiniteSet(A), NEW z, z \notin A, Counts(f, A \cup {z})
  PROVE  SumFunctionOnSet(f, A \cup {z}) = f[z] + SumFunctionOnSet(f, A)
<1> DEFINE B == A \cup {z}
<1>1. IsFiniteSet(B) /\ z \in B /\ B \ {z} = A
  BY FS_AddElement
<1> HIDE DEF B
<1>2. SumFunctionOnSet(f, B) = f[z] + SumFunctionOnSet(f, B \ {z})
  BY <1>1, SumRemove DEF B
<1> QED
  BY <1>1, <1>2 DEF B

\* Disjoint parts add up.
LEMMA SumUnion ==
  ASSUME NEW f, NEW A, IsFiniteSet(A), NEW B, IsFiniteSet(B), A \cap B = {}, Counts(f, A \cup B)
  PROVE  SumFunctionOnSet(f, A \cup B) = SumFunctionOnSet(f, A) + SumFunctionOnSet(f, B)
<1> DEFINE F == {T \in SUBSET B : SumFunctionOnSet(f, A \cup T) = SumFunctionOnSet(f, A) + SumFunctionOnSet(f, T)}
<1>0. /\ \A T \in SUBSET B : IsFiniteSet(T) /\ IsFiniteSet(A \cup T)
      /\ \A T \in SUBSET (A \cup B) : Counts(f, T)
  BY FS_Subset, FS_Union DEF Counts
<1>1. SumFunctionOnSet(f, A) \in Nat /\ \A T \in SUBSET B : SumFunctionOnSet(f, T) \in Nat
  <2>1. Counts(f, A) /\ \A T \in SUBSET B : Counts(f, T)
    BY DEF Counts
  <2> QED
    BY <1>0, <2>1, SumType
<1>2. {} \in F
  <2>1. SumFunctionOnSet(f, {}) = 0 /\ A \cup {} = A
    BY SumEmpty
  <2> QED
    BY <1>1, <2>1
<1>3. ASSUME NEW T \in SUBSET B, NEW x \in B, T \in F, x \notin T PROVE T \cup {x} \in F
  <2>1. /\ A \cup (T \cup {x}) = (A \cup T) \cup {x} /\ x \notin A \cup T
        /\ T \cup {x} \in SUBSET (A \cup B) /\ (A \cup T) \cup {x} \in SUBSET (A \cup B)
    BY <1>3
  <2>2. SumFunctionOnSet(f, (A \cup T) \cup {x}) = f[x] + SumFunctionOnSet(f, A \cup T)
    BY <1>0, <2>1, SumAdd
  <2>3. SumFunctionOnSet(f, T \cup {x}) = f[x] + SumFunctionOnSet(f, T)
    BY <1>0, <1>3, <2>1, SumAdd
  <2>4. f[x] \in Nat
    BY DEF Counts
  <2> QED
    BY <1>1, <1>3, <2>1, <2>2, <2>3, <2>4
<1>4. B \in F
  <2> HIDE DEF F
  <2> QED
    BY <1>2, <1>3, FiniteInduction
<1> QED
  BY <1>4

\* A sum over part of a set is at most the sum over the set.
LEMMA SumWithin ==
  ASSUME NEW f, NEW B, IsFiniteSet(B), Counts(f, B), NEW A \in SUBSET B
  PROVE  SumFunctionOnSet(f, A) <= SumFunctionOnSet(f, B)
<1> DEFINE C == B \ A
<1>1. IsFiniteSet(A) /\ IsFiniteSet(C) /\ A \cap C = {} /\ A \cup C = B
  BY FS_Subset
<1>2. Counts(f, A) /\ Counts(f, C) /\ Counts(f, A \cup C)
  BY <1>1 DEF Counts
<1> HIDE DEF C
<1>3. SumFunctionOnSet(f, A) \in Nat /\ SumFunctionOnSet(f, C) \in Nat
  BY <1>1, <1>2, SumType
<1>4. SumFunctionOnSet(f, A \cup C) = SumFunctionOnSet(f, A) + SumFunctionOnSet(f, C)
  BY <1>1, <1>2, SumUnion
<1>5. SumFunctionOnSet(f, A \cup C) = SumFunctionOnSet(f, B)
  BY <1>1, Zenon
<1> QED
  BY <1>3, <1>4, <1>5

\* An injection that lowers no summand lowers no sum.
LEMMA SumMapped ==
  ASSUME NEW f, NEW A, IsFiniteSet(A), Counts(f, A),
         NEW g, NEW B, IsFiniteSet(B), Counts(g, B),
         NEW to \in [A -> B], \A x, y \in A : to[x] = to[y] => x = y,
         \A x \in A : f[x] <= g[to[x]]
  PROVE  SumFunctionOnSet(f, A) <= SumFunctionOnSet(g, B)
<1> DEFINE Image(T) == {to[x] : x \in T}
           F == {T \in SUBSET A : SumFunctionOnSet(f, T) <= SumFunctionOnSet(g, Image(T))}
<1>1. \A T \in SUBSET A : IsFiniteSet(T) /\ Counts(f, T) /\ SumFunctionOnSet(f, T) \in Nat
  <2>1. \A T \in SUBSET A : IsFiniteSet(T) /\ Counts(f, T)
    BY FS_Subset DEF Counts
  <2> QED
    BY <2>1, SumType
<1>2. \A T \in SUBSET B : IsFiniteSet(T) /\ Counts(g, T) /\ SumFunctionOnSet(g, T) \in Nat
  <2>1. \A T \in SUBSET B : IsFiniteSet(T) /\ Counts(g, T)
    BY FS_Subset DEF Counts
  <2> QED
    BY <2>1, SumType
<1>3. \A T \in SUBSET A : Image(T) \in SUBSET B
  OBVIOUS
<1>4. {} \in F
  <2>1. Image({}) = {}
    OBVIOUS
  <2> QED
    BY <2>1, SumEmpty
<1>5. ASSUME NEW T \in SUBSET A, NEW x \in A, T \in F, x \notin T PROVE T \cup {x} \in F
  <2>1. Image(T \cup {x}) = Image(T) \cup {to[x]}
    OBVIOUS
  <2>2. to[x] \notin Image(T) /\ to[x] \in B
    BY <1>5
  <2>3. Image(T) \in SUBSET B /\ Image(T) \cup {to[x]} \in SUBSET B /\ T \cup {x} \in SUBSET A
    BY <1>3, <2>2
  <2> HIDE DEF Image
  <2>4. SumFunctionOnSet(f, T \cup {x}) = f[x] + SumFunctionOnSet(f, T)
    BY <1>1, <1>5, <2>3, SumAdd
  <2>5. SumFunctionOnSet(g, Image(T) \cup {to[x]}) = g[to[x]] + SumFunctionOnSet(g, Image(T))
    BY <1>2, <2>2, <2>3, SumAdd
  <2>6. f[x] \in Nat /\ g[to[x]] \in Nat /\ f[x] <= g[to[x]]
    BY <2>2 DEF Counts
  <2>7. SumFunctionOnSet(f, T) <= SumFunctionOnSet(g, Image(T))
    BY <1>5
  <2>8. SumFunctionOnSet(g, Image(T \cup {x})) = SumFunctionOnSet(g, Image(T) \cup {to[x]})
    BY <2>1, Zenon
  <2>9. SumFunctionOnSet(f, T) \in Nat /\ SumFunctionOnSet(g, Image(T)) \in Nat
    BY <1>1, <1>2, <2>3
  <2>10. SumFunctionOnSet(f, T \cup {x}) <= SumFunctionOnSet(g, Image(T \cup {x}))
    BY <2>4, <2>5, <2>6, <2>7, <2>8, <2>9
  <2> QED
    BY <2>3, <2>10
<1>6. A \in F
  <2> HIDE DEF F
  <2> QED
    BY <1>4, <1>5, FiniteInduction
<1>7. SumFunctionOnSet(g, Image(A)) <= SumFunctionOnSet(g, B)
  <2>1. Image(A) \in SUBSET B
    BY <1>3
  <2> HIDE DEF Image
  <2> QED
    BY <2>1, SumWithin
<1>8. Image(A) \in SUBSET B
  BY <1>3
<1> QED
  BY <1>1, <1>2, <1>6, <1>7, <1>8

\* Summands compared one by one.
LEMMA SumBelow ==
  ASSUME NEW f, NEW g, NEW A, IsFiniteSet(A), Counts(f, A), Counts(g, A), \A x \in A : f[x] <= g[x]
  PROVE  SumFunctionOnSet(f, A) <= SumFunctionOnSet(g, A)
<1> DEFINE to == [x \in A |-> x]
<1>1. to \in [A -> A] /\ \A x \in A : to[x] = x
  OBVIOUS
<1> HIDE DEF to
<1> QED
  BY <1>1, SumMapped

\* A sum over groups of elements is at least the sum over the elements.
LEMMA SumGrouped ==
  ASSUME NEW f, NEW A, IsFiniteSet(A), Counts(f, A), NEW S, IsFiniteSet(S), NEW of \in [A -> S],
         NEW g, Counts(g, S), \A s \in S : SumFunctionOnSet(f, {x \in A : of[x] = s}) <= g[s]
  PROVE  SumFunctionOnSet(f, A) <= SumFunctionOnSet(g, S)
<1> DEFINE Group(T) == {x \in A : of[x] \in T}
           F == {T \in SUBSET S : SumFunctionOnSet(f, Group(T)) <= SumFunctionOnSet(g, T)}
<1>1. \A T \in SUBSET A : IsFiniteSet(T) /\ Counts(f, T) /\ SumFunctionOnSet(f, T) \in Nat
  <2>1. \A T \in SUBSET A : IsFiniteSet(T) /\ Counts(f, T)
    BY FS_Subset DEF Counts
  <2> QED
    BY <2>1, SumType
<1>2. \A T \in SUBSET S : IsFiniteSet(T) /\ Counts(g, T) /\ SumFunctionOnSet(g, T) \in Nat
  <2>1. \A T \in SUBSET S : IsFiniteSet(T) /\ Counts(g, T)
    BY FS_Subset DEF Counts
  <2> QED
    BY <2>1, SumType
<1>3. {} \in F
  <2>1. Group({}) = {}
    OBVIOUS
  <2> QED
    BY <2>1, SumEmpty
<1>4. ASSUME NEW T \in SUBSET S, NEW s \in S, T \in F, s \notin T PROVE T \cup {s} \in F
  <2> DEFINE New == {x \in A : of[x] = s}
  <2>1. Group(T \cup {s}) = Group(T) \cup New /\ Group(T) \cap New = {}
    BY <1>4
  <2>2. Group(T) \in SUBSET A /\ New \in SUBSET A /\ Group(T) \cup New \in SUBSET A /\ T \cup {s} \in SUBSET S
    OBVIOUS
  <2>3. SumFunctionOnSet(f, New) <= g[s]
    OBVIOUS
  <2>8. SumFunctionOnSet(f, Group(T)) <= SumFunctionOnSet(g, T)
    BY <1>4
  <2> HIDE DEF Group, New
  <2>4. SumFunctionOnSet(f, Group(T) \cup New) = SumFunctionOnSet(f, Group(T)) + SumFunctionOnSet(f, New)
    BY <1>1, <2>1, <2>2, SumUnion
  <2>5. SumFunctionOnSet(g, T \cup {s}) = g[s] + SumFunctionOnSet(g, T)
    BY <1>2, <1>4, <2>2, SumAdd
  <2>6. g[s] \in Nat
    BY DEF Counts
  <2> QED
    BY <1>1, <1>2, <2>1, <2>2, <2>3, <2>4, <2>5, <2>6, <2>8
<1>5. S \in F
  <2> HIDE DEF F
  <2> QED
    BY <1>3, <1>4, FiniteInduction
<1>6. Group(S) = A
  OBVIOUS
<1> QED
  BY <1>5, <1>6

-----------------------------------------------------------------------------
(* Numbers and queues.                                                       *)

LEMMA MaxOfTwo ==
  ASSUME NEW x \in Nat, NEW y \in Nat
  PROVE  Max({x, y}) \in Nat /\ Max({x, y}) >= x /\ Max({x, y}) >= y
<1>1. \E z \in {x, y} : \A w \in {x, y} : z >= w
  <2>1. CASE x >= y
    BY <2>1
  <2>2. CASE y >= x
    BY <2>2
  <2> QED
    BY <2>1, <2>2
<1>2. Max({x, y}) \in {x, y} /\ \A w \in {x, y} : Max({x, y}) >= w
  BY <1>1 DEF Max
<1> QED
  BY <1>2

LEMMA MinOfTwo ==
  ASSUME NEW x \in Nat, NEW y \in Nat
  PROVE  Min({x, y}) \in {x, y} /\ Min({x, y}) <= x /\ Min({x, y}) <= y
<1>1. \E z \in {x, y} : \A w \in {x, y} : z <= w
  <2>1. CASE x <= y
    BY <2>1
  <2>2. CASE y <= x
    BY <2>2
  <2> QED
    BY <2>1, <2>2
<1>2. Min({x, y}) \in {x, y} /\ \A w \in {x, y} : Min({x, y}) <= w
  BY <1>1 DEF Min
<1> QED
  BY <1>2

LEMMA Joined ==
  ASSUME NEW S, NEW a \in Seq(S), NEW b \in Seq(S), NEW k \in 1..Len(a) + Len(b)
  PROVE  (a \o b)[k] = IF k <= Len(a) THEN a[k] ELSE b[k - Len(a)]
OBVIOUS

\* A report that is taken leaves the others in their order.
LEMMA Removed ==
  ASSUME NEW S, NEW q \in Seq(S), NEW i \in DOMAIN q
  PROVE  /\ RemoveAt(q, i) \in Seq(S) /\ Len(RemoveAt(q, i)) = Len(q) - 1
         /\ \A k \in 1..Len(q) - 1 : RemoveAt(q, i)[k] = IF k < i THEN q[k] ELSE q[k + 1]
<1> DEFINE a == SubSeq(q, 1, i - 1)
           b == SubSeq(q, i + 1, Len(q))
<1>0. i \in 1..Len(q) /\ Len(q) \in Nat
  OBVIOUS
<1>1. a \in Seq(S) /\ Len(a) = i - 1 /\ \A k \in 1..i - 1 : a[k] = q[k]
  BY <1>0
<1>2. b \in Seq(S) /\ Len(b) = Len(q) - i /\ \A k \in 1..Len(q) - i : b[k] = q[i + k]
  BY <1>0
<1>3. RemoveAt(q, i) = a \o b
  BY DEF RemoveAt
<1> HIDE DEF a, b
<1>4. a \o b \in Seq(S) /\ Len(a \o b) = Len(q) - 1
  BY <1>0, <1>1, <1>2
<1>5. ASSUME NEW k \in 1..Len(q) - 1
      PROVE  (a \o b)[k] = IF k < i THEN q[k] ELSE q[k + 1]
  <2>1. (a \o b)[k] = IF k <= Len(a) THEN a[k] ELSE b[k - Len(a)]
    <3>1. k \in 1..Len(a) + Len(b)
      BY <1>0, <1>1, <1>2
    <3> QED
      BY <1>1, <1>2, <3>1, Joined
  <2>2. CASE k < i
    BY <1>0, <1>1, <2>1, <2>2
  <2>3. CASE k >= i
    <3>1. k - Len(a) \in 1..Len(q) - i /\ i + (k - Len(a)) = k + 1 /\ ~(k <= Len(a)) /\ ~(k < i)
      BY <1>0, <1>1, <2>3
    <3> QED
      BY <1>2, <2>1, <3>1
  <2>4. k < i \/ k >= i
    BY <1>0
  <2> QED
    BY <2>2, <2>3, <2>4, Zenon
<1> QED
  BY <1>3, <1>4, <1>5


LEMMA Scaled ==
  ASSUME NEW x \in Nat, NEW y \in Nat, x <= y, NEW p \in Nat
  PROVE  x * p \in Nat /\ y * p \in Nat /\ x * p <= y * p
<1> DEFINE z == y - x
<1>1. z \in Nat /\ y = x + z
  OBVIOUS
<1> HIDE DEF z
<1>2. z * p \in Nat /\ x * p \in Nat
  BY <1>1
<1>3. (x + z) * p = x * p + z * p
  BY <1>1
<1> DEFINE a == x * p
           c == z * p
<1>4. a \in Nat /\ c \in Nat /\ y * p = a + c
  BY <1>1, <1>2, <1>3
<1> HIDE DEF a, c
<1>5. a <= y * p /\ y * p \in Nat
  BY <1>4
<1> QED
  BY <1>2, <1>5 DEF a

LEMMA Quotient ==
  ASSUME NEW a \in Nat, NEW b \in Nat \ {0}, NEW c \in Nat, c <= a \div b
  PROVE  a \div b \in Nat /\ c * b \in Nat /\ c * b <= a
<1> DEFINE d == a \div b
<1>1. d \in Nat /\ d * b <= a
  OBVIOUS
<1>2. c * b \in Nat /\ c * b <= d * b
  <2>1. d \in Nat /\ c <= d
    BY <1>1
  <2> HIDE DEF d
  <2> QED
    BY <2>1, Scaled
<1> QED
  BY <1>1, <1>2

-----------------------------------------------------------------------------
(* The provider budget: types.                                               *)

\* Sums of what the bridge keeps.
LEMMA DurableNat == ASSUME BudgetTypeOK PROVE Durable \in Nat
<1> DEFINE A == {t \in Turns : usage[t] # Unset}
<1>1. IsFiniteSet(A)
  BY BudgetAssumption, FS_Subset
<1>2. Counts(usage, A)
  BY DEF Counts, BudgetTypeOK
<1> QED
  BY <1>1, <1>2, SumType DEF Durable

LEMMA QueueSumNat == ASSUME NEW q \in Seq(Reservation) PROVE QueueSum(q) \in Nat
<1> DEFINE f == [i \in DOMAIN q |-> q[i].amount]
<1>1. IsFiniteSet(DOMAIN q)
  BY FS_Interval
<1>2. Counts(f, DOMAIN q)
  <2>1. \A i \in DOMAIN q : q[i] \in Reservation /\ f[i] = q[i].amount
    OBVIOUS
  <2>2. \A r \in Reservation : r.amount \in Nat
    BY DEF Reservation
  <2> HIDE DEF f
  <2> QED
    BY <2>1, <2>2 DEF Counts
<1> HIDE DEF f
<1>3. SumFunctionOnSet(f, DOMAIN q) \in Nat
  BY <1>1, <1>2, SumType
<1> QED
  BY <1>3 DEF QueueSum, f

LEMMA ReservedNat ==
  ASSUME NEW reserved \in Queues
  PROVE  /\ Reserved(reserved) \in Nat
         /\ IsFiniteSet(LeaseSessions)
         /\ Counts([s \in LeaseSessions |-> QueueSum(reserved[s])], LeaseSessions)
<1> DEFINE f == [s \in LeaseSessions |-> QueueSum(reserved[s])]
<1>1. IsFiniteSet(LeaseSessions)
  BY BudgetAssumption, FS_AddElement DEF LeaseSessions
<1>2. Counts(f, LeaseSessions)
  BY QueueSumNat DEF Counts, Queues
<1> HIDE DEF f
<1>3. SumFunctionOnSet(f, LeaseSessions) \in Nat
  BY <1>1, <1>2, SumType
<1> QED
  BY <1>1, <1>2, <1>3 DEF Reserved, f

LEMMA SnapshotNat == ASSUME BudgetTypeOK PROVE UsageSnapshot \in Nat
<1> DEFINE A == {t \in Done : session[t] = Root}
<1>1. IsFiniteSet(A)
  <2>1. A \subseteq Turns
    BY DEF Done
  <2> QED
    BY <2>1, BudgetAssumption, FS_Subset
<1>2. Counts(cost, A)
  BY DEF Counts, BudgetTypeOK, Done
<1> QED
  BY <1>1, <1>2, SumType DEF UsageSnapshot

LEMMA Popped ==
  ASSUME NEW r \in Queues, NEW s \in LeaseSessions
  PROVE  /\ PopFront(r, s) \in Queues
         /\ \A u \in LeaseSessions :
               PopFront(r, s)[u] = IF u = s /\ r[s] # <<>> THEN Tail(r[u]) ELSE r[u]
<1>1. \A u \in LeaseSessions : r[u] \in Seq(Reservation) /\ (r[u] # <<>> => Tail(r[u]) \in Seq(Reservation))
  BY DEF Queues
<1>2. \A u \in LeaseSessions : PopFront(r, s)[u] = IF u = s /\ r[s] # <<>> THEN Tail(r[u]) ELSE r[u]
  BY DEF PopFront, Queues
<1>3. DOMAIN PopFront(r, s) = LeaseSessions /\ PopFront(r, s) = [u \in LeaseSessions |-> PopFront(r, s)[u]]
  BY DEF PopFront, Queues
<1>4. \A u \in LeaseSessions : PopFront(r, s)[u] \in Seq(Reservation)
  BY <1>1, <1>2
<1> HIDE DEF PopFront
<1>5. PopFront(r, s) \in Queues
  BY <1>3, <1>4 DEF Queues
<1> QED
  BY <1>2, <1>5

LEMMA LeaseType ==
  ASSUME BudgetTypeOK, budgetLease # Unset
  PROVE  /\ budgetLease.reserved \in Queues /\ budgetLease.baseline \in Nat /\ retired = Unset
         /\ \A q \in Queues : /\ [budgetLease EXCEPT !.reserved = q] \in [baseline : Nat, reserved : Queues]
                              /\ [budgetLease EXCEPT !.reserved = q].reserved = q
                              /\ [budgetLease EXCEPT !.reserved = q].baseline = budgetLease.baseline
<1>1. budgetLease \in [baseline : Nat, reserved : Queues] /\ retired = Unset
  BY DEF BudgetTypeOK
<1> QED
  BY <1>1

\* What authorize_provider_turn grants: at most what was asked, and what is left pays for it.
LEMMA CapGranted ==
  ASSUME BudgetTypeOK, budgetLease # Unset, NEW r \in 1..MaxOutput, Cap(r) > 0
  PROVE  /\ Cap(r) \in 1..MaxOutput /\ Cap(r) * Price \in Nat
         /\ Max({budgetLease.baseline, Durable}) + Reserved(budgetLease.reserved) + Cap(r) * Price <= Budget
<1> DEFINE spent == Max({budgetLease.baseline, Durable}) + Reserved(budgetLease.reserved)
<1>1. spent \in Nat
  <2>1. Max({budgetLease.baseline, Durable}) \in Nat
    BY LeaseType, DurableNat, MaxOfTwo
  <2>2. Reserved(budgetLease.reserved) \in Nat
    BY LeaseType, ReservedNat
  <2> QED
    BY <2>1, <2>2
<1>2. Budget \in Nat /\ Price \in Nat /\ MaxOutput \in Nat /\ r \in Nat /\ r <= MaxOutput
  BY BudgetAssumption
<1>3. Remaining = IF spent >= Budget THEN 0 ELSE Budget - spent
  BY DEF Remaining
<1> HIDE DEF spent
<1>4. Remaining # 0 /\ Remaining = Budget - spent /\ Remaining \in Nat
  BY <1>1, <1>2, <1>3 DEF Cap
<1> DEFINE left == Remaining
<1>5. left \in Nat /\ left = Budget - spent
  BY <1>4
<1>6. Cap(r) \in Nat /\ Cap(r) <= r /\ Cap(r) * Price \in Nat /\ Cap(r) * Price <= left
  <2>1. CASE Price = 0
    <3>1. Cap(r) = r
      BY <1>4, <2>1 DEF Cap
    <3> HIDE DEF left
    <3> QED
      BY <1>2, <1>5, <2>1, <3>1
  <2>2. CASE Price # 0
    <3> DEFINE c == Min({r, left \div Price})
    <3>1. Cap(r) = c
      BY <1>4, <2>2 DEF Cap
    <3> HIDE DEF left
    <3>2. left \div Price \in Nat
      BY <1>2, <1>5, <2>2
    <3>3. c \in {r, left \div Price} /\ c <= r /\ c <= left \div Price
      BY <1>2, <3>2, MinOfTwo
    <3> HIDE DEF c
    <3>4. c \in Nat
      BY <1>2, <3>2, <3>3
    <3>5. c * Price \in Nat /\ c * Price <= left
      BY <1>2, <1>5, <2>2, <3>3, <3>4, Quotient
    <3> QED
      BY <3>1, <3>3, <3>4, <3>5
  <2> QED
    BY <2>1, <2>2
<1>7. spent + Cap(r) * Price <= Budget
  <2> HIDE DEF left
  <2> DEFINE m == Cap(r) * Price
  <2>1. m \in Nat /\ m <= left
    BY <1>6
  <2> HIDE DEF m
  <2>2. spent + m <= Budget
    BY <1>1, <1>2, <1>5, <2>1
  <2> QED
    BY <2>2 DEF m
<1> QED
  BY <1>2, <1>6, <1>7 DEF spent

LEMMA TurnCost ==
  ASSUME NEW i \in 0..MaxInput, NEW u \in 0..MaxOutput
  PROVE  i + u * Price \in Nat /\ u * Price \in Nat /\ u * Price <= i + u * Price
<1>1. Price \in Nat /\ MaxInput \in Nat /\ MaxOutput \in Nat
  BY BudgetAssumption
<1>2. i \in Nat /\ u \in Nat /\ u * Price \in Nat
  BY <1>1
<1> DEFINE p == u * Price
<1>3. p \in Nat
  BY <1>2
<1> HIDE DEF p
<1>4. i + p \in Nat /\ p <= i + p
  BY <1>2, <1>3
<1> QED
  BY <1>3, <1>4 DEF p

\* An event taken from the queue leaves a queue of the same kind.
LEMMA EventsAfter ==
  ASSUME BudgetTypeOK, Done' = Done, NEW i \in DOMAIN events, events' \in {events, RemoveAt(events, i)}
  PROVE  events' \in Seq(Done')
<1>1. events \in Seq(Done)
  BY DEF BudgetTypeOK
<1>2. RemoveAt(events, i) \in Seq(Done)
  BY <1>1, Removed
<1> QED
  BY <1>1, <1>2

LEMMA BudgetTypeStep ==
  ASSUME BudgetTypeOK, [BudgetNext]_budgetVars
  PROVE  BudgetTypeOK'
<1> USE DEF BudgetTypeOK
<1>0. NoReservations \in Queues /\ Root \in LeaseSessions
  BY DEF NoReservations, Queues, LeaseSessions
<1>1. CASE RegisterBudget
  <2>1. budgetLease' \in [baseline : Nat, reserved : Queues]
    BY <1>0, <1>1, SnapshotNat DEF RegisterBudget
  <2>2. Done' = Done
    BY <1>1 DEF RegisterBudget, turnVars, Done
  <2> QED
    BY <1>1, <2>1, <2>2 DEF RegisterBudget, turnVars
<1>2. CASE UnregisterBudget
  <2>1. budgetLease.reserved \in Queues
    BY <1>2, LeaseType DEF UnregisterBudget
  <2>2. Done' = Done
    BY <1>2 DEF UnregisterBudget, turnVars, Done
  <2> QED
    BY <1>2, <2>1, <2>2 DEF UnregisterBudget, turnVars
<1>3. CASE LeaseExpires \/ GraceExpires \/ PersistUsage
  <2>1. Done' = Done
    BY <1>3 DEF LeaseExpires, GraceExpires, PersistUsage, turnVars, Done
  <2> QED
    BY <1>3, <2>1 DEF LeaseExpires, GraceExpires, PersistUsage, turnVars
<1>4. ASSUME NEW t \in Turns, NEW s \in LeaseSessions, Authorize(t, s) PROVE BudgetTypeOK'
  <2>1. PICK r \in 1..MaxOutput :
          /\ Cap(r) > 0
          /\ output' = [output EXCEPT ![t] = Cap(r)]
          /\ budgetLease' = [budgetLease EXCEPT !.reserved[s] = Append(@, [amount |-> Cap(r) * Price, turn |-> t])]
    BY <1>4 DEF Authorize
  <2>2. budgetLease # Unset /\ budgetLease \in [baseline : Nat, reserved : Queues] /\ retired = Unset /\ retired' = retired
    BY <1>4 DEF Authorize
  <2>3. Cap(r) \in 1..MaxOutput /\ Cap(r) * Price \in Nat
    BY <2>1, <2>2, CapGranted
  <2> DEFINE e == [amount |-> Cap(r) * Price, turn |-> t]
  <2>4. e \in Reservation
    BY <2>3 DEF Reservation
  <2> HIDE DEF e
  <2>5. budgetLease' \in [baseline : Nat, reserved : Queues]
    <3>1. budgetLease' = [budgetLease EXCEPT !.reserved[s] = Append(@, e)]
      BY <2>1 DEF e
    <3>2. budgetLease.reserved \in [LeaseSessions -> Seq(Reservation)]
      BY <2>2 DEF Queues
    <3>3. Append(budgetLease.reserved[s], e) \in Seq(Reservation)
      BY <2>4, <3>2
    <3> QED
      BY <2>2, <3>1, <3>2, <3>3 DEF Queues
  <2>6. Done' = Done
    BY <1>4 DEF Authorize, Done
  <2>7. output' \in [Turns -> 0..MaxOutput]
    BY <2>1, <2>3, BudgetAssumption
  <2> QED
    BY <1>4, <2>2, <2>5, <2>6, <2>7 DEF Authorize
<1>5. ASSUME NEW t \in Turns, CompleteTurn(t) PROVE BudgetTypeOK'
  <2>1. PICK i \in 0..MaxInput, u \in 0..output[t] :
           /\ output' = [output EXCEPT ![t] = u]
           /\ cost' = [cost EXCEPT ![t] = i + u * Price]
    BY <1>5 DEF CompleteTurn
  <2>2. u \in 0..MaxOutput
    <3>1. output[t] \in 0..MaxOutput /\ MaxOutput \in Nat
      BY BudgetAssumption
    <3> QED
      BY <3>1
  <2>3. output' \in [Turns -> 0..MaxOutput] /\ cost' \in [Turns -> Nat]
    BY <2>1, <2>2, TurnCost
  <2>4. events' \in Seq(Done')
    <3>1. t \in Done' /\ \A x \in Done : x \in Done'
      BY <1>5 DEF CompleteTurn, Done
    <3>2. events \in Seq(Done')
      BY <3>1
    <3> QED
      BY <1>5, <3>1, <3>2 DEF CompleteTurn
  <2> QED
    BY <1>5, <2>3, <2>4 DEF CompleteTurn, bridgeVars
<1>6. ASSUME NEW t \in Turns, Fail(t) PROVE BudgetTypeOK'
  <2>1. Done' = Done
    BY <1>6 DEF Fail, Done
  <2> QED
    BY <1>6, <2>1 DEF Fail, bridgeVars
<1>7. ASSUME NEW t \in Turns, Report(t) \/ ReportLost(t) PROVE BudgetTypeOK'
  <2>1. Done' = Done
    BY <1>7 DEF Report, ReportLost, Done
  <2>2. events' \in Seq(Done')
    BY <1>7, <2>1, EventsAfter DEF Report, ReportLost
  <2>3. usage' \in [Turns -> Nat \cup {Unset}]
    BY <1>7 DEF Report, ReportLost, RecordUsage, bridgeVars
  <2>4. /\ budgetLease' \in {Unset} \cup [baseline : Nat, reserved : Queues]
        /\ retired' \in {Unset} \cup Queues
        /\ budgetLease' = Unset \/ retired' = Unset
    <3>1. CASE UNCHANGED <<budgetLease, retired>>
      BY <3>1
    <3>2. CASE /\ budgetLease # Unset /\ retired' = retired
               /\ budgetLease' = [budgetLease EXCEPT !.reserved = PopFront(@, session[t])]
      <4>1. session[t] \in LeaseSessions
        OBVIOUS
      <4>2. PopFront(budgetLease.reserved, session[t]) \in Queues
        BY <3>2, <4>1, LeaseType, Popped
      <4>3. budgetLease' = [budgetLease EXCEPT !.reserved = PopFront(budgetLease.reserved, session[t])]
        BY <3>2
      <4> QED
        BY <3>2, <4>2, <4>3, LeaseType
    <3>3. CASE /\ budgetLease = Unset /\ retired # Unset /\ budgetLease' = budgetLease
               /\ retired' = PopFront(retired, session[t])
      <4>1. session[t] \in LeaseSessions /\ retired \in Queues
        BY <3>3
      <4> QED
        BY <3>3, <4>1, Popped
    <3> QED
      BY <1>7, <3>1, <3>2, <3>3 DEF Report, ReportLost, RecordUsage, bridgeVars
  <2> QED
    BY <1>7, <2>2, <2>3, <2>4 DEF Report, ReportLost, bridgeVars
<1>8. ASSUME NEW s \in LeaseSessions, ReservationExpires(s) PROVE BudgetTypeOK'
  <2>1. budgetLease # Unset /\ budgetLease' = [budgetLease EXCEPT !.reserved = PopFront(budgetLease.reserved, s)]
    BY <1>8 DEF ReservationExpires
  <2>2. PopFront(budgetLease.reserved, s) \in Queues
    BY <2>1, LeaseType, Popped
  <2>3. budgetLease' \in [baseline : Nat, reserved : Queues] /\ retired = Unset
    BY <2>1, <2>2, LeaseType
  <2>4. Done' = Done
    BY <1>8 DEF ReservationExpires, turnVars, Done
  <2> QED
    BY <1>8, <2>3, <2>4 DEF ReservationExpires, turnVars
<1>9. CASE RestartBridge
  BY <1>9 DEF RestartBridge
<1>10. CASE UNCHANGED budgetVars
  <2>1. Done' = Done
    BY <1>10 DEF budgetVars, turnVars, Done
  <2> QED
    BY <1>10, <2>1 DEF budgetVars, turnVars, bridgeVars
<1> QED
  BY <1>1, <1>2, <1>3, <1>4, <1>5, <1>6, <1>7, <1>8, <1>9, <1>10 DEF BudgetNext

-----------------------------------------------------------------------------
(* The provider budget: what is recorded, and what is still to be reported.  *)

LEMMA RecordsStep ==
  ASSUME BudgetTypeOK, RecordsOK, [BudgetNext]_budgetVars
  PROVE  /\ RecordsOK'
         /\ \A t \in Turns : /\ usageJournal[t] # Unset => usageJournal'[t] = usageJournal[t]
                             /\ faults = {} /\ usage[t] # Unset => usage'[t] = usage[t]
<1> USE DEF BudgetTypeOK, RecordsOK
<1>1. CASE /\ UNCHANGED <<usage, phase, output, cost>>
           /\ usageJournal' = usageJournal \/ PersistUsage
  BY <1>1 DEF PersistUsage
<1>2. ASSUME NEW t \in Turns, NEW s \in LeaseSessions, Authorize(t, s) PROVE RecordsOK' /\ UNCHANGED <<usage, usageJournal>>
  <2>1. /\ usage' = usage /\ usageJournal' = usageJournal /\ cost' = cost
        /\ phase[t] = "idle" /\ phase' = [phase EXCEPT ![t] = "running"]
        /\ \A u \in Turns : u # t => output'[u] = output[u]
    BY <1>2 DEF Authorize
  <2>2. \A u \in Turns : u # t => phase'[u] = phase[u]
    BY <2>1
  <2>3. phase'[t] = "running" /\ usage[t] = Unset /\ usageJournal[t] = Unset
    BY <2>1
  <2> QED
    BY <2>1, <2>2, <2>3
<1>3. ASSUME NEW t \in Turns, CompleteTurn(t) PROVE RecordsOK' /\ UNCHANGED <<usage, usageJournal>>
  <2>1. PICK i \in 0..MaxInput, u \in 0..output[t] :
           /\ output' = [output EXCEPT ![t] = u]
           /\ cost' = [cost EXCEPT ![t] = i + u * Price]
    BY <1>3 DEF CompleteTurn
  <2>2. u \in 0..MaxOutput
    <3>1. output[t] \in 0..MaxOutput /\ MaxOutput \in Nat
      BY BudgetAssumption
    <3> QED
      BY <3>1
  <2>3. output'[t] = u /\ cost'[t] = i + u * Price /\ output'[t] * Price <= cost'[t]
    <3>1. output'[t] = u /\ cost'[t] = i + u * Price
      BY <2>1
    <3> QED
      BY <2>2, <3>1, TurnCost
  <2>4. \A x \in Turns : x # t => output'[x] = output[x] /\ cost'[x] = cost[x] /\ phase'[x] = phase[x]
    BY <1>3, <2>1 DEF CompleteTurn
  <2>5. usage' = usage /\ usageJournal' = usageJournal /\ usage[t] = Unset /\ usageJournal[t] = Unset
    BY <1>3 DEF CompleteTurn, bridgeVars
  <2> QED
    BY <2>3, <2>4, <2>5
<1>4. ASSUME NEW t \in Turns, Fail(t) PROVE RecordsOK' /\ UNCHANGED <<usage, usageJournal>>
  BY <1>4 DEF Fail, bridgeVars
<1>5. ASSUME NEW t \in Turns, Report(t)
      PROVE  RecordsOK' /\ UNCHANGED usageJournal /\ \A u \in Turns : usage[u] # Unset => usage'[u] = usage[u]
  <2>1. t \in Done
    <3>1. PICK i \in DOMAIN events : events[i] = t
      BY <1>5 DEF Report
    <3> QED
      BY <3>1
  <2>2. phase[t] = "done" /\ cost[t] \in Nat
    BY <2>1 DEF Done
  <2>3. cost[t] # Unset
    BY <2>2, BudgetAssumption
  <2>4. usage' = usage \/ (usage[t] = Unset /\ usage' = [usage EXCEPT ![t] = cost[t]])
    BY <1>5 DEF Report, RecordUsage
  <2>5. UNCHANGED <<usageJournal, phase, output, cost>>
    BY <1>5 DEF Report
  <2> QED
    BY <2>2, <2>3, <2>4, <2>5
<1>6. CASE RestartBridge
  <2>1. /\ faults # {} /\ usage' = usageJournal /\ UNCHANGED <<usageJournal, output, cost>>
        /\ \A t \in Turns : phase'[t] = IF phase[t] = "running" THEN "failed" ELSE phase[t]
    BY <1>6 DEF RestartBridge
  <2>2. \A t \in Turns : usageJournal[t] # Unset => phase[t] = "done" /\ usageJournal[t] = cost[t]
    OBVIOUS
  <2>3. RecordsOK'
    BY <2>1, <2>2
  <2> QED
    BY <2>1, <2>3
<1>7. CASE \E t \in Turns : ReportLost(t)
  BY <1>7, <1>1 DEF ReportLost, bridgeVars
<1>8. CASE RegisterBudget \/ UnregisterBudget \/ LeaseExpires \/ GraceExpires \/ PersistUsage
           \/ (\E s \in LeaseSessions : ReservationExpires(s)) \/ UNCHANGED budgetVars
  BY <1>8, <1>1 DEF RegisterBudget, UnregisterBudget, LeaseExpires, GraceExpires, PersistUsage,
                    ReservationExpires, budgetVars, bridgeVars, turnVars
<1> QED
  BY <1>2, <1>3, <1>4, <1>5, <1>6, <1>7, <1>8 DEF BudgetNext

\* A queue from which one member was taken, or none: the others keep their order.
Thinned(q, i, r) ==
  \E back \in [DOMAIN r -> DOMAIN q] :
     /\ \A k \in DOMAIN r : r[k] = q[back[k]]
     /\ \A k, l \in DOMAIN r : k < l <=> back[k] < back[l]
     /\ \A j \in DOMAIN q : j # i => \E k \in DOMAIN r : back[k] = j

LEMMA ThinnedIs ==
  ASSUME NEW S, NEW q \in Seq(S), NEW i \in DOMAIN q, NEW r, r \in {q, RemoveAt(q, i)}
  PROVE  Thinned(q, i, r)
<1>0. Len(q) \in Nat /\ DOMAIN q = 1..Len(q)
  OBVIOUS
<1>1. CASE r = q
  <2> DEFINE back == [k \in DOMAIN r |-> k]
  <2>1. /\ back \in [DOMAIN r -> DOMAIN q]
        /\ \A k \in DOMAIN r : back[k] = k
    BY <1>1
  <2> HIDE DEF back
  <2> QED
    BY <1>1, <2>1 DEF Thinned
<1>2. CASE r = RemoveAt(q, i)
  <2>1. /\ r \in Seq(S) /\ Len(r) = Len(q) - 1
        /\ \A k \in 1..Len(q) - 1 : r[k] = IF k < i THEN q[k] ELSE q[k + 1]
    BY <1>2, Removed
  <2>2. DOMAIN r = 1..Len(q) - 1
    BY <2>1
  <2> DEFINE back == [k \in DOMAIN r |-> IF k < i THEN k ELSE k + 1]
  <2>3. \A k \in DOMAIN r : back[k] = IF k < i THEN k ELSE k + 1
    OBVIOUS
  <2>4. back \in [DOMAIN r -> DOMAIN q]
    BY <1>0, <2>2
  <2> HIDE DEF back
  <2>5. \A k \in DOMAIN r : r[k] = q[back[k]]
    BY <2>1, <2>2, <2>3
  <2>6. \A k, l \in DOMAIN r : k < l <=> back[k] < back[l]
    BY <1>0, <2>2, <2>3
  <2>7. ASSUME NEW j \in DOMAIN q, j # i PROVE \E k \in DOMAIN r : back[k] = j
    <3>1. CASE j < i
      <4>1. j \in DOMAIN r /\ back[j] = j
        BY <1>0, <2>2, <2>3, <3>1
      <4> QED
        BY <4>1
    <3>2. CASE j > i
      <4>1. j - 1 \in DOMAIN r /\ back[j - 1] = j
        BY <1>0, <2>2, <2>3, <3>2
      <4> QED
        BY <4>1
    <3> QED
      BY <1>0, <2>7, <3>1, <3>2
  <2> QED
    BY <2>4, <2>5, <2>6, <2>7 DEF Thinned
<1> QED
  BY <1>1, <1>2

LEMMA EventsStep ==
  ASSUME BudgetTypeOK, RecordsOK, EventsOK, [BudgetNext]_budgetVars
  PROVE  EventsOK'
<1> USE DEF BudgetTypeOK
<1>0. events \in Seq(Done) /\ Len(events) \in Nat /\ DOMAIN events = 1..Len(events)
  OBVIOUS
<1>1. CASE UNCHANGED <<faults, events, usage>> /\ Done' = Done
  BY <1>1 DEF EventsOK
<1>2. ASSUME NEW t \in Turns, NEW s \in LeaseSessions, Authorize(t, s) PROVE EventsOK'
  BY <1>1, <1>2 DEF Authorize, Done
<1>3. ASSUME NEW t \in Turns, CompleteTurn(t) PROVE EventsOK'
  <2>1. events' = Append(events, t) /\ faults' = faults /\ usage' = usage /\ t \notin Done
    BY <1>3 DEF CompleteTurn, bridgeVars, Done
  <2>2. Done' = Done \cup {t}
    BY <1>3 DEF CompleteTurn, Done
  <2>3. \A i \in DOMAIN events : events[i] # t
    BY <2>1
  <2>4. /\ DOMAIN events' = 1..Len(events) + 1 /\ events'[Len(events) + 1] = t
        /\ \A i \in DOMAIN events : i \in DOMAIN events' /\ events'[i] = events[i]
    BY <1>0, <2>1
  <2>5. \A i, j \in DOMAIN events' : events'[i] = events'[j] => i = j
    BY <1>0, <2>3, <2>4 DEF EventsOK
  <2>6. Len(events) + 1 \in DOMAIN events'
    BY <1>0, <2>4
  <2>7. faults' = {} => \A u \in Done' : usage'[u] = Unset => \E i \in DOMAIN events' : events'[i] = u
    BY <2>1, <2>2, <2>4, <2>6 DEF EventsOK
  <2> QED
    BY <2>5, <2>7 DEF EventsOK
<1>4. ASSUME NEW t \in Turns, Report(t) \/ ReportLost(t) PROVE EventsOK'
  <2>1. PICK i \in DOMAIN events : events[i] = t /\ events' \in {events, RemoveAt(events, i)}
    BY <1>4 DEF Report, ReportLost
  <2>2. Thinned(events, i, events')
    <3>1. \A q \in Seq(Done) : \A j \in DOMAIN q : \A r \in {q, RemoveAt(q, j)} : Thinned(q, j, r)
      BY ThinnedIs
    <3> QED
      BY <1>0, <2>1, <3>1, Zenon
  <2>3. PICK back \in [DOMAIN events' -> DOMAIN events] :
           /\ \A k \in DOMAIN events' : events'[k] = events[back[k]]
           /\ \A k, l \in DOMAIN events' : k < l <=> back[k] < back[l]
           /\ \A j \in DOMAIN events : j # i => \E k \in DOMAIN events' : back[k] = j
    BY <2>2 DEF Thinned
  <2>4. DOMAIN events' \subseteq Nat /\ DOMAIN events \subseteq Nat
    <3>1. events' \in Seq(Done)
      BY <1>0, <2>1, Removed
    <3> QED
      BY <3>1
  <2>5. \A k, l \in DOMAIN events' : events'[k] = events'[l] => k = l
    <3>1. ASSUME NEW k \in DOMAIN events', NEW l \in DOMAIN events', events'[k] = events'[l] PROVE k = l
      <4>1. back[k] = back[l]
        BY <2>3, <3>1 DEF EventsOK
      <4>2. ~(k < l) /\ ~(l < k)
        BY <2>3, <2>4, <4>1
      <4> QED
        BY <2>4, <4>2
    <3> QED
      BY <3>1
  <2>6. ASSUME faults' = {}, NEW u \in Done', usage'[u] = Unset PROVE \E k \in DOMAIN events' : events'[k] = u
    <3>1. Report(t) /\ faults = {} /\ u \in Done /\ u \in Turns
      BY <1>4, <2>6 DEF Report, ReportLost, Done
    <3>2. t \in Turns /\ cost[t] # Unset
      BY BudgetAssumption
    <3>3. usage'[t] # Unset
      BY <3>1, <3>2 DEF Report, RecordUsage
    <3>4. usage[u] = Unset
      BY <2>6, <3>1, <3>2 DEF Report, RecordUsage
    <3>5. PICK j \in DOMAIN events : events[j] = u
      BY <3>1, <3>4 DEF EventsOK
    <3>6. j # i
      BY <2>1, <2>6, <3>3, <3>5
    <3> QED
      BY <2>3, <3>5, <3>6
  <2> QED
    BY <2>5, <2>6 DEF EventsOK
<1>5. ASSUME NEW t \in Turns, Fail(t) PROVE EventsOK'
  BY <1>1, <1>5 DEF Fail, Done, bridgeVars
<1>6. CASE RestartBridge
  BY <1>6 DEF RestartBridge, EventsOK
<1>7. CASE RegisterBudget \/ UnregisterBudget \/ LeaseExpires \/ GraceExpires \/ PersistUsage
           \/ (\E s \in LeaseSessions : ReservationExpires(s)) \/ UNCHANGED budgetVars
  BY <1>7, <1>1 DEF RegisterBudget, UnregisterBudget, LeaseExpires, GraceExpires, PersistUsage,
                    ReservationExpires, budgetVars, bridgeVars, turnVars, Done
<1> QED
  BY <1>2, <1>3, <1>4, <1>5, <1>6, <1>7 DEF BudgetNext

-----------------------------------------------------------------------------
(* The provider budget: every turn under way has its reservation.            *)

\* What a turn keeps once it was granted, in the orderly course.
LEMMA TurnKept ==
  ASSUME BudgetTypeOK, [BudgetNext]_budgetVars, faults = {}, NEW x \in Turns, phase[x] # "idle"
  PROVE  /\ faults' = {} /\ phase'[x] # "idle" /\ session'[x] = session[x]
         /\ phase[x] # "running" => phase'[x] = phase[x] /\ output'[x] = output[x]
         /\ output'[x] \in 0..MaxOutput /\ output'[x] <= output[x]
<1> USE DEF BudgetTypeOK
<1>0. output[x] \in 0..MaxOutput /\ MaxOutput \in Nat
  BY BudgetAssumption
<1>1. CASE UNCHANGED <<faults, phase, session, output>>
  BY <1>0, <1>1
<1>2. ASSUME NEW t \in Turns, NEW s \in LeaseSessions, Authorize(t, s) PROVE UNCHANGED <<faults, phase[x], session[x], output[x]>>
  BY <1>2 DEF Authorize
<1>3. ASSUME NEW t \in Turns, CompleteTurn(t)
      PROVE  /\ UNCHANGED <<faults, session>> /\ phase'[x] # "idle"
             /\ phase[x] # "running" => phase'[x] = phase[x] /\ output'[x] = output[x]
             /\ output'[x] \in 0..MaxOutput /\ output'[x] <= output[x]
  <2>1. PICK u \in 0..output[t] : output' = [output EXCEPT ![t] = u]
    BY <1>3 DEF CompleteTurn
  <2>2. output[t] \in 0..MaxOutput /\ u \in 0..MaxOutput /\ u <= output[t]
    <3>1. output[t] \in 0..MaxOutput
      OBVIOUS
    <3> QED
      BY <1>0, <3>1
  <2>3. CASE x = t
    BY <1>3, <2>1, <2>2, <2>3 DEF CompleteTurn
  <2>4. CASE x # t
    BY <1>0, <1>3, <2>1, <2>4 DEF CompleteTurn
  <2> QED
    BY <2>3, <2>4
<1>4. ASSUME NEW t \in Turns, Fail(t) PROVE UNCHANGED <<faults, session, output>> /\ phase'[x] # "idle" /\ (phase[x] # "running" => phase'[x] = phase[x])
  BY <1>4 DEF Fail
<1>5. CASE \E t \in Turns : Report(t) \/ ReportLost(t)
  BY <1>5, <1>1 DEF Report, ReportLost
<1>6. CASE RestartBridge
  BY <1>6 DEF RestartBridge
<1>7. CASE RegisterBudget \/ UnregisterBudget \/ LeaseExpires \/ GraceExpires \/ PersistUsage
           \/ (\E s \in LeaseSessions : ReservationExpires(s)) \/ UNCHANGED budgetVars
  BY <1>7, <1>1 DEF RegisterBudget, UnregisterBudget, LeaseExpires, GraceExpires, PersistUsage,
                    ReservationExpires, budgetVars, turnVars
<1> QED
  BY <1>0, <1>2, <1>3, <1>4, <1>5, <1>6, <1>7 DEF BudgetNext

\* A turn that is under way was under way before, or is granted in this step.
LEMMA OutstandingAfter ==
  ASSUME BudgetTypeOK, RecordsOK, [BudgetNext]_budgetVars, faults = {}
  PROVE  \A x \in Outstanding' : \/ x \in Outstanding
                                 \/ x \in Turns /\ \E s \in LeaseSessions : Authorize(x, s)
<1> USE DEF BudgetTypeOK
<1>1. CASE UNCHANGED <<phase, events, usage>>
  BY <1>1 DEF Outstanding, Running, Unreported, ToSet, Range
<1>2. ASSUME NEW t \in Turns, NEW s \in LeaseSessions, Authorize(t, s), NEW x \in Outstanding', x # t PROVE x \in Outstanding
  <2>1. UNCHANGED <<events, usage>> /\ phase' = [phase EXCEPT ![t] = "running"]
    BY <1>2 DEF Authorize
  <2>2. Running' \subseteq Running \cup {t} /\ Unreported' = Unreported
    BY <2>1 DEF Running, Unreported, ToSet, Range
  <2> QED
    BY <1>2, <2>2 DEF Outstanding
<1>3. ASSUME NEW t \in Turns, CompleteTurn(t), NEW x \in Outstanding' PROVE x \in Outstanding
  <2>1. usage' = usage /\ phase' = [phase EXCEPT ![t] = "done"] /\ events' = Append(events, t) /\ t \in Running
    BY <1>3 DEF CompleteTurn, bridgeVars, Running
  <2>2. Running' \subseteq Running
    BY <2>1 DEF Running
  <2>3. Unreported' \subseteq Unreported \cup {t}
    <3>1. \A i \in DOMAIN events' : events'[i] = t \/ (i \in DOMAIN events /\ events'[i] = events[i])
      BY <2>1
    <3> QED
      BY <2>1, <3>1 DEF Unreported, ToSet, Range
  <2> QED
    BY <1>3, <2>1, <2>2, <2>3 DEF Outstanding
<1>4. ASSUME NEW t \in Turns, Fail(t), NEW x \in Outstanding' PROVE x \in Outstanding
  <2>1. Running' \subseteq Running /\ UNCHANGED <<events, usage>>
    BY <1>4 DEF Fail, bridgeVars, Running
  <2> QED
    BY <1>4, <2>1 DEF Outstanding, Unreported, ToSet, Range
<1>5. ASSUME NEW t \in Turns, Report(t), NEW x \in Outstanding' PROVE x \in Outstanding
  <2>1. PICK i \in DOMAIN events : events' \in {events, RemoveAt(events, i)}
    BY <1>5 DEF Report
  <2>2. Thinned(events, i, events')
    <3>1. \A q \in Seq(Done) : \A j \in DOMAIN q : \A r \in {q, RemoveAt(q, j)} : Thinned(q, j, r)
      BY ThinnedIs
    <3> QED
      BY <2>1, <3>1, Zenon
  <2>3. \A k \in DOMAIN events' : \E j \in DOMAIN events : events'[k] = events[j]
    BY <2>2 DEF Thinned
  <2>4. \A u \in Turns : usage'[u] = Unset => usage[u] = Unset
    BY <1>5 DEF Report, RecordUsage
  <2>5. Running' = Running
    BY <1>5 DEF Report, Running
  <2>6. Unreported' \subseteq Unreported
    <3>1. \A j \in DOMAIN events : events[j] \in Turns
      BY DEF Done
    <3> QED
      BY <2>3, <2>4, <3>1 DEF Unreported, ToSet, Range
  <2> QED
    BY <1>5, <2>5, <2>6 DEF Outstanding
<1>6. CASE RestartBridge \/ \E t \in Turns : ReportLost(t)
  BY <1>6 DEF RestartBridge, ReportLost
<1>7. CASE RegisterBudget \/ UnregisterBudget \/ LeaseExpires \/ GraceExpires \/ PersistUsage
           \/ (\E s \in LeaseSessions : ReservationExpires(s)) \/ UNCHANGED budgetVars
  BY <1>7, <1>1 DEF RegisterBudget, UnregisterBudget, LeaseExpires, GraceExpires, PersistUsage,
                    ReservationExpires, budgetVars, bridgeVars, turnVars
<1> QED
  BY <1>2, <1>3, <1>4, <1>5, <1>6, <1>7 DEF BudgetNext

LEMMA InTurnKept ==
  ASSUME BudgetTypeOK, RecordsOK, EventsOK, [BudgetNext]_budgetVars, faults = {},
         NEW a \in Turns, NEW b \in Turns, phase[a] # "idle", phase[b] # "idle", InTurn(a, b)
  PROVE  InTurn(a, b)'
<1> USE DEF BudgetTypeOK
<1>0. a # b /\ phase'[a] # "running" /\ phase[a] # "running"
  BY TurnKept DEF InTurn
<1>1. a \in Unreported /\ b \in Unreported => \A p, q \in DOMAIN events : events[p] = a /\ events[q] = b => p < q
  BY DEF InTurn
<1>2. Unreported = {t \in Turns : usage[t] = Unset /\ \E i \in DOMAIN events : events[i] = t}
  BY DEF Unreported, ToSet, Range, Done
<1>3. Unreported' = {t \in Turns : usage'[t] = Unset /\ \E i \in DOMAIN events' : events'[i] = t}
  <2>1. events' \in Seq(Done')
    BY BudgetTypeStep
  <2>2. \A i \in DOMAIN events' : events'[i] \in Turns
    BY <2>1 DEF Done
  <2> QED
    BY <2>2 DEF Unreported, ToSet, Range
<1> SUFFICES ASSUME a \in Unreported', b \in Unreported', NEW p \in DOMAIN events', NEW q \in DOMAIN events',
                    events'[p] = a, events'[q] = b
             PROVE  p < q
  BY <1>0 DEF InTurn
<1>4. CASE UNCHANGED <<usage, events>>
  BY <1>1, <1>2, <1>3, <1>4
<1>5. ASSUME NEW t \in Turns, CompleteTurn(t) PROVE p < q
  <2>1. usage' = usage /\ events' = Append(events, t) /\ phase[t] = "running" /\ a # t
    BY <1>0, <1>5 DEF CompleteTurn, bridgeVars
  <2>2. events \in Seq(Done)
    OBVIOUS
  <2>3. /\ DOMAIN events' = 1..Len(events) + 1 /\ DOMAIN events = 1..Len(events) /\ Len(events) \in Nat
        /\ events'[Len(events) + 1] = t
        /\ \A i \in DOMAIN events : events'[i] = events[i]
    BY <2>1, <2>2
  <2>4. p \in DOMAIN events /\ events[p] = a
    BY <2>1, <2>3
  <2>5. CASE q \in DOMAIN events
    <3>1. events[q] = b
      BY <2>3, <2>5
    <3> QED
      BY <1>1, <1>2, <1>3, <2>1, <2>4, <2>5, <3>1
  <2>6. CASE q \notin DOMAIN events
    BY <2>3, <2>4, <2>6
  <2> QED
    BY <2>5, <2>6
<1>6. ASSUME NEW t \in Turns, Report(t) PROVE p < q
  <2>1. PICK i \in DOMAIN events : events' \in {events, RemoveAt(events, i)}
    BY <1>6 DEF Report
  <2>2. Thinned(events, i, events')
    <3>1. \A r \in Seq(Done) : \A j \in DOMAIN r : \A u \in {r, RemoveAt(r, j)} : Thinned(r, j, u)
      BY ThinnedIs
    <3> QED
      BY <2>1, <3>1, Zenon
  <2>3. PICK back \in [DOMAIN events' -> DOMAIN events] :
           /\ \A k \in DOMAIN events' : events'[k] = events[back[k]]
           /\ \A k, l \in DOMAIN events' : k < l <=> back[k] < back[l]
    BY <2>2 DEF Thinned
  <2>4. \A u \in Turns : usage'[u] = Unset => usage[u] = Unset
    BY <1>6 DEF Report, RecordUsage
  <2>5. back[p] \in DOMAIN events /\ back[q] \in DOMAIN events /\ events[back[p]] = a /\ events[back[q]] = b
    BY <2>3
  <2>6. a \in Unreported /\ b \in Unreported
    BY <1>2, <1>3, <2>4, <2>5
  <2>7. back[p] < back[q]
    BY <1>1, <2>5, <2>6
  <2> QED
    BY <2>3, <2>7
<1>7. CASE RestartBridge \/ (\E t \in Turns : ReportLost(t))
  BY <1>7 DEF RestartBridge, ReportLost
<1>8. CASE \/ RegisterBudget \/ UnregisterBudget \/ LeaseExpires \/ GraceExpires \/ PersistUsage
           \/ \E s \in LeaseSessions : ReservationExpires(s) \/ \E t \in Turns : Authorize(t, s)
           \/ \E t \in Turns : Fail(t)
           \/ UNCHANGED budgetVars
  BY <1>8, <1>4 DEF RegisterBudget, UnregisterBudget, LeaseExpires, GraceExpires, PersistUsage,
                    ReservationExpires, Authorize, Fail, budgetVars, bridgeVars, turnVars
<1> QED
  BY <1>5, <1>6, <1>7, <1>8 DEF BudgetNext

\* A queue that nobody touches stays in order.
LEMMA InOrderKept ==
  ASSUME BudgetTypeOK, RecordsOK, EventsOK, [BudgetNext]_budgetVars, faults = {},
         NEW s \in LeaseSessions, NEW q \in Seq(Reservation), InOrder(q, s)
  PROVE  InOrder(q, s)'
<1>1. \A i \in DOMAIN q : q[i] \in Reservation
  OBVIOUS
<1>2. \A i \in DOMAIN q : q[i].turn \in Turns
  BY <1>1 DEF Reservation
<1>3. ASSUME NEW i \in DOMAIN q PROVE session'[q[i].turn] = s /\ phase'[q[i].turn] # "idle"
  BY <1>2, TurnKept DEF InOrder
<1>4. ASSUME NEW i \in DOMAIN q, NEW j \in DOMAIN q, i < j PROVE InTurn(q[i].turn, q[j].turn)'
  <2> DEFINE a == q[i].turn
             b == q[j].turn
  <2>1. a \in Turns /\ b \in Turns /\ phase[a] # "idle" /\ phase[b] # "idle" /\ InTurn(a, b)
    BY <1>2, <1>4 DEF InOrder
  <2> HIDE DEF a, b
  <2>2. InTurn(a, b)'
    BY <2>1, InTurnKept
  <2> QED
    BY <2>2 DEF a, b
<1> QED
  BY <1>3, <1>4 DEF InOrder

\* Without its head a queue stays in order and covers whom it covered, the head's turn apart.
LEMMA TailKept ==
  ASSUME NEW q \in Seq(Reservation), q # <<>>
  PROVE  /\ Tail(q) \in Seq(Reservation)
         /\ \A s \in LeaseSessions : InOrder(q, s) => InOrder(Tail(q), s)
         /\ \A u \in Turns : Covered(q, u) /\ Head(q).turn # u => Covered(Tail(q), u)
<1>1. /\ Tail(q) \in Seq(Reservation) /\ Len(q) \in Nat /\ Len(q) >= 1 /\ DOMAIN q = 1..Len(q)
      /\ DOMAIN Tail(q) = 1..Len(q) - 1 /\ Head(q) = q[1]
      /\ \A i \in 1..Len(q) - 1 : Tail(q)[i] = q[i + 1] /\ i + 1 \in DOMAIN q
  BY TailIs
<1>2. ASSUME NEW s \in LeaseSessions, InOrder(q, s) PROVE InOrder(Tail(q), s)
  BY <1>1, <1>2 DEF InOrder
<1>3. ASSUME NEW u \in Turns, Covered(q, u), Head(q).turn # u PROVE Covered(Tail(q), u)
  <2>1. PICK i \in DOMAIN q : q[i].turn = u /\ output[u] * Price <= q[i].amount
    BY <1>3 DEF Covered
  <2>2. i # 1 /\ i - 1 \in DOMAIN Tail(q) /\ Tail(q)[i - 1] = q[i]
    BY <1>1, <1>3, <2>1
  <2> QED
    BY <2>1, <2>2 DEF Covered
<1> QED
  BY <1>1, <1>2, <1>3

\* Less output is covered all the more.
LEMMA CoveredKept ==
  ASSUME BudgetTypeOK, [BudgetNext]_budgetVars, faults = {},
         NEW q \in Seq(Reservation), NEW u \in Turns, phase[u] # "idle", Covered(q, u)
  PROVE  Covered(q, u)'
<1>1. PICK i \in DOMAIN q : q[i].turn = u /\ output[u] * Price <= q[i].amount
  BY DEF Covered
<1>2. q[i] \in Reservation
  OBVIOUS
<1>3. q[i].amount \in Nat
  BY <1>2 DEF Reservation
<1> DEFINE x == output'[u]
           y == output[u]
<1>4. x \in Nat /\ y \in Nat /\ x <= y /\ MaxOutput \in Nat /\ Price \in Nat
  BY TurnKept, BudgetAssumption DEF BudgetTypeOK
<1>5. x * Price \in Nat /\ y * Price \in Nat /\ x * Price <= y * Price
  <2> HIDE DEF x, y
  <2> QED
    BY <1>4, Scaled
<1>6. output'[u] * Price <= q[i].amount
  BY <1>1, <1>3, <1>5
<1> QED
  BY <1>1, <1>6 DEF Covered

LEMMA OutstandingTurn ==
  ASSUME BudgetTypeOK
  PROVE  \A u \in Outstanding : u \in Turns /\ phase[u] \in {"running", "done"} /\ session[u] \in LeaseSessions
<1>1. \A i \in DOMAIN events : events[i] \in Done
  BY DEF BudgetTypeOK
<1> QED
  BY <1>1 DEF Outstanding, Running, Unreported, ToSet, Range, Done, BudgetTypeOK

\* The queue of a session that loses its head: the head's turn is not under way any more.
LEMMA PopKeeps ==
  ASSUME BudgetTypeOK, RecordsOK, EventsOK, ReservationsOK, [BudgetNext]_budgetVars,
         faults = {}, budgetLease # Unset, Outstanding' \subseteq Outstanding,
         NEW s \in LeaseSessions, budgetLease.reserved[s] # <<>>,
         Head(budgetLease.reserved[s]).turn \notin Outstanding',
         budgetLease' = [budgetLease EXCEPT !.reserved = PopFront(@, s)]
  PROVE  ReservationsOK'
<1> DEFINE r == budgetLease.reserved
<1>1. r \in Queues /\ PopFront(r, s) \in Queues /\ budgetLease'.reserved = PopFront(r, s)
  BY LeaseType, Popped
<1>2. \A x \in LeaseSessions : budgetLease'.reserved[x] = IF x = s THEN Tail(r[x]) ELSE r[x]
  BY <1>1, Popped
<1>3. \A x \in LeaseSessions : r[x] \in Seq(Reservation) /\ InOrder(r[x], x)
  BY <1>1 DEF Queues, ReservationsOK
<1>4. ASSUME NEW x \in LeaseSessions PROVE InOrder(budgetLease.reserved[x], x)'
  <2>1. PICK q \in Seq(Reservation) : q = budgetLease'.reserved[x] /\ InOrder(q, x)
    BY <1>2, <1>3, TailKept
  <2>2. InOrder(q, x)'
    BY <2>1, InOrderKept
  <2> QED
    BY <2>1, <2>2 DEF InOrder
<1>5. ASSUME NEW u \in Outstanding' PROVE Covered(budgetLease.reserved[session[u]], u)'
  <2>1. u \in Outstanding /\ u \in Turns /\ phase[u] # "idle" /\ session[u] \in LeaseSessions /\ session'[u] = session[u]
    BY <1>5, OutstandingTurn, TurnKept
  <2>2. Covered(r[session[u]], u)
    BY <2>1 DEF ReservationsOK
  <2>3. PICK q \in Seq(Reservation) : q = budgetLease'.reserved[session'[u]] /\ Covered(q, u)
    <3>1. CASE session[u] = s
      <4>1. Head(r[s]).turn # u
        BY <1>5
      <4> QED
        BY <1>2, <1>3, <2>1, <2>2, <3>1, <4>1, TailKept
    <3>2. CASE session[u] # s
      BY <1>2, <1>3, <2>1, <2>2, <3>2
    <3> QED
      BY <3>1, <3>2
  <2>4. Covered(q, u)'
    BY <2>1, <2>3, CoveredKept
  <2> QED
    BY <2>3, <2>4 DEF Covered
<1> QED
  BY <1>4, <1>5 DEF ReservationsOK

\* A lease no handler touches, while no turn is granted.
LEMMA LeaseKeeps ==
  ASSUME BudgetTypeOK, RecordsOK, EventsOK, ReservationsOK, [BudgetNext]_budgetVars,
         faults = {}, Outstanding' \subseteq Outstanding, budgetLease' = budgetLease
  PROVE  ReservationsOK'
<1> SUFFICES ASSUME budgetLease # Unset PROVE ReservationsOK'
  BY DEF ReservationsOK
<1> DEFINE r == budgetLease.reserved
<1>1. \A x \in LeaseSessions : r[x] \in Seq(Reservation) /\ InOrder(r[x], x)
  BY LeaseType DEF Queues, ReservationsOK
<1>2. ASSUME NEW x \in LeaseSessions PROVE InOrder(budgetLease.reserved[x], x)'
  <2>1. PICK q \in Seq(Reservation) : q = budgetLease'.reserved[x] /\ InOrder(q, x)
    BY <1>1
  <2>2. InOrder(q, x)'
    BY <2>1, InOrderKept
  <2> QED
    BY <2>1, <2>2 DEF InOrder
<1>3. ASSUME NEW u \in Outstanding' PROVE Covered(budgetLease.reserved[session[u]], u)'
  <2>1. u \in Outstanding /\ u \in Turns /\ phase[u] # "idle" /\ session[u] \in LeaseSessions /\ session'[u] = session[u]
    BY <1>3, OutstandingTurn, TurnKept
  <2>2. Covered(r[session[u]], u)
    BY <2>1 DEF ReservationsOK
  <2>3. PICK q \in Seq(Reservation) : q = budgetLease'.reserved[session'[u]] /\ Covered(q, u)
    BY <1>1, <2>1, <2>2
  <2>4. Covered(q, u)'
    BY <2>1, <2>3, CoveredKept
  <2> QED
    BY <2>3, <2>4 DEF Covered
<1> QED
  BY <1>2, <1>3 DEF ReservationsOK

\* A report releases the reservation of its own turn, or of one that ended unreported.
LEMMA ReportReleases ==
  ASSUME BudgetTypeOK, EventsOK, ReservationsOK, faults = {}, budgetLease # Unset,
         NEW t \in Turns, Report(t), usage[t] = Unset
  PROVE  /\ budgetLease.reserved[session[t]] # <<>>
         /\ \/ Head(budgetLease.reserved[session[t]]).turn = t
            \/ Head(budgetLease.reserved[session[t]]).turn \notin Outstanding
<1> DEFINE s == session[t]
           q == budgetLease.reserved[s]
           a == q[1].turn
<1>1. PICK e \in DOMAIN events : events[e] = t
  BY DEF Report
<1>2. t \in Unreported /\ t \in Outstanding /\ s \in LeaseSessions
  BY <1>1, OutstandingTurn DEF Unreported, Outstanding, ToSet, Range
<1>3. q \in Seq(Reservation) /\ InOrder(q, s) /\ Covered(q, t)
  BY <1>2, LeaseType DEF Queues, ReservationsOK
<1>4. PICK i \in DOMAIN q : q[i].turn = t
  BY <1>3 DEF Covered
<1>5. q # <<>> /\ 1 \in DOMAIN q /\ Head(q) = q[1] /\ i >= 1 /\ DOMAIN q \subseteq Nat
  <2> HIDE DEF q
  <2> QED
    BY <1>3, <1>4
<1>6. CASE i = 1
  BY <1>4, <1>5, <1>6
<1>7. ASSUME i # 1, a \in Outstanding PROVE FALSE
  <2>1. 1 < i
    BY <1>4, <1>5, <1>7
  <2>2. InTurn(a, t) /\ session[a] = s
    BY <1>3, <1>4, <1>5, <2>1 DEF InOrder
  <2>3. a \in Unreported
    BY <1>7, <2>2 DEF InTurn, Outstanding, Running
  <2>4. PICK p \in DOMAIN events : events[p] = a
    BY <2>3 DEF Unreported, ToSet, Range
  <2>5. p < e
    BY <1>1, <1>2, <2>2, <2>3, <2>4 DEF InTurn
  <2>6. e <= p
    BY <1>1, <2>2, <2>3, <2>4 DEF Report, FirstUnreported
  <2>7. DOMAIN events \subseteq Nat
    BY DEF BudgetTypeOK
  <2> QED
    BY <2>5, <2>6, <2>7
<1> QED
  BY <1>5, <1>6, <1>7

LEMMA GrantReserves ==
  ASSUME BudgetTypeOK, RecordsOK, EventsOK, ReservationsOK, [BudgetNext]_budgetVars, faults = {},
         NEW t \in Turns, NEW s \in LeaseSessions, Authorize(t, s)
  PROVE  ReservationsOK'
<1> DEFINE r == budgetLease.reserved
<1>1. budgetLease # Unset /\ phase[t] = "idle" /\ \A u \in Running : session[u] # s
  BY DEF Authorize
<1>2. PICK c \in 1..MaxOutput :
         /\ Cap(c) > 0
         /\ output' = [output EXCEPT ![t] = Cap(c)]
         /\ budgetLease' = [budgetLease EXCEPT !.reserved[s] = Append(@, [amount |-> Cap(c) * Price, turn |-> t])]
  BY DEF Authorize
<1>3. Cap(c) \in 1..MaxOutput /\ Cap(c) * Price \in Nat /\ output'[t] = Cap(c)
  BY <1>1, <1>2, CapGranted DEF BudgetTypeOK
<1>4. PICK e \in Reservation : e.turn = t /\ e.amount = output'[t] * Price
                               /\ budgetLease' = [budgetLease EXCEPT !.reserved[s] = Append(@, e)]
  <2> DEFINE e == [amount |-> Cap(c) * Price, turn |-> t]
  <2>1. e \in Reservation /\ e.turn = t /\ e.amount = output'[t] * Price
    BY <1>3 DEF Reservation
  <2>2. budgetLease' = [budgetLease EXCEPT !.reserved[s] = Append(@, e)]
    BY <1>2
  <2> HIDE DEF e
  <2> QED
    BY <2>1, <2>2
<1>5. budgetLease \in [baseline : Nat, reserved : Queues] /\ r \in [LeaseSessions -> Seq(Reservation)]
  BY <1>1, LeaseType DEF BudgetTypeOK, Queues
<1>6. \A x \in LeaseSessions : budgetLease'.reserved[x] = IF x = s THEN Append(r[x], e) ELSE r[x]
  BY <1>4, <1>5
<1>7. \A x \in LeaseSessions : r[x] \in Seq(Reservation) /\ InOrder(r[x], x)
  BY <1>1, <1>5 DEF ReservationsOK
<1>8. session'[t] = s /\ phase'[t] = "running" /\ t \notin Done
  BY <1>1 DEF Authorize, BudgetTypeOK, Done
<1>9. t \notin Unreported'
  <2>1. events' \in Seq(Done') /\ t \notin Done'
    BY <1>8, BudgetTypeStep DEF BudgetTypeOK, Done
  <2> QED
    BY <2>1 DEF Unreported, ToSet, Range
<1>10. \A x \in LeaseSessions : \A q \in Seq(Reservation) : InOrder(q, x) => InOrder(q, x)'
  BY InOrderKept
<1>11. ASSUME NEW x \in LeaseSessions PROVE InOrder(budgetLease.reserved[x], x)'
  <2>1. PICK q \in Seq(Reservation) : q = r[x] /\ InOrder(q, x)
    BY <1>7
  <2>2. InOrder(q, x)'
    BY <1>10, <2>1
  <2>3. CASE x # s
    BY <1>6, <2>1, <2>2, <2>3 DEF InOrder
  <2>4. CASE x = s
    <3>1. budgetLease'.reserved[x] = Append(q, e)
      BY <1>6, <2>1, <2>4
    <3>2. /\ DOMAIN q = 1..Len(q) /\ Len(q) \in Nat /\ DOMAIN Append(q, e) = 1..Len(q) + 1
          /\ Append(q, e)[Len(q) + 1] = e
          /\ \A i \in DOMAIN q : Append(q, e)[i] = q[i] /\ q[i] \in Reservation
      OBVIOUS
    <3>3. ASSUME NEW i \in DOMAIN q PROVE InTurn(q[i].turn, t)'
      <4> DEFINE a == q[i].turn
      <4>1. a \in Turns /\ session[a] = s /\ phase[a] # "idle"
        BY <2>1, <2>4, <3>2 DEF InOrder, Reservation
      <4>2. a # t /\ phase[a] # "running"
        BY <1>1, <4>1 DEF Running
      <4>3. phase'[a] # "running"
        BY <4>1, <4>2, TurnKept
      <4> HIDE DEF a
      <4>4. InTurn(a, t)'
        BY <1>9, <4>2, <4>3 DEF InTurn
      <4> QED
        BY <4>4 DEF a
    <3>4. ASSUME NEW i \in 1..Len(q) + 1
          PROVE  /\ session'[Append(q, e)[i].turn] = x /\ phase'[Append(q, e)[i].turn] # "idle"
                 /\ \A j \in 1..Len(q) + 1 : i < j => InTurn(Append(q, e)[i].turn, Append(q, e)[j].turn)'
      <4>1. CASE i = Len(q) + 1
        BY <1>4, <1>8, <2>4, <3>2, <4>1
      <4>2. CASE i \in DOMAIN q
        <5>1. Append(q, e)[i] = q[i]
          BY <3>2, <4>2
        <5>2. session'[q[i].turn] = x /\ phase'[q[i].turn] # "idle"
          BY <2>2, <4>2 DEF InOrder
        <5>3. ASSUME NEW j \in 1..Len(q) + 1, i < j PROVE InTurn(q[i].turn, Append(q, e)[j].turn)'
          <6>1. CASE j = Len(q) + 1
            BY <1>4, <3>2, <3>3, <4>2, <6>1
          <6>2. CASE j \in DOMAIN q
            BY <2>2, <3>2, <4>2, <5>3, <6>2 DEF InOrder
          <6> QED
            BY <3>2, <6>1, <6>2
        <5> QED
          BY <5>1, <5>2, <5>3
      <4> QED
        BY <3>2, <4>1, <4>2
    <3> QED
      BY <3>1, <3>2, <3>4 DEF InOrder
  <2> QED
    BY <2>3, <2>4
<1>12. ASSUME NEW u \in Outstanding' PROVE Covered(budgetLease.reserved[session[u]], u)'
  <2>1. CASE u = t
    <3>1. r[s] \in Seq(Reservation) /\ budgetLease'.reserved[s] = Append(r[s], e)
      BY <1>5, <1>6
    <3>2. Len(r[s]) + 1 \in DOMAIN budgetLease'.reserved[s] /\ budgetLease'.reserved[s][Len(r[s]) + 1] = e
      BY <3>1
    <3>3. output'[t] * Price <= e.amount
      BY <1>3, <1>4
    <3> QED
      BY <1>4, <1>8, <2>1, <3>2, <3>3 DEF Covered
  <2>2. CASE u # t
    <3>1. u \in Outstanding
      <4>1. u \in Outstanding \/ (u \in Turns /\ phase[u] = "idle" /\ phase'[u] = "running")
        <5>1. ASSUME NEW x \in LeaseSessions, u \in Turns, Authorize(u, x) PROVE phase[u] = "idle" /\ phase'[u] = "running"
          BY <5>1 DEF Authorize, BudgetTypeOK
        <5> QED
          BY <1>12, <5>1, OutstandingAfter
      <4>2. u \in Turns => phase'[u] = phase[u]
        BY <2>2 DEF Authorize, BudgetTypeOK
      <4> QED
        BY <4>1, <4>2
    <3>2. u \in Turns /\ phase[u] # "idle" /\ session[u] \in LeaseSessions /\ session'[u] = session[u]
      BY <3>1, OutstandingTurn, TurnKept
    <3>3. PICK q \in Seq(Reservation) : q = r[session[u]] /\ Covered(q, u)
      BY <1>1, <1>7, <3>1, <3>2 DEF ReservationsOK
    <3>4. Covered(q, u)'
      BY <3>2, <3>3, CoveredKept
    <3>5. PICK i \in DOMAIN q : q[i].turn = u /\ output'[u] * Price <= q[i].amount
      BY <3>4 DEF Covered
    <3>6. i \in DOMAIN budgetLease'.reserved[session'[u]] /\ budgetLease'.reserved[session'[u]][i] = q[i]
      <4>1. DOMAIN Append(q, e) = 1..Len(q) + 1 /\ DOMAIN q = 1..Len(q) /\ Len(q) \in Nat /\ Append(q, e)[i] = q[i]
        OBVIOUS
      <4>2. budgetLease'.reserved[session'[u]] \in {Append(q, e), q}
        BY <1>6, <3>2, <3>3
      <4> QED
        BY <4>1, <4>2
    <3> QED
      BY <3>5, <3>6 DEF Covered
  <2> QED
    BY <2>1, <2>2
<1> QED
  BY <1>11, <1>12 DEF ReservationsOK

LEMMA ReservationsStep ==
  ASSUME BudgetTypeOK, RecordsOK, EventsOK, ReservationsOK, [BudgetNext]_budgetVars
  PROVE  ReservationsOK'
<1> SUFFICES ASSUME faults = {}, budgetLease' # Unset PROVE ReservationsOK'
  <2>1. faults' = faults
    BY DEF BudgetNext, RegisterBudget, UnregisterBudget, LeaseExpires, GraceExpires, PersistUsage, ReservationExpires,
           Authorize, CompleteTurn, Fail, Report, ReportLost, RestartBridge, budgetVars, bridgeVars, turnVars
  <2> QED
    BY <2>1 DEF ReservationsOK
<1>1. CASE RegisterBudget
  <2>1. Outstanding = {} /\ budgetLease'.reserved = NoReservations
    BY <1>1 DEF RegisterBudget, Orderly
  <2>2. Outstanding' = {}
    BY <2>1, OutstandingAfter, <1>1 DEF RegisterBudget, turnVars, Outstanding, Running, Unreported, ToSet, Range
  <2>3. \A s \in LeaseSessions : budgetLease'.reserved[s] = <<>>
    BY <2>1 DEF NoReservations
  <2>4. DOMAIN <<>> = {}
    OBVIOUS
  <2>5. \A s \in LeaseSessions : InOrder(budgetLease.reserved[s], s)'
    BY <2>3, <2>4 DEF InOrder
  <2> QED
    BY <2>2, <2>5 DEF ReservationsOK
<1>2. ASSUME NEW t \in Turns, NEW s \in LeaseSessions, Authorize(t, s) PROVE ReservationsOK'
  BY <1>2, GrantReserves
<1>3. SUFFICES ASSUME ~RegisterBudget, ~(\E t \in Turns, s \in LeaseSessions : Authorize(t, s)) PROVE ReservationsOK'
  BY <1>1, <1>2
<1>4. Outstanding' \subseteq Outstanding
  BY <1>3, OutstandingAfter
<1>5. CASE budgetLease' = budgetLease
  BY <1>4, <1>5, LeaseKeeps
<1>6. ASSUME NEW t \in Turns, Report(t), budgetLease' # budgetLease PROVE ReservationsOK'
  <2>1. /\ budgetLease # Unset /\ usage[t] = Unset /\ usage' = [usage EXCEPT ![t] = cost[t]]
        /\ budgetLease' = [budgetLease EXCEPT !.reserved = PopFront(@, session[t])] /\ phase' = phase
    BY <1>6 DEF Report, RecordUsage
  <2>2. t \notin Outstanding'
    <3>1. PICK e \in DOMAIN events : events[e] = t
      BY <1>6 DEF Report
    <3>2. t \in Done /\ cost[t] # Unset
      BY <3>1, BudgetAssumption DEF BudgetTypeOK
    <3>3. usage'[t] # Unset /\ phase'[t] = "done"
      BY <2>1, <3>2 DEF BudgetTypeOK, Done
    <3> QED
      BY <3>3 DEF Outstanding, Running, Unreported
  <2>3. /\ budgetLease.reserved[session[t]] # <<>> /\ session[t] \in LeaseSessions
        /\ Head(budgetLease.reserved[session[t]]).turn \notin Outstanding'
    BY <1>4, <1>6, <2>1, <2>2, ReportReleases DEF BudgetTypeOK
  <2> QED
    BY <1>4, <2>1, <2>3, PopKeeps
<1>7. ASSUME NEW s \in LeaseSessions, ReservationExpires(s) PROVE ReservationsOK'
  <2>1. /\ budgetLease # Unset /\ budgetLease.reserved[s] # <<>>
        /\ Head(budgetLease.reserved[s]).turn \notin Outstanding'
        /\ budgetLease' = [budgetLease EXCEPT !.reserved = PopFront(@, s)]
    BY <1>4, <1>7 DEF ReservationExpires
  <2> QED
    BY <1>4, <2>1, PopKeeps
<1>8. CASE UnregisterBudget \/ LeaseExpires \/ RestartBridge
  BY <1>8 DEF UnregisterBudget, LeaseExpires, RestartBridge
<1>9. CASE GraceExpires \/ PersistUsage \/ (\E t \in Turns : CompleteTurn(t) \/ Fail(t) \/ ReportLost(t)) \/ UNCHANGED budgetVars
  BY <1>9, <1>5 DEF GraceExpires, PersistUsage, CompleteTurn, Fail, ReportLost, budgetVars, bridgeVars
<1> QED
  BY <1>3, <1>5, <1>6, <1>7, <1>8, <1>9 DEF BudgetNext

-----------------------------------------------------------------------------
(* The provider budget: what was paid for is counted.                        *)

OutputPaid == [t \in Turns |-> output[t] * Price]
Recorded == {t \in Turns : usage[t] # Unset}

LEMMA PaidNat ==
  ASSUME BudgetTypeOK
  PROVE  /\ \A t \in Turns : OutputPaid[t] \in Nat
         /\ IsFiniteSet(Turns)
         /\ \A T \in SUBSET Turns : IsFiniteSet(T) /\ Counts(OutputPaid, T) /\ SumFunctionOnSet(OutputPaid, T) \in Nat
<1>1. \A t \in Turns : output[t] \in Nat /\ Price \in Nat /\ OutputPaid[t] = output[t] * Price
  BY BudgetAssumption DEF BudgetTypeOK, OutputPaid
<1>2. \A t \in Turns : OutputPaid[t] \in Nat
  BY <1>1
<1>3. IsFiniteSet(Turns) /\ \A T \in SUBSET Turns : IsFiniteSet(T)
  BY BudgetAssumption, FS_Subset
<1>4. \A T \in SUBSET Turns : Counts(OutputPaid, T)
  BY <1>2 DEF Counts
<1>5. \A T \in SUBSET Turns : SumFunctionOnSet(OutputPaid, T) \in Nat
  BY <1>3, <1>4, SumType
<1> QED
  BY <1>2, <1>3, <1>4, <1>5

\* The output of the recorded turns is within what is recorded.
LEMMA RecordedCounted ==
  ASSUME BudgetTypeOK, RecordsOK
  PROVE  SumFunctionOnSet(OutputPaid, Recorded) <= Durable
<1>1. Recorded \in SUBSET Turns /\ IsFiniteSet(Recorded) /\ Counts(OutputPaid, Recorded)
  BY PaidNat DEF Recorded
<1>2. Counts(usage, Recorded)
  BY DEF Counts, Recorded, BudgetTypeOK
<1>3. \A t \in Recorded : OutputPaid[t] <= usage[t]
  BY DEF RecordsOK, Recorded, OutputPaid
<1>4. Durable = SumFunctionOnSet(usage, Recorded)
  BY DEF Durable, Recorded
<1> QED
  BY <1>1, <1>2, <1>3, <1>4, SumBelow

\* The output of the turns under way is within what is reserved.
LEMMA OutstandingReserved ==
  ASSUME BudgetTypeOK, ReservationsOK, faults = {}, budgetLease # Unset
  PROVE  SumFunctionOnSet(OutputPaid, Outstanding) <= Reserved(budgetLease.reserved)
<1> DEFINE r == budgetLease.reserved
           g == [s \in LeaseSessions |-> QueueSum(r[s])]
           of == [u \in Outstanding |-> session[u]]
<1>1. r \in Queues /\ Outstanding \in SUBSET Turns /\ IsFiniteSet(LeaseSessions) /\ Counts(g, LeaseSessions)
  BY LeaseType, OutstandingTurn, ReservedNat
<1>2. IsFiniteSet(Outstanding) /\ Counts(OutputPaid, Outstanding)
  BY <1>1, PaidNat
<1>3. of \in [Outstanding -> LeaseSessions]
  BY OutstandingTurn
<1>4. ASSUME NEW s \in LeaseSessions
      PROVE  SumFunctionOnSet(OutputPaid, {u \in Outstanding : of[u] = s}) <= QueueSum(r[s])
  <2> DEFINE A == {u \in Outstanding : of[u] = s}
             q == r[s]
             f == [i \in DOMAIN q |-> q[i].amount]
  <2>1. A \in SUBSET Turns /\ \A u \in A : u \in Outstanding /\ session[u] = s
    BY <1>1
  <2>2. IsFiniteSet(A) /\ Counts(OutputPaid, A)
    BY <2>1, PaidNat
  <2>3. q \in Seq(Reservation)
    BY <1>1 DEF Queues
  <2>4. IsFiniteSet(DOMAIN q) /\ Counts(f, DOMAIN q)
    <3> HIDE DEF q
    <3>1. IsFiniteSet(DOMAIN q)
      BY <2>3, FS_Interval
    <3>2. \A i \in DOMAIN q : q[i] \in Reservation /\ f[i] = q[i].amount
      BY <2>3
    <3>3. \A x \in Reservation : x.amount \in Nat
      BY DEF Reservation
    <3> QED
      BY <3>1, <3>2, <3>3 DEF Counts
  <2>5. \A u \in A : \E i \in DOMAIN q : q[i].turn = u /\ OutputPaid[u] <= f[i]
    <3>1. ASSUME NEW u \in A PROVE \E i \in DOMAIN q : q[i].turn = u /\ OutputPaid[u] <= f[i]
      <4>1. Covered(q, u)
        BY <2>1 DEF ReservationsOK
      <4>2. OutputPaid[u] = output[u] * Price
        BY <2>1 DEF OutputPaid
      <4> HIDE DEF A, q
      <4> QED
        BY <4>1, <4>2 DEF Covered
    <3> QED
      BY <3>1
  <2> DEFINE to == [u \in A |-> CHOOSE i \in DOMAIN q : q[i].turn = u /\ OutputPaid[u] <= f[i]]
  <2> HIDE DEF A, q, f
  <2>6. \A u \in A : to[u] \in DOMAIN q /\ q[to[u]].turn = u /\ OutputPaid[u] <= f[to[u]]
    BY <2>5
  <2>7. to \in [A -> DOMAIN q]
    BY <2>6
  <2> HIDE DEF to
  <2>8. \A u, v \in A : to[u] = to[v] => u = v
    BY <2>6
  <2>9. SumFunctionOnSet(OutputPaid, A) <= SumFunctionOnSet(f, DOMAIN q)
    BY <2>2, <2>4, <2>6, <2>7, <2>8, SumMapped
  <2>10. QueueSum(q) = SumFunctionOnSet(f, DOMAIN q)
    BY DEF QueueSum, f
  <2> QED
    BY <2>9, <2>10 DEF A, q
<1>5. Reserved(r) = SumFunctionOnSet(g, LeaseSessions)
  BY DEF Reserved
<1>6. \A s \in LeaseSessions : g[s] = QueueSum(r[s])
  OBVIOUS
<1> HIDE DEF g, of, r
<1>7. SumFunctionOnSet(OutputPaid, Outstanding) <= SumFunctionOnSet(g, LeaseSessions)
  BY <1>1, <1>2, <1>3, <1>4, <1>6, SumGrouped
<1> QED
  BY <1>5, <1>7 DEF r

LEMMA SpentCounted ==
  ASSUME BudgetTypeOK, RecordsOK, EventsOK, ReservationsOK, faults = {}, budgetLease # Unset
  PROVE  /\ OutputSpent \in Nat
         /\ OutputSpent <= Max({budgetLease.baseline, Durable}) + Reserved(budgetLease.reserved)
<1> DEFINE a == SumFunctionOnSet(OutputPaid, Recorded)
           b == SumFunctionOnSet(OutputPaid, Outstanding)
<1>1. Recorded \in SUBSET Turns /\ Outstanding \in SUBSET Turns
  BY OutstandingTurn DEF Recorded
<1>2. Recorded \cap Outstanding = {}
  BY DEF Recorded, Outstanding, Running, Unreported, RecordsOK
<1>3. Running \cup Done = Recorded \cup Outstanding
  <2>1. \A t \in Done : t \in Recorded \/ t \in Unreported
    BY DEF EventsOK, Done, Recorded, Unreported, ToSet, Range
  <2>2. Recorded \subseteq Done
    BY DEF RecordsOK, Recorded, Done
  <2>3. Unreported \subseteq Done
    BY DEF Unreported, ToSet, Range, BudgetTypeOK
  <2> QED
    BY <2>1, <2>2, <2>3 DEF Outstanding
<1>4. OutputSpent = SumFunctionOnSet(OutputPaid, Recorded \cup Outstanding)
  BY <1>3 DEF OutputSpent, OutputPaid
<1>5. SumFunctionOnSet(OutputPaid, Recorded \cup Outstanding) = a + b
  <2>1. IsFiniteSet(Recorded) /\ IsFiniteSet(Outstanding) /\ Counts(OutputPaid, Recorded \cup Outstanding)
    BY <1>1, PaidNat
  <2> QED
    BY <1>2, <2>1, SumUnion
<1>6. a \in Nat /\ b \in Nat
  BY <1>1, PaidNat
<1>7. a <= Durable /\ b <= Reserved(budgetLease.reserved)
  BY RecordedCounted, OutstandingReserved
<1> DEFINE m == Max({budgetLease.baseline, Durable})
           v == Reserved(budgetLease.reserved)
           d == Durable
<1>8. d \in Nat /\ m \in Nat /\ m >= d /\ v \in Nat
  BY DurableNat, LeaseType, ReservedNat, MaxOfTwo
<1>9. a <= d /\ b <= v
  BY <1>7
<1> HIDE DEF a, b, d, m, v
<1>10. OutputSpent = a + b
  BY <1>4, <1>5
<1>11. OutputSpent \in Nat /\ OutputSpent <= m + v
  BY <1>6, <1>8, <1>9, <1>10
<1> QED
  BY <1>11 DEF m, v

\* No handler but authorize_provider_turn lets what is paid for grow.
LEMMA SpendStep ==
  ASSUME BudgetTypeOK, RecordsOK, EventsOK, ReservationsOK, SpendWithinBudget, [BudgetNext]_budgetVars
  PROVE  SpendWithinBudget'
<1> USE DEF BudgetTypeOK
<1>0. SUFFICES ASSUME faults' = {} PROVE OutputSpent' <= Budget
  BY DEF SpendWithinBudget
<1>1. faults = {} /\ OutputSpent <= Budget
  <2>1. faults' = faults
    BY DEF BudgetNext, RegisterBudget, UnregisterBudget, LeaseExpires, GraceExpires, PersistUsage, ReservationExpires,
           Authorize, CompleteTurn, Fail, Report, ReportLost, RestartBridge, budgetVars, bridgeVars, turnVars
  <2> QED
    BY <1>0, <2>1 DEF SpendWithinBudget
<1> DEFINE A == Running \cup Done
           B == Running' \cup Done'
           f == OutputPaid
           g == OutputPaid'
<1>2. OutputSpent = SumFunctionOnSet(f, A) /\ OutputSpent' = SumFunctionOnSet(g, B)
  BY DEF OutputSpent, OutputPaid
<1>3. A \in SUBSET Turns /\ B \in SUBSET Turns
  BY DEF Running, Done
<1>4. /\ \A T \in SUBSET Turns : /\ IsFiniteSet(T) /\ Counts(f, T) /\ Counts(g, T)
                                 /\ SumFunctionOnSet(f, T) \in Nat /\ SumFunctionOnSet(g, T) \in Nat
      /\ \A t \in Turns : f[t] \in Nat /\ g[t] \in Nat
  <2>1. BudgetTypeOK'
    BY BudgetTypeStep
  <2>2. \A t \in Turns : output'[t] \in Nat /\ Price \in Nat /\ g[t] = output'[t] * Price
    BY <2>1, BudgetAssumption DEF OutputPaid
  <2>3. \A t \in Turns : g[t] \in Nat
    <3>1. ASSUME NEW t \in Turns PROVE g[t] \in Nat
      <4> DEFINE x == output'[t]
      <4>1. x \in Nat /\ Price \in Nat /\ g[t] = x * Price
        BY <2>2
      <4> HIDE DEF x, g
      <4>2. x * Price \in Nat
        BY <4>1
      <4> QED
        BY <4>1, <4>2
    <3> QED
      BY <3>1
  <2>4. \A T \in SUBSET Turns : Counts(g, T) /\ IsFiniteSet(T)
    BY <2>3, PaidNat DEF Counts
  <2>5. \A T \in SUBSET Turns : SumFunctionOnSet(g, T) \in Nat
    BY <2>4, SumType
  <2> QED
    BY <2>3, <2>4, <2>5, PaidNat
<1>5. ASSUME B \subseteq A, \A t \in B : g[t] <= f[t] PROVE OutputSpent' <= Budget
  <2>1. SumFunctionOnSet(g, B) <= SumFunctionOnSet(f, B)
    BY <1>3, <1>4, <1>5, SumBelow
  <2>2. SumFunctionOnSet(f, B) <= SumFunctionOnSet(f, A)
    BY <1>3, <1>4, <1>5, SumWithin
  <2> DEFINE x == SumFunctionOnSet(g, B)
             y == SumFunctionOnSet(f, B)
             z == SumFunctionOnSet(f, A)
  <2>3. x \in Nat /\ y \in Nat /\ z \in Nat /\ x <= y /\ y <= z /\ z <= Budget /\ Budget \in Nat
    BY <1>1, <1>2, <1>3, <1>4, <2>1, <2>2, BudgetAssumption
  <2>4. OutputSpent' = x
    BY <1>2
  <2> HIDE DEF x, y, z
  <2> QED
    BY <2>3, <2>4
<1>6. ASSUME NEW t \in Turns, NEW s \in LeaseSessions, Authorize(t, s) PROVE OutputSpent' <= Budget
  <2>1. budgetLease # Unset /\ phase[t] = "idle" /\ phase' = [phase EXCEPT ![t] = "running"]
    BY <1>6 DEF Authorize
  <2>2. PICK c \in 1..MaxOutput : Cap(c) > 0 /\ output' = [output EXCEPT ![t] = Cap(c)]
    BY <1>6 DEF Authorize
  <2> DEFINE p == Cap(c) * Price
             h == Max({budgetLease.baseline, Durable}) + Reserved(budgetLease.reserved)
  <2>3. p \in Nat /\ h + p <= Budget
    BY <2>1, <2>2, CapGranted
  <2>4. SumFunctionOnSet(f, A) <= h
    BY <1>1, <1>2, <2>1, SpentCounted
  <2>5. B = A \cup {t} /\ t \notin A
    BY <2>1 DEF Running, Done
  <2>6. SumFunctionOnSet(g, A \cup {t}) = g[t] + SumFunctionOnSet(g, A)
    BY <1>3, <1>4, <2>5, SumAdd
  <2>7. g[t] = p
    BY <2>2 DEF OutputPaid
  <2>8. \A u \in A : g[u] = f[u]
    BY <1>3, <2>2, <2>5 DEF OutputPaid
  <2>9. SumFunctionOnSet(g, A) <= SumFunctionOnSet(f, A)
    <3>1. \A u \in A : g[u] <= f[u]
      BY <1>3, <1>4, <2>8
    <3> QED
      BY <1>3, <1>4, <3>1, SumBelow
  <2>10. h \in Nat
    <3>1. Max({budgetLease.baseline, Durable}) \in Nat /\ Reserved(budgetLease.reserved) \in Nat
      BY <2>1, DurableNat, LeaseType, ReservedNat, MaxOfTwo
    <3> QED
      BY <3>1
  <2> DEFINE x == SumFunctionOnSet(g, A)
             y == SumFunctionOnSet(f, A)
  <2>11. x \in Nat /\ y \in Nat /\ x <= y /\ y <= h /\ Budget \in Nat
    BY <1>3, <1>4, <2>4, <2>9, BudgetAssumption
  <2>12. OutputSpent' = p + x
    BY <1>2, <2>5, <2>6, <2>7
  <2> HIDE DEF x, y, p, h
  <2> QED
    BY <2>3, <2>10, <2>11, <2>12
<1>7. ASSUME NEW t \in Turns, CompleteTurn(t) \/ Fail(t) PROVE OutputSpent' <= Budget
  <2>1. B \subseteq A
    BY <1>7 DEF CompleteTurn, Fail, Running, Done
  <2>2. ASSUME NEW u \in B PROVE g[u] <= f[u]
    <3>1. u \in Turns /\ phase[u] # "idle"
      BY <2>1, <2>2 DEF Running, Done
    <3>2. output'[u] \in 0..MaxOutput /\ output'[u] <= output[u]
      BY <1>1, <3>1, TurnKept
    <3> DEFINE x == output'[u]
               y == output[u]
    <3>3. x \in Nat /\ y \in Nat /\ x <= y /\ Price \in Nat
      BY <3>1, <3>2, BudgetAssumption
    <3>4. x * Price <= y * Price
      <4> HIDE DEF x, y
      <4> QED
        BY <3>3, Scaled
    <3> QED
      BY <3>1, <3>4 DEF OutputPaid
  <2> QED
    BY <1>5, <2>1, <2>2
<1>8. CASE UNCHANGED <<phase, output>>
  <2>1. B = A /\ g = f
    BY <1>8 DEF Running, Done, OutputPaid
  <2>2. \A t \in B : g[t] <= f[t]
    BY <1>3, <1>4, <2>1
  <2> QED
    BY <1>5, <2>1, <2>2
<1>9. CASE RestartBridge
  BY <1>1, <1>9 DEF RestartBridge
<1>10. CASE RegisterBudget \/ UnregisterBudget \/ LeaseExpires \/ GraceExpires \/ PersistUsage
            \/ (\E s \in LeaseSessions : ReservationExpires(s)) \/ (\E t \in Turns : Report(t) \/ ReportLost(t))
            \/ UNCHANGED budgetVars
  BY <1>10, <1>8 DEF RegisterBudget, UnregisterBudget, LeaseExpires, GraceExpires, PersistUsage,
                    ReservationExpires, Report, ReportLost, budgetVars, turnVars
<1> QED
  BY <1>6, <1>7, <1>9, <1>10 DEF BudgetNext

-----------------------------------------------------------------------------
(* The provider budget: the theorems.                                        *)

LEMMA BudgetInvInit == BudgetInit => BudgetIInv
<1> SUFFICES ASSUME BudgetInit PROVE BudgetIInv
  OBVIOUS
<1> USE DEF BudgetInit
<1>1. BudgetTypeOK
  <2>1. Root \in LeaseSessions /\ 0 \in 0..MaxOutput
    BY BudgetAssumption DEF LeaseSessions
  <2>2. events \in Seq(Done)
    OBVIOUS
  <2> QED
    BY <2>1, <2>2 DEF BudgetTypeOK
<1>2. Running = {} /\ Done = {}
  BY DEF Running, Done
<1>3. RecordsOK /\ EventsOK /\ ReservationsOK
  BY <1>2 DEF RecordsOK, EventsOK, ReservationsOK
<1>4. SpendWithinBudget
  <2>1. OutputSpent = SumFunctionOnSet(OutputPaid, {})
    BY <1>2 DEF OutputSpent, OutputPaid
  <2>2. OutputSpent = 0
    BY <2>1, SumEmpty
  <2> QED
    BY <2>2, BudgetAssumption DEF SpendWithinBudget
<1> QED
  BY <1>1, <1>3, <1>4 DEF BudgetIInv

LEMMA BudgetInvStep == BudgetIInv /\ [BudgetNext]_budgetVars => BudgetIInv'
<1> SUFFICES ASSUME BudgetIInv, [BudgetNext]_budgetVars PROVE BudgetIInv'
  OBVIOUS
<1>1. BudgetTypeOK /\ RecordsOK /\ EventsOK /\ ReservationsOK /\ SpendWithinBudget
  BY DEF BudgetIInv
<1> QED
  BY <1>1, BudgetTypeStep, RecordsStep, EventsStep, ReservationsStep, SpendStep DEF BudgetIInv

\* The inductive invariant of the budget.
THEOREM BudgetInvariant == BudgetSpec => []BudgetIInv
  BY BudgetInvInit, BudgetInvStep, PTL DEF BudgetSpec

\* Every variable of the budget has its type, and a lease is live or retired, never both.
THEOREM BudgetTypeCorrect == BudgetSpec => []BudgetTypeOK
<1>1. BudgetIInv => BudgetTypeOK
  BY DEF BudgetIInv
<1> QED
  BY <1>1, BudgetInvariant, PTL

\* The output that was paid for, and all the turns under way may still produce, stays
\* within the budget of the lease, in the orderly course (authorize_provider_turn).
THEOREM SpendsWithin == BudgetSpec => []SpendWithinBudget
<1>1. BudgetIInv => SpendWithinBudget
  BY DEF BudgetIInv
<1> QED
  BY <1>1, BudgetInvariant, PTL

\* What the bridge counts against the budget covers every turn it granted
\* (remaining_provider_budget, record_provider_usage).
THEOREM Accounts == BudgetSpec => []AccountedFor
<1>1. BudgetIInv => AccountedFor
  <2> SUFFICES ASSUME BudgetIInv, faults = {}, budgetLease # Unset
               PROVE  Max({budgetLease.baseline, Durable}) + Reserved(budgetLease.reserved) >= OutputSpent
    BY DEF AccountedFor
  <2> DEFINE h == Max({budgetLease.baseline, Durable}) + Reserved(budgetLease.reserved)
  <2>1. OutputSpent <= h
    BY SpentCounted DEF BudgetIInv
  <2> QED
    BY <2>1
<1> QED
  BY <1>1, BudgetInvariant, PTL

\* Usage that reached the journal stays counted, at its cost, over restarts and whatever is
\* reported again (record_provider_usage, open).
THEOREM UsageStays == BudgetSpec => UsageKept
<1>1. BudgetIInv /\ [BudgetNext]_budgetVars
      => [\A t \in Turns : usageJournal[t] # Unset => usageJournal'[t] = usageJournal[t]]_budgetVars
  BY RecordsStep DEF BudgetIInv
<1> QED
  BY <1>1, BudgetInvariant, PTL DEF BudgetSpec, UsageKept
=============================================================================
