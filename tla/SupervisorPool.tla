--------------------------- MODULE SupervisorPool ---------------------------
(***************************************************************************)
(* The pool of managed backends (backend/supervisor.rs, backend/control.rs) *)
(* A shell that needs the backend of a launch identity ("key") looks for a *)
(* verified state file, and otherwise, under the key's startup.lock, makes *)
(* room in the pool, spawns a detached supervisor and waits for it.  The   *)
(* supervisor holds supervisor.lock of its key, runs one OpenCode engine,  *)
(* writes the state file, serves leases until it is told to stop, is idle  *)
(* or loses its engine, and leaves in order: engine, state file, lock.     *)
(* Every supervisor keeps its tool calls in memory and writes all of them  *)
(* to the one journal the pool shares (backend/bridge.rs persist).         *)
(*                                                                         *)
(* Supervisors are numbered in the order they are spawned; the number      *)
(* stands for the process, its startup nonce and its tokens.  A request on *)
(* the control socket, a probe of another key's activity and a file's      *)
(* atomic replacement are one step each.                                   *)
(***************************************************************************)
EXTENDS Naturals, FiniteSets

CONSTANTS
    Shells, Keys,
    Release,        \* the release of each shell's aishe: runtime version and plugin
    Limit,          \* backend.max_instances
    MaxStarts,      \* lines that need a backend
    MaxFaults       \* killed processes, failing steps and requests, timeouts that beat a healthy peer

ASSUME BoundsAssumption == Limit \in Nat \ {0} /\ MaxStarts \in Nat /\ MaxFaults \in Nat

Supervisors == 1..MaxStarts
None == 0

VARIABLES
    \* shells
    at,             \* where each shell's line has got
    want,           \* the key it asks for
    got,            \* the supervisor ensure_running returned
    victims,        \* the keys its eviction has left to stop
    startup,        \* who holds each key's startup.lock
    \* supervisors
    phase, key, release,
    engine,         \* its OpenCode process
    asked,          \* its shutdown flag
    leases,         \* the shells that hold a lease of it
    memory,         \* the unfinished calls its bridge knows
    \* files
    file,           \* the supervisor each key's state file names
    journal,        \* the unfinished calls in journal/tool-calls.json
    \* history
    starts, faults,
    killed          \* supervisors that died without leaving in order

shells == <<at, want, got, victims, startup>>
supervisors == <<phase, key, release, engine, asked, leases, memory>>
files == <<file, journal>>
vars == <<shells, supervisors, files, starts, faults, killed>>

Ensuring == {"look", "lock", "relook", "replace", "replaced", "count", "evict", "drain", "spawn", "await"}
Turning == {"got", "turn", "tool"}
Owning == {"starting", "serving", "stopping", "removing", "unlocking"}
Phases == {"unborn", "boot", "gone"} \cup Owning

TypeOK ==
    /\ at \in [Shells -> {"idle"} \cup Ensuring \cup Turning]
    /\ want \in [Shells -> Keys]
    /\ got \in [Shells -> Supervisors \cup {None}]
    /\ victims \in [Shells -> SUBSET Keys]
    /\ startup \in [Keys -> SUBSET Shells]
    /\ phase \in [Supervisors -> Phases]
    /\ key \in [Supervisors -> Keys] /\ release \in [Supervisors -> {Release[s] : s \in Shells}]
    /\ engine \in [Supervisors -> {"none", "up", "dead"}]
    /\ asked \in [Supervisors -> BOOLEAN]
    /\ leases \in [Supervisors -> SUBSET Shells] /\ memory \in [Supervisors -> SUBSET Shells]
    /\ file \in [Keys -> Supervisors \cup {None}]
    /\ journal \subseteq Shells
    /\ starts \in 0..MaxStarts /\ faults \in 0..MaxFaults /\ killed \subseteq Supervisors

Fault == faults < MaxFaults /\ faults' = faults + 1

-----------------------------------------------------------------------------
(* What a client sees of a key. *)

Serving(i) == i # None /\ phase[i] = "serving"
Verified(k) == Serving(file[k])
(* Both processes exist; an engine that died is a zombie until its          *)
(* supervisor reaps it.                                                     *)
ProcessesExist(i) == phase[i] # "gone" /\ engine[i] \in {"up", "dead"}
AnyRelease(i, s) == TRUE
Matches(i, s) == release[i] = Release[s]

(* request_stop_for: only a supervisor that serves takes the request. *)
AskStop(k) == asked' = IF Verified(k) THEN [asked EXCEPT ![file[k]] = TRUE] ELSE asked
StopRequest(k) == \/ AskStop(k) /\ UNCHANGED faults
                  \/ Fault /\ UNCHANGED asked

(* A shell waits for a state file to go: it is on its way, or was never    *)
(* asked for.                                                              *)
Leaving(i) == asked[i] /\ phase[i] \in {"serving", "stopping", "removing"}
WaitedForRemoval(k) == file[k] = None /\ UNCHANGED faults
Waited(k) == \/ file[k] = None /\ UNCHANGED faults
             \/ file[k] # None /\ ~Leaving(file[k]) /\ UNCHANGED faults
             \/ file[k] # None /\ Leaving(file[k]) /\ Fault

Go(s, step) == at' = [at EXCEPT ![s] = step]
Unlock(s) == startup' = [k \in Keys |-> startup[k] \ {s}]
NoKey == CHOOSE k \in Keys : TRUE
Rest(s) == /\ Go(s, "idle")
           /\ want' = [want EXCEPT ![s] = NoKey] /\ got' = [got EXCEPT ![s] = None] /\ victims' = [victims EXCEPT ![s] = {}]

-----------------------------------------------------------------------------
(* ensure_running. *)

Ask(s, k) == /\ at[s] = "idle" /\ starts < MaxStarts
             /\ starts' = starts + 1
             /\ want' = [want EXCEPT ![s] = k]
             /\ Go(s, "look")
             /\ UNCHANGED <<got, victims, startup, supervisors, files, faults, killed>>

Return(s, i) == /\ got' = [got EXCEPT ![s] = i]
                /\ Go(s, "got")
                /\ Unlock(s)
                /\ UNCHANGED <<want, victims>>
Fail(s) == Rest(s) /\ Unlock(s)
Proceed(s, step) == Go(s, step) /\ UNCHANGED <<want, got, victims, startup>>

Look(s) == /\ at[s] = "look"
           /\ \/ Verified(want[s]) /\ Matches(file[want[s]], s) /\ Return(s, file[want[s]]) /\ UNCHANGED faults
              \/ ~(Verified(want[s]) /\ Matches(file[want[s]], s)) /\ Proceed(s, "lock") /\ UNCHANGED faults
              \/ Verified(want[s]) /\ Fault /\ Proceed(s, "lock")
           /\ UNCHANGED <<supervisors, files, starts, killed>>

Lock(s) == /\ at[s] = "lock" /\ startup[want[s]] = {}
           /\ startup' = [startup EXCEPT ![want[s]] = {s}]
           /\ Go(s, "relook")
           /\ UNCHANGED <<want, got, victims, supervisors, files, starts, faults, killed>>

(* The state file names no supervisor that answers: it is removed if its   *)
(* processes are gone (remove_stale_state), which takes less time than the *)
(* start of an engine, and so no other file can take its place meanwhile.  *)
RemoveUnverified(s) == /\ file' = [file EXCEPT ![want[s]] = None]
                       /\ Proceed(s, "count")
RemoveStale(s) == IF file[want[s]] # None /\ ProcessesExist(file[want[s]])
                  THEN Fail(s) /\ UNCHANGED file
                  ELSE /\ file' = [file EXCEPT ![want[s]] = None]
                       /\ Proceed(s, "count")

Relook(s) == /\ at[s] = "relook"
             /\ \/ Verified(want[s]) /\ Matches(file[want[s]], s) /\ Return(s, file[want[s]]) /\ UNCHANGED <<file, faults>>
                \/ Verified(want[s]) /\ ~Matches(file[want[s]], s) /\ Proceed(s, "replace") /\ UNCHANGED <<file, faults>>
                \/ ~Verified(want[s]) /\ RemoveStale(s) /\ UNCHANGED faults
                \/ Verified(want[s]) /\ Fault /\ RemoveStale(s)
             /\ UNCHANGED <<supervisors, journal, starts, killed>>

(* An instance of another release is stopped, whatever it runs. *)
Replace(s) == /\ at[s] = "replace"
              /\ StopRequest(want[s])
              /\ Proceed(s, "replaced")
              /\ UNCHANGED <<phase, key, release, engine, leases, memory, files, starts, killed>>

Replaced(s) == /\ at[s] = "replaced"
               /\ Waited(want[s])
               /\ Proceed(s, "count")
               /\ UNCHANGED <<supervisors, files, starts, killed>>

(* enforce_instance_limit.  Which of the idle instances is the oldest is    *)
(* left open.                                                               *)
Others(s) == {k \in Keys \ {want[s]} : Verified(k)}
IdleOthers(s) == {k \in Others(s) : leases[file[k]] = {}}
Needed(s) == LET all == Cardinality(Others(s)) + 1 IN IF all > Limit THEN all - Limit ELSE 0

Count(s) == /\ at[s] = "count"
            /\ \/ \E chosen \in SUBSET IdleOthers(s) :
                     /\ Cardinality(chosen) = Needed(s)
                     /\ victims' = [victims EXCEPT ![s] = chosen]
                     /\ Go(s, IF chosen = {} THEN "spawn" ELSE "evict")
                     /\ UNCHANGED <<want, got, startup>>
               \/ Cardinality(IdleOthers(s)) < Needed(s) /\ Fail(s)
            /\ UNCHANGED <<supervisors, files, starts, faults, killed>>

Victim(s) == CHOOSE k \in victims[s] : TRUE
Evict(s) == /\ at[s] = "evict"
            /\ StopRequest(Victim(s))
            /\ Proceed(s, "drain")
            /\ UNCHANGED <<phase, key, release, engine, leases, memory, files, starts, killed>>

Drain(s) == /\ at[s] = "drain"
            /\ Waited(Victim(s))
            /\ victims' = [victims EXCEPT ![s] = @ \ {Victim(s)}]
            /\ Go(s, IF victims'[s] = {} THEN "spawn" ELSE "evict")
            /\ UNCHANGED <<want, got, startup, supervisors, files, starts, killed>>

Spawn(s) == /\ at[s] = "spawn"
            /\ \E i \in Supervisors :
                  /\ phase[i] = "unborn" /\ \A j \in 1..i - 1 : phase[j] # "unborn"
                  /\ phase' = [phase EXCEPT ![i] = "boot"]
                  /\ key' = [key EXCEPT ![i] = want[s]]
                  /\ release' = [release EXCEPT ![i] = Release[s]]
            /\ Proceed(s, "await")
            /\ UNCHANGED <<engine, asked, leases, memory, files, starts, faults, killed>>

AwaitAnyRelease(s) == /\ at[s] = "await" /\ Verified(want[s])
                      /\ Return(s, file[want[s]])
                      /\ UNCHANGED <<supervisors, files, starts, faults, killed>>
Await(s) == /\ at[s] = "await" /\ Verified(want[s])
            /\ IF Matches(file[want[s]], s) THEN Return(s, file[want[s]]) ELSE Fail(s)
            /\ UNCHANGED <<supervisors, files, starts, faults, killed>>

(* The 25 seconds are over: long enough, but for a fault, for an engine to *)
(* start.                                                                  *)
Coming(k) == \E i \in Supervisors : key[i] = k /\ phase[i] \in {"boot", "starting", "serving"}
TimeOut(s) == /\ at[s] = "await"
              /\ IF Coming(want[s]) THEN Fault ELSE UNCHANGED faults
              /\ Fail(s)
              /\ UNCHANGED <<supervisors, files, starts, killed>>

(* A step fails, or the shell is closed: its locks go with it. *)
GiveUp(s) == /\ at[s] \in Ensuring /\ Fault
             /\ Fail(s)
             /\ UNCHANGED <<supervisors, files, starts, killed>>

-----------------------------------------------------------------------------
(* The turn. *)

Register(s) == /\ at[s] = "got"
               /\ IF Serving(got[s])
                  THEN leases' = [leases EXCEPT ![got[s]] = @ \cup {s}] /\ Proceed(s, "turn")
                  ELSE Rest(s) /\ UNCHANGED <<leases, startup>>
               /\ UNCHANGED <<phase, key, release, engine, asked, memory, files, starts, faults, killed>>

(* admit_and_wait: a call is persisted before its worker may run it. *)
Admit(s) == /\ at[s] = "turn" /\ Serving(got[s]) /\ s \in leases[got[s]]
            /\ memory' = [memory EXCEPT ![got[s]] = @ \cup {s}]
            /\ journal' = memory'[got[s]]
            /\ Proceed(s, "tool")
            /\ UNCHANGED <<phase, key, release, engine, asked, leases, file, starts, faults, killed>>

Complete(s) == /\ at[s] = "tool"
               /\ IF Serving(got[s])
                  THEN memory' = [memory EXCEPT ![got[s]] = @ \ {s}] /\ journal' = memory'[got[s]]
                  ELSE UNCHANGED <<memory, journal>>
               /\ Proceed(s, "turn")
               /\ UNCHANGED <<phase, key, release, engine, asked, leases, file, starts, faults, killed>>

EndTurn(s) == /\ at[s] = "turn"
              /\ leases' = [leases EXCEPT ![got[s]] = @ \ {s}]
              /\ Rest(s)
              /\ UNCHANGED <<startup, phase, key, release, engine, asked, memory, files, starts, faults, killed>>

(* The shell is closed in its turn: the lease is left to expire. *)
Vanish(s) == /\ at[s] \in {"turn", "tool"} /\ Fault
             /\ Rest(s)
             /\ UNCHANGED <<startup, supervisors, files, starts, killed>>

Expire(i) == /\ \E s \in leases[i] : /\ ~(at[s] \in {"turn", "tool"} /\ got[s] = i)
                                     /\ leases' = [leases EXCEPT ![i] = @ \ {s}]
             /\ UNCHANGED <<shells, phase, key, release, engine, asked, memory, files, starts, faults, killed>>

-----------------------------------------------------------------------------
(* run_supervisor. *)

Enter(i, step) == phase' = [phase EXCEPT ![i] = step]
Die(i) == /\ Enter(i, "gone")
          /\ asked' = [asked EXCEPT ![i] = FALSE]
          /\ leases' = [leases EXCEPT ![i] = {}] /\ memory' = [memory EXCEPT ![i] = {}]

Owned(k) == \E j \in Supervisors : key[j] = k /\ phase[j] \in Owning
TakeLock(i) == /\ phase[i] = "boot"
               /\ Enter(i, IF Owned(key[i]) THEN "gone" ELSE "starting")
               /\ UNCHANGED <<shells, key, release, engine, asked, leases, memory, files, starts, faults, killed>>

(* Three starts failed; each engine was terminated. *)
FailStart(i) == /\ phase[i] = "starting" /\ Fault
                /\ Die(i)
                /\ UNCHANGED <<shells, key, release, engine, files, starts, killed>>

(* The engine is healthy; write_state and Bridge::open_default. *)
Publish(i) == /\ phase[i] = "starting"
              /\ engine' = [engine EXCEPT ![i] = "up"]
              /\ file' = [file EXCEPT ![key[i]] = i]
              /\ memory' = [memory EXCEPT ![i] = journal]
              /\ Enter(i, "serving")
              /\ UNCHANGED <<shells, key, release, asked, leases, journal, starts, faults, killed>>

(* Either fails: the process ends and leaves its engine behind. *)
FailPublish(i) == /\ phase[i] = "starting" /\ Fault
                  /\ engine' = [engine EXCEPT ![i] = "up"]
                  /\ \/ file' = [file EXCEPT ![key[i]] = i]
                     \/ UNCHANGED file
                  /\ Die(i)
                  /\ killed' = killed \cup {i}
                  /\ UNCHANGED <<shells, key, release, journal, starts>>

Leave(i) == /\ phase[i] = "serving" /\ (asked[i] \/ engine[i] = "dead")
            /\ Enter(i, "stopping")
            /\ UNCHANGED <<shells, key, release, engine, asked, leases, memory, files, starts, faults, killed>>

(* A lease's worker polls more often than the shortest idle timeout. *)
IdleOut(i) == /\ phase[i] = "serving" /\ leases[i] = {}
              /\ Enter(i, "stopping")
              /\ UNCHANGED <<shells, key, release, engine, asked, leases, memory, files, starts, faults, killed>>

ForgetEngine(i) == /\ phase[i] = "stopping"
                   /\ Enter(i, "removing")
                   /\ UNCHANGED <<shells, key, release, engine, asked, leases, memory, files, starts, faults, killed>>
Terminate(i) == /\ phase[i] = "stopping"
                /\ engine' = [engine EXCEPT ![i] = "none"]
                /\ Enter(i, "removing")
                /\ UNCHANGED <<shells, key, release, asked, leases, memory, files, starts, faults, killed>>

(* remove_state_if_nonce. *)
RemoveState(i) == /\ phase[i] = "removing"
                  /\ file' = IF file[key[i]] = i THEN [file EXCEPT ![key[i]] = None] ELSE file
                  /\ Enter(i, "unlocking")
                  /\ UNCHANGED <<shells, key, release, engine, asked, leases, memory, journal, starts, faults, killed>>

Exit(i) == /\ phase[i] = "unlocking"
           /\ Die(i)
           /\ UNCHANGED <<shells, key, release, engine, files, starts, faults, killed>>

Kill(i) == /\ phase[i] \in Owning \cup {"boot"} /\ Fault
           /\ Die(i)
           /\ killed' = killed \cup {i}
           /\ UNCHANGED <<shells, key, release, engine, files, starts>>

EngineDies(i) == /\ engine[i] = "up" /\ phase[i] # "gone" /\ Fault
                 /\ engine' = [engine EXCEPT ![i] = "dead"]
                 /\ UNCHANGED <<shells, phase, key, release, asked, leases, memory, files, starts, killed>>

(* aishe backend stop, and a change of a connection or credential. *)
StopBackend(k) == /\ Fault /\ Verified(k)
                  /\ AskStop(k)
                  /\ UNCHANGED <<shells, phase, key, release, engine, leases, memory, files, starts, killed>>

(* aishe backend gc --kill-orphans: engines whose parent is gone. *)
KillOrphans == /\ \E i \in Supervisors : phase[i] = "gone" /\ engine[i] = "up"
               /\ engine' = [i \in Supervisors |-> IF phase[i] = "gone" /\ engine[i] = "up" THEN "none" ELSE engine[i]]
               /\ UNCHANGED <<shells, phase, key, release, asked, leases, memory, files, starts, faults, killed>>

-----------------------------------------------------------------------------
Init == /\ at = [s \in Shells |-> "idle"] /\ want = [s \in Shells |-> NoKey]
        /\ got = [s \in Shells |-> None] /\ victims = [s \in Shells |-> {}]
        /\ startup = [k \in Keys |-> {}]
        /\ phase = [i \in Supervisors |-> "unborn"] /\ key = [i \in Supervisors |-> NoKey]
        /\ release = [i \in Supervisors |-> Release[CHOOSE s \in Shells : TRUE]]
        /\ engine = [i \in Supervisors |-> "none"] /\ asked = [i \in Supervisors |-> FALSE]
        /\ leases = [i \in Supervisors |-> {}] /\ memory = [i \in Supervisors |-> {}]
        /\ file = [k \in Keys |-> None] /\ journal = {} /\ starts = 0 /\ faults = 0 /\ killed = {}

Ensure(s) == Look(s) \/ Lock(s) \/ Relook(s) \/ Replace(s) \/ Replaced(s) \/ Count(s)
             \/ Evict(s) \/ Drain(s) \/ Spawn(s) \/ Await(s) \/ TimeOut(s)
Run(i) == TakeLock(i) \/ Publish(i) \/ Leave(i) \/ Terminate(i) \/ RemoveState(i) \/ Exit(i)
Turn(s) == Register(s) \/ Admit(s) \/ Complete(s) \/ EndTurn(s)

Next == \/ \E s \in Shells : (\E k \in Keys : Ask(s, k)) \/ Ensure(s) \/ Turn(s) \/ GiveUp(s) \/ Vanish(s)
        \/ \E i \in Supervisors : Run(i) \/ FailStart(i) \/ FailPublish(i) \/ IdleOut(i) \/ Expire(i) \/ Kill(i) \/ EngineDies(i)
        \/ (\E k \in Keys : StopBackend(k)) \/ KillOrphans

Spec == Init /\ [][Next]_vars

(* A shell in ensure_running and a supervisor take their next steps. *)
FairSpec == /\ Spec
            /\ \A s \in Shells : WF_vars(Ensure(s))
            /\ \A i \in Supervisors : WF_vars(Run(i))

-----------------------------------------------------------------------------
(* Properties. *)

(* A supervisor that serves can be found: the state file of its key names  *)
(* it.  Neither a client that cleans up after a dead one nor a supervisor  *)
(* that leaves removes another's file (remove_stale_state,                 *)
(* remove_state_if_nonce).                                                 *)
LiveRecorded == \A i \in Supervisors : phase[i] = "serving" => file[key[i]] = i

(* Two engines run on the same private tree only if a supervisor was       *)
(* killed, or failed between starting its engine and serving.              *)
OneEngine == \A i, j \in Supervisors :
                i # j /\ key[i] = key[j] /\ engine[i] = "up" /\ engine[j] = "up" => i \in killed \/ j \in killed

(* ensure_running never hands out a backend of another launch identity, or *)
(* one that another release of aishe has started in the meantime.          *)
Matched == \A s \in Shells : at[s] \in Turning => key[got[s]] = want[s] /\ release[got[s]] = Release[s]

(* ensure_running returns, with a backend or an error, whoever holds the   *)
(* startup locks of the keys involved and whatever dies.                   *)
Ensured == \A s \in Shells : at[s] \in Ensuring ~> at[s] \notin Ensuring

(* A call that runs is in the journal. *)
JournaledFirst == \A s \in Shells : at[s] = "tool" => s \in journal

-----------------------------------------------------------------------------
(* The inductive invariant. *)

(* supervisor.lock has one holder. *)
LocksOK == \A i, j \in Supervisors :
              i # j /\ key[i] = key[j] => phase[i] \notin Owning \/ phase[j] \notin Owning

FilesOK == \A k \in Keys : file[k] # None => key[file[k]] = k /\ phase[file[k]] \notin {"unborn", "boot"}

(* An engine is up under its supervisor, or left by one that was killed. *)
EnginesOK == \A i \in Supervisors :
                /\ engine[i] = "up" => phase[i] \in {"serving", "stopping"} \/ i \in killed
                /\ phase[i] = "serving" => engine[i] # "none"
                /\ i \in killed => phase[i] = "gone"

TurnsOK == \A s \in Shells : at[s] \in Turning => got[s] # None /\ phase[got[s]] # "unborn"

IInv == TypeOK /\ LocksOK /\ FilesOK /\ EnginesOK /\ LiveRecorded /\ TurnsOK /\ Matched

=============================================================================
