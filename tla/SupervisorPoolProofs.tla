------------------------ MODULE SupervisorPoolProofs ------------------------
(* For any number of shells, launch identities, starts and faults: a serving  *)
(* supervisor can be found, two engines share a tree only after a supervisor  *)
(* was killed, and a turn runs on a backend of its own identity and release.  *)
EXTENDS SupervisorPool, TLAPS

LEMMA Bounds == MaxStarts \in Nat /\ MaxFaults \in Nat /\ Supervisors = 1 .. MaxStarts /\ None \notin Supervisors
  BY BoundsAssumption DEF Supervisors, None

LEMMA Faulty == ASSUME TypeOK, Fault PROVE faults' \in 0 .. MaxFaults
  BY Bounds DEF Fault, TypeOK

(* The parts of the state an action of a shell, of a supervisor, types. *)
ShellsTyped == /\ at \in [Shells -> {"idle"} \cup Ensuring \cup Turning]
               /\ want \in [Shells -> Keys]
               /\ got \in [Shells -> Supervisors \cup {None}]
               /\ victims \in [Shells -> SUBSET Keys]
               /\ startup \in [Keys -> SUBSET Shells]
SupervisorsTyped == /\ phase \in [Supervisors -> Phases]
                    /\ key \in [Supervisors -> Keys] /\ release \in [Supervisors -> {Release[s] : s \in Shells}]
                    /\ engine \in [Supervisors -> {"none", "up", "dead"}]
                    /\ asked \in [Supervisors -> BOOLEAN]
                    /\ leases \in [Supervisors -> SUBSET Shells] /\ memory \in [Supervisors -> SUBSET Shells]
RestTyped == /\ file \in [Keys -> Supervisors \cup {None}]
             /\ journal \subseteq Shells
             /\ starts \in 0 .. MaxStarts /\ faults \in 0 .. MaxFaults /\ killed \subseteq Supervisors

LEMMA Parts == TypeOK <=> ShellsTyped /\ SupervisorsTyped /\ RestTyped
  BY DEF TypeOK, ShellsTyped, SupervisorsTyped, RestTyped

LEMMA PartsAfter == TypeOK' <=> ShellsTyped' /\ SupervisorsTyped' /\ RestTyped'
  BY DEF TypeOK, ShellsTyped, SupervisorsTyped, RestTyped

LEMMA SomeKey == ASSUME NEW s \in Shells, TypeOK PROVE NoKey \in Keys
  BY DEF TypeOK, NoKey

-----------------------------------------------------------------------------
(* What the ends of a step leave. *)

LEMMA Restful == ASSUME NEW s \in Shells, ShellsTyped, NoKey \in Keys, Rest(s), UNCHANGED startup \/ Unlock(s) PROVE ShellsTyped'
  BY DEF Rest, Go, Unlock, ShellsTyped

LEMMA Returned == ASSUME NEW s \in Shells, ShellsTyped, NEW i \in Supervisors, Return(s, i) PROVE ShellsTyped'
  BY DEF Return, Go, Unlock, ShellsTyped, Turning

LEMMA Proceeded == ASSUME NEW s \in Shells, ShellsTyped, NEW step \in Ensuring \cup Turning, Proceed(s, step) PROVE ShellsTyped'
  BY DEF Proceed, Go, ShellsTyped

(* A shell's own state stays typed, whatever step it takes. *)
LEMMA ShellKept ==
  ASSUME NEW s \in Shells, TypeOK,
         (\E k \in Keys : Ask(s, k)) \/ Ensure(s) \/ Turn(s) \/ GiveUp(s) \/ Vanish(s)
  PROVE  ShellsTyped'
<1>0. ShellsTyped /\ SupervisorsTyped /\ RestTyped /\ NoKey \in Keys
  BY Parts, SomeKey
<1>1. ASSUME Serving(file[want[s]]) PROVE file[want[s]] \in Supervisors
  BY <1>0, <1>1, Bounds DEF Serving, ShellsTyped, RestTyped
<1>2. ASSUME Fail(s) PROVE ShellsTyped'
  BY <1>0, <1>2, Restful DEF Fail
<1>3. ASSUME NEW step \in Ensuring \cup Turning, Proceed(s, step) PROVE ShellsTyped'
  BY <1>0, <1>3, Proceeded
<1>4. ASSUME Verified(want[s]), Return(s, file[want[s]]) PROVE ShellsTyped'
  BY <1>0, <1>1, <1>4, Returned DEF Verified
<1>5. CASE \E k \in Keys : Ask(s, k)
  BY <1>0, <1>5 DEF Ask, Go, ShellsTyped, Ensuring
<1>6. CASE Look(s)
  BY <1>3, <1>4, <1>6 DEF Look, Ensuring
<1>7. CASE Lock(s)
  BY <1>0, <1>7 DEF Lock, Go, ShellsTyped, Ensuring
<1>8. CASE Relook(s)
  <2>1. ASSUME RemoveStale(s) PROVE ShellsTyped'
    BY <2>1, <1>2, <1>3 DEF RemoveStale, Ensuring
  <2>. QED  BY <1>3, <1>4, <1>8, <2>1 DEF Relook, Ensuring
<1>9. CASE Replace(s) \/ Replaced(s) \/ Evict(s)
  BY <1>3, <1>9 DEF Replace, Replaced, Evict, Ensuring
<1>10. CASE Count(s)
  <2>1. CASE Fail(s)
    BY <2>1, <1>2
  <2>2. CASE \E chosen \in SUBSET IdleOthers(s) :
                     /\ victims' = [victims EXCEPT ![s] = chosen]
                     /\ Go(s, IF chosen = {} THEN "spawn" ELSE "evict")
                     /\ UNCHANGED <<want, got, startup>>
    <3>1. PICK chosen \in SUBSET IdleOthers(s) :
                     /\ victims' = [victims EXCEPT ![s] = chosen]
                     /\ Go(s, IF chosen = {} THEN "spawn" ELSE "evict")
                     /\ UNCHANGED <<want, got, startup>>
      BY <2>2
    <3>2. chosen \subseteq Keys
      BY DEF IdleOthers, Others
    <3>. QED  BY <1>0, <3>1, <3>2 DEF Go, ShellsTyped, Ensuring
  <2>. QED  BY <1>10, <2>1, <2>2 DEF Count
<1>11. CASE Drain(s)
  BY <1>0, <1>11 DEF Drain, Go, ShellsTyped, Ensuring
<1>12. CASE Spawn(s)
  BY <1>3, <1>12 DEF Spawn, Ensuring
<1>13. CASE Await(s)
  BY <1>2, <1>4, <1>13 DEF Await
<1>14. CASE TimeOut(s) \/ GiveUp(s)
  BY <1>2, <1>14 DEF TimeOut, GiveUp
<1>15. CASE Register(s)
  <2>1. CASE Proceed(s, "turn")
    BY <1>3, <2>1 DEF Turning
  <2>2. CASE Rest(s) /\ UNCHANGED startup
    BY <1>0, <2>2, Restful
  <2>. QED  BY <1>15, <2>1, <2>2 DEF Register
<1>16. CASE Admit(s) \/ Complete(s)
  BY <1>3, <1>16 DEF Admit, Complete, Turning
<1>17. CASE EndTurn(s) \/ Vanish(s)
  <2>1. Rest(s) /\ UNCHANGED startup
    BY <1>17 DEF EndTurn, Vanish
  <2>. QED  BY <1>0, <2>1, Restful
<1>. QED  BY <1>5, <1>6, <1>7, <1>8, <1>9, <1>10, <1>11, <1>12, <1>13, <1>14, <1>15, <1>16, <1>17 DEF Ensure, Turn

(* What a shell's step does to the supervisors and the files. *)
LEMMA OthersKept ==
  ASSUME NEW s \in Shells, TypeOK,
         (\E k \in Keys : Ask(s, k)) \/ Ensure(s) \/ Turn(s) \/ GiveUp(s) \/ Vanish(s)
  PROVE  SupervisorsTyped' /\ RestTyped'
<1>. USE Bounds, Faulty
<1>0. ShellsTyped /\ SupervisorsTyped /\ RestTyped
  BY Parts
<1>1. ASSUME UNCHANGED supervisors PROVE SupervisorsTyped'
  BY <1>0, <1>1 DEF SupervisorsTyped, supervisors
<1>2. ASSUME UNCHANGED <<files, starts, killed>>, UNCHANGED faults \/ Fault PROVE RestTyped'
  BY <1>0, <1>2 DEF RestTyped, files
<1>3. ASSUME NEW k \in Keys, StopRequest(k), UNCHANGED <<phase, key, release, engine, leases, memory>>
      PROVE  SupervisorsTyped' /\ (UNCHANGED faults \/ Fault)
  BY <1>0, <1>3 DEF StopRequest, AskStop, SupervisorsTyped
<1>4. CASE \E k \in Keys : Ask(s, k)
  <2>1. starts' \in 0 .. MaxStarts
    BY <1>0, <1>4 DEF Ask, RestTyped
  <2>. QED  BY <1>0, <1>1, <1>4, <2>1 DEF Ask, RestTyped, files
<1>5. CASE Look(s)
  BY <1>1, <1>2, <1>5 DEF Look
<1>6. CASE Lock(s) \/ Await(s) \/ Count(s)
  BY <1>1, <1>2, <1>6 DEF Lock, Await, Count
<1>7. CASE Relook(s)
  <2>1. file' = file \/ file' = [file EXCEPT ![want[s]] = None]
    BY <1>7 DEF Relook, RemoveStale
  <2>2. faults' \in 0 .. MaxFaults
    BY <1>0, <1>7 DEF Relook, RestTyped
  <2>3. UNCHANGED <<supervisors, journal, starts, killed>>
    BY <1>7 DEF Relook
  <2>. QED  BY <1>0, <1>1, <2>1, <2>2, <2>3 DEF RestTyped
<1>8. CASE Replace(s)
  BY <1>0, <1>2, <1>3, <1>8 DEF Replace, ShellsTyped
<1>9. CASE Replaced(s)
  BY <1>1, <1>2, <1>9 DEF Replaced, Waited
<1>10. CASE Evict(s)
  <2>1. StopRequest(Victim(s)) /\ UNCHANGED <<phase, key, release, engine, leases, memory, files, starts, killed>>
    BY <1>10 DEF Evict
  <2>2. asked' \in [Supervisors -> BOOLEAN] /\ (UNCHANGED faults \/ Fault)
    BY <1>0, <2>1 DEF StopRequest, AskStop, SupervisorsTyped
  <2>. QED  BY <1>0, <1>2, <2>1, <2>2 DEF SupervisorsTyped
<1>11. CASE Drain(s)
  BY <1>1, <1>2, <1>11 DEF Drain, Waited
<1>12. CASE Spawn(s)
  <2>1. SupervisorsTyped'
    BY <1>0, <1>12 DEF Spawn, SupervisorsTyped, ShellsTyped, Phases
  <2>. QED  BY <1>2, <1>12, <2>1 DEF Spawn
<1>13. CASE TimeOut(s) \/ GiveUp(s) \/ Vanish(s)
  BY <1>1, <1>2, <1>13 DEF TimeOut, GiveUp, Vanish
<1>14. CASE Register(s) \/ EndTurn(s)
  <2>1. leases' \in [Supervisors -> SUBSET Shells]
    <3>1. \/ UNCHANGED leases
          \/ leases' = [leases EXCEPT ![got[s]] = @ \cup {s}]
          \/ leases' = [leases EXCEPT ![got[s]] = @ \ {s}]
      BY <1>14 DEF Register, EndTurn
    <3>2. leases \in [Supervisors -> SUBSET Shells]
      BY <1>0 DEF SupervisorsTyped
    <3>. QED  BY ONLY <3>1, <3>2, s \in Shells
  <2>. QED  BY <1>0, <1>2, <1>14, <2>1 DEF Register, EndTurn, SupervisorsTyped
<1>15. CASE Admit(s) \/ Complete(s)
  <2>1. memory' \in [Supervisors -> SUBSET Shells]
    BY <1>0, <1>15 DEF Admit, Complete, SupervisorsTyped
  <2>2. journal' \subseteq Shells
    <3>1. Serving(got[s]) => got[s] \in Supervisors
      BY <1>0 DEF Serving, ShellsTyped
    <3>. QED  BY <1>0, <1>15, <2>1, <3>1 DEF Admit, Complete, RestTyped
  <2>. QED  BY <1>0, <1>15, <2>1, <2>2 DEF Admit, Complete, SupervisorsTyped, RestTyped
<1>. QED  BY <1>4, <1>5, <1>6, <1>7, <1>8, <1>9, <1>10, <1>11, <1>12, <1>13, <1>14, <1>15 DEF Ensure, Turn

LEMMA Died == ASSUME SupervisorsTyped, NEW i \in Supervisors, Die(i), UNCHANGED <<key, release>>, engine' \in [Supervisors -> {"none", "up", "dead"}]
              PROVE  SupervisorsTyped'
  BY DEF SupervisorsTyped, Die, Enter, Phases

(* Every step of a supervisor keeps the types. *)
LEMMA SupervisorKept ==
  ASSUME TypeOK, NEW i \in Supervisors,
         Run(i) \/ FailStart(i) \/ FailPublish(i) \/ IdleOut(i) \/ Expire(i) \/ Kill(i) \/ EngineDies(i)
  PROVE  TypeOK'
<1>. USE Bounds, Faulty
<1>0. ShellsTyped /\ SupervisorsTyped /\ RestTyped
  BY Parts
<1>1. ShellsTyped'
  <2>1. UNCHANGED shells
    BY DEF Run, TakeLock, Publish, Leave, Terminate, RemoveState, Exit, FailStart, FailPublish, IdleOut, Expire, Kill, EngineDies
  <2>. QED  BY <1>0, <2>1 DEF shells, ShellsTyped
<1>. SUFFICES SupervisorsTyped' /\ RestTyped'
  BY <1>1, PartsAfter
<1>2. CASE TakeLock(i) \/ Leave(i) \/ IdleOut(i)
  BY <1>0, <1>2 DEF TakeLock, Leave, IdleOut, Enter, Owned, SupervisorsTyped, RestTyped, files, Phases, Owning
<1>3. CASE Publish(i)
  BY <1>0, <1>3 DEF Publish, Enter, SupervisorsTyped, RestTyped, Phases, Owning
<1>4. CASE Terminate(i)
  BY <1>0, <1>4 DEF Terminate, Enter, SupervisorsTyped, RestTyped, files, Phases, Owning
<1>8. CASE RemoveState(i)
  BY <1>0, <1>8 DEF RemoveState, Enter, SupervisorsTyped, RestTyped, Phases, Owning
<1>5. CASE Exit(i) \/ FailStart(i) \/ Kill(i)
  <2>1. Die(i) /\ UNCHANGED <<key, release, engine, files, starts>>
    BY <1>5 DEF Exit, FailStart, Kill
  <2>2. faults' \in 0 .. MaxFaults /\ killed' \subseteq Supervisors
    BY <1>0, <1>5 DEF Exit, FailStart, Kill, RestTyped
  <2>3. SupervisorsTyped'
    BY <1>0, <2>1, Died DEF SupervisorsTyped
  <2>. QED  BY <1>0, <2>1, <2>2, <2>3 DEF RestTyped, files
<1>6. CASE FailPublish(i)
  <2>1. engine' \in [Supervisors -> {"none", "up", "dead"}]
    BY <1>0, <1>6 DEF FailPublish, SupervisorsTyped
  <2>2. SupervisorsTyped'
    BY <1>0, <1>6, <2>1, Died DEF FailPublish
  <2>3. file' \in [Keys -> Supervisors \cup {None}]
    BY <1>0, <1>6 DEF FailPublish, RestTyped, SupervisorsTyped
  <2>. QED  BY <1>0, <1>6, <2>2, <2>3 DEF FailPublish, RestTyped
<1>7. CASE Expire(i)
  <2>1. leases' \in [Supervisors -> SUBSET Shells]
    BY <1>0, <1>7 DEF Expire, SupervisorsTyped
  <2>. QED  BY <1>0, <1>7, <2>1 DEF Expire, SupervisorsTyped, RestTyped, files
<1>9. CASE EngineDies(i)
  BY <1>0, <1>9 DEF EngineDies, SupervisorsTyped, RestTyped, files
<1>. QED  BY <1>2, <1>3, <1>4, <1>5, <1>6, <1>7, <1>8, <1>9 DEF Run

(* Every action keeps the types. *)
LEMMA Typed == ASSUME TypeOK, Next PROVE TypeOK'
<1>1. ASSUME NEW s \in Shells, (\E k \in Keys : Ask(s, k)) \/ Ensure(s) \/ Turn(s) \/ GiveUp(s) \/ Vanish(s) PROVE TypeOK'
  BY <1>1, ShellKept, OthersKept, PartsAfter
<1>2. ASSUME NEW i \in Supervisors,
             Run(i) \/ FailStart(i) \/ FailPublish(i) \/ IdleOut(i) \/ Expire(i) \/ Kill(i) \/ EngineDies(i)
      PROVE  TypeOK'
  BY <1>2, SupervisorKept
<1>3. ASSUME NEW k \in Keys, StopBackend(k) PROVE TypeOK'
  BY <1>3, Faulty DEF StopBackend, AskStop, TypeOK, shells, files
<1>4. CASE KillOrphans
  BY <1>4 DEF KillOrphans, TypeOK, shells, files
<1>. QED  BY <1>1, <1>2, <1>3, <1>4 DEF Next

-----------------------------------------------------------------------------
(* The invariant.  A shell's step changes no supervisor but a new one, and   *)
(* no file but a stale one.                                                   *)

Safe == LocksOK /\ FilesOK /\ EnginesOK /\ LiveRecorded

LEMMA ShellSafe ==
  ASSUME IInv, NEW s \in Shells,
         (\E k \in Keys : Ask(s, k)) \/ Ensure(s) \/ Turn(s) \/ GiveUp(s) \/ Vanish(s)
  PROVE  Safe' /\ \A i \in Supervisors : phase[i] # "unborn" =>
                     phase'[i] = phase[i] /\ key'[i] = key[i] /\ release'[i] = release[i]
<1>. USE Bounds
<1>0. TypeOK /\ LocksOK /\ FilesOK /\ EnginesOK /\ LiveRecorded
  BY DEF IInv
<1>1. ASSUME UNCHANGED <<phase, key, release, engine, file, killed>>
      PROVE  Safe' /\ \A i \in Supervisors : phase'[i] = phase[i] /\ key'[i] = key[i] /\ release'[i] = release[i]
  BY <1>0, <1>1 DEF Safe, LocksOK, FilesOK, EnginesOK, LiveRecorded
<1>2. CASE Spawn(s)
  <2>1. PICK i \in Supervisors : /\ phase[i] = "unborn"
                                 /\ phase' = [phase EXCEPT ![i] = "boot"]
                                 /\ key' = [key EXCEPT ![i] = want[s]]
                                 /\ release' = [release EXCEPT ![i] = Release[s]]
                                 /\ UNCHANGED <<engine, files, killed>>
    BY <1>2 DEF Spawn
  <2>2. \A j \in Supervisors : j # i => phase'[j] = phase[j] /\ key'[j] = key[j] /\ release'[j] = release[j]
    BY <1>0, <2>1 DEF TypeOK
  <2>3. phase'[i] = "boot"
    BY <1>0, <2>1 DEF TypeOK
  <2>4. \A k \in Keys : file'[k] = file[k] /\ file[k] # i /\ file[k] \in Supervisors \cup {None}
    BY <1>0, <2>1 DEF TypeOK, FilesOK, files
  <2>5. LocksOK'
    BY <1>0, <2>2, <2>3 DEF LocksOK, Owning
  <2>6. FilesOK'
    BY <1>0, <2>2, <2>4 DEF FilesOK
  <2>7. EnginesOK'
    BY <1>0, <2>1, <2>2, <2>3 DEF EnginesOK
  <2>8. LiveRecorded'
    BY <1>0, <2>1, <2>2, <2>3, <2>4 DEF LiveRecorded, TypeOK
  <2>. QED  BY <2>1, <2>2, <2>5, <2>6, <2>7, <2>8 DEF Safe
<1>3. CASE Relook(s)
  <2>1. UNCHANGED <<phase, key, release, engine, killed>> /\ want[s] \in Keys
    BY <1>0, <1>3 DEF Relook, supervisors, TypeOK
  <2>2. UNCHANGED file \/ /\ file' = [file EXCEPT ![want[s]] = None]
                          /\ file[want[s]] # None => ~ProcessesExist(file[want[s]])
    BY <1>3 DEF Relook, RemoveStale
  <2>3. CASE UNCHANGED file
    BY <1>1, <2>1, <2>3
  <2>4. CASE /\ file' = [file EXCEPT ![want[s]] = None]
             /\ file[want[s]] # None => ~ProcessesExist(file[want[s]])
    <3>1. \A i \in Supervisors : phase[i] = "serving" => ProcessesExist(i)
      BY <1>0 DEF EnginesOK, ProcessesExist, TypeOK
    <3>2. \A k \in Keys : file'[k] = IF k = want[s] THEN None ELSE file[k]
      BY <1>0, <2>4 DEF TypeOK
    <3>3. LiveRecorded'
      BY <1>0, <2>1, <2>4, <3>1, <3>2 DEF LiveRecorded, TypeOK
    <3>4. LocksOK' /\ EnginesOK'
      BY <1>0, <2>1 DEF LocksOK, EnginesOK
    <3>5. FilesOK'
      BY <1>0, <2>1, <3>2 DEF FilesOK
    <3>. QED  BY <2>1, <3>3, <3>4, <3>5 DEF Safe
  <2>. QED  BY <2>2, <2>3, <2>4
<1>4. CASE ~Spawn(s) /\ ~Relook(s)
  <2>1. UNCHANGED <<phase, key, release, engine, file, killed>>
    BY <1>4 DEF Ask, Ensure, Turn, GiveUp, Vanish, Look, Lock, Replace, Replaced, Count, Evict, Drain, Await, TimeOut,
                Register, Admit, Complete, EndTurn, supervisors, files
  <2>. QED  BY <1>1, <2>1
<1>. QED  BY <1>2, <1>3, <1>4

(* A step of one supervisor, by what it makes of its phase. *)
LEMMA SupervisorSafe ==
  ASSUME IInv, NEW i \in Supervisors,
         Run(i) \/ FailStart(i) \/ FailPublish(i) \/ IdleOut(i) \/ Expire(i) \/ Kill(i) \/ EngineDies(i)
  PROVE  Safe' /\ UNCHANGED <<key, release>> /\ \A j \in Supervisors : phase[j] # "unborn" => phase'[j] # "unborn"
<1>. USE Bounds
<1>0. TypeOK /\ LocksOK /\ FilesOK /\ EnginesOK /\ LiveRecorded
  BY DEF IInv
<1>1. UNCHANGED <<key, release>>
  BY DEF Run, TakeLock, Publish, Leave, Terminate, RemoveState, Exit, FailStart, FailPublish, IdleOut, Expire, Kill, EngineDies, supervisors
<1>2. ASSUME NEW step \in Phases \ {"unborn"}, Enter(i, step)
      PROVE  /\ phase'[i] = step /\ \A j \in Supervisors \ {i} : phase'[j] = phase[j]
             /\ \A j \in Supervisors : phase[j] # "unborn" => phase'[j] # "unborn"
  BY <1>0, <1>2 DEF Enter, TypeOK
<1>3. ASSUME phase[i] \in Owning, NEW step \in Owning \cup {"gone"}, Enter(i, step)
      PROVE  LocksOK'
  BY <1>0, <1>1, <1>2, <1>3 DEF LocksOK, Phases, Owning
<1>4. ASSUME NEW step \in Phases \ {"unborn", "boot"}, Enter(i, step), UNCHANGED file
      PROVE  FilesOK'
  BY <1>0, <1>1, <1>2, <1>4 DEF FilesOK, TypeOK
<1>5. ASSUME NEW step \in Phases \ {"unborn", "boot", "serving"}, Enter(i, step), UNCHANGED file
      PROVE  LiveRecorded'
  BY <1>0, <1>1, <1>2, <1>5 DEF LiveRecorded
<1>6. CASE TakeLock(i)
  <2>1. phase[i] = "boot" /\ UNCHANGED <<file, engine, killed>>
    BY <1>6 DEF TakeLock, files
  <2>2. PICK step \in {"gone", "starting"} : Enter(i, step) /\ (step = "starting" => ~Owned(key[i]))
    BY <1>6 DEF TakeLock
  <2>3. phase'[i] = step /\ (\A j \in Supervisors \ {i} : phase'[j] = phase[j]) /\ \A j \in Supervisors : phase[j] # "unborn" => phase'[j] # "unborn"
    BY <1>2, <2>2 DEF Phases, Owning
  <2>4. LocksOK'
    BY <1>0, <1>1, <2>2, <2>3 DEF LocksOK, Owned, Owning
  <2>5. FilesOK' /\ LiveRecorded'
    BY <1>4, <1>5, <2>1, <2>2 DEF Phases, Owning
  <2>6. EnginesOK'
    BY <1>0, <2>1, <2>3 DEF EnginesOK
  <2>. QED  BY <1>1, <2>3, <2>4, <2>5, <2>6 DEF Safe
<1>7. CASE Publish(i)
  <2>1. /\ phase[i] = "starting" /\ Enter(i, "serving") /\ UNCHANGED killed
        /\ engine' = [engine EXCEPT ![i] = "up"] /\ file' = [file EXCEPT ![key[i]] = i]
    BY <1>7 DEF Publish
  <2>2. phase'[i] = "serving" /\ (\A j \in Supervisors \ {i} : phase'[j] = phase[j]) /\ \A j \in Supervisors : phase[j] # "unborn" => phase'[j] # "unborn"
    BY <1>2, <2>1 DEF Phases, Owning
  <2>3. LocksOK'
    BY <1>3, <2>1 DEF Owning
  <2>4. /\ \A k \in Keys : file'[k] = IF k = key[i] THEN i ELSE file[k]
        /\ \A j \in Supervisors : engine'[j] = IF j = i THEN "up" ELSE engine[j]
    BY <1>0, <2>1 DEF TypeOK
  <2>5. FilesOK'
    <3>. SUFFICES ASSUME NEW k \in Keys, file'[k] # None PROVE key'[file'[k]] = k /\ phase'[file'[k]] \notin {"unborn", "boot"}
      BY DEF FilesOK
    <3>1. CASE k = key[i]
      BY <1>1, <2>2, <2>4, <3>1
    <3>2. CASE k # key[i]
      <4>1. file'[k] = file[k] /\ file[k] \in Supervisors
        BY <1>0, <2>4, <3>2 DEF TypeOK
      <4>2. key[file[k]] = k /\ phase[file[k]] \notin {"unborn", "boot"} /\ file[k] # i
        BY <1>0, <3>2, <4>1 DEF FilesOK
      <4>. QED  BY <1>1, <2>2, <4>1, <4>2
    <3>. QED  BY <3>1, <3>2
  <2>6. \A j \in Supervisors \ {i} : key[j] = key[i] => phase[j] # "serving"
    BY <1>0, <2>1 DEF LocksOK, Owning
  <2>7. LiveRecorded'
    BY <1>0, <1>1, <2>2, <2>4, <2>6, ZenonT(40) DEF LiveRecorded, TypeOK
  <2>8. EnginesOK'
    BY <1>0, <2>1, <2>2, <2>4 DEF EnginesOK
  <2>. QED  BY <1>1, <2>2, <2>3, <2>5, <2>7, <2>8 DEF Safe
<1>8. CASE Leave(i) \/ IdleOut(i)
  <2>1. phase[i] = "serving" /\ Enter(i, "stopping") /\ UNCHANGED <<engine, killed, file>>
    BY <1>8 DEF Leave, IdleOut, files
  <2>2. phase'[i] = "stopping" /\ (\A j \in Supervisors \ {i} : phase'[j] = phase[j]) /\ \A j \in Supervisors : phase[j] # "unborn" => phase'[j] # "unborn"
    BY <1>2, <2>1 DEF Phases, Owning
  <2>3. LocksOK' /\ FilesOK' /\ LiveRecorded'
    BY <1>3, <1>4, <1>5, <2>1 DEF Phases, Owning
  <2>4. EnginesOK'
    BY <1>0, <2>1, <2>2 DEF EnginesOK
  <2>. QED  BY <1>1, <2>2, <2>3, <2>4 DEF Safe
<1>9. CASE Terminate(i)
  <2>1. phase[i] = "stopping" /\ Enter(i, "removing") /\ engine' = [engine EXCEPT ![i] = "none"] /\ UNCHANGED <<killed, file>>
    BY <1>9 DEF Terminate, files
  <2>2. phase'[i] = "removing" /\ (\A j \in Supervisors \ {i} : phase'[j] = phase[j]) /\ \A j \in Supervisors : phase[j] # "unborn" => phase'[j] # "unborn"
    BY <1>2, <2>1 DEF Phases, Owning
  <2>3. LocksOK' /\ FilesOK' /\ LiveRecorded'
    BY <1>3, <1>4, <1>5, <2>1 DEF Phases, Owning
  <2>4. \A j \in Supervisors : engine'[j] = IF j = i THEN "none" ELSE engine[j]
    BY <1>0, <2>1 DEF TypeOK
  <2>5. EnginesOK'
    BY <1>0, <2>1, <2>2, <2>4 DEF EnginesOK
  <2>. QED  BY <1>1, <2>2, <2>3, <2>5 DEF Safe
<1>10. CASE RemoveState(i)
  <2>1. phase[i] = "removing" /\ Enter(i, "unlocking") /\ UNCHANGED <<engine, killed>>
    BY <1>10 DEF RemoveState
  <2>2. phase'[i] = "unlocking" /\ (\A j \in Supervisors \ {i} : phase'[j] = phase[j]) /\ \A j \in Supervisors : phase[j] # "unborn" => phase'[j] # "unborn"
    BY <1>2, <2>1 DEF Phases, Owning
  <2>3. LocksOK'
    BY <1>3, <2>1 DEF Owning
  <2>4. \A k \in Keys : file'[k] = IF file[k] = i /\ k = key[i] THEN None ELSE file[k]
    BY <1>0, <1>10 DEF RemoveState, TypeOK
  <2>5. FilesOK'
    BY <1>0, <1>1, <2>2, <2>4 DEF FilesOK, TypeOK
  <2>6. LiveRecorded'
    BY <1>0, <1>1, <2>1, <2>2, <2>4 DEF LiveRecorded, TypeOK
  <2>7. EnginesOK'
    BY <1>0, <2>1, <2>2 DEF EnginesOK
  <2>. QED  BY <1>1, <2>2, <2>3, <2>5, <2>6, <2>7 DEF Safe
<1>11. CASE Exit(i) \/ FailStart(i)
  <2>1. phase[i] \in {"unlocking", "starting"} /\ Enter(i, "gone") /\ UNCHANGED <<engine, killed, file>>
    BY <1>11 DEF Exit, FailStart, Die, files
  <2>2. phase'[i] = "gone" /\ (\A j \in Supervisors \ {i} : phase'[j] = phase[j]) /\ \A j \in Supervisors : phase[j] # "unborn" => phase'[j] # "unborn"
    BY <1>2, <2>1 DEF Phases, Owning
  <2>3. LocksOK' /\ FilesOK' /\ LiveRecorded'
    BY <1>3, <1>4, <1>5, <2>1 DEF Phases, Owning
  <2>4. EnginesOK'
    BY <1>0, <2>1, <2>2 DEF EnginesOK
  <2>. QED  BY <1>1, <2>2, <2>3, <2>4 DEF Safe
<1>12. CASE Kill(i)
  <2>1. phase[i] \in Owning \cup {"boot"} /\ Enter(i, "gone") /\ killed' = killed \cup {i} /\ UNCHANGED <<engine, file>>
    BY <1>12 DEF Kill, Die, files
  <2>2. phase'[i] = "gone" /\ (\A j \in Supervisors \ {i} : phase'[j] = phase[j]) /\ \A j \in Supervisors : phase[j] # "unborn" => phase'[j] # "unborn"
    BY <1>2, <2>1 DEF Phases, Owning
  <2>3. LocksOK'
    BY <1>0, <1>1, <2>2 DEF LocksOK, Owning
  <2>4. FilesOK' /\ LiveRecorded'
    BY <1>4, <1>5, <2>1 DEF Phases, Owning
  <2>5. EnginesOK'
    BY <1>0, <2>1, <2>2 DEF EnginesOK
  <2>. QED  BY <1>1, <2>2, <2>3, <2>4, <2>5 DEF Safe
<1>13. CASE FailPublish(i)
  <2>1. /\ phase[i] = "starting" /\ Enter(i, "gone") /\ killed' = killed \cup {i}
        /\ engine' = [engine EXCEPT ![i] = "up"] /\ (file' = [file EXCEPT ![key[i]] = i] \/ file' = file)
    BY <1>13 DEF FailPublish, Die
  <2>2. phase'[i] = "gone" /\ (\A j \in Supervisors \ {i} : phase'[j] = phase[j]) /\ \A j \in Supervisors : phase[j] # "unborn" => phase'[j] # "unborn"
    BY <1>2, <2>1 DEF Phases, Owning
  <2>3. LocksOK'
    BY <1>3, <2>1 DEF Owning
  <2>4. /\ \A k \in Keys : file'[k] = file[k] \/ (k = key[i] /\ file'[k] = i)
        /\ \A j \in Supervisors : engine'[j] = IF j = i THEN "up" ELSE engine[j]
    <3>1. engine \in [Supervisors -> {"none", "up", "dead"}] /\ file \in [Keys -> Supervisors \cup {None}]
      BY <1>0 DEF TypeOK
    <3>2. \A j \in Supervisors : engine'[j] = IF j = i THEN "up" ELSE engine[j]
      BY ONLY <2>1, <3>1
    <3>3. ASSUME NEW k \in Keys PROVE file'[k] = file[k] \/ (k = key[i] /\ file'[k] = i)
      <4>1. CASE file' = [file EXCEPT ![key[i]] = i]
        BY <3>1, <4>1
      <4>2. CASE file' = file
        BY <4>2
      <4>. QED  BY <2>1, <4>1, <4>2
    <3>. QED  BY <3>2, <3>3
  <2>5. FilesOK'
    BY <1>0, <1>1, <2>2, <2>4 DEF FilesOK, TypeOK
  <2>6. \A j \in Supervisors \ {i} : key[j] = key[i] => phase[j] # "serving"
    BY <1>0, <2>1 DEF LocksOK, Owning
  <2>7. LiveRecorded'
    BY <1>0, <1>1, <2>2, <2>4, <2>6 DEF LiveRecorded, TypeOK
  <2>8. EnginesOK'
    BY <1>0, <2>1, <2>2, <2>4 DEF EnginesOK
  <2>. QED  BY <1>1, <2>2, <2>3, <2>5, <2>7, <2>8 DEF Safe
<1>14. CASE Expire(i)
  <2>1. UNCHANGED <<phase, key, release, engine, file, killed>>
    BY <1>14 DEF Expire, files
  <2>. QED  BY <1>0, <2>1 DEF Safe, LocksOK, FilesOK, EnginesOK, LiveRecorded
<1>15. CASE EngineDies(i)
  <2>1. UNCHANGED <<phase, key, release, file, killed>> /\ engine' = [engine EXCEPT ![i] = "dead"]
    BY <1>15 DEF EngineDies, files
  <2>2. \A j \in Supervisors : engine'[j] = IF j = i THEN "dead" ELSE engine[j]
    BY <1>0, <2>1 DEF TypeOK
  <2>3. EnginesOK'
    BY <1>0, <2>1, <2>2 DEF EnginesOK
  <2>. QED  BY <1>0, <2>1, <2>3 DEF Safe, LocksOK, FilesOK, LiveRecorded
<1>. QED  BY <1>6, <1>7, <1>8, <1>9, <1>10, <1>11, <1>12, <1>13, <1>14, <1>15 DEF Run

(* How a shell comes to a turn, and that it leaves the others alone. *)
LEMMA ShellFrame ==
  ASSUME TypeOK, NEW s \in Shells,
         (\E k \in Keys : Ask(s, k)) \/ Ensure(s) \/ Turn(s) \/ GiveUp(s) \/ Vanish(s)
  PROVE  /\ \A t \in Shells \ {s} : at'[t] = at[t] /\ got'[t] = got[t] /\ want'[t] = want[t]
         /\ at'[s] \in Turning =>
               /\ want'[s] = want[s]
               /\ \/ at[s] \in Turning /\ got'[s] = got[s]
                  \/ Verified(want[s]) /\ Matches(file[want[s]], s) /\ got'[s] = file[want[s]]
<1>. DEFINE Others_ == \A t \in Shells \ {s} : at'[t] = at[t] /\ got'[t] = got[t] /\ want'[t] = want[t]
<1>1. ASSUME Rest(s) PROVE Others_ /\ at'[s] \notin Turning
  BY <1>1 DEF Rest, Go, TypeOK, Turning
<1>2. ASSUME NEW step, Proceed(s, step) PROVE Others_ /\ at'[s] = step /\ got' = got /\ want' = want
  BY <1>2 DEF Proceed, Go, TypeOK
<1>3. ASSUME NEW i, Return(s, i) PROVE Others_ /\ got'[s] = i /\ want' = want
  BY <1>3 DEF Return, Go, TypeOK
<1>4. CASE Look(s) \/ Await(s)
  BY <1>1, <1>2, <1>3, <1>4 DEF Look, Await, Fail, Turning
<1>5. CASE Relook(s)
  <2>1. ASSUME RemoveStale(s) PROVE Others_ /\ at'[s] \notin Turning
    BY <2>1, <1>1, <1>2 DEF RemoveStale, Fail, Turning
  <2>. QED  BY <1>2, <1>3, <1>5, <2>1 DEF Relook, Turning
<1>6. CASE Replace(s) \/ Replaced(s) \/ Evict(s) \/ Spawn(s)
  BY <1>2, <1>6 DEF Replace, Replaced, Evict, Spawn, Turning
<1>7. CASE TimeOut(s) \/ GiveUp(s) \/ Vanish(s)
  BY <1>1, <1>7 DEF TimeOut, GiveUp, Vanish, Fail
<1>8. CASE Lock(s) \/ Drain(s)
  BY <1>8 DEF Lock, Drain, Go, TypeOK, Turning
<1>9. CASE Count(s)
  <2>1. CASE Fail(s)
    BY <1>1, <2>1 DEF Fail
  <2>2. CASE \E chosen \in SUBSET IdleOthers(s) :
                Go(s, IF chosen = {} THEN "spawn" ELSE "evict") /\ UNCHANGED <<want, got>>
    BY <2>2 DEF Go, TypeOK, Turning
  <2>. QED  BY <1>9, <2>1, <2>2 DEF Count
<1>10. CASE \E k \in Keys : Ask(s, k)
  BY <1>10 DEF Ask, Go, TypeOK, Turning
<1>11. CASE Register(s) \/ Admit(s) \/ Complete(s) \/ EndTurn(s)
  BY <1>1, <1>2, <1>11 DEF Register, Admit, Complete, EndTurn, Turning
<1>. QED  BY <1>4, <1>5, <1>6, <1>7, <1>8, <1>9, <1>10, <1>11 DEF Ensure, Turn

(* A key's verified file names a supervisor of that key, started and spawned. *)
LEMMA VerifiedFile == ASSUME IInv, NEW k \in Keys, Verified(k)
                      PROVE  file[k] \in Supervisors /\ key[file[k]] = k /\ phase[file[k]] # "unborn"
  BY DEF IInv, TypeOK, FilesOK, Verified, Serving

LEMMA ShellKeeps ==
  ASSUME IInv, NEW s \in Shells,
         (\E k \in Keys : Ask(s, k)) \/ Ensure(s) \/ Turn(s) \/ GiveUp(s) \/ Vanish(s)
  PROVE  TurnsOK' /\ Matched'
<1>0. TypeOK /\ TurnsOK /\ Matched
  BY DEF IInv
<1>1. \A i \in Supervisors : phase[i] # "unborn" => phase'[i] = phase[i] /\ key'[i] = key[i] /\ release'[i] = release[i]
  BY ShellSafe
<1>2. SUFFICES ASSUME NEW t \in Shells, at'[t] \in Turning
               PROVE  /\ got'[t] # None /\ phase'[got'[t]] # "unborn"
                      /\ key'[got'[t]] = want'[t] /\ release'[got'[t]] = Release[t]
  BY DEF TurnsOK, Matched
<1>3. CASE at[t] \in Turning /\ got'[t] = got[t] /\ want'[t] = want[t]
  <2>1. got[t] \in Supervisors /\ phase[got[t]] # "unborn" /\ key[got[t]] = want[t] /\ release[got[t]] = Release[t]
    BY <1>0, <1>3 DEF TypeOK, TurnsOK, Matched
  <2>. QED  BY <1>1, <1>3, <2>1, Bounds
<1>4. CASE t = s /\ want'[s] = want[s] /\ Verified(want[s]) /\ Matches(file[want[s]], s) /\ got'[s] = file[want[s]]
  <2>1. want[s] \in Keys
    BY <1>0 DEF TypeOK
  <2>2. file[want[s]] \in Supervisors /\ key[file[want[s]]] = want[s] /\ phase[file[want[s]]] # "unborn"
    BY <1>4, <2>1, VerifiedFile
  <2>. QED  BY <1>1, <1>4, <2>2, Bounds DEF Matches
<1>. QED  BY <1>0, <1>2, <1>3, <1>4, ShellFrame

LEMMA OthersKeep ==
  ASSUME IInv, UNCHANGED <<shells, key, release>>, \A j \in Supervisors : phase[j] # "unborn" => phase'[j] # "unborn"
  PROVE  TurnsOK' /\ Matched'
<1>1. \A s \in Shells : at[s] \in Turning => got[s] \in Supervisors /\ phase[got[s]] # "unborn"
  BY DEF IInv, TypeOK, TurnsOK
<1>. QED  BY <1>1, Bounds DEF IInv, TurnsOK, Matched, shells

(* The invariant is inductive. *)
LEMMA NextKeeps == ASSUME IInv, [Next]_vars PROVE IInv'
<1>0. TypeOK /\ LocksOK /\ FilesOK /\ EnginesOK /\ LiveRecorded
  BY DEF IInv
<1>1. CASE UNCHANGED vars
  BY <1>1 DEF IInv, TypeOK, LocksOK, FilesOK, EnginesOK, LiveRecorded, TurnsOK, Matched,
              vars, shells, supervisors, files
<1>. SUFFICES ASSUME Next PROVE IInv'
  BY <1>1
<1>2. TypeOK'
  BY <1>0, Typed
<1>3. ASSUME NEW s \in Shells, (\E k \in Keys : Ask(s, k)) \/ Ensure(s) \/ Turn(s) \/ GiveUp(s) \/ Vanish(s)
      PROVE  IInv'
  BY <1>2, <1>3, ShellSafe, ShellKeeps DEF IInv, Safe
<1>4. ASSUME NEW i \in Supervisors,
             Run(i) \/ FailStart(i) \/ FailPublish(i) \/ IdleOut(i) \/ Expire(i) \/ Kill(i) \/ EngineDies(i)
      PROVE  IInv'
  <2>1. UNCHANGED shells
    BY <1>4 DEF Run, TakeLock, Publish, Leave, Terminate, RemoveState, Exit, FailStart, FailPublish, IdleOut, Expire, Kill, EngineDies
  <2>. QED  BY <1>2, <1>4, <2>1, SupervisorSafe, OthersKeep DEF IInv, Safe
<1>5. ASSUME NEW k \in Keys, StopBackend(k) PROVE IInv'
  <2>1. UNCHANGED <<shells, phase, key, release, engine, file, killed>>
    BY <1>5 DEF StopBackend, files
  <2>. QED  BY <1>0, <1>2, <2>1, OthersKeep DEF IInv, LocksOK, FilesOK, EnginesOK, LiveRecorded
<1>6. CASE KillOrphans
  <2>1. /\ UNCHANGED <<shells, phase, key, release, file, killed>>
        /\ \A i \in Supervisors : engine'[i] = IF phase[i] = "gone" /\ engine[i] = "up" THEN "none" ELSE engine[i]
    BY <1>6 DEF KillOrphans, files
  <2>2. EnginesOK'
    BY <1>0, <2>1 DEF EnginesOK
  <2>. QED  BY <1>0, <1>2, <2>1, <2>2, OthersKeep DEF IInv, LocksOK, FilesOK, LiveRecorded
<1>. QED  BY <1>3, <1>4, <1>5, <1>6 DEF Next

(* Without shells there is nothing to look up; with one, every key exists.    *)
LEMMA InitKeeps == ASSUME Shells # {}, Keys # {}, Init PROVE IInv
<1>1. NoKey \in Keys /\ Release[CHOOSE s \in Shells : TRUE] \in {Release[s] : s \in Shells}
  BY DEF NoKey
<1>2. TypeOK
  <2>1. ShellsTyped
    BY <1>1 DEF Init, ShellsTyped
  <2>2. release \in [Supervisors -> {Release[s] : s \in Shells}]
    BY <1>1 DEF Init
  <2>3. SupervisorsTyped
    BY <1>1, <2>2 DEF Init, SupervisorsTyped, Phases
  <2>4. RestTyped
    BY Bounds DEF Init, RestTyped
  <2>. QED  BY <2>1, <2>3, <2>4, Parts
<1>3. LocksOK /\ FilesOK /\ EnginesOK /\ LiveRecorded
  BY DEF Init, LocksOK, FilesOK, EnginesOK, LiveRecorded, Owning
<1>4. TurnsOK /\ Matched
  BY DEF Init, TurnsOK, Matched, Turning
<1>. QED  BY <1>2, <1>3, <1>4 DEF IInv

-----------------------------------------------------------------------------

(* The inductive invariant holds in every reachable state. *)
THEOREM Invariance == ASSUME Shells # {}, Keys # {} PROVE Spec => []IInv
<1>1. Init => IInv
  BY InitKeeps
<1>2. IInv /\ [Next]_vars => IInv'
  BY NextKeeps
<1>. QED  BY <1>1, <1>2, PTL DEF Spec

(* The state is well-typed. *)
THEOREM TypeCorrect == ASSUME Shells # {}, Keys # {} PROVE Spec => []TypeOK
<1>1. IInv => TypeOK
  BY DEF IInv
<1>. QED  BY <1>1, Invariance, PTL

(* A serving supervisor is in the state file of its key. *)
THEOREM Recorded == ASSUME Shells # {}, Keys # {} PROVE Spec => []LiveRecorded
<1>1. IInv => LiveRecorded
  BY DEF IInv
<1>. QED  BY <1>1, Invariance, PTL

(* Two engines share a private tree only after a supervisor was killed:       *)
(* supervisor.lock has one holder, and who leaves it in order has terminated  *)
(* its engine before.                                                         *)
THEOREM EnginesApart == ASSUME Shells # {}, Keys # {} PROVE Spec => []OneEngine
<1>1. IInv => OneEngine
  BY DEF IInv, LocksOK, EnginesOK, OneEngine, Owning
<1>. QED  BY <1>1, Invariance, PTL

(* A turn runs on a backend of its own launch identity and release. *)
THEOREM TurnsMatched == ASSUME Shells # {}, Keys # {} PROVE Spec => []Matched
<1>1. IInv => Matched
  BY DEF IInv
<1>. QED  BY <1>1, Invariance, PTL

=============================================================================
