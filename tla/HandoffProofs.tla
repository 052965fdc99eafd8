----------------------------- MODULE HandoffProofs -----------------------------
(* Ownership of a checkpoint and its handoff, for any number of attempts and *)
(* users: one inductive invariant, and the safety properties it implies.     *)
EXTENDS Handoff, TLAPS

LEMMA Initially == Init => IInv
BY Apart DEF Init, IInv, TypeOK, LeaseStands, NeverBoth, ParkedWasAsked, ExportsCurrent,
             Owning, Published, Executing

\* A step of an attempt.
LEMMA AttemptStep ==
    ASSUME IInv, NEW p \in Attempts, Proceed(p) \/ Crash(p)
    PROVE  IInv'
<1> USE Apart DEF IInv, TypeOK, LeaseStands, NeverBoth, ParkedWasAsked, ExportsCurrent,
                  Owning, Published, Executing, stateFile, histories, Goto
<1>1. CASE Load(p)
  BY <1>1 DEF Load
<1>2. CASE TryLock(p)
  BY <1>2 DEF TryLock
<1>3. CASE Publish(p)
  BY <1>3, ZenonT(40) DEF Publish
<1>4. CASE Boundary(p)
  BY <1>4 DEF Boundary
<1>5. CASE Work(p)
  BY <1>5 DEF Work
<1>6. CASE Park(p)
  BY <1>6 DEF Park
<1>7. CASE Close(p)
  BY <1>7 DEF Close
<1>8. CASE End(p)
  BY <1>8 DEF End
<1>9. CASE Drop(p)
  BY <1>9 DEF Drop
<1>10. CASE Crash(p)
  BY <1>10 DEF Crash
<1> QED
  BY <1>1, <1>2, <1>3, <1>4, <1>5, <1>6, <1>7, <1>8, <1>9, <1>10 DEF Proceed

\* A step of a user.
LEMMA UserSteps ==
    ASSUME IInv, NEW u \in Users, UserStep(u)
    PROVE  IInv'
<1> USE Apart DEF IInv, TypeOK, LeaseStands, NeverBoth, ParkedWasAsked, ExportsCurrent,
                  Owning, Published, Executing, stateFile, histories, Turn
<1>1. CASE Read(u)
  BY <1>1 DEF Read
<1>2. CASE Request(u)
  <2>1. CASE owner = expected[u] /\ status \in {"Active", "Queued"} /\ lock # None
    <3>1. /\ requested' = TRUE /\ status' = "Queued" /\ acked' = acked \cup {owner}
          /\ user' = [user EXCEPT ![u] = "idle"] /\ owner \in Attempts
          /\ UNCHANGED <<lock, owner, exports, pc, expected, completed>>
      BY <1>2, <2>1 DEF Request
    <3>2. owner \notin completed
      BY <2>1
    <3>3. lock # u
      BY <1>2 DEF Request
    <3> QED
      BY <1>2, <2>1, <3>1, <3>2, <3>3
  <2>2. CASE ~(owner = expected[u] /\ status \in {"Active", "Queued"} /\ lock # None)
    BY <1>2, <2>2 DEF Request
  <2> QED
    BY <2>1, <2>2
<1>3. CASE Probe(u)
  BY <1>3 DEF Probe
<1>4. CASE Stopped(u)
  BY <1>4 DEF Stopped
<1>5. CASE Take(u)
  BY <1>5 DEF Take
<1>6. CASE Discard(u)
  BY <1>6 DEF Discard
<1> QED
  BY <1>1, <1>2, <1>3, <1>4, <1>5, <1>6 DEF UserStep

\* Every reachable state satisfies the inductive invariant.
THEOREM Inductive == Spec => []IInv
<1>1. IInv /\ [Next]_vars => IInv'
  <2> SUFFICES ASSUME IInv, [Next]_vars PROVE IInv'
    OBVIOUS
  <2>1. CASE Next
    BY <2>1, AttemptStep, UserSteps DEF Next
  <2>2. CASE UNCHANGED vars
    BY <2>2 DEF vars, stateFile, histories, IInv, TypeOK, LeaseStands, NeverBoth,
                ParkedWasAsked, ExportsCurrent
  <2> QED
    BY <2>1, <2>2
<1> QED
  BY Initially, <1>1, PTL DEF Spec

\* Every variable keeps its type, and the run lock its holder.
THEOREM TypeCorrect == Spec => []TypeOK
<1>1. IInv => TypeOK
  BY DEF IInv
<1> QED
  BY <1>1, Inductive, PTL

\* A lease stays published until its process is done: nobody replaces a running owner.
THEOREM LeasesStand == Spec => []LeaseStands
<1>1. IInv => LeaseStands
  BY DEF IInv
<1> QED
  BY <1>1, Inductive, PTL

\* No lease both completes and owes a handoff.
THEOREM CompletionOrHandoff == Spec => []NeverBoth
<1>1. IInv => NeverBoth
  BY DEF IInv
<1> QED
  BY <1>1, Inductive, PTL

\* Only a lease that a terminal named is parked.
THEOREM NoneRetargeted == Spec => []ParkedWasAsked
<1>1. IInv => ParkedWasAsked
  BY DEF IInv
<1> QED
  BY <1>1, Inductive, PTL

\* No transfer of exports outlives its lease.
THEOREM NoRetiredTransfer == Spec => []ExportsCurrent
<1>1. IInv => ExportsCurrent
  BY DEF IInv
<1> QED
  BY <1>1, Inductive, PTL
=============================================================================
