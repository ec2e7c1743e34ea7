--------------------- MODULE EnduranceGamingPolicyProofs ---------------------
(***************************************************************************)
(* Proofs of the safety invariants of EnduranceGamingPolicy for any set of *)
(* calling threads, games, subscribers and worker identities.              *)
(*                                                                         *)
(* None of the three worker properties is inductive.  What makes them so   *)
(* is the discipline of the toggle section: its owner is exactly the       *)
(* caller whose program counter is inside it, and each program counter     *)
(* inside it fixes what KeepGoing, the thread handle and the tokens are.   *)
(***************************************************************************)
EXTENDS EnduranceGamingPolicy, TLAPS

\* A mutex is owned by exactly the caller that is inside its section.
LockDiscipline ==
  \A t \in Callers :
     /\ pc[t] \in Toggling <=> LockKeepGoing = t
     /\ pc[t] = "deliver" <=> SubscribersLock = t

\* What each point of ToggleEnduranceGamingLogic knows of the worker.
ToggleSection ==
  \A t \in Callers :
     /\ pc[t] = "start" => ~KeepGoing /\ handle = NoWorker
     /\ pc[t] = "stop" => KeepGoing
     /\ pc[t] \in {"signal", "join"} => ~KeepGoing /\ handle # NoWorker
     /\ pc[t] = "join" => (wpc[handle] = "wait" => tokens > 0)
     /\ pc[t] = "toggled" => (KeepGoing <=> handle # NoWorker)

\* Outside the section KeepGoing and the handle agree, and a worker exits only
\* after KeepGoing was cleared.
WorkerState ==
  /\ LockKeepGoing = NoCaller => (KeepGoing <=> handle # NoWorker)
  /\ KeepGoing => handle # NoWorker /\ wpc[handle] # "exited"

\* A notification loop only holds subscribers that are still in the list, and
\* only a caller inside the loop has any left to call.
NotifyLoop ==
  \A t \in Callers : /\ todo[t] \subseteq subs
                     /\ pc[t] # "deliver" => todo[t] = {}

\* A pending snapshot satisfies the verdict's own condition.
SnapshotsAreConsistent ==
  /\ \A t \in Callers : req[t].eg => req[t].dc /\ req[t].pid # NoGame
  /\ ObservedIsConsistent

IInv ==
  /\ TypeOK
  /\ LockDiscipline
  /\ AtMostOneWorker
  /\ ToggleSection
  /\ WorkerState
  /\ NotifyLoop
  /\ SnapshotsAreConsistent

-----------------------------------------------------------------------------
\* The invariant holds when the object is constructed: no lock is held, no
\* worker exists and no caller is inside a method.
LEMMA InitIInv == Init => IInv
<1> SUFFICES ASSUME Init PROVE IInv
  OBVIOUS
<1> USE ConstantsAssumption DEF Init
<1>1. TypeOK
  <2>1. NoSnapshot \in Snapshot
    BY DEF NoSnapshot, Snapshot, Pid
  <2> QED
    BY <2>1 DEF TypeOK, Pid, CallerPc, WorkerPc
<1>2. LockDiscipline
  BY DEF LockDiscipline, Toggling
<1>3. AtMostOneWorker
  BY DEF AtMostOneWorker
<1>4. ToggleSection /\ WorkerState /\ NotifyLoop
  BY DEF ToggleSection, WorkerState, NotifyLoop
<1>5. SnapshotsAreConsistent
  BY DEF SnapshotsAreConsistent, ObservedIsConsistent, NoSnapshot
<1> QED
  BY <1>1, <1>2, <1>3, <1>4, <1>5 DEF IInv

\* An update from outside any section only stores the input and the snapshot;
\* the snapshot is one whose verdict its own fields justify.
LEMMA UpdateStep ==
  ASSUME IInv, NEW t \in Callers, NEW d \in BOOLEAN, NEW e \in BOOLEAN, NEW p \in Pid,
         Update(t, d, e, p)
  PROVE  IInv'
<1> DEFINE eg2 == d /\ p # NoGame /\ e
           snap == [eg |-> eg2, dc |-> d, pid |-> p]
<1>1. /\ snap \in Snapshot
      /\ snap.eg => snap.dc /\ snap.pid # NoGame
  BY DEF Snapshot
<1>2. /\ pc[t] = "idle"
      /\ IsDC' = d /\ IsEnduranceGamingEnabled' = e /\ GamePID' = p
      /\ UNCHANGED <<toggleVars, subsVars>>
      /\ \/ UNCHANGED <<pc, req>>
         \/ /\ pc' = [pc EXCEPT ![t] = "toggle"]
            /\ req' = [req EXCEPT ![t] = snap]
  BY DEF Update
<1> HIDE DEF snap
<1> USE ConstantsAssumption, <1>1, <1>2 DEF IInv, toggleVars, subsVars
<1>3. TypeOK'
  BY DEF TypeOK, CallerPc
<1>4. LockDiscipline'
  BY DEF TypeOK, LockDiscipline, Toggling, CallerPc
<1>5. AtMostOneWorker'
  BY DEF AtMostOneWorker
<1>6. ToggleSection'
  BY DEF TypeOK, ToggleSection
<1>7. WorkerState'
  BY DEF WorkerState
<1>8. NotifyLoop'
  BY DEF TypeOK, NotifyLoop
<1>9. SnapshotsAreConsistent'
  BY DEF TypeOK, SnapshotsAreConsistent, ObservedIsConsistent
<1> QED
  BY <1>3, <1>4, <1>5, <1>6, <1>7, <1>8, <1>9

\* Entering the toggle picks the branch from KeepGoing, which then no other
\* caller can change.
LEMMA AcquireKeepGoingStep ==
  ASSUME IInv, NEW t \in Callers, AcquireKeepGoing(t)
  PROVE  IInv'
<1> USE ConstantsAssumption DEF IInv, AcquireKeepGoing, stateVars, subsVars, Goto
<1>1. TypeOK'
  BY DEF TypeOK, Pid, Snapshot, NoSnapshot, CallerPc, WorkerPc, NotifyLoop
<1>2. LockDiscipline'
  BY DEF TypeOK, LockDiscipline, Toggling, CallerPc
<1>3. AtMostOneWorker'
  BY DEF TypeOK, AtMostOneWorker, ToggleSection, WorkerPc, CallerPc
<1>4. ToggleSection'
  BY DEF TypeOK, LockDiscipline, AtMostOneWorker, ToggleSection, WorkerState, Toggling, CallerPc, WorkerPc
<1>5. WorkerState'
  BY DEF TypeOK, LockDiscipline, AtMostOneWorker, ToggleSection, WorkerState, Toggling, CallerPc, WorkerPc
<1>6. NotifyLoop'
  BY DEF TypeOK, LockDiscipline, NotifyLoop, CallerPc
<1>7. SnapshotsAreConsistent'
  BY DEF TypeOK, SnapshotsAreConsistent, ObservedIsConsistent, Pid, Snapshot, NoSnapshot, NotifyLoop
<1> QED
  BY <1>1, <1>2, <1>3, <1>4, <1>5, <1>6, <1>7

\* Starting finds no joinable worker, so exactly one exists afterwards.
LEMMA StartStep ==
  ASSUME IInv, NEW t \in Callers, Start(t)
  PROVE  IInv'
<1> USE ConstantsAssumption DEF IInv, Start, stateVars, subsVars, Goto
<1>1. TypeOK'
  BY DEF TypeOK, Pid, Snapshot, NoSnapshot, CallerPc, WorkerPc, NotifyLoop
<1>2. LockDiscipline'
  BY DEF TypeOK, LockDiscipline, Toggling, CallerPc
<1>3. AtMostOneWorker'
  BY DEF TypeOK, AtMostOneWorker, ToggleSection, WorkerPc, CallerPc
<1>4. ToggleSection'
  BY DEF TypeOK, LockDiscipline, AtMostOneWorker, ToggleSection, WorkerState, Toggling, CallerPc, WorkerPc
<1>5. WorkerState'
  BY DEF TypeOK, LockDiscipline, AtMostOneWorker, ToggleSection, WorkerState, Toggling, CallerPc, WorkerPc
<1>6. NotifyLoop'
  BY DEF TypeOK, LockDiscipline, NotifyLoop, CallerPc
<1>7. SnapshotsAreConsistent'
  BY DEF TypeOK, SnapshotsAreConsistent, ObservedIsConsistent, Pid, Snapshot, NoSnapshot, NotifyLoop
<1> QED
  BY <1>1, <1>2, <1>3, <1>4, <1>5, <1>6, <1>7

\* Clearing KeepGoing leaves the worker joinable and makes its exit legal.
LEMMA StopStep ==
  ASSUME IInv, NEW t \in Callers, Stop(t)
  PROVE  IInv'
<1> USE ConstantsAssumption DEF IInv, Stop, stateVars, subsVars, Goto
<1>1. TypeOK'
  BY DEF TypeOK, Pid, Snapshot, NoSnapshot, CallerPc, WorkerPc, NotifyLoop
<1>2. LockDiscipline'
  BY DEF TypeOK, LockDiscipline, Toggling, CallerPc
<1>3. AtMostOneWorker'
  BY DEF TypeOK, AtMostOneWorker, ToggleSection, WorkerPc, CallerPc
<1>4. ToggleSection'
  BY DEF TypeOK, LockDiscipline, AtMostOneWorker, ToggleSection, WorkerState, Toggling, CallerPc, WorkerPc
<1>5. WorkerState'
  BY DEF TypeOK, LockDiscipline, AtMostOneWorker, ToggleSection, WorkerState, Toggling, CallerPc, WorkerPc
<1>6. NotifyLoop'
  BY DEF TypeOK, LockDiscipline, NotifyLoop, CallerPc
<1>7. SnapshotsAreConsistent'
  BY DEF TypeOK, SnapshotsAreConsistent, ObservedIsConsistent, Pid, Snapshot, NoSnapshot, NotifyLoop
<1> QED
  BY <1>1, <1>2, <1>3, <1>4, <1>5, <1>6, <1>7

\* The token is what makes the following join free of lost wakeups.
LEMMA SignalStep ==
  ASSUME IInv, NEW t \in Callers, Signal(t)
  PROVE  IInv'
<1> USE ConstantsAssumption DEF IInv, Signal, stateVars, subsVars, Goto
<1>1. TypeOK'
  BY DEF TypeOK, Pid, Snapshot, NoSnapshot, CallerPc, WorkerPc, NotifyLoop
<1>2. LockDiscipline'
  BY DEF TypeOK, LockDiscipline, Toggling, CallerPc
<1>3. AtMostOneWorker'
  BY DEF TypeOK, AtMostOneWorker, ToggleSection, WorkerPc, CallerPc
<1>4. ToggleSection'
  BY DEF TypeOK, LockDiscipline, AtMostOneWorker, ToggleSection, WorkerState, Toggling, CallerPc, WorkerPc
<1>5. WorkerState'
  BY DEF TypeOK, LockDiscipline, AtMostOneWorker, ToggleSection, WorkerState, Toggling, CallerPc, WorkerPc
<1>6. NotifyLoop'
  BY DEF TypeOK, LockDiscipline, NotifyLoop, CallerPc
<1>7. SnapshotsAreConsistent'
  BY DEF TypeOK, SnapshotsAreConsistent, ObservedIsConsistent, Pid, Snapshot, NoSnapshot, NotifyLoop
<1> QED
  BY <1>1, <1>2, <1>3, <1>4, <1>5, <1>6, <1>7

\* The join returns only for an exited worker and leaves none.
LEMMA JoinStep ==
  ASSUME IInv, NEW t \in Callers, Join(t)
  PROVE  IInv'
<1> USE ConstantsAssumption DEF IInv, Join, stateVars, subsVars, Goto
<1>1. TypeOK'
  BY DEF TypeOK, Pid, Snapshot, NoSnapshot, CallerPc, WorkerPc, NotifyLoop
<1>2. LockDiscipline'
  BY DEF TypeOK, LockDiscipline, Toggling, CallerPc
<1>3. AtMostOneWorker'
  BY DEF TypeOK, AtMostOneWorker, ToggleSection, WorkerPc, CallerPc
<1>4. ToggleSection'
  BY DEF TypeOK, LockDiscipline, AtMostOneWorker, ToggleSection, WorkerState, Toggling, CallerPc, WorkerPc
<1>5. WorkerState'
  BY DEF TypeOK, LockDiscipline, AtMostOneWorker, ToggleSection, WorkerState, Toggling, CallerPc, WorkerPc
<1>6. NotifyLoop'
  BY DEF TypeOK, LockDiscipline, NotifyLoop, CallerPc
<1>7. SnapshotsAreConsistent'
  BY DEF TypeOK, SnapshotsAreConsistent, ObservedIsConsistent, Pid, Snapshot, NoSnapshot, NotifyLoop
<1> QED
  BY <1>1, <1>2, <1>3, <1>4, <1>5, <1>6, <1>7

\* Leaving the section publishes the agreement of KeepGoing and the handle.
LEMMA ReleaseKeepGoingStep ==
  ASSUME IInv, NEW t \in Callers, ReleaseKeepGoing(t)
  PROVE  IInv'
<1> USE ConstantsAssumption DEF IInv, ReleaseKeepGoing, stateVars, subsVars, Goto
<1>1. TypeOK'
  BY DEF TypeOK, Pid, Snapshot, NoSnapshot, CallerPc, WorkerPc, NotifyLoop
<1>2. LockDiscipline'
  BY DEF TypeOK, LockDiscipline, Toggling, CallerPc
<1>3. AtMostOneWorker'
  BY DEF TypeOK, AtMostOneWorker, ToggleSection, WorkerPc, CallerPc
<1>4. ToggleSection'
  BY DEF TypeOK, LockDiscipline, AtMostOneWorker, ToggleSection, WorkerState, Toggling, CallerPc, WorkerPc
<1>5. WorkerState'
  BY DEF TypeOK, LockDiscipline, AtMostOneWorker, ToggleSection, WorkerState, Toggling, CallerPc, WorkerPc
<1>6. NotifyLoop'
  BY DEF TypeOK, LockDiscipline, NotifyLoop, CallerPc
<1>7. SnapshotsAreConsistent'
  BY DEF TypeOK, SnapshotsAreConsistent, ObservedIsConsistent, Pid, Snapshot, NoSnapshot, NotifyLoop
<1> QED
  BY <1>1, <1>2, <1>3, <1>4, <1>5, <1>6, <1>7

\* A notification loop starts from the whole list, under its lock.
LEMMA AcquireSubscribersStep ==
  ASSUME IInv, NEW t \in Callers, AcquireSubscribers(t)
  PROVE  IInv'
<1> USE ConstantsAssumption DEF IInv, AcquireSubscribers, stateVars, toggleVars, Goto
<1>1. TypeOK'
  BY DEF TypeOK, Pid, Snapshot, NoSnapshot, CallerPc, WorkerPc, NotifyLoop
<1>2. LockDiscipline'
  BY DEF TypeOK, LockDiscipline, Toggling, CallerPc
<1>3. AtMostOneWorker'
  BY DEF TypeOK, AtMostOneWorker, ToggleSection, WorkerPc, CallerPc
<1>4. ToggleSection'
  BY DEF TypeOK, LockDiscipline, AtMostOneWorker, ToggleSection, WorkerState, Toggling, CallerPc, WorkerPc
<1>5. WorkerState'
  BY DEF TypeOK, LockDiscipline, AtMostOneWorker, ToggleSection, WorkerState, Toggling, CallerPc, WorkerPc
<1>6. NotifyLoop'
  BY DEF TypeOK, LockDiscipline, NotifyLoop, CallerPc
<1>7. SnapshotsAreConsistent'
  BY DEF TypeOK, SnapshotsAreConsistent, ObservedIsConsistent, Pid, Snapshot, NoSnapshot, NotifyLoop
<1> QED
  BY <1>1, <1>2, <1>3, <1>4, <1>5, <1>6, <1>7

\* A callback is given the snapshot of its own caller.
LEMMA DeliverStep ==
  ASSUME IInv, NEW t \in Callers, Deliver(t)
  PROVE  IInv'
<1> USE ConstantsAssumption DEF IInv, Deliver, stateVars, toggleVars, Goto
<1>1. TypeOK'
  BY DEF TypeOK, Pid, Snapshot, NoSnapshot, CallerPc, WorkerPc, NotifyLoop
<1>2. LockDiscipline'
  BY DEF TypeOK, LockDiscipline, Toggling, CallerPc
<1>3. AtMostOneWorker'
  BY DEF TypeOK, AtMostOneWorker, ToggleSection, WorkerPc, CallerPc
<1>4. ToggleSection'
  BY DEF TypeOK, LockDiscipline, AtMostOneWorker, ToggleSection, WorkerState, Toggling, CallerPc, WorkerPc
<1>5. WorkerState'
  BY DEF TypeOK, LockDiscipline, AtMostOneWorker, ToggleSection, WorkerState, Toggling, CallerPc, WorkerPc
<1>6. NotifyLoop'
  BY DEF TypeOK, LockDiscipline, NotifyLoop, CallerPc
<1>7. SnapshotsAreConsistent'
  BY DEF TypeOK, SnapshotsAreConsistent, ObservedIsConsistent, Pid, Snapshot, NoSnapshot, NotifyLoop
<1> QED
  BY <1>1, <1>2, <1>3, <1>4, <1>5, <1>6, <1>7

\* The loop ends with nothing left to call.
LEMMA ReleaseSubscribersStep ==
  ASSUME IInv, NEW t \in Callers, ReleaseSubscribers(t)
  PROVE  IInv'
<1> USE ConstantsAssumption DEF IInv, ReleaseSubscribers, stateVars, toggleVars, Goto
<1>1. TypeOK'
  BY DEF TypeOK, Pid, Snapshot, NoSnapshot, CallerPc, WorkerPc, NotifyLoop
<1>2. LockDiscipline'
  BY DEF TypeOK, LockDiscipline, Toggling, CallerPc
<1>3. AtMostOneWorker'
  BY DEF TypeOK, AtMostOneWorker, ToggleSection, WorkerPc, CallerPc
<1>4. ToggleSection'
  BY DEF TypeOK, LockDiscipline, AtMostOneWorker, ToggleSection, WorkerState, Toggling, CallerPc, WorkerPc
<1>5. WorkerState'
  BY DEF TypeOK, LockDiscipline, AtMostOneWorker, ToggleSection, WorkerState, Toggling, CallerPc, WorkerPc
<1>6. NotifyLoop'
  BY DEF TypeOK, LockDiscipline, NotifyLoop, CallerPc
<1>7. SnapshotsAreConsistent'
  BY DEF TypeOK, SnapshotsAreConsistent, ObservedIsConsistent, Pid, Snapshot, NoSnapshot, NotifyLoop
<1> QED
  BY <1>1, <1>2, <1>3, <1>4, <1>5, <1>6, <1>7

\* The list grows only while no loop runs.
LEMMA SubscribeStep ==
  ASSUME IInv, NEW t \in Callers, NEW s \in Subscribers, Subscribe(t, s)
  PROVE  IInv'
<1> USE ConstantsAssumption DEF IInv, Subscribe, stateVars, toggleVars
<1>1. TypeOK'
  BY DEF TypeOK, Pid, Snapshot, NoSnapshot, CallerPc, WorkerPc, NotifyLoop
<1>2. LockDiscipline'
  BY DEF TypeOK, LockDiscipline, Toggling, CallerPc
<1>3. AtMostOneWorker'
  BY DEF TypeOK, AtMostOneWorker, ToggleSection, WorkerPc, CallerPc
<1>4. ToggleSection'
  BY DEF TypeOK, LockDiscipline, AtMostOneWorker, ToggleSection, WorkerState, Toggling, CallerPc, WorkerPc
<1>5. WorkerState'
  BY DEF TypeOK, LockDiscipline, AtMostOneWorker, ToggleSection, WorkerState, Toggling, CallerPc, WorkerPc
<1>6. NotifyLoop'
  BY DEF TypeOK, LockDiscipline, NotifyLoop, CallerPc
<1>7. SnapshotsAreConsistent'
  BY DEF TypeOK, SnapshotsAreConsistent, ObservedIsConsistent, Pid, Snapshot, NoSnapshot, NotifyLoop
<1> QED
  BY <1>1, <1>2, <1>3, <1>4, <1>5, <1>6, <1>7

\* The list shrinks only while no loop runs.
LEMMA UnsubscribeStep ==
  ASSUME IInv, NEW t \in Callers, NEW s \in Subscribers, Unsubscribe(t, s)
  PROVE  IInv'
<1> USE ConstantsAssumption DEF IInv, Unsubscribe, stateVars, toggleVars
<1>1. TypeOK'
  BY DEF TypeOK, Pid, Snapshot, NoSnapshot, CallerPc, WorkerPc, NotifyLoop
<1>2. LockDiscipline'
  BY DEF TypeOK, LockDiscipline, Toggling, CallerPc
<1>3. AtMostOneWorker'
  BY DEF TypeOK, AtMostOneWorker, ToggleSection, WorkerPc, CallerPc
<1>4. ToggleSection'
  BY DEF TypeOK, LockDiscipline, AtMostOneWorker, ToggleSection, WorkerState, Toggling, CallerPc, WorkerPc
<1>5. WorkerState'
  BY DEF TypeOK, LockDiscipline, AtMostOneWorker, ToggleSection, WorkerState, Toggling, CallerPc, WorkerPc
<1>6. NotifyLoop'
  BY DEF TypeOK, LockDiscipline, NotifyLoop, CallerPc
<1>7. SnapshotsAreConsistent'
  BY DEF TypeOK, SnapshotsAreConsistent, ObservedIsConsistent, Pid, Snapshot, NoSnapshot, NotifyLoop
<1> QED
  BY <1>1, <1>2, <1>3, <1>4, <1>5, <1>6, <1>7

\* The worker exits only if KeepGoing was cleared; that caller is then in the
\* section.
LEMMA CheckStep ==
  ASSUME IInv, NEW w \in Workers, Check(w)
  PROVE  IInv'
<1> USE ConstantsAssumption DEF IInv, Check, stateVars, subsVars
<1>1. TypeOK'
  BY DEF TypeOK, Pid, Snapshot, NoSnapshot, CallerPc, WorkerPc, NotifyLoop
<1>2. LockDiscipline'
  BY DEF TypeOK, LockDiscipline, Toggling, CallerPc
<1>3. AtMostOneWorker'
  BY DEF TypeOK, AtMostOneWorker, ToggleSection, WorkerPc, CallerPc
<1>4. ToggleSection'
  BY DEF TypeOK, LockDiscipline, AtMostOneWorker, ToggleSection, WorkerState, Toggling, CallerPc, WorkerPc
<1>5. WorkerState'
  BY DEF TypeOK, LockDiscipline, AtMostOneWorker, ToggleSection, WorkerState, Toggling, CallerPc, WorkerPc
<1>6. NotifyLoop'
  BY DEF TypeOK, LockDiscipline, NotifyLoop, CallerPc
<1>7. SnapshotsAreConsistent'
  BY DEF TypeOK, SnapshotsAreConsistent, ObservedIsConsistent, Pid, Snapshot, NoSnapshot, NotifyLoop
<1> QED
  BY <1>1, <1>2, <1>3, <1>4, <1>5, <1>6, <1>7

\* A consumed token leaves the worker about to look at KeepGoing.
LEMMA WakeStep ==
  ASSUME IInv, NEW w \in Workers, Wake(w)
  PROVE  IInv'
<1> USE ConstantsAssumption DEF IInv, Wake, stateVars, subsVars
<1>1. TypeOK'
  BY DEF TypeOK, Pid, Snapshot, NoSnapshot, CallerPc, WorkerPc, NotifyLoop
<1>2. LockDiscipline'
  BY DEF TypeOK, LockDiscipline, Toggling, CallerPc
<1>3. AtMostOneWorker'
  BY DEF TypeOK, AtMostOneWorker, ToggleSection, WorkerPc, CallerPc
<1>4. ToggleSection'
  BY DEF TypeOK, LockDiscipline, AtMostOneWorker, ToggleSection, WorkerState, Toggling, CallerPc, WorkerPc
<1>5. WorkerState'
  BY DEF TypeOK, LockDiscipline, AtMostOneWorker, ToggleSection, WorkerState, Toggling, CallerPc, WorkerPc
<1>6. NotifyLoop'
  BY DEF TypeOK, LockDiscipline, NotifyLoop, CallerPc
<1>7. SnapshotsAreConsistent'
  BY DEF TypeOK, SnapshotsAreConsistent, ObservedIsConsistent, Pid, Snapshot, NoSnapshot, NotifyLoop
<1> QED
  BY <1>1, <1>2, <1>3, <1>4, <1>5, <1>6, <1>7

\* A timeout leaves the worker about to look at KeepGoing.
LEMMA TimeOutStep ==
  ASSUME IInv, NEW w \in Workers, TimeOut(w)
  PROVE  IInv'
<1> USE ConstantsAssumption DEF IInv, TimeOut, stateVars, subsVars
<1>1. TypeOK'
  BY DEF TypeOK, Pid, Snapshot, NoSnapshot, CallerPc, WorkerPc, NotifyLoop
<1>2. LockDiscipline'
  BY DEF TypeOK, LockDiscipline, Toggling, CallerPc
<1>3. AtMostOneWorker'
  BY DEF TypeOK, AtMostOneWorker, ToggleSection, WorkerPc, CallerPc
<1>4. ToggleSection'
  BY DEF TypeOK, LockDiscipline, AtMostOneWorker, ToggleSection, WorkerState, Toggling, CallerPc, WorkerPc
<1>5. WorkerState'
  BY DEF TypeOK, LockDiscipline, AtMostOneWorker, ToggleSection, WorkerState, Toggling, CallerPc, WorkerPc
<1>6. NotifyLoop'
  BY DEF TypeOK, LockDiscipline, NotifyLoop, CallerPc
<1>7. SnapshotsAreConsistent'
  BY DEF TypeOK, SnapshotsAreConsistent, ObservedIsConsistent, Pid, Snapshot, NoSnapshot, NotifyLoop
<1> QED
  BY <1>1, <1>2, <1>3, <1>4, <1>5, <1>6, <1>7

\* Every step of the policy, or none, keeps the invariant.
LEMMA NextIInv == IInv /\ [Next]_vars => IInv'
<1> SUFFICES ASSUME IInv, [Next]_vars PROVE IInv'
  OBVIOUS
<1>1. ASSUME NEW t \in Callers, Call(t) PROVE IInv'
  <2>1. CASE UpdatePowerStatus(t)
    BY <2>1, UpdateStep DEF UpdatePowerStatus, IInv, TypeOK
  <2>2. CASE UpdateGameStatus(t)
    BY <2>2, UpdateStep DEF UpdateGameStatus, IInv, TypeOK, Pid
  <2>3. CASE UpdateEnduranceGamingEnabled(t)
    BY <2>3, UpdateStep DEF UpdateEnduranceGamingEnabled, IInv, TypeOK
  <2>4. CASE \E s \in Subscribers : Subscribe(t, s) \/ Unsubscribe(t, s)
    BY <2>4, SubscribeStep, UnsubscribeStep
  <2> QED
    BY <1>1, <2>1, <2>2, <2>3, <2>4 DEF Call
<1>2. ASSUME NEW t \in Callers, Continue(t) PROVE IInv'
  BY <1>2, AcquireKeepGoingStep, StartStep, StopStep, SignalStep, JoinStep,
     ReleaseKeepGoingStep, AcquireSubscribersStep, DeliverStep,
     ReleaseSubscribersStep DEF Continue
<1>3. ASSUME NEW w \in Workers, Run(w) \/ TimeOut(w) PROVE IInv'
  BY <1>3, CheckStep, WakeStep, TimeOutStep DEF Run
<1>4. CASE UNCHANGED vars
  BY <1>4 DEF vars, stateVars, toggleVars, subsVars, IInv, TypeOK, LockDiscipline,
     AtMostOneWorker, ToggleSection, WorkerState, NotifyLoop,
     SnapshotsAreConsistent, ObservedIsConsistent
<1> QED
  BY <1>1, <1>2, <1>3, <1>4 DEF Next

\* The inductive invariant holds in every behaviour of the policy.
THEOREM Inductive == Spec => []IInv
<1>1. Init => IInv
  BY InitIInv
<1>2. IInv /\ [Next]_vars => IInv'
  BY NextIInv
<1> QED
  BY <1>1, <1>2, PTL DEF Spec

\* Type correctness of the policy's state.
THEOREM TypeCorrect == Spec => []TypeOK
<1>1. IInv => TypeOK
  BY DEF IInv
<1> QED
  BY <1>1, Inductive, PTL

\* Two EnduranceGamingLogic threads never exist at once, and the one that
\* exists is the one the policy will join, for any number of callers.
THEOREM WorkerIsUnique == Spec => []AtMostOneWorker
<1>1. IInv => AtMostOneWorker
  BY DEF IInv
<1> QED
  BY <1>1, Inductive, PTL

\* Whenever no toggle is in progress KeepGoing is set exactly when a worker
\* is running.
THEOREM KeepGoingIsTruthful == Spec => []KeepGoingMeansRunning
<1>1. IInv => KeepGoingMeansRunning
  BY ConstantsAssumption
  DEF IInv, TypeOK, KeepGoingMeansRunning, WorkerState, AtMostOneWorker,
      Live, WorkerPc
<1> QED
  BY <1>1, Inductive, PTL

\* No wakeup is lost between Stop's signal and the worker's sleep: a join
\* never depends on the 30-second timeout.
THEOREM NoLostStop == Spec => []StopIsNeverLost
<1>1. IInv => StopIsNeverLost
  BY DEF IInv, StopIsNeverLost, ToggleSection
<1> QED
  BY <1>1, Inductive, PTL

\* Subscribers only see consistent snapshots.
THEOREM ConsistentNotifications == Spec => []ObservedIsConsistent
<1>1. IInv => ObservedIsConsistent
  BY DEF IInv, SnapshotsAreConsistent
<1> QED
  BY <1>1, Inductive, PTL

\* A notification loop never calls a subscriber that has unsubscribed.
THEOREM UnsubscribeIsFinal == Spec => []NoCallbackAfterUnsubscribe
<1>1. IInv => NoCallbackAfterUnsubscribe
  BY DEF IInv, NotifyLoop, NoCallbackAfterUnsubscribe
<1> QED
  BY <1>1, Inductive, PTL

-----------------------------------------------------------------------------
(***************************************************************************)
(* EnduranceGamingPolicy implements PolicySwitch, for any callers, games,  *)
(* subscribers and workers.  One caller's step maps to a step of the same  *)
(* caller's call or to none; a worker's step always maps to none.  Beyond  *)
(* the typing of the state this needs that a caller about to start the     *)
(* worker wants it on, and one about to stop it wants it off.              *)
(***************************************************************************)

WantsWhatItDoes ==
  \A t \in Callers : /\ pc[t] = "start" => req[t].eg
                     /\ pc[t] = "stop" => ~req[t].eg

RInv == TypeOK /\ WantsWhatItDoes

abstractCall == [t \in Callers |-> Switching(t)]

\* What the caller that did not move shows is what it showed.
LEMMA OthersStay ==
  ASSUME TypeOK, NEW t \in Callers, NEW to \in CallerPc,
         pc' = [pc EXCEPT ![t] = to],
         \A u \in Callers \ {t} : req'[u] = req[u]
  PROVE  /\ \A u \in Callers \ {t} : Switching(u)' = Switching(u)
         /\ abstractCall' = [abstractCall EXCEPT ![t] = Switching(t)']
<1>1. ASSUME NEW u \in Callers, u # t PROVE Switching(u)' = Switching(u)
  BY <1>1 DEF TypeOK, Switching
<1>2. abstractCall' = [abstractCall EXCEPT ![t] = Switching(t)']
  BY <1>1 DEF abstractCall
<1> QED
  BY <1>1, <1>2

\* The refinement's own invariant.
LEMMA WantsInvariant == Spec => []RInv
<1>1. Init => RInv
  BY InitIInv DEF Init, IInv, RInv, WantsWhatItDoes
<1>2. TypeOK /\ TypeOK' /\ RInv /\ [Next]_vars => RInv'
  <2> SUFFICES ASSUME TypeOK, TypeOK', RInv, [Next]_vars PROVE WantsWhatItDoes'
    BY DEF RInv
  <2> USE DEF RInv, WantsWhatItDoes, TypeOK
  <2>1. ASSUME NEW t \in Callers, NEW dc, NEW en, NEW pid, Update(t, dc, en, pid)
        PROVE  WantsWhatItDoes'
    BY <2>1 DEF Update
  <2>2. ASSUME NEW t \in Callers, Call(t) PROVE WantsWhatItDoes'
    BY <2>1, <2>2 DEF Call, UpdatePowerStatus, UpdateGameStatus,
       UpdateEnduranceGamingEnabled, Subscribe, Unsubscribe
  <2>3. ASSUME NEW t \in Callers, Continue(t) PROVE WantsWhatItDoes'
    BY <2>3 DEF Continue, Goto, AcquireKeepGoing, Start, Stop, Signal, Join,
       ReleaseKeepGoing, AcquireSubscribers, Deliver, ReleaseSubscribers
  <2>4. ASSUME NEW w \in Workers, Run(w) \/ TimeOut(w) PROVE WantsWhatItDoes'
    BY <2>4 DEF Run, Check, Wake, TimeOut
  <2>5. CASE UNCHANGED vars
    BY <2>5 DEF vars
  <2> QED
    BY <2>2, <2>3, <2>4, <2>5 DEF Next
<1> QED
  BY <1>1, <1>2, TypeCorrect, PTL DEF Spec

-----------------------------------------------------------------------------
\* An update of the policy is an update of the abstract policy.
LEMMA UpdateRefines ==
  ASSUME RInv, TypeOK', NEW t \in Callers, NEW dc \in BOOLEAN,
         NEW en \in BOOLEAN, NEW pid \in Pid, Update(t, dc, en, pid)
  PROVE  [Switch!Next]_Switch!vars
<1> USE ConstantsAssumption DEF RInv
<1>1. /\ pc[t] = "idle" /\ Switching(t) = "outside"
      /\ UNCHANGED KeepGoing
      /\ IsDC' = dc /\ IsEnduranceGamingEnabled' = en /\ GamePID' = pid
  BY DEF Update, Switching, toggleVars
<1>2. Switch!Verdict(dc, en, pid) = (dc /\ pid # NoGame /\ en)
  BY DEF Switch!Verdict
<1>3. Switch!Verdict(IsDC, IsEnduranceGamingEnabled, GamePID) =
        IsEnduranceGamingLogicActive
  BY DEF Switch!Verdict, IsEnduranceGamingLogicActive, TypeOK
<1>4. CASE IsEnduranceGamingLogicActive = (dc /\ pid # NoGame /\ en)
  <2>1. abstractCall' = abstractCall
    BY <1>4 DEF Update, abstractCall, Switching
  <2>2. Switch!Update(t, dc, en, pid)
    BY <1>1, <1>2, <1>3, <1>4, <2>1 DEF Switch!Update, abstractCall
  <2> QED
    BY <2>2 DEF Switch!Next, Switch!Pid, Pid
<1>5. CASE IsEnduranceGamingLogicActive # (dc /\ pid # NoGame /\ en)
  <2>1. /\ pc' = [pc EXCEPT ![t] = "toggle"]
        /\ req' = [req EXCEPT ![t] = [eg |-> dc /\ pid # NoGame /\ en,
                                      dc |-> dc, pid |-> pid]]
    BY <1>5 DEF Update
  <2>2. abstractCall' = [abstractCall EXCEPT ![t] = Switching(t)']
    BY <2>1, OthersStay DEF TypeOK, CallerPc
  <2>3. Switching(t)' = IF dc /\ pid # NoGame /\ en THEN "on" ELSE "off"
    BY <2>1 DEF TypeOK, Switching
  <2>4. Switch!Update(t, dc, en, pid)
    BY <1>1, <1>2, <1>3, <1>5, <2>2, <2>3 DEF Switch!Update, abstractCall
  <2> QED
    BY <2>4 DEF Switch!Next, Switch!Pid, Pid
<1> QED
  BY <1>4, <1>5

\* A step inside the call that is not the switch shows nothing.
LEMMA StutterRefines ==
  ASSUME RInv, NEW t \in Callers, NEW to \in CallerPc,
         pc' = [pc EXCEPT ![t] = to],
         Switching(t)' = Switching(t),
         UNCHANGED <<IsDC, IsEnduranceGamingEnabled, GamePID, KeepGoing, req>>
  PROVE  UNCHANGED Switch!vars
<1>1. abstractCall' = [abstractCall EXCEPT ![t] = Switching(t)]
  BY OthersStay DEF RInv
<1>2. abstractCall' = abstractCall
  BY <1>1 DEF abstractCall
<1> QED
  BY <1>2 DEF Switch!vars, abstractCall

\* A step by which KeepGoing is, or turns out to be, as the call wants it.
LEMMA SwitchRefines ==
  ASSUME RInv, NEW t \in Callers, NEW to \in CallerPc,
         pc' = [pc EXCEPT ![t] = to],
         Switching(t) = (IF req[t].eg THEN "on" ELSE "off"),
         Switching(t)' = "done",
         KeepGoing' = req[t].eg,
         UNCHANGED <<IsDC, IsEnduranceGamingEnabled, GamePID, req>>
  PROVE  Switch!Next
<1>1. abstractCall' = [abstractCall EXCEPT ![t] = "done"]
  BY OthersStay DEF RInv
<1>2. req[t].eg \in BOOLEAN
  BY DEF RInv, TypeOK, Snapshot
<1>3. Switch!Switch(t)
  BY <1>1, <1>2 DEF Switch!Switch, abstractCall
<1> QED
  BY <1>3 DEF Switch!Next

\* The rest of a call.
LEMMA ContinueRefines ==
  ASSUME RInv, NEW t \in Callers, Continue(t)
  PROVE  [Switch!Next]_Switch!vars
<1> USE DEF RInv
<1>0. pc \in [Callers -> CallerPc] /\ KeepGoing \in BOOLEAN
      /\ req[t].eg \in BOOLEAN
  BY DEF TypeOK, Snapshot
<1>1. CASE AcquireKeepGoing(t)
  <2> DEFINE to == IF req[t].eg
                   THEN IF KeepGoing THEN "toggled" ELSE "start"
                   ELSE IF KeepGoing THEN "stop" ELSE "toggled"
  <2>1. /\ pc[t] = "toggle" /\ pc' = [pc EXCEPT ![t] = to]
        /\ to \in CallerPc
        /\ UNCHANGED <<IsDC, IsEnduranceGamingEnabled, GamePID, KeepGoing, req>>
    BY <1>1 DEF AcquireKeepGoing, Goto, CallerPc, stateVars
  <2>2. Switching(t) = IF req[t].eg THEN "on" ELSE "off"
    BY <2>1 DEF Switching
  <2>3. CASE KeepGoing = req[t].eg
    <3>1. Switching(t)' = "done"
      BY <1>0, <2>1, <2>3 DEF Switching
    <3> QED
      BY <2>1, <2>2, <2>3, <3>1, SwitchRefines
  <2>4. CASE KeepGoing # req[t].eg
    <3>1. Switching(t)' = Switching(t)
      BY <1>0, <2>1, <2>4 DEF Switching
    <3> QED
      BY <2>1, <3>1, StutterRefines
  <2> QED
    BY <2>3, <2>4
<1>2. CASE Start(t) \/ Stop(t)
  <2>1. PICK to \in {"toggled", "signal"} :
          /\ pc[t] \in {"start", "stop"} /\ pc' = [pc EXCEPT ![t] = to]
          /\ KeepGoing' = req[t].eg
          /\ UNCHANGED <<IsDC, IsEnduranceGamingEnabled, GamePID, req>>
    BY <1>0, <1>2 DEF Start, Stop, Goto, WantsWhatItDoes, stateVars
  <2>2. Switching(t) = (IF req[t].eg THEN "on" ELSE "off") /\ Switching(t)' = "done"
    BY <1>0, <2>1 DEF Switching
  <2> QED
    BY <2>1, <2>2, SwitchRefines DEF CallerPc
<1>3. CASE Signal(t) \/ Join(t) \/ ReleaseKeepGoing(t) \/ AcquireSubscribers(t)
  <2>1. PICK to \in {"join", "toggled", "notify", "deliver"} :
          /\ pc[t] \in {"signal", "join", "toggled", "notify"}
          /\ pc' = [pc EXCEPT ![t] = to]
          /\ UNCHANGED <<IsDC, IsEnduranceGamingEnabled, GamePID, KeepGoing, req>>
    BY <1>3 DEF Signal, Join, ReleaseKeepGoing, AcquireSubscribers, Goto,
                stateVars, toggleVars
  <2>2. Switching(t)' = Switching(t)
    BY <1>0, <2>1 DEF Switching
  <2> QED
    BY <2>1, <2>2, StutterRefines DEF CallerPc
<1>4. CASE Deliver(t)
  BY <1>4 DEF Deliver, Switch!vars, Switching, stateVars, toggleVars
<1>5. CASE ReleaseSubscribers(t)
  <2>1. /\ pc[t] = "deliver" /\ pc' = [pc EXCEPT ![t] = "idle"]
        /\ req' = [req EXCEPT ![t] = NoSnapshot]
        /\ UNCHANGED <<IsDC, IsEnduranceGamingEnabled, GamePID, KeepGoing>>
    BY <1>5 DEF ReleaseSubscribers, Goto, stateVars, toggleVars
  <2>2. Switching(t) = "done" /\ Switching(t)' = "outside"
    BY <1>0, <2>1 DEF Switching
  <2>3. abstractCall' = [abstractCall EXCEPT ![t] = "outside"]
    BY <2>1, <2>2, OthersStay DEF CallerPc, TypeOK
  <2>4. Switch!Return(t)
    BY <2>1, <2>2, <2>3 DEF Switch!Return, abstractCall
  <2> QED
    BY <2>4 DEF Switch!Next
<1> QED
  BY <1>1, <1>2, <1>3, <1>4, <1>5 DEF Continue

\* The policy switches its worker as PolicySwitch promises.
THEOREM PolicyImplementsSwitch == Spec => SwitchesOnce
<1>1. Init => Switch!Init
  BY DEF Init, Switch!Init, Switching
<1>2. RInv /\ TypeOK' /\ [Next]_vars => [Switch!Next]_Switch!vars
  <2> SUFFICES ASSUME RInv, TypeOK', [Next]_vars
               PROVE  [Switch!Next]_Switch!vars
    OBVIOUS
  <2>1. ASSUME NEW t \in Callers, Call(t) PROVE [Switch!Next]_Switch!vars
    <3>1. CASE \E s \in Subscribers : Subscribe(t, s) \/ Unsubscribe(t, s)
      BY <3>1 DEF Subscribe, Unsubscribe, Switch!vars, Switching, stateVars,
                  toggleVars
    <3>2. CASE UpdatePowerStatus(t)
      BY <3>2, UpdateRefines DEF UpdatePowerStatus, RInv, TypeOK
    <3>3. CASE UpdateGameStatus(t)
      BY <3>3, UpdateRefines DEF UpdateGameStatus, RInv, TypeOK, Pid
    <3>4. CASE UpdateEnduranceGamingEnabled(t)
      BY <3>4, UpdateRefines DEF UpdateEnduranceGamingEnabled, RInv, TypeOK
    <3> QED
      BY <2>1, <3>1, <3>2, <3>3, <3>4 DEF Call
  <2>2. ASSUME NEW t \in Callers, Continue(t) PROVE [Switch!Next]_Switch!vars
    BY <2>2, ContinueRefines
  <2>3. ASSUME NEW w \in Workers, Run(w) \/ TimeOut(w)
        PROVE  UNCHANGED Switch!vars
    BY <2>3 DEF Run, Check, Wake, TimeOut, Switch!vars, Switching, stateVars
  <2>4. CASE UNCHANGED vars
    BY <2>4 DEF vars, stateVars, toggleVars, Switch!vars, Switching
  <2> QED
    BY <2>1, <2>2, <2>3, <2>4 DEF Next
<1> QED
  BY <1>1, <1>2, WantsInvariant, TypeCorrect, PTL
  DEF Spec, SwitchesOnce, Switch!Spec
=============================================================================
