------------------------ MODULE EnduranceGamingPolicy ------------------------
(***************************************************************************)
(* The endurance-gaming policy object of EnduranceGamingPolicy/.  Several  *)
(* threads (a window procedure, the GPU tracker's thread, the game         *)
(* detector's thread) feed it power, enablement and game updates; it owns  *)
(* one worker thread, which must be running exactly while all three        *)
(* conditions hold, and a list of subscribers that it tells of changes.    *)
(*                                                                         *)
(* An update is a caller's pass through four stages, each under a lock of  *)
(* its own and none of them nested:                                        *)
(*   LockState      compute the old and the new verdict, store the input;  *)
(*   LockKeepGoing  start the worker, or signal it and join it;            *)
(*   Subscribers... call every subscriber back with the snapshot.          *)
(* Every access to the fields guarded by LockState is inside one           *)
(* critical section, so that section is one atomic step here.              *)
(***************************************************************************)
EXTENDS Naturals, FiniteSets

CONSTANTS
  Callers,      \* threads that call the policy's methods
  Games,        \* process ids of games (never 0)
  Subscribers,  \* distinct callback/context pairs
  Workers,      \* identities of EnduranceGamingLogic threads, reused after a join
  NoGame,       \* the pid 0
  NoCaller,     \* owner of a free mutex
  NoWorker,     \* value of a std::thread that is not joinable
  Unheard,      \* what a subscriber that has had no notification has observed
  MaxTokens     \* bound: no toggle is begun with more tokens than this left over

ASSUME ConstantsAssumption ==
  /\ Callers # {}
  /\ NoGame \notin Games
  /\ NoCaller \notin Callers
  /\ NoWorker \notin Workers
  /\ Unheard \notin [eg : BOOLEAN, dc : BOOLEAN, pid : Games \cup {NoGame}]
  /\ MaxTokens \in Nat

VARIABLES
  IsDC, IsEnduranceGamingEnabled, GamePID,   \* guarded by LockState
  KeepGoing,       \* written under LockKeepGoing, read by the worker without it
  handle,          \* ThreadEnduranceGamingLogic: the joinable worker or NoWorker
  LockKeepGoing,   \* owner of that mutex
  tokens,          \* mCount of StopSignaled
  wpc,             \* where each worker thread is
  subs,            \* SubscribersOnEnduranceGamingChanged
  SubscribersLock, \* owner of SubscribersOnEnduranceGamingChangedLock
  observed,        \* the last notification each subscriber was given
  pc,              \* where each caller is
  req,             \* each caller's locals eg2, dc and gamepid
  todo             \* subscribers a caller's notification loop has still to call

stateVars  == <<IsDC, IsEnduranceGamingEnabled, GamePID>>
toggleVars == <<KeepGoing, handle, LockKeepGoing, tokens, wpc>>
subsVars   == <<subs, SubscribersLock, observed, todo>>
vars == <<stateVars, toggleVars, subsVars, pc, req>>

Pid      == Games \cup {NoGame}
Snapshot == [eg : BOOLEAN, dc : BOOLEAN, pid : Pid]
NoSnapshot == [eg |-> FALSE, dc |-> FALSE, pid |-> NoGame]

CallerPc == {"idle", "toggle", "start", "stop", "signal", "join", "toggled",
             "notify", "deliver"}
WorkerPc == {"none", "check", "wait", "exited"}

\* Callers that are inside the section guarded by LockKeepGoing.
Toggling == {"start", "stop", "signal", "join", "toggled"}

IsEnduranceGamingLogicActive ==
  IsDC /\ GamePID # NoGame /\ IsEnduranceGamingEnabled

\* The constructor sets IsDC and GamePID; the program's only policy is the global
\* gEGP of TestEG.cpp, whose other members static storage has zeroed.
Init ==
  /\ IsDC = FALSE /\ IsEnduranceGamingEnabled = FALSE /\ GamePID = NoGame
  /\ KeepGoing = FALSE /\ handle = NoWorker /\ LockKeepGoing = NoCaller
  /\ tokens = 0
  /\ wpc = [w \in Workers |-> "none"]
  /\ subs = {} /\ SubscribersLock = NoCaller
  /\ observed = [s \in Subscribers |-> Unheard]
  /\ pc = [t \in Callers |-> "idle"]
  /\ req = [t \in Callers |-> NoSnapshot]
  /\ todo = [t \in Callers |-> {}]

Goto(t, from, to) == pc[t] = from /\ pc' = [pc EXCEPT ![t] = to]

-----------------------------------------------------------------------------
(***************************************************************************)
(* Faults a plausible edit of the code would introduce; the definitions    *)
(* they would replace follow.                                              *)
(***************************************************************************)
\* The snapshot's dc is read before the input is stored.
Update_StaleSnapshot(t, dc, enabled, pid) ==
  LET eg2 == dc /\ pid # NoGame /\ enabled IN
  /\ pc[t] = "idle"
  /\ (IsEnduranceGamingLogicActive # eg2) => tokens <= MaxTokens
  /\ IsDC' = dc /\ IsEnduranceGamingEnabled' = enabled /\ GamePID' = pid
  /\ IF IsEnduranceGamingLogicActive = eg2 THEN UNCHANGED <<pc, req>>
     ELSE /\ pc' = [pc EXCEPT ![t] = "toggle"]
          /\ req' = [req EXCEPT ![t] = [eg |-> eg2, dc |-> IsDC, pid |-> pid]]
  /\ UNCHANGED <<toggleVars, subsVars>>

\* "changed" compares the input with its old value instead of the verdicts,
\* and toggles with the old verdict.
Update_OldVerdict(t, dc, enabled, pid) ==
  LET eg2 == dc /\ pid # NoGame /\ enabled IN
  /\ pc[t] = "idle"
  /\ (IsEnduranceGamingLogicActive # eg2) => tokens <= MaxTokens
  /\ IsDC' = dc /\ IsEnduranceGamingEnabled' = enabled /\ GamePID' = pid
  /\ IF IsEnduranceGamingLogicActive = eg2 THEN UNCHANGED <<pc, req>>
     ELSE /\ pc' = [pc EXCEPT ![t] = "toggle"]
          /\ req' = [req EXCEPT ![t] =
                       [eg |-> IsEnduranceGamingLogicActive, dc |-> dc, pid |-> pid]]
  /\ UNCHANGED <<toggleVars, subsVars>>

\* The lock guard around the toggle is dropped.
AcquireKeepGoing_NoLock(t) ==
  /\ Goto(t, "toggle", IF req[t].eg
                       THEN IF KeepGoing THEN "toggled" ELSE "start"
                       ELSE IF KeepGoing THEN "stop" ELSE "toggled")
  /\ LockKeepGoing' = t
  /\ UNCHANGED <<stateVars, KeepGoing, handle, tokens, wpc, subsVars, req>>

\* The semaphore is not notified at all.
Signal_Lost(t) ==
  /\ Goto(t, "signal", "join")
  /\ UNCHANGED <<stateVars, toggleVars, subsVars, req>>

\* The worker is told to stop and is detached instead of joined.
Join_Detach(t) ==
  /\ Goto(t, "join", "toggled")
  /\ handle # NoWorker
  /\ handle' = NoWorker
  /\ UNCHANGED <<stateVars, KeepGoing, LockKeepGoing, tokens, wpc, subsVars, req>>

\* Unsubscribe does not take the subscribers' lock.
Unsubscribe_NoLock(t, s) ==
  /\ pc[t] = "idle" /\ s \in subs
  /\ subs' = subs \ {s}
  /\ observed' = [observed EXCEPT ![s] = Unheard]
  /\ UNCHANGED <<stateVars, toggleVars, SubscribersLock, todo, pc, req>>

-----------------------------------------------------------------------------
(***************************************************************************)
(* The three updates.  Each is one critical section of LockState: the      *)
(* verdict before, the assignment, the verdict after, and the snapshot the *)
(* caller carries on with when the two verdicts differ.                    *)
(***************************************************************************)
Update(t, dc, enabled, pid) ==
  LET eg2 == dc /\ pid # NoGame /\ enabled IN
  /\ pc[t] = "idle"
  /\ (IsEnduranceGamingLogicActive # eg2) => tokens <= MaxTokens
  /\ IsDC' = dc /\ IsEnduranceGamingEnabled' = enabled /\ GamePID' = pid
  /\ IF IsEnduranceGamingLogicActive = eg2 THEN UNCHANGED <<pc, req>>
     ELSE /\ pc' = [pc EXCEPT ![t] = "toggle"]
          /\ req' = [req EXCEPT ![t] = [eg |-> eg2, dc |-> dc, pid |-> pid]]
  /\ UNCHANGED <<toggleVars, subsVars>>

\* GetSystemPowerStatus reports AC or battery, or fails and leaves IsDC alone.
UpdatePowerStatus(t) ==
  \E dc \in BOOLEAN : Update(t, dc, IsEnduranceGamingEnabled, GamePID)

\* Any pid, but only a game on the Intel integrated GPU is kept.
UpdateGameStatus(t) ==
  \E pid \in Pid, isIntelIntegratedGfx \in BOOLEAN :
     Update(t, IsDC, IsEnduranceGamingEnabled,
            IF isIntelIntegratedGfx /\ pid # NoGame THEN pid ELSE NoGame)

UpdateEnduranceGamingEnabled(t) ==
  \E isEnabled \in BOOLEAN : Update(t, IsDC, isEnabled, GamePID)

(***************************************************************************)
(* ToggleEnduranceGamingLogic, under LockKeepGoing throughout.             *)
(***************************************************************************)
AcquireKeepGoing(t) ==
  /\ LockKeepGoing = NoCaller
  /\ Goto(t, "toggle", IF req[t].eg
                       THEN IF KeepGoing THEN "toggled" ELSE "start"
                       ELSE IF KeepGoing THEN "stop" ELSE "toggled")
  /\ LockKeepGoing' = t
  /\ UNCHANGED <<stateVars, KeepGoing, handle, tokens, wpc, subsVars, req>>

\* A previous worker that is still joinable is joined before the new one.
Start(t) ==
  /\ Goto(t, "start", "toggled")
  /\ handle # NoWorker => wpc[handle] = "exited"
  /\ KeepGoing' = TRUE
  /\ \E w \in Workers :
       /\ wpc[w] = "none"
       /\ handle' = w
       /\ wpc' = [x \in Workers |-> IF x = w THEN "check"
                                    ELSE IF x = handle THEN "none" ELSE wpc[x]]
  /\ UNCHANGED <<stateVars, LockKeepGoing, tokens, subsVars, req>>

Stop(t) ==
  /\ Goto(t, "stop", "signal")
  /\ KeepGoing' = FALSE
  /\ UNCHANGED <<stateVars, handle, LockKeepGoing, tokens, wpc, subsVars, req>>

Signal(t) ==
  /\ Goto(t, "signal", "join")
  /\ tokens' = tokens + 1
  /\ UNCHANGED <<stateVars, KeepGoing, handle, LockKeepGoing, wpc, subsVars, req>>

Join(t) ==
  /\ Goto(t, "join", "toggled")
  /\ handle # NoWorker /\ wpc[handle] = "exited"
  /\ wpc' = [wpc EXCEPT ![handle] = "none"]
  /\ handle' = NoWorker
  /\ UNCHANGED <<stateVars, KeepGoing, LockKeepGoing, tokens, subsVars, req>>

ReleaseKeepGoing(t) ==
  /\ Goto(t, "toggled", "notify")
  /\ LockKeepGoing' = NoCaller
  /\ UNCHANGED <<stateVars, KeepGoing, handle, tokens, wpc, subsVars, req>>

(***************************************************************************)
(* NotifySubscribers holds the subscribers' lock across all callbacks.     *)
(***************************************************************************)
AcquireSubscribers(t) ==
  /\ SubscribersLock = NoCaller
  /\ Goto(t, "notify", "deliver")
  /\ SubscribersLock' = t
  /\ todo' = [todo EXCEPT ![t] = subs]
  /\ UNCHANGED <<stateVars, toggleVars, subs, observed, req>>

Deliver(t) ==
  /\ pc[t] = "deliver"
  /\ \E s \in todo[t] :
       /\ observed' = [observed EXCEPT ![s] = req[t]]
       /\ todo' = [todo EXCEPT ![t] = @ \ {s}]
  /\ UNCHANGED <<stateVars, toggleVars, subs, SubscribersLock, pc, req>>

ReleaseSubscribers(t) ==
  /\ Goto(t, "deliver", "idle")
  /\ todo[t] = {}
  /\ SubscribersLock' = NoCaller
  /\ req' = [req EXCEPT ![t] = NoSnapshot]
  /\ UNCHANGED <<stateVars, toggleVars, subs, observed, todo>>

\* A duplicate pair throws and changes nothing.
Subscribe(t, s) ==
  /\ pc[t] = "idle" /\ SubscribersLock = NoCaller
  /\ s \notin subs
  /\ subs' = subs \cup {s}
  /\ UNCHANGED <<stateVars, toggleVars, SubscribersLock, observed, todo, pc, req>>

Unsubscribe(t, s) ==
  /\ pc[t] = "idle" /\ SubscribersLock = NoCaller
  /\ s \in subs
  /\ subs' = subs \ {s}
  /\ observed' = [observed EXCEPT ![s] = Unheard]
  /\ UNCHANGED <<stateVars, toggleVars, SubscribersLock, todo, pc, req>>

(***************************************************************************)
(* The worker: while (KeepGoing) wait_until(now + 30 s).  KeepGoing is     *)
(* read without its lock; a stale read is a read made a moment earlier.    *)
(***************************************************************************)
Check(w) ==
  /\ wpc[w] = "check"
  /\ wpc' = [wpc EXCEPT ![w] = IF KeepGoing THEN "wait" ELSE "exited"]
  /\ UNCHANGED <<stateVars, KeepGoing, handle, LockKeepGoing, tokens, subsVars, pc, req>>

Wake(w) ==
  /\ wpc[w] = "wait" /\ tokens > 0
  /\ tokens' = tokens - 1
  /\ wpc' = [wpc EXCEPT ![w] = "check"]
  /\ UNCHANGED <<stateVars, KeepGoing, handle, LockKeepGoing, subsVars, pc, req>>

TimeOut(w) ==
  /\ wpc[w] = "wait" /\ tokens = 0
  /\ wpc' = [wpc EXCEPT ![w] = "check"]
  /\ UNCHANGED <<stateVars, KeepGoing, handle, LockKeepGoing, tokens, subsVars, pc, req>>

-----------------------------------------------------------------------------
\* The rest of an update once it has left LockState.
Continue(t) ==
  \/ AcquireKeepGoing(t) \/ Start(t) \/ Stop(t) \/ Signal(t) \/ Join(t)
  \/ ReleaseKeepGoing(t)
  \/ AcquireSubscribers(t) \/ Deliver(t) \/ ReleaseSubscribers(t)

Call(t) ==
  \/ UpdatePowerStatus(t) \/ UpdateGameStatus(t) \/ UpdateEnduranceGamingEnabled(t)
  \/ \E s \in Subscribers : Subscribe(t, s) \/ Unsubscribe(t, s)

Run(w) == Check(w) \/ Wake(w)

Next ==
  \/ \E t \in Callers : Call(t) \/ Continue(t)
  \/ \E w \in Workers : Run(w) \/ TimeOut(w)

Spec == Init /\ [][Next]_vars

(***************************************************************************)
(* Threads that can run are scheduled.  Nothing is assumed of calls, of    *)
(* timeouts (the 30 s are never waited out), or of who wins a contended    *)
(* mutex: weak fairness of a blocked acquisition promises nothing.         *)
(***************************************************************************)
Fairness ==
  /\ \A t \in Callers : WF_vars(Continue(t))
  /\ \A w \in Workers : WF_vars(Run(w))

FairSpec == Spec /\ Fairness

\* As FairSpec, with mutexes that let everybody in who waits long enough.
FairMutexSpec ==
  /\ FairSpec
  /\ \A t \in Callers : SF_vars(AcquireKeepGoing(t)) /\ SF_vars(AcquireSubscribers(t))

-----------------------------------------------------------------------------
TypeOK ==
  /\ IsDC \in BOOLEAN /\ IsEnduranceGamingEnabled \in BOOLEAN /\ GamePID \in Pid
  /\ KeepGoing \in BOOLEAN
  /\ handle \in Workers \cup {NoWorker}
  /\ LockKeepGoing \in Callers \cup {NoCaller}
  /\ tokens \in Nat
  /\ wpc \in [Workers -> WorkerPc]
  /\ subs \subseteq Subscribers
  /\ SubscribersLock \in Callers \cup {NoCaller}
  /\ observed \in [Subscribers -> Snapshot \cup {Unheard}]
  /\ pc \in [Callers -> CallerPc]
  /\ req \in [Callers -> Snapshot]
  /\ todo \in [Callers -> SUBSET Subscribers]

Live(w) == wpc[w] \in {"check", "wait"}

\* However the callers' toggles interleave, two EnduranceGamingLogic threads
\* never exist at once, and the one that exists is the one that will be joined
\* (ToggleEnduranceGamingLogic, and std::thread's rule that a joinable object
\* may not be overwritten).
AtMostOneWorker ==
  \A w \in Workers : wpc[w] # "none" <=> handle = w

\* Whenever no toggle is in progress, KeepGoing tells the truth about the
\* worker: it is set exactly when a worker is running, so a worker is never
\* orphaned and a start is never skipped because of a dead one.
KeepGoingMeansRunning ==
  LockKeepGoing = NoCaller => (KeepGoing <=> \E w \in Workers : Live(w))

\* The stop signal cannot be lost: a caller that waits in join() waits for a
\* worker that has exited, is about to look at KeepGoing, or has a token to
\* wake it.  No join ever sits out the 30-second sleep.
StopIsNeverLost ==
  \A t \in Callers : pc[t] = "join" =>
     handle # NoWorker /\ (wpc[handle] = "wait" => tokens > 0)

\* What a subscriber is told is one consistent snapshot: "active" is only ever
\* reported together with a game and battery power.
ObservedIsConsistent ==
  \A s \in Subscribers : observed[s] # Unheard /\ observed[s].eg =>
     observed[s].dc /\ observed[s].pid # NoGame

\* A subscriber that has unsubscribed is not called any more: the list cannot
\* change under a notification loop.
NoCallbackAfterUnsubscribe ==
  \A t \in Callers : todo[t] \subseteq subs

Quiescent == \A t \in Callers : pc[t] = "idle"

\* EnduranceGamingPolicy.h:29 of IsEnduranceGamingLogicActive: "Returns true if
\* EnduranceGamingLogic thread is running/active", read where no update is in
\* progress.
ActiveMeansRunning ==
  Quiescent => (IsEnduranceGamingLogicActive <=> \E w \in Workers : Live(w))

-----------------------------------------------------------------------------
\* A call switches the worker when it has set KeepGoing, or has found it set
\* as wanted; what follows is waiting and notifying.
Switching(t) ==
  CASE pc[t] = "idle" -> "outside"
    [] pc[t] \in {"toggle", "start", "stop"} -> IF req[t].eg THEN "on" ELSE "off"
    [] OTHER -> "done"

Switch == INSTANCE PolicySwitch
            WITH running <- KeepGoing, call <- [t \in Callers |-> Switching(t)]

\* The policy keeps what PolicySwitch promises: every update is one step, and
\* every call that changed the verdict switches the worker to its own verdict
\* exactly once, however the sections of several calls interleave.
SwitchesOnce == Switch!Spec

\* With fair mutexes every call also returns, join and notifications included.
CallsReturn == Switch!Fairness
=============================================================================
