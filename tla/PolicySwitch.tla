---------------------------- MODULE PolicySwitch ----------------------------
(***************************************************************************)
(* What EnduranceGamingPolicy promises to its callers, without the mutex,  *)
(* the semaphore, the thread and the subscribers that make it so.  A       *)
(* method stores its input and computes the verdict in one step; when the  *)
(* verdict changed, the call then switches the EnduranceGamingLogic thread *)
(* to that verdict, once and in one step, some time before it returns.     *)
(* Calls of several threads overlap, so the last switch need not be that   *)
(* of the last update.                                                     *)
(***************************************************************************)
CONSTANTS Callers, Games, NoGame

VARIABLES
  IsDC, IsEnduranceGamingEnabled, GamePID,
  running,   \* the EnduranceGamingLogic thread has been told to run
  call       \* each caller: outside, bound to switch on or off, or done so

vars == <<IsDC, IsEnduranceGamingEnabled, GamePID, running, call>>

Pid == Games \cup {NoGame}

Init ==
  /\ IsDC = FALSE /\ IsEnduranceGamingEnabled = FALSE /\ GamePID = NoGame
  /\ running = FALSE
  /\ call = [t \in Callers |-> "outside"]

Verdict(dc, enabled, pid) == dc /\ enabled /\ pid # NoGame

\* UpdatePowerStatus, UpdateGameStatus or UpdateEnduranceGamingEnabled.
Update(t, dc, enabled, pid) ==
  /\ call[t] = "outside"
  /\ IsDC' = dc /\ IsEnduranceGamingEnabled' = enabled /\ GamePID' = pid
  /\ call' = IF Verdict(IsDC, IsEnduranceGamingEnabled, GamePID) =
                Verdict(dc, enabled, pid)
             THEN call
             ELSE [call EXCEPT ![t] =
                     IF Verdict(dc, enabled, pid) THEN "on" ELSE "off"]
  /\ UNCHANGED running

\* ToggleEnduranceGamingLogic takes effect.
Switch(t) ==
  /\ call[t] \in {"on", "off"}
  /\ running' = (call[t] = "on")
  /\ call' = [call EXCEPT ![t] = "done"]
  /\ UNCHANGED <<IsDC, IsEnduranceGamingEnabled, GamePID>>

\* The subscribers have been notified and the method returns.
Return(t) ==
  /\ call[t] = "done"
  /\ call' = [call EXCEPT ![t] = "outside"]
  /\ UNCHANGED <<IsDC, IsEnduranceGamingEnabled, GamePID, running>>

Next ==
  \E t \in Callers :
    \/ \E dc, enabled \in BOOLEAN, pid \in Pid : Update(t, dc, enabled, pid)
    \/ Switch(t)
    \/ Return(t)

Spec == Init /\ [][Next]_vars

\* Calls return.
Fairness == \A t \in Callers : WF_vars(Switch(t)) /\ WF_vars(Return(t))

FairSpec == Spec /\ Fairness
=============================================================================
