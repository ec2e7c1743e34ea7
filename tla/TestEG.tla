------------------------------- MODULE TestEG -------------------------------
(***************************************************************************)
(* The program TestEG, which puts the pieces together: the GPU tracker's   *)
(* thread reports every process that uses the GPU once a second, the game  *)
(* detector decides which of them is the game, its own thread polls every  *)
(* three seconds whether that game has exited, Windows calls it back when  *)
(* game mode comes or goes, the window procedure hears of power changes,   *)
(* and every one of them calls into the one EnduranceGamingPolicy.         *)
(*                                                                         *)
(* The policy is PolicySwitch, which EnduranceGamingPolicy is shown to     *)
(* implement, with these four threads as its callers.  A thread's place    *)
(* outside such a call is in "place"; how far its call is, in "call".      *)
(*                                                                         *)
(* Left out: what the FPS tracker and the window's title do, which only    *)
(* read (the tracker's output thread takes LockState for a moment, which   *)
(* its Stop in wWinMain waits for); who is the Intel GPU's is fixed per    *)
(* process, so the cached answer of OnGpuChanged is always the right one   *)
(* (only its own thread writes it).                                        *)
(***************************************************************************)
CONSTANTS
  Games,           \* processes that use the GPU
  OnIgfx,          \* those that do so on the Intel integrated one
  window, gpu, detector, powerMode,   \* the four threads
  NoGame, NoCaller

Callers == {window, gpu, detector, powerMode}

ASSUME TestEGAssumption ==
  /\ OnIgfx \subseteq Games
  /\ NoGame \notin Games
  /\ gpu # detector /\ gpu # powerMode /\ detector # powerMode
  /\ window \notin {gpu, detector, powerMode}
  /\ NoCaller \notin Callers

VARIABLES
  IsDC, IsEnduranceGamingEnabled, GamePID, running, call,   \* the policy
  \* the world
  proc,            \* what has become of each process
  foreground,      \* owner of the foreground window
  \* GameDetectionLogic
  IsGameMode,
  DetectedPID,     \* GameDetectionLogic::GamePID
  LockState,       \* owner of its LockState, when held across a step
  SubscribersOnGameChangedLock,
  told,            \* the gamePID a thread is about to notify
  \* the threads
  stage,           \* how far wWinMain has come
  place,           \* where each of the other threads is
  reports,         \* PID2_LUID_PERCENT: processes still to be reported
  overtaken        \* history: games whose exit was told to the policy while
                   \* OnGpuChanged was about to pass them on

Policy == INSTANCE PolicySwitch

policyVars == <<IsDC, IsEnduranceGamingEnabled, GamePID, running, call>>
worldVars == <<proc, foreground>>
detectorVars ==
  <<IsGameMode, DetectedPID, LockState, SubscribersOnGameChangedLock, told>>
threadVars == <<stage, place, reports>>
vars == <<policyVars, worldVars, detectorVars, threadVars, overtaken>>

Pid == Games \cup {NoGame}

Running == {p \in Games : proc[p] = "running"}

Init ==
  /\ Policy!Init
  /\ proc = [p \in Games |-> "none"]
  /\ foreground = NoGame
  /\ IsGameMode = FALSE /\ DetectedPID = NoGame
  /\ LockState = NoCaller /\ SubscribersOnGameChangedLock = NoCaller
  /\ told = [t \in Callers |-> NoGame]
  /\ stage = "enable"
  /\ place = [t \in Callers |-> "asleep"]
  /\ reports = {} /\ overtaken = {}

\* A thread moves on, outside the policy.
Step(t, from, to) == place[t] = from /\ place' = [place EXCEPT ![t] = to]

-----------------------------------------------------------------------------
(***************************************************************************)
(* The world.  A process id is used once.  While anybody has a handle of   *)
(* an exited process it can still be opened by its id; when the last one   *)
(* is closed, at any time from the exit on, the id is gone.                *)
(***************************************************************************)
World ==
  /\ \/ \E p \in Games :
          \/ /\ proc[p] = "none"
             /\ proc' = [proc EXCEPT ![p] = "running"]
             /\ UNCHANGED foreground
          \/ /\ proc[p] = "running"
             /\ proc' = [proc EXCEPT ![p] = "exited"]
             /\ foreground' = IF foreground = p THEN NoGame ELSE foreground
          \/ /\ proc[p] = "exited"
             /\ proc' = [proc EXCEPT ![p] = "gone"]
             /\ UNCHANGED foreground
     \/ /\ foreground' \in (Running \cup {NoGame}) \ {foreground}
        /\ UNCHANGED proc
  /\ UNCHANGED <<policyVars, detectorVars, threadVars, overtaken>>

-----------------------------------------------------------------------------
(***************************************************************************)
(* wWinMain and the window procedure.                                      *)
(***************************************************************************)
Started == stage \notin {"enable", "power"}

\* Enablement and power are read before any other thread exists.
EnableEnduranceGaming ==
  /\ stage = "enable" /\ stage' = "power"
  /\ Policy!Update(window, IsDC, TRUE, GamePID)
  /\ UNCHANGED <<worldVars, detectorVars, place, reports, overtaken>>

\* Then at each WM_POWERBROADCAST, which may come at any time; the policy asks
\* Windows itself for the status dc, which may have changed again.
UpdatePowerStatus(dc) ==
  /\ stage \in {"power", "loop"} /\ stage' = "loop"
  /\ Policy!Update(window, dc, IsEnduranceGamingEnabled, GamePID)
  /\ UNCHANGED <<worldVars, detectorVars, place, reports, overtaken>>

\* After the message loop: GameDetectionLogic::Stop clears KeepGoing and joins
\* its thread; OnGameChanged is unsubscribed under the subscribers' lock;
\* FpsTracker::Stop joins its output thread, whose OnFpsChanged takes
\* LockState; GpuTracker::Stop clears KeepMonitoring and joins its thread.
\* (The locks of the two later unsubscribe calls have no other taker by then.)
Quit ==
  /\ \/ stage = "loop" /\ call[window] = "outside" /\ stage' = "stopDetector"
     \/ stage = "stopDetector" /\ place[detector] = "ended" /\ stage' = "unsubscribe"
     \/ /\ stage = "unsubscribe" /\ SubscribersOnGameChangedLock = NoCaller
        /\ stage' = "stopFps"
     \/ stage = "stopFps" /\ LockState = NoCaller /\ stage' = "stopGpu"
     \/ stage = "stopGpu" /\ place[gpu] = "ended" /\ stage' = "ended"
  /\ UNCHANGED <<policyVars, worldVars, detectorVars, place, reports,
                 overtaken>>

\* OnGameChanged is among the subscribers.
Subscribed == stage \in {"enable", "power", "loop", "stopDetector", "unsubscribe"}

-----------------------------------------------------------------------------
(***************************************************************************)
(* GpuTracker's thread, with OnGpuChanged of TestEG as its subscriber.     *)
(***************************************************************************)
\* Fault: KeepMonitoring is not looked at.
QueryAllGpuProcesses_Forever ==
  /\ Started
  /\ Step(gpu, "asleep", "reporting") /\ reports' = Running
  /\ UNCHANGED <<policyVars, worldVars, detectorVars, stage, overtaken>>

\* A pass over all processes begins, or KeepMonitoring is seen to be false.
QueryAllGpuProcesses ==
  /\ Started
  /\ IF stage \in {"stopGpu", "ended"}
     THEN Step(gpu, "asleep", "ended") /\ reports' = reports
     ELSE Step(gpu, "asleep", "reporting") /\ reports' = Running
  /\ UNCHANGED <<policyVars, worldVars, detectorVars, stage, overtaken>>

EndOfPass ==
  /\ reports = {} /\ Step(gpu, "reporting", "asleep")
  /\ UNCHANGED <<policyVars, worldVars, detectorVars, stage, reports,
                 overtaken>>

\* Fault: game mode does not make up for a low utilization.
BecomesGame_NeedsLoad(p, busy) == foreground = p /\ busy

\* AttemptAssignGamePID: a process in front becomes the game if game mode is
\* on, or if its utilization is above 30 %.
BecomesGame(p, busy) == foreground = p /\ (IsGameMode \/ busy)

\* IsGamingPID, all of it under LockState: p is the game already or becomes it.
IsGamingPID(p, busy) ==
  /\ p \in reports /\ LockState = NoCaller
  /\ IF DetectedPID = p
     THEN Step(gpu, "reporting", "known") /\ UNCHANGED <<DetectedPID, LockState, reports>>
     ELSE IF BecomesGame(p, busy)
     THEN /\ Step(gpu, "reporting", "assigned")
          /\ DetectedPID' = p /\ LockState' = gpu
          /\ UNCHANGED reports
     ELSE /\ place[gpu] = "reporting" /\ UNCHANGED place
          /\ reports' = reports \ {p}
          /\ UNCHANGED <<DetectedPID, LockState>>
  /\ told' = [told EXCEPT ![gpu] = IF p = DetectedPID' THEN p ELSE NoGame]
  /\ UNCHANGED <<policyVars, worldVars, IsGameMode,
                 SubscribersOnGameChangedLock, stage, overtaken>>

\* AttemptAssignGamePID notifies while IsGamingPID still holds LockState;
\* OnGameChanged with a pid that is not 0 only posts a message.
NotifyAssigned ==
  /\ SubscribersOnGameChangedLock = NoCaller
  /\ Step(gpu, "assigned", "known")
  /\ LockState' = NoCaller
  /\ UNCHANGED <<policyVars, worldVars, IsGameMode, DetectedPID,
                 SubscribersOnGameChangedLock, told, stage, reports, overtaken>>

\* Fault: a game on another GPU is not the policy's business.
OnGpuChanged_OnlyIgfx ==
  /\ Step(gpu, "known", "updating")
  /\ IF told[gpu] \in OnIgfx
     THEN Policy!Update(gpu, IsDC, IsEnduranceGamingEnabled, told[gpu])
     ELSE UNCHANGED policyVars
  /\ UNCHANGED <<worldVars, detectorVars, stage, reports, overtaken>>

\* OnGpuChanged goes on with the answer, without a lock.
OnGpuChanged ==
  /\ Step(gpu, "known", "updating")
  /\ Policy!Update(gpu, IsDC, IsEnduranceGamingEnabled,
                   IF told[gpu] \in OnIgfx THEN told[gpu] ELSE NoGame)
  /\ UNCHANGED <<worldVars, detectorVars, stage, reports, overtaken>>

GpuReported ==
  /\ call[gpu] = "outside" /\ Step(gpu, "updating", "reporting")
  /\ reports' = reports \ {told[gpu]}
  /\ told' = [told EXCEPT ![gpu] = NoGame]
  /\ UNCHANGED <<policyVars, worldVars, IsGameMode, DetectedPID, LockState,
                 SubscribersOnGameChangedLock, stage, overtaken>>

-----------------------------------------------------------------------------
(***************************************************************************)
(* GameDetectionLogic's thread and its callback from Windows.              *)
(***************************************************************************)
\* Fault: only a process that cannot be opened has exited.
CheckIfGameExited_Gone == DetectedPID # NoGame /\ proc[DetectedPID] = "gone"

\* CheckIfGameExited: a process that cannot be opened any more is taken for
\* one that has not exited.
CheckIfGameExited == DetectedPID # NoGame /\ proc[DetectedPID] = "exited"

\* The thread looks at KeepGoing, without a lock, then checks under LockState.
ThreadEntryCheckForGameExit ==
  /\ \/ /\ Started
        /\ Step(detector, "asleep", IF stage = "loop" THEN "checking" ELSE "ended")
        /\ UNCHANGED DetectedPID
     \/ /\ LockState = NoCaller
        /\ IF CheckIfGameExited
           THEN Step(detector, "checking", "notifying") /\ DetectedPID' = NoGame
           ELSE Step(detector, "checking", "asleep") /\ UNCHANGED DetectedPID
  /\ UNCHANGED <<policyVars, worldVars, IsGameMode, LockState,
                 SubscribersOnGameChangedLock, told, stage, reports, overtaken>>

\* EFFECTIVE_POWER_MODE_CALLBACK_Status for a mode that is new, until Stop
\* has unregistered it.
EffectivePowerModeCallback ==
  /\ stage = "loop" /\ LockState = NoCaller
  /\ Step(powerMode, "asleep", "notifying")
  /\ IsGameMode' = ~IsGameMode
  /\ told' = [told EXCEPT ![powerMode] = DetectedPID]
  /\ UNCHANGED <<policyVars, worldVars, DetectedPID, LockState,
                 SubscribersOnGameChangedLock, stage, reports, overtaken>>

\* What OnGpuChanged is about to pass on and the detector has already given up.
AboutToPass == IF place[gpu] = "known" THEN {told[gpu]} \ {DetectedPID} ELSE {}

\* NotifySubscribers, from a thread that holds no other lock; OnGameChanged
\* with pid 0 calls the policy under the subscribers' lock.
NotifySubscribers(t) ==
  /\ SubscribersOnGameChangedLock = NoCaller
  /\ IF Subscribed /\ told[t] = NoGame
     THEN /\ Step(t, "notifying", "updating")
          /\ SubscribersOnGameChangedLock' = t
          /\ Policy!Update(t, IsDC, IsEnduranceGamingEnabled, NoGame)
          /\ overtaken' = IF t = detector THEN overtaken \cup AboutToPass
                          ELSE overtaken
     ELSE /\ Step(t, "notifying", "asleep")
          /\ UNCHANGED <<policyVars, SubscribersOnGameChangedLock, overtaken>>
  /\ told' = [told EXCEPT ![t] = NoGame]
  /\ UNCHANGED <<worldVars, IsGameMode, DetectedPID, LockState, stage, reports>>

Notified(t) ==
  /\ call[t] = "outside" /\ Step(t, "updating", "asleep")
  /\ SubscribersOnGameChangedLock' = NoCaller
  /\ UNCHANGED <<policyVars, worldVars, IsGameMode, DetectedPID, LockState,
                 told, stage, reports, overtaken>>

-----------------------------------------------------------------------------
\* The rest of a call of the policy.
PolicyStep(t) ==
  /\ Policy!Switch(t) \/ Policy!Return(t)
  /\ UNCHANGED <<worldVars, detectorVars, threadVars, overtaken>>

GpuThread ==
  \/ QueryAllGpuProcesses \/ EndOfPass
  \/ \E p \in Games, busy \in BOOLEAN : IsGamingPID(p, busy)
  \/ NotifyAssigned \/ OnGpuChanged \/ GpuReported

Notifier(t) == NotifySubscribers(t) \/ Notified(t)

Next ==
  \/ World
  \/ EnableEnduranceGaming \/ (\E dc \in BOOLEAN : UpdatePowerStatus(dc)) \/ Quit
  \/ GpuThread
  \/ ThreadEntryCheckForGameExit \/ EffectivePowerModeCallback
  \/ \E t \in {detector, powerMode} : Notifier(t)
  \/ \E t \in Callers : PolicyStep(t)

Spec == Init /\ [][Next]_vars

(***************************************************************************)
(* Threads that can run are scheduled.  Who waits for a mutex that others  *)
(* take again and again gets it in the end (strong fairness): every loop   *)
(* that takes one sleeps a second or more between two rounds.  Nothing is  *)
(* assumed of the world, of Windows' callback or of the user.              *)
(***************************************************************************)
Fairness ==
  /\ WF_vars(EnableEnduranceGaming)
  /\ WF_vars(stage = "power" /\ \E dc \in BOOLEAN : UpdatePowerStatus(dc))
  /\ SF_vars(Quit /\ stage # "loop")
  /\ WF_vars(GpuThread)
  /\ SF_vars(ThreadEntryCheckForGameExit)
  /\ \A t \in {detector, powerMode} : SF_vars(Notifier(t))
  /\ \A t \in Callers : WF_vars(PolicyStep(t))

FairSpec == Spec /\ Fairness

-----------------------------------------------------------------------------
TypeOK ==
  /\ IsDC \in BOOLEAN /\ IsEnduranceGamingEnabled \in BOOLEAN /\ GamePID \in Pid
  /\ running \in BOOLEAN
  /\ call \in [Callers -> {"outside", "on", "off", "done"}]
  /\ proc \in [Games -> {"none", "running", "exited", "gone"}]
  /\ foreground \in Running \cup {NoGame}
  /\ IsGameMode \in BOOLEAN /\ DetectedPID \in Pid
  /\ LockState \in {NoCaller, gpu}
  /\ SubscribersOnGameChangedLock \in {NoCaller, detector, powerMode}
  /\ told \in [Callers -> Pid]
  /\ stage \in {"enable", "power", "loop", "stopDetector", "unsubscribe",
                "stopFps", "stopGpu", "ended"}
  /\ place \in [Callers -> {"asleep", "reporting", "assigned", "known", "checking",
                           "updating", "notifying", "ended"}]
  /\ reports \subseteq Games /\ overtaken \subseteq Games

\* Between two reports of the GPU tracker, and when the detector has no exit
\* left to tell, the policy holds no other game than the detector's: one that
\* was replaced, by one on another GPU too, or that exited is never left behind,
\* whatever the other threads notified meanwhile.  The exception is exact: a
\* game whose exit was told between IsGamingPID and UpdateGameStatus, neither of
\* whose locks OnGpuChanged (TestEG.cpp:157-174) holds, is put back and stays.
\* Every such game has really exited.
PolicyFollowsDetector ==
  /\ place[gpu] \in {"asleep", "reporting", "ended"} /\ place[detector] # "notifying" =>
       GamePID \in {NoGame, DetectedPID} \cup overtaken
  /\ \A p \in overtaken : proc[p] \in {"exited", "gone"}

\* The detector's game is in one of the states.
GameIs(states) == DetectedPID # NoGame /\ proc[DetectedPID] \in states

\* GameDetectionLogic.h:36 offers "game launch/exit events", and README.md:30
\* has EG=0 a few seconds after the game exits: the exit of the game is noticed
\* while the program runs.
ExitIsNoticed ==
  GameIs({"exited", "gone"}) ~> ~GameIs({"exited", "gone"}) \/ stage # "loop"

\* What the code does of it: no process that has exited and can still be opened
\* stays the game; somebody else's handle of it keeps it so until a check.
OpenableExitIsNoticed ==
  GameIs({"exited"}) ~> ~GameIs({"exited"}) \/ stage # "loop"

\* A game on the integrated GPU that stays in front in game mode becomes and
\* stays the policy's game, however many notifications of an earlier state are
\* still under way: the next report of the GPU tracker puts them right.
GameIsRecognised ==
  \A p \in OnIgfx :
    <>[](foreground = p /\ IsGameMode /\ stage = "loop") => <>[](GamePID = p)

\* The program that has left its message loop ends, whatever its threads were
\* doing.
ShutdownCompletes == stage = "stopDetector" ~> stage = "ended"
=============================================================================
