---------------------------- MODULE TestEGProofs ----------------------------
(***************************************************************************)
(* TestEG for any set of games: the type of its state, and that between    *)
(* two reports, with no exit left to tell, the policy has no game but the  *)
(* detector's or one whose exit was told just before OnGpuChanged passed   *)
(* it on.                                                                  *)
(*                                                                         *)
(* PolicyFollowsDetector is not inductive: what makes it so is what the    *)
(* GPU tracker's thread carries from IsGamingPID to UpdateGameStatus.  The *)
(* pid in its hands is the detector's game, or the detector has given it   *)
(* up since and will say so or has said so; and the detector's exit is     *)
(* told before OnGameChanged is unsubscribed.                              *)
(***************************************************************************)
EXTENDS TestEG, TLAPS

\* The detector's thread says that a game has exited, and is joined before
\* OnGameChanged is unsubscribed.
ExitsAreTold ==
  /\ told[detector] = NoGame
  /\ stage \in {"unsubscribe", "stopFps", "stopGpu", "ended"} =>
       place[detector] = "ended"

\* Game p is still the detector's, or its exit is being told, or was told.
StillOrTold(p) == DetectedPID = p \/ place[detector] = "notifying" \/ p \in overtaken

Exited(p) == proc[p] \in {"exited", "gone"}

\* What the GPU tracker's thread has in its hands.
InHand ==
  /\ place[gpu] = "assigned" => LockState = gpu /\ DetectedPID = told[gpu]
  /\ place[gpu] \in {"assigned", "known", "updating"} => told[gpu] \in Games
  /\ place[gpu] \in {"assigned", "known"} =>
       StillOrTold(told[gpu]) /\ (DetectedPID = told[gpu] \/ Exited(told[gpu]))

\* What the policy holds, unless a newer game is in those hands.
PolicyIsUpToDate ==
  place[gpu] \notin {"assigned", "known"} => GamePID = NoGame \/ StillOrTold(GamePID)

OnlyExitsOvertake == \A p \in overtaken : Exited(p)

IInv == TypeOK /\ ExitsAreTold /\ InHand /\ PolicyIsUpToDate /\ OnlyExitsOvertake

-----------------------------------------------------------------------------
\* The program starts without a game.
LEMMA InitIInv == Init => IInv
<1> SUFFICES ASSUME Init PROVE IInv
  OBVIOUS
<1> USE TestEGAssumption DEF Init, Policy!Init, Pid, Running, Callers
<1>1. TypeOK
  <2>1. /\ IsDC \in BOOLEAN /\ IsEnduranceGamingEnabled \in BOOLEAN
        /\ GamePID \in Pid /\ running \in BOOLEAN
        /\ call \in [Callers -> {"outside", "on", "off", "done"}]
    OBVIOUS
  <2>2. /\ IsGameMode \in BOOLEAN /\ DetectedPID \in Pid
        /\ LockState \in {NoCaller, gpu}
        /\ SubscribersOnGameChangedLock \in {NoCaller, detector, powerMode}
    OBVIOUS
  <2>3. /\ proc \in [Games -> {"none", "running", "exited", "gone"}]
        /\ foreground \in Running \cup {NoGame}
        /\ reports \subseteq Games /\ overtaken \subseteq Games
    OBVIOUS
  <2>4. /\ told \in [Callers -> Pid]
        /\ stage \in {"enable", "power", "loop", "stopDetector",
                      "unsubscribe", "stopFps", "stopGpu", "ended"}
        /\ place \in [Callers -> {"asleep", "reporting", "assigned", "known", "checking",
                                  "updating", "notifying", "ended"}]
    OBVIOUS
  <2> QED
    BY <2>1, <2>2, <2>3, <2>4 DEF TypeOK
<1>2. ExitsAreTold /\ InHand /\ PolicyIsUpToDate /\ OnlyExitsOvertake
  BY DEF ExitsAreTold, InHand, PolicyIsUpToDate, OnlyExitsOvertake
<1> QED
  BY <1>1, <1>2 DEF IInv

\* Processes start, exit and are forgotten.
LEMMA WorldStep == IInv /\ World => IInv'
<1> SUFFICES ASSUME IInv, World PROVE IInv'
  OBVIOUS
<1> USE TestEGAssumption
    DEF IInv, World, policyVars, detectorVars, threadVars
<1>1. TypeOK'
  <2>1. ASSUME NEW p \in Games, NEW s \in {"running", "exited", "gone"},
               proc' = [proc EXCEPT ![p] = s],
               foreground' \in {foreground, NoGame},
               foreground' # p \/ proc[p] # "running"
        PROVE  TypeOK'
    <3>1. proc' \in [Games -> {"none", "running", "exited", "gone"}]
      BY <2>1 DEF TypeOK
    <3>2. foreground' \in Running' \cup {NoGame}
      BY <2>1 DEF TypeOK, Running
    <3> QED
      BY <2>1, <3>1, <3>2 DEF TypeOK, Pid
  <2>2. ASSUME foreground' \in (Running \cup {NoGame}) \ {foreground}, UNCHANGED proc
        PROVE  TypeOK'
    BY <2>2 DEF TypeOK, Running, Pid
  <2>3. ASSUME NEW p \in Games, proc[p] = "running",
               proc' = [proc EXCEPT ![p] = "exited"],
               foreground' = IF foreground = p THEN NoGame ELSE foreground
        PROVE  TypeOK'
    <3>1. foreground' \in {foreground, NoGame} /\ foreground' # p
      BY <2>3
    <3> QED
      BY <2>1, <2>3, <3>1
  <2> QED
    BY <2>1, <2>2, <2>3
<1>2. \A p \in Games : Exited(p) => Exited(p)'
  BY DEF TypeOK, Exited
<1>3. ExitsAreTold' /\ PolicyIsUpToDate'
  BY DEF ExitsAreTold, PolicyIsUpToDate, StillOrTold
<1>4. InHand'
  BY <1>2 DEF InHand, StillOrTold
<1>5. OnlyExitsOvertake'
  BY <1>2 DEF TypeOK, OnlyExitsOvertake
<1> QED
  BY <1>1, <1>3, <1>4, <1>5

\* An update by another thread than the GPU tracker's keeps the game or drops it.
LEMMA OtherUpdate ==
  ASSUME IInv, NEW t \in {window, detector, powerMode},
         NEW dc \in BOOLEAN, NEW en \in BOOLEAN, NEW pid \in {GamePID, NoGame},
         Policy!Update(t, dc, en, pid)
  PROVE  /\ IsDC' \in BOOLEAN /\ IsEnduranceGamingEnabled' \in BOOLEAN
         /\ GamePID' \in Pid /\ GamePID' \in {GamePID, NoGame}
         /\ running' \in BOOLEAN
         /\ call' \in [Callers -> {"outside", "on", "off", "done"}]
BY DEF IInv, TypeOK, Policy!Update, Pid, Callers

\* What a step that leaves the detector's side alone has to show.
LEMMA DetectorUntouched ==
  ASSUME IInv, TypeOK', ExitsAreTold', GamePID' \in {GamePID, NoGame},
         place'[gpu] = place[gpu], place'[detector] = place[detector],
         told'[gpu] = told[gpu],
         UNCHANGED <<proc, DetectedPID, LockState, overtaken>>
  PROVE  IInv'
<1> USE TestEGAssumption DEF IInv, StillOrTold, Exited
<1>1. InHand' /\ PolicyIsUpToDate' /\ OnlyExitsOvertake'
  BY DEF InHand, PolicyIsUpToDate, OnlyExitsOvertake
<1> QED
  BY <1>1

\* wWinMain and the window procedure.
LEMMA WindowStep ==
  ASSUME IInv,
         \/ EnableEnduranceGaming \/ Quit
         \/ \E dc \in BOOLEAN : UpdatePowerStatus(dc)
  PROVE  IInv'
<1> USE TestEGAssumption DEF worldVars, detectorVars, policyVars
<1>1. CASE EnableEnduranceGaming
  <2>1. TypeOK' /\ ExitsAreTold'
    BY <1>1, OtherUpdate
    DEF EnableEnduranceGaming, IInv, TypeOK, Running, ExitsAreTold
  <2> QED
    BY <1>1, <2>1, OtherUpdate, DetectorUntouched DEF EnableEnduranceGaming, IInv, TypeOK
<1>2. ASSUME NEW dc \in BOOLEAN, UpdatePowerStatus(dc) PROVE IInv'
  <2>1. TypeOK' /\ ExitsAreTold'
    BY <1>2, OtherUpdate
    DEF UpdatePowerStatus, IInv, TypeOK, Running, ExitsAreTold
  <2> QED
    BY <1>2, <2>1, OtherUpdate, DetectorUntouched DEF UpdatePowerStatus, IInv, TypeOK
<1>3. CASE Quit
  <2>1. TypeOK'
    BY <1>3 DEF Quit, IInv, TypeOK, Running
  <2>2. ExitsAreTold'
    BY <1>3 DEF Quit, IInv, ExitsAreTold
  <2> QED
    BY <1>3, <2>1, <2>2, DetectorUntouched DEF Quit
<1> QED
  BY <1>1, <1>2, <1>3

-----------------------------------------------------------------------------
\* The GPU tracker's thread.
LEMMA GpuStep == IInv /\ GpuThread => IInv'
<1> SUFFICES ASSUME IInv, GpuThread PROVE IInv'
  OBVIOUS
<1> USE TestEGAssumption
    DEF IInv, policyVars, worldVars, detectorVars, Step
<1>0. gpu \in Callers /\ detector \in Callers /\ gpu # detector
  BY DEF Callers
\* None of its steps moves the detector's thread or takes a game from it.
<1>a. ASSUME TypeOK',
             place'[detector] = place[detector], told'[detector] = told[detector],
             UNCHANGED <<proc, stage, overtaken>>,
             InHand', PolicyIsUpToDate'
      PROVE  IInv'
  BY <1>a DEF ExitsAreTold, OnlyExitsOvertake, Exited
<1>1. CASE QueryAllGpuProcesses
  <2>1. TypeOK'
    BY <1>0, <1>1 DEF QueryAllGpuProcesses, TypeOK, Running
  <2>2. /\ place[gpu] = "asleep" /\ place'[gpu] \in {"reporting", "ended"}
        /\ place'[detector] = place[detector]
    BY <1>0, <1>1 DEF QueryAllGpuProcesses, TypeOK
  <2>3. InHand' /\ PolicyIsUpToDate'
    BY <1>1, <2>2 DEF QueryAllGpuProcesses, InHand, PolicyIsUpToDate, StillOrTold
  <2> QED
    BY <1>1, <1>a, <2>1, <2>2, <2>3 DEF QueryAllGpuProcesses
<1>2. CASE EndOfPass
  <2>1. TypeOK'
    BY <1>0, <1>2 DEF EndOfPass, TypeOK, Running
  <2>2. /\ place[gpu] = "reporting" /\ place'[gpu] = "asleep"
        /\ place'[detector] = place[detector]
    BY <1>0, <1>2 DEF EndOfPass, TypeOK
  <2>3. InHand' /\ PolicyIsUpToDate'
    BY <1>2, <2>2 DEF EndOfPass, InHand, PolicyIsUpToDate, StillOrTold
  <2> QED
    BY <1>2, <1>a, <2>1, <2>2, <2>3 DEF EndOfPass
<1>3. ASSUME NEW p \in Games, NEW busy \in BOOLEAN, IsGamingPID(p, busy)
      PROVE  IInv'
  <2> USE <1>0, <1>3 DEF IsGamingPID
  <2>1. /\ place[gpu] = "reporting"
        /\ told'[gpu] = IF p = DetectedPID' THEN p ELSE NoGame
        /\ told'[detector] = told[detector] /\ place'[detector] = place[detector]
        /\ UNCHANGED <<GamePID, proc, stage, overtaken>>
    BY DEF TypeOK
  <2>2. CASE DetectedPID = p
    <3>1. place'[gpu] = "known" /\ DetectedPID' = p
      BY <2>2 DEF TypeOK
    <3>2. TypeOK'
      BY <2>2 DEF TypeOK, Pid, Running
    <3>3. InHand' /\ PolicyIsUpToDate'
      BY <2>1, <3>1 DEF InHand, PolicyIsUpToDate, StillOrTold
    <3> QED
      BY <1>a, <2>1, <3>2, <3>3
  <2>3. CASE DetectedPID # p /\ BecomesGame(p, busy)
    <3>1. place'[gpu] = "assigned" /\ DetectedPID' = p /\ LockState' = gpu
      BY <2>3 DEF TypeOK
    <3>2. TypeOK'
      BY <2>3 DEF TypeOK, Pid, Running
    <3>3. InHand' /\ PolicyIsUpToDate'
      BY <2>1, <3>1 DEF InHand, PolicyIsUpToDate, StillOrTold
    <3> QED
      BY <1>a, <2>1, <3>2, <3>3
  <2>4. CASE DetectedPID # p /\ ~BecomesGame(p, busy)
    <3>1. place' = place /\ DetectedPID' = DetectedPID
      BY <2>1, <2>4
    <3>2. TypeOK'
      BY <2>4 DEF TypeOK, Pid, Running
    <3>3. InHand' /\ PolicyIsUpToDate'
      BY <2>1, <3>1 DEF InHand, PolicyIsUpToDate, StillOrTold
    <3> QED
      BY <1>a, <2>1, <3>2, <3>3
  <2> QED
    BY <2>2, <2>3, <2>4
<1>4. CASE NotifyAssigned
  <2>1. TypeOK'
    BY <1>0, <1>4 DEF NotifyAssigned, TypeOK, Running
  <2>2. /\ place[gpu] = "assigned" /\ place'[gpu] = "known"
        /\ place'[detector] = place[detector]
    BY <1>0, <1>4 DEF NotifyAssigned, TypeOK
  <2>3. InHand' /\ PolicyIsUpToDate'
    BY <1>4, <2>2 DEF NotifyAssigned, InHand, PolicyIsUpToDate, StillOrTold
  <2> QED
    BY <1>4, <1>a, <2>1, <2>2, <2>3 DEF NotifyAssigned
<1>5. CASE OnGpuChanged
  <2>1. /\ place[gpu] = "known" /\ place'[gpu] = "updating"
        /\ place'[detector] = place[detector]
        /\ told[gpu] \in Games /\ GamePID' \in {NoGame, told[gpu]}
        /\ UNCHANGED <<proc, DetectedPID, told, stage, overtaken>>
    BY <1>0, <1>5 DEF OnGpuChanged, Policy!Update, TypeOK, InHand
  <2>2. TypeOK'
    BY <1>0, <1>5 DEF OnGpuChanged, Policy!Update, TypeOK, Running, Pid
  <2>3. InHand' /\ PolicyIsUpToDate'
    BY <2>1 DEF InHand, PolicyIsUpToDate, StillOrTold
  <2> QED
    BY <1>a, <2>1, <2>2, <2>3
<1>6. CASE GpuReported
  <2>1. /\ place[gpu] = "updating" /\ place'[gpu] = "reporting"
        /\ place'[detector] = place[detector] /\ told'[detector] = told[detector]
        /\ UNCHANGED <<GamePID, proc, DetectedPID, stage, overtaken>>
    BY <1>0, <1>6 DEF GpuReported, TypeOK
  <2>2. TypeOK'
    BY <1>0, <1>6 DEF GpuReported, TypeOK, Running, Pid
  <2>3. InHand' /\ PolicyIsUpToDate'
    BY <2>1 DEF InHand, PolicyIsUpToDate, StillOrTold
  <2> QED
    BY <1>a, <2>1, <2>2, <2>3
<1> QED
  BY <1>1, <1>2, <1>3, <1>4, <1>5, <1>6 DEF GpuThread

\* The detector's thread only gives up a game that has exited, and not while
\* IsGamingPID holds LockState.
LEMMA DetectorStep == IInv /\ ThreadEntryCheckForGameExit => IInv'
<1> SUFFICES ASSUME IInv, ThreadEntryCheckForGameExit PROVE IInv'
  OBVIOUS
<1>1. TypeOK'
  BY TestEGAssumption
  DEF IInv, ThreadEntryCheckForGameExit, CheckIfGameExited, policyVars, worldVars,
      Step, TypeOK, Running, Pid, Callers
<1>2. /\ place'[gpu] = place[gpu] /\ place[detector] # "notifying"
      /\ place[detector] # "ended"
      /\ UNCHANGED <<GamePID, proc, told, stage, LockState, overtaken>>
  BY TestEGAssumption
  DEF IInv, ThreadEntryCheckForGameExit, policyVars, worldVars, Step, TypeOK, Callers
<1>3. \/ DetectedPID' = DetectedPID
      \/ /\ LockState = NoCaller /\ place'[detector] = "notifying"
         /\ DetectedPID' = NoGame /\ proc[DetectedPID] = "exited"
  BY DEF IInv, ThreadEntryCheckForGameExit, CheckIfGameExited, Step, TypeOK, Callers
<1>4. ExitsAreTold'
  BY <1>2 DEF IInv, ExitsAreTold
<1>5. InHand'
  BY <1>2, <1>3, TestEGAssumption DEF IInv, InHand, StillOrTold, Exited, Callers
<1>6. PolicyIsUpToDate'
  BY <1>2, <1>3 DEF IInv, PolicyIsUpToDate, StillOrTold
<1>7. OnlyExitsOvertake'
  BY <1>2 DEF IInv, OnlyExitsOvertake, Exited
<1> QED
  BY <1>1, <1>4, <1>5, <1>6, <1>7 DEF IInv

\* The callback from Windows and the notifications only ever say "no game"; that
\* of an exit also to what OnGpuChanged is about to pass on.
LEMMA NotifierStep ==
  ASSUME IInv,
         \/ EffectivePowerModeCallback
         \/ \E t \in {detector, powerMode} : Notifier(t)
  PROVE  IInv'
<1> USE TestEGAssumption DEF policyVars, worldVars, detectorVars, Step
<1>1. CASE EffectivePowerModeCallback
  <2>1. TypeOK'
    BY <1>1 DEF EffectivePowerModeCallback, IInv, TypeOK, Running, Pid, Callers
  <2>2. ExitsAreTold'
    BY <1>1 DEF EffectivePowerModeCallback, IInv, ExitsAreTold, TypeOK, Callers
  <2> QED
    BY <1>1, <2>1, <2>2, DetectorUntouched
    DEF EffectivePowerModeCallback, IInv, TypeOK, Callers
<1>2. ASSUME NEW t \in {detector, powerMode}, NotifySubscribers(t) PROVE IInv'
  <2>0. /\ place'[gpu] = place[gpu] /\ told'[gpu] = told[gpu]
        /\ place[t] = "notifying" /\ place'[t] \in {"asleep", "updating"}
        /\ \A u \in Callers : u # t => place'[u] = place[u]
        /\ UNCHANGED <<proc, DetectedPID, LockState, stage>>
    BY <1>2 DEF NotifySubscribers, IInv, TypeOK, Callers
  <2>1. TypeOK'
    <3>1. overtaken' \subseteq Games
      BY <1>2 DEF NotifySubscribers, AboutToPass, IInv, TypeOK, InHand
    <3>2. CASE Subscribed /\ told[t] = NoGame
      <4>1. /\ IsDC' \in BOOLEAN /\ IsEnduranceGamingEnabled' \in BOOLEAN
            /\ GamePID' \in Pid /\ running' \in BOOLEAN
            /\ call' \in [Callers -> {"outside", "on", "off", "done"}]
        BY <1>2, <3>2, OtherUpdate DEF NotifySubscribers, IInv, TypeOK
      <4> QED
        BY <1>2, <3>1, <3>2, <4>1 DEF NotifySubscribers, IInv, TypeOK, Running, Pid, Callers
    <3>3. CASE ~(Subscribed /\ told[t] = NoGame)
      BY <1>2, <3>1, <3>3 DEF NotifySubscribers, IInv, TypeOK, Running, Pid, Callers
    <3> QED
      BY <3>2, <3>3
  <2>2. ExitsAreTold'
    BY <1>2, <2>0 DEF NotifySubscribers, IInv, ExitsAreTold, TypeOK, Callers
  <2>3. CASE t = powerMode
    <3>1. GamePID' \in {GamePID, NoGame} /\ UNCHANGED overtaken
      BY <1>2, <2>3, OtherUpdate DEF NotifySubscribers, IInv, TypeOK
    <3> QED
      BY <2>0, <2>1, <2>2, <2>3, <3>1, DetectorUntouched DEF Callers
  <2>4. CASE t = detector
    <3>1. Subscribed /\ told[t] = NoGame
      BY <2>0, <2>4 DEF IInv, ExitsAreTold, TypeOK, Subscribed
    <3>2. GamePID' = NoGame /\ overtaken' = overtaken \cup AboutToPass
      BY <1>2, <2>4, <3>1 DEF NotifySubscribers, Policy!Update
    <3>3. InHand' /\ PolicyIsUpToDate'
      BY <2>0, <2>4, <3>2
      DEF IInv, InHand, PolicyIsUpToDate, StillOrTold, Exited, AboutToPass
    <3>4. OnlyExitsOvertake'
      BY <2>0, <3>2 DEF IInv, InHand, OnlyExitsOvertake, Exited, AboutToPass
    <3> QED
      BY <2>1, <2>2, <3>3, <3>4 DEF IInv
  <2> QED
    BY <2>3, <2>4
<1>3. ASSUME NEW t \in {detector, powerMode}, Notified(t) PROVE IInv'
  <2>1. TypeOK'
    BY <1>3 DEF Notified, IInv, TypeOK, Running, Callers
  <2>2. /\ place'[gpu] = place[gpu] /\ told' = told
        /\ place'[detector] \in {place[detector], "asleep"}
        /\ place[detector] = "notifying" => place'[detector] = "notifying"
        /\ place[detector] = "ended" => place'[detector] = "ended"
        /\ place'[detector] = "notifying" => place[detector] = "notifying"
        /\ UNCHANGED <<GamePID, proc, DetectedPID, LockState, stage, overtaken>>
    BY <1>3 DEF Notified, IInv, TypeOK, Callers
  <2>3. ExitsAreTold'
    BY <2>2 DEF IInv, ExitsAreTold
  <2>4. InHand' /\ PolicyIsUpToDate' /\ OnlyExitsOvertake'
    BY <2>2
    DEF IInv, InHand, PolicyIsUpToDate, OnlyExitsOvertake, StillOrTold, Exited
  <2> QED
    BY <2>1, <2>3, <2>4 DEF IInv
<1> QED
  BY <1>1, <1>2, <1>3 DEF Notifier

\* The rest of a call does not touch the policy's inputs.
LEMMA PolicyStepStep ==
  ASSUME IInv, NEW t \in Callers, PolicyStep(t)
  PROVE  IInv'
<1> USE DEF IInv, PolicyStep, worldVars, detectorVars, threadVars
<1>1. GamePID' = GamePID /\ UNCHANGED <<IsDC, IsEnduranceGamingEnabled>>
  BY DEF Policy!Switch, Policy!Return
<1>2. running' \in BOOLEAN
  <2>1. CASE Policy!Switch(t)
    <3>1. running' = (call[t] = "on")
      BY <2>1 DEF Policy!Switch
    <3> QED
      BY <3>1
  <2>2. CASE Policy!Return(t)
    BY <2>2 DEF TypeOK, Policy!Return
  <2> QED
    BY <2>1, <2>2
<1>3. call' \in [Callers -> {"outside", "on", "off", "done"}]
  BY DEF TypeOK, Policy!Switch, Policy!Return
<1>4. TypeOK'
  BY <1>1, <1>2, <1>3 DEF TypeOK, Running
<1>5. ExitsAreTold'
  BY DEF ExitsAreTold
<1> QED
  BY <1>1, <1>4, <1>5, DetectorUntouched

-----------------------------------------------------------------------------
\* The strengthened invariant is inductive.
THEOREM TestEGInductive == Spec => []IInv
<1>1. IInv /\ [Next]_vars => IInv'
  <2> SUFFICES ASSUME IInv, [Next]_vars PROVE IInv'
    OBVIOUS
  <2>1. CASE UNCHANGED vars
    BY <2>1 DEF vars, policyVars, worldVars, detectorVars, threadVars, IInv,
       TypeOK, ExitsAreTold, InHand, PolicyIsUpToDate, OnlyExitsOvertake,
       StillOrTold, Exited, Running
  <2> QED
    BY <2>1, WorldStep, WindowStep, GpuStep, DetectorStep, NotifierStep,
       PolicyStepStep DEF Next
<1> QED
  BY InitIInv, <1>1, PTL DEF Spec

\* The state has its type; no callback leaves LockState held but the GPU
\* tracker's.
THEOREM TestEGTypeCorrect == Spec => []TypeOK
<1>1. IInv => TypeOK
  BY DEF IInv
<1> QED
  BY TestEGInductive, <1>1, PTL

\* Between two reports of the GPU tracker, with no exit left to tell, the policy
\* holds no game but the detector's, or one whose exit was told while
\* OnGpuChanged was about to pass it on, for any set of games.
THEOREM PolicyFollows == Spec => []PolicyFollowsDetector
<1>1. IInv => PolicyFollowsDetector
  BY DEF IInv, PolicyIsUpToDate, OnlyExitsOvertake, StillOrTold, Exited,
     PolicyFollowsDetector
<1> QED
  BY TestEGInductive, <1>1, PTL
=============================================================================
