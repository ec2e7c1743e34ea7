----------------------------- MODULE ProgramsProofs -----------------------------
(***************************************************************************)
(* Both programs, for every command line and environment and any number    *)
(* of presses, presents and restarts: whoever has ended left no thread     *)
(* behind, nor a session but one Windows refused to stop; a thread that    *)
(* runs finds what it uses; and both sides of a recording agree.  The      *)
(* inductive invariant says, for each point of StartTraceSession and       *)
(* StopTraceSession, what exists, and for each point of the host, how far  *)
(* these calls can be.  On top of it, Toggling follows what the hotkey     *)
(* presses become, and Counting the times that FpsTracker keeps.           *)
(***************************************************************************)
EXTENDS Programs, FiniteSetTheorems, SequenceTheorems, TLAPS

Messages == {"hotkey", "quit"}

SessionTyped ==
  /\ setup \in Setups
  /\ named \in {"nobody", "us", "other", "left"}
  /\ mHandle \in BOOLEAN /\ mTraceHandle \in BOOLEAN
  /\ enabled \subseteq ToSet(Providers)
  /\ consumer \in {"none", "processing", "ended"}
  /\ output \in {"none", "running", "last", "ended"}
  /\ messages \in Seq(Messages)
  /\ status \in {"success", "exists", "error"}

MainTyped ==
  /\ timers \subseteq {DELAY, TIMED} /\ due \subseteq {DELAY, TIMED}
  /\ gHotkeyIgnoreCount \in Nat /\ unsent \in Nat
  /\ exitCode \in {0, 3, 4, 5, 6, 7}
  /\ wanted \in [{"main", "ctrl"} -> BOOLEAN]
  /\ gIsRecording \in BOOLEAN /\ outputIsRecording \in BOOLEAN

\* What exists: nothing, the consumers alone, or both threads too.
Threads == consumer # "none" /\ output # "none" /\ section
NoThread == consumer = "none" /\ output = "none" /\ ~section
Handles(session, trace) == mHandle = session /\ mTraceHandle = trace

Failing == {"closeTrace", "disable", "stopTrace"}

\* How far StartTraceSession or StopTraceSession is.
Stage ==
  \/ /\ spc \in {"out", "refused", "stopped"}
     /\ ~consumers /\ NoThread /\ Handles(FALSE, FALSE)
  \/ /\ consumers
     /\ \/ /\ spc \in {"startTrace", "stopNamed", "refuse", "delete"}
           /\ NoThread /\ Handles(FALSE, FALSE)
        \/ /\ spc \in {"enable", "open"} /\ status = "success"
           /\ NoThread /\ Handles(TRUE, FALSE)
        \/ /\ spc = "startConsumer" /\ status = "success"
           /\ NoThread /\ Handles(TRUE, TRUE)
        \/ /\ spc = "startOutput" /\ status = "success"
           /\ consumer # "none" /\ output = "none" /\ ~section /\ Handles(TRUE, TRUE)
        \/ /\ spc = "started" /\ status = "success"
           /\ Threads /\ Handles(TRUE, TRUE)
        \/ /\ spc \in Failing /\ status = "error"
           /\ NoThread /\ Handles(TRUE, FALSE)
        \/ /\ spc \in Failing /\ status = "success"
           /\ Threads /\ Handles(TRUE, spc = "closeTrace")
        \/ /\ spc = "joinConsumer"
           /\ Threads /\ Handles(FALSE, FALSE)
        \/ /\ spc \in {"setQuit", "joinOutput"}
           /\ consumer = "none" /\ output # "none" /\ section /\ Handles(FALSE, FALSE)

\* A session of ours has its handle, and every provider while its trace is open.
Session_ ==
  /\ named = "us" => mHandle
  /\ named = "us" /\ (mTraceHandle \/ spc = "open") => enabled = ToSet(Providers)

InLoop == {"simulate", "loop", "assign", "tell", "finish", "exit", "quit"}

\* Where the host is while those calls are under way.
Starting ==
  \/ spc \in {"startTrace", "stopNamed", "refuse", "refused", "enable", "open",
              "startConsumer", "startOutput", "started"}
  \/ spc \in Failing /\ status = "error"
Stopping ==
  \/ spc \in {"joinConsumer", "setQuit", "joinOutput", "delete", "stopped"}
  \/ spc \in Failing /\ status = "success"

Host ==
  \/ /\ setup.host = "exe" /\ fpc = "out"
     /\ \/ mpc \in {"main", "start"} /\ spc = "out"
        \/ mpc = "starting" /\ Starting
        \/ mpc \in InLoop /\ spc = "started"
        \/ mpc = "stopping" /\ Stopping
        \/ mpc = "returned" /\ spc \in {"out", "refused", "stopped"}
  \/ /\ setup.host = "lib" /\ mpc = "out"
     /\ \/ fpc = "idle" /\ spc \in {"out", "stopped"}
        \/ fpc = "starting" /\ Starting
        \/ fpc \in {"subscribing", "running"} /\ spc = "started"
        \/ fpc = "stopping" /\ Stopping
        \/ fpc = "threw" /\ spc = "refused"

\* How far main is with a recording it switches, while no Ctrl event has come.
Agreed ==
  /\ gIsRecording = outputIsRecording
  /\ mStartTimer /\ gIsRecording => TIMED \in timers
Recording ==
  cpc = "none" =>
    /\ mpc \in {"main", "start", "starting", "simulate", "loop", "assign"} => Agreed
    /\ mpc \in {"tell", "finish"} => gIsRecording = wanted["main"]
    /\ mpc = "finish" => outputIsRecording = wanted["main"]
    /\ mpc = "exit" => ~gIsRecording /\ ~outputIsRecording

IInv == SessionTyped /\ MainTyped /\ Stage /\ Session_ /\ Host /\ Recording

-----------------------------------------------------------------------------
(* StartTraceSession and StopTraceSession.                                 *)

ProviderNames == {"DXGI", "D3D9", "DxgKrnl", "DxgKrnlWin7", "Win32k", "Dwm", "DwmWin7", "DHD",
                  "SPECTRUMCONTINUOUS"}

LEMMA ProvidersTyped == Providers \in Seq(ProviderNames)
  <1>. DEFINE graphics == <<"DXGI", "D3D9">>
              kernel == <<"DxgKrnl", "DxgKrnlWin7", "Win32k", "Dwm", "DwmWin7">>
              dhd == <<"DHD">>
              spectrum == <<"SPECTRUMCONTINUOUS">>
              none == <<>>
  <1>1. graphics \in Seq(ProviderNames) /\ kernel \in Seq(ProviderNames)
    BY DEF ProviderNames
  <1>2. dhd \in Seq(ProviderNames) /\ spectrum \in Seq(ProviderNames)
    BY DEF ProviderNames
  <1>3. none \in Seq(ProviderNames)
    OBVIOUS
  <1>4. Providers = graphics \o (IF setup.simple THEN none ELSE kernel)
                      \o (IF setup.winMR THEN dhd ELSE none)
                      \o (IF setup.winMR /\ ~setup.simple THEN spectrum ELSE none)
    BY DEF Providers
  <1>. HIDE DEF graphics, kernel, dhd, spectrum, none
  <1>. QED  BY <1>1, <1>2, <1>3, <1>4, ConcatProperties

LEMMA FirstProviders ==
    ASSUME NEW n \in 0..Len(Providers) - 1
    PROVE  ToSet(SubSeq(Providers, 1, n)) \subseteq ToSet(Providers)
  BY ProvidersTyped, SubSeqProperties DEF ToSet

SessionOnly == UNCHANGED <<mainVars, fpsVars>>

\* What does not touch the state of main keeps what is said of it.
LEMMA MainUntouched ==
    ASSUME IInv, SessionOnly, UNCHANGED setup
    PROVE  MainTyped' /\ Recording'
  BY DEF IInv, SessionOnly, mainVars, recordVars, lightVars, MainTyped, Recording, Agreed,
         mStartTimer

\* What is said of the session alone, and of the place of the host.
SInv == SessionTyped /\ Stage /\ Session_ /\ Host

LEMMA StartKeeps ==
    ASSUME IInv, UNCHANGED <<mpc, fpc>>, StartSteps
    PROVE  SInv' /\ UNCHANGED setup
  <1>1. CASE StartTrace
    BY <1>1 DEF StartTrace, IInv, SInv, SessionTyped, Stage, NoThread, Threads,
         Handles, Failing, Session_, Host, InLoop, Starting, Stopping, etwVars, threadVars, Goto,
         Providers
  <1>2. CASE StopNamedSession
    BY <1>2 DEF StopNamedSession, IInv, SInv, SessionTyped, Stage, NoThread, Threads,
         Handles, Failing, Session_, Host, InLoop, Starting, Stopping, etwVars, threadVars, Goto,
         Providers
  <1>3. CASE OpenTrace
    BY <1>3 DEF OpenTrace, IInv, SInv, SessionTyped, Stage, NoThread, Threads,
         Handles, Failing, Session_, Host, InLoop, Starting, Stopping, etwVars, threadVars, Goto,
         Providers
  <1>4. CASE StartConsumerThread
    BY <1>4 DEF StartConsumerThread, IInv, SInv, SessionTyped, Stage, NoThread, Threads,
         Handles, Failing, Session_, Host, InLoop, Starting, Stopping, etwVars, threadVars, Goto,
         Providers
  <1>5. CASE StartOutputThread
    BY <1>5 DEF StartOutputThread, IInv, SInv, SessionTyped, Stage, NoThread, Threads,
         Handles, Failing, Session_, Host, InLoop, Starting, Stopping, etwVars, threadVars, Goto,
         Providers
  <1>6. CASE Refuse
    BY <1>6 DEF Refuse, IInv, SInv, SessionTyped, Stage, NoThread, Threads,
         Handles, Failing, Session_, Host, InLoop, Starting, Stopping, etwVars, threadVars, Goto,
         Providers
  <1>7. CASE EnableProviders
    <2>1. enabled' \subseteq ToSet(Providers)
      BY <1>7, FirstProviders DEF EnableProviders
    <2>. QED  BY <1>7, <2>1 DEF EnableProviders, IInv, SInv, SessionTyped, Stage, NoThread, Threads,
         Handles, Failing, Session_, Host, InLoop, Starting, Stopping, etwVars, threadVars, Goto,
         Providers
  <1>. QED  BY <1>1, <1>2, <1>3, <1>4, <1>5, <1>6, <1>7 DEF StartSteps

LEMMA StopKeeps ==
    ASSUME IInv, UNCHANGED <<mpc, fpc>>, StopSteps
    PROVE  SInv' /\ UNCHANGED setup
  <1>1. CASE CloseTrace
    BY <1>1 DEF CloseTrace, IInv, SInv, SessionTyped, Stage, NoThread, Threads,
         Handles, Failing, Session_, Host, InLoop, Starting, Stopping, etwVars, threadVars, Goto,
         Providers
  <1>2. CASE DisableProviders
    BY <1>2 DEF DisableProviders, IInv, SInv, SessionTyped, Stage, NoThread, Threads,
         Handles, Failing, Session_, Host, InLoop, Starting, Stopping, etwVars, threadVars, Goto,
         Providers
  <1>3. CASE StopTrace
    BY <1>3 DEF StopTrace, IInv, SInv, SessionTyped, Stage, NoThread, Threads,
         Handles, Failing, Session_, Host, InLoop, Starting, Stopping, etwVars, threadVars, Goto,
         Providers
  <1>4. CASE WaitForConsumerThreadToExit
    BY <1>4 DEF WaitForConsumerThreadToExit, IInv, SInv, SessionTyped, Stage, NoThread, Threads,
         Handles, Failing, Session_, Host, InLoop, Starting, Stopping, etwVars, threadVars, Goto,
         Providers
  <1>5. CASE SetQuit
    BY <1>5 DEF SetQuit, IInv, SInv, SessionTyped, Stage, NoThread, Threads,
         Handles, Failing, Session_, Host, InLoop, Starting, Stopping, etwVars, threadVars, Goto,
         Providers
  <1>6. CASE JoinOutput
    BY <1>6 DEF JoinOutput, IInv, SInv, SessionTyped, Stage, NoThread, Threads,
         Handles, Failing, Session_, Host, InLoop, Starting, Stopping, etwVars, threadVars, Goto,
         Providers
  <1>7. CASE DeleteConsumers
    BY <1>7 DEF DeleteConsumers, IInv, SInv, SessionTyped, Stage, NoThread, Threads,
         Handles, Failing, Session_, Host, InLoop, Starting, Stopping, etwVars, threadVars, Goto,
         Providers
  <1>. QED  BY <1>1, <1>2, <1>3, <1>4, <1>5, <1>6, <1>7 DEF StopSteps

-----------------------------------------------------------------------------
(* The threads, other programs and the losses of ETW.                      *)

LEMMA PostQuitTyped ==
    ASSUME messages \in Seq(Messages), PostQuit
    PROVE  messages' \in Seq(Messages)
  BY AppendProperties DEF PostQuit, Messages

LEMMA ThreadsKeep ==
    ASSUME IInv, UNCHANGED <<mpc, fpc>>,
           EndConsumer \/ ReadQuit \/ LastRound \/ TargetsExit \/ LoseEvents \/ Others
    PROVE  SInv' /\ UNCHANGED setup
  <1>1. CASE EndConsumer
    BY <1>1, PostQuitTyped DEF EndConsumer, IInv, SInv, SessionTyped, Stage, NoThread, Threads,
         Handles, Failing, Session_, Host, InLoop, Starting, Stopping, etwVars, threadVars, Goto,
         Providers
  <1>2. CASE ReadQuit
    BY <1>2 DEF ReadQuit, IInv, SInv, SessionTyped, Stage, NoThread, Threads,
         Handles, Failing, Session_, Host, InLoop, Starting, Stopping, etwVars, threadVars, Goto,
         Providers
  <1>3. CASE LastRound
    BY <1>3 DEF LastRound, IInv, SInv, SessionTyped, Stage, NoThread, Threads,
         Handles, Failing, Session_, Host, InLoop, Starting, Stopping, etwVars, threadVars, Goto,
         Providers, CheckLostReports
  <1>4. CASE TargetsExit
    BY <1>4, PostQuitTyped DEF TargetsExit, IInv, SInv, SessionTyped, Stage, NoThread, Threads,
         Handles, Failing, Session_, Host, InLoop, Starting, Stopping, etwVars, threadVars, Goto,
         Providers
  <1>5. CASE LoseEvents
    BY <1>5 DEF LoseEvents, IInv, SInv, SessionTyped, Stage, NoThread, Threads,
         Handles, Failing, Session_, Host, InLoop, Starting, Stopping, etwVars, threadVars, Goto,
         Providers
  <1>6. CASE Others
    BY <1>6 DEF Others, IInv, SInv, SessionTyped, Stage, NoThread, Threads,
         Handles, Failing, Session_, Host, InLoop, Starting, Stopping, etwVars, threadVars, Goto,
         Providers
  <1>. QED  BY <1>1, <1>2, <1>3, <1>4, <1>5, <1>6

LEMMA SessionKeeps ==
    ASSUME IInv, Session
    PROVE  IInv'
  <1>1. SessionOnly /\ UNCHANGED <<mpc, fpc>>
    BY DEF Session, SessionOnly, mainVars, fpsVars
  <1>2. SInv' /\ UNCHANGED setup
    BY <1>1, StartKeeps, StopKeeps, ThreadsKeep DEF Session
  <1>. QED  BY <1>1, <1>2, MainUntouched DEF IInv, SInv

-----------------------------------------------------------------------------
(* PresentMon: main and the Ctrl handler.                                  *)

\* A step of main or of the Ctrl handler that leaves the session alone, but for
\* the messages, and stays in the loop or out of it.
LEMMA HostMoves ==
    ASSUME IInv, UNCHANGED <<otherSessionVars, fpc>>, messages' \in Seq(Messages),
           \/ mpc' = mpc
           \/ /\ mpc \in InLoop
              /\ mpc' \in InLoop
    PROVE  SInv'
  BY DEF otherSessionVars, IInv, SInv, SessionTyped, Stage, NoThread, Threads,
         Handles, Failing, Session_, Host, InLoop, Starting, Stopping, etwVars, threadVars, Goto,
         Providers

LEMMA EnableTyped ==
    ASSUME IInv, NEW enable, NEW lit, EnableScrollLock(enable, lit)
    PROVE  messages' \in Seq(Messages) /\ gHotkeyIgnoreCount' \in Nat /\ unsent' \in Nat
  BY AppendProperties DEF IInv, SessionTyped, MainTyped, Messages, EnableScrollLock, Sent, NotSent,
     keyVars

LEMMA IndicateTyped ==
    ASSUME IInv, NEW enable, Indicate(enable)
    PROVE  messages' \in Seq(Messages) /\ gHotkeyIgnoreCount' \in Nat /\ unsent' \in Nat
  <1>1. CASE UNCHANGED keyVars
    BY <1>1 DEF IInv, SessionTyped, MainTyped, keyVars
  <1>2. CASE \E lit \in GetKeyState : EnableScrollLock(enable, lit)
    BY <1>2, EnableTyped
  <1>. QED  BY <1>1, <1>2 DEF Indicate

LEMMA SwitchKeeps ==
    ASSUME IInv, UNCHANGED fpsVars, NEW t \in {"main", "ctrl"},
           Assign(t) \/ Tell(t) \/ FinishStop(t) \/ Exit(t) \/ (t = "main" /\ FinishStart(t))
    PROVE  IInv'
  <1>1. UNCHANGED otherSessionVars /\ fpc' = fpc
    BY DEF Assign, Tell, FinishStop, Exit, FinishStart, otherSessionVars, sessionVars, etwVars,
           threadVars, fpsVars
  <1>2. wanted[t] \in BOOLEAN
    BY DEF IInv, MainTyped
  <1>3. messages' \in Seq(Messages) /\ gHotkeyIgnoreCount' \in Nat /\ unsent' \in Nat
    <2>1. CASE Assign(t)
      BY <1>2, <2>1, IndicateTyped DEF Assign, IInv, SessionTyped, MainTyped, keyVars
    <2>2. CASE FinishStop(t)
      BY <2>2, IndicateTyped DEF FinishStop
    <2>3. CASE Exit(t)
      BY <2>3, PostQuitTyped DEF Exit, lightVars, IInv, SessionTyped, MainTyped
    <2>4. CASE Tell(t) \/ FinishStart(t)
      BY <2>4 DEF Tell, FinishStart, sessionVars, threadVars, lightVars, IInv, SessionTyped,
                  MainTyped
    <2>. QED  BY <2>1, <2>2, <2>3, <2>4
  <1>4. SInv'
    <2>1. \/ mpc' = mpc
          \/ /\ mpc \in InLoop
             /\ mpc' \in InLoop
      BY DEF Assign, Tell, FinishStop, Exit, FinishStart, At, Move, InLoop
    <2>. QED  BY <1>1, <1>3, <2>1, HostMoves
  <1>5. MainTyped'
    BY <1>2, <1>3 DEF IInv, MainTyped, Assign, Tell, FinishStop, Exit, FinishStart, KillTimer,
         recordVars
  <1>6. Recording'
    <2>1. setup' = setup
      BY <1>1 DEF otherSessionVars
    <2>. SUFFICES ASSUME cpc' = "none" PROVE Recording'
      BY DEF Recording
    <2>2. t = "main" /\ cpc = "none"
      BY DEF Assign, Tell, FinishStop, Exit, FinishStart, At, Move
    <2>. USE DEF IInv, MainTyped, Recording, Agreed, mStartTimer, At, Move, recordVars, DELAY,
                 TIMED, KillTimer
    <2>3. CASE Assign(t)
      BY <1>2, <2>1, <2>2, <2>3 DEF Assign
    <2>4. CASE Tell(t)
      BY <1>2, <2>1, <2>2, <2>4 DEF Tell
    <2>5. CASE FinishStop(t)
      BY <1>2, <2>1, <2>2, <2>5 DEF FinishStop
    <2>6. CASE Exit(t)
      BY <1>2, <2>1, <2>2, <2>6 DEF Exit
    <2>7. CASE FinishStart(t)
      BY <1>2, <2>1, <2>2, <2>7 DEF FinishStart
    <2>. QED  BY <2>3, <2>4, <2>5, <2>6, <2>7
  <1>. QED  BY <1>4, <1>5, <1>6 DEF IInv, SInv

LEMMA MessagesTail ==
    ASSUME messages \in Seq(Messages), messages # <<>>
    PROVE  Tail(messages) \in Seq(Messages)
  BY HeadTailProperties

LEMMA HotkeyKeeps ==
    ASSUME IInv, UNCHANGED fpsVars, WM_HOTKEY
    PROVE  IInv'
  <1>1. UNCHANGED otherSessionVars /\ fpc' = fpc /\ setup' = setup
    BY DEF WM_HOTKEY, otherSessionVars, fpsVars
  <1>2. messages' \in Seq(Messages)
    BY MessagesTail DEF WM_HOTKEY, IInv, SessionTyped
  <1>3. SInv'
    <2>1. \/ mpc' = mpc
          \/ mpc = "loop" /\ mpc' = "assign"
      BY DEF WM_HOTKEY, IgnoreOne, Switch
    <2>. QED  BY <1>1, <1>2, <2>1, HostMoves DEF InLoop
  <1>4. MainTyped'
    <2>1. CASE IgnoreOne
      BY <2>1 DEF WM_HOTKEY, IgnoreOne, IInv, MainTyped, recordVars
    <2>2. CASE Switch(~gIsRecording) /\ UNCHANGED <<gHotkeyIgnoreCount, timers, due>>
      BY <2>2 DEF WM_HOTKEY, Switch, IInv, MainTyped
    <2>3. CASE /\ SetTimer(DELAY)
               /\ UNCHANGED <<gHotkeyIgnoreCount, mpc, wanted, gIsRecording, outputIsRecording,
                              everRecorded>>
      BY <2>3 DEF WM_HOTKEY, SetTimer, IInv, MainTyped
    <2>. QED  BY <2>1, <2>2, <2>3 DEF WM_HOTKEY
  <1>5. Recording'
    <2>1. CASE IgnoreOne
      BY <1>1, <2>1 DEF WM_HOTKEY, IgnoreOne, IInv, Recording, Agreed, mStartTimer, recordVars
    <2>2. CASE Switch(~gIsRecording) /\ UNCHANGED <<gHotkeyIgnoreCount, timers, due>>
      BY <1>1, <2>2 DEF WM_HOTKEY, Switch, IInv, Recording, Agreed, mStartTimer
    <2>3. CASE /\ SetTimer(DELAY)
               /\ UNCHANGED <<gHotkeyIgnoreCount, mpc, wanted, gIsRecording, outputIsRecording,
                              everRecorded>>
      BY <1>1, <2>3 DEF WM_HOTKEY, SetTimer, IInv, Recording, Agreed, mStartTimer
    <2>. QED  BY <2>1, <2>2, <2>3 DEF WM_HOTKEY
  <1>. QED  BY <1>3, <1>4, <1>5 DEF IInv, SInv

LEMMA TimerKeeps ==
    ASSUME IInv, UNCHANGED fpsVars, NEW t \in due, WM_TIMER(t)
    PROVE  IInv'
  <1>1. UNCHANGED otherSessionVars /\ fpc' = fpc /\ setup' = setup /\ messages' = messages
    BY DEF WM_TIMER, otherSessionVars, sessionVars, etwVars, threadVars, fpsVars
  <1>2. mpc = "loop" /\ mpc' = "assign" /\ messages' \in Seq(Messages)
    BY <1>1 DEF WM_TIMER, Switch, IInv, SessionTyped
  <1>3. SInv'
    BY <1>1, <1>2, HostMoves DEF InLoop
  <1>4. MainTyped'
    <2>1. (t = DELAY) \in BOOLEAN
      OBVIOUS
    <2>. QED  BY <2>1 DEF IInv, MainTyped, WM_TIMER, Switch, lightVars
  <1>5. Recording'
    BY <1>1, <1>2 DEF WM_TIMER, Switch, IInv, Recording, Agreed, mStartTimer
  <1>. QED  BY <1>3, <1>4, <1>5 DEF IInv, SInv

LEMMA QuitKeeps ==
    ASSUME IInv, UNCHANGED fpsVars, WM_QUIT
    PROVE  IInv'
  <1>1. UNCHANGED otherSessionVars /\ fpc' = fpc /\ setup' = setup /\ messages' = messages
    BY DEF WM_QUIT, otherSessionVars, sessionVars, etwVars, threadVars, fpsVars
  <1>2. mpc = "loop" /\ mpc' = "quit" /\ messages' \in Seq(Messages)
    BY <1>1 DEF WM_QUIT, IInv, SessionTyped
  <1>3. SInv'
    BY <1>1, <1>2, HostMoves DEF InLoop
  <1>. QED  BY <1>1, <1>2, <1>3 DEF WM_QUIT, IInv, SInv, MainTyped, Recording, Agreed, recordVars,
                                  lightVars

\* CtrlEvent, TestRecording, PressHotkey and Elapse.
LEMMA OutsideKeeps ==
    ASSUME IInv, UNCHANGED fpsVars,
           CtrlEvent \/ TestRecording \/ PressHotkey \/ (\E t \in timers : Elapse(t))
    PROVE  IInv'
  <1>1. UNCHANGED <<otherSessionVars, fpc, setup, mpc>>
    BY DEF CtrlEvent, TestRecording, PressHotkey, Elapse, otherSessionVars, sessionVars, etwVars,
           threadVars, fpsVars
  <1>2. messages' \in Seq(Messages)
    BY AppendProperties DEF CtrlEvent, TestRecording, PressHotkey, Elapse, sessionVars, threadVars,
       IInv, SessionTyped, Messages
  <1>3. SInv'
    BY <1>1, <1>2, HostMoves DEF InLoop
  <1>4. MainTyped'
    <2>1. CASE CtrlEvent
      BY <2>1 DEF CtrlEvent, IInv, MainTyped, recordVars, lightVars
    <2>2. CASE TestRecording
      BY <2>2 DEF TestRecording, IInv, MainTyped, lightVars
    <2>3. CASE PressHotkey
      BY <2>3 DEF PressHotkey, IInv, MainTyped, recordVars
    <2>4. CASE \E t \in timers : Elapse(t)
      BY <2>4 DEF Elapse, IInv, MainTyped, lightVars
    <2>. QED  BY <2>1, <2>2, <2>3, <2>4
  <1>5. Recording'
    <2>1. CASE CtrlEvent
      BY <2>1 DEF CtrlEvent, Recording
    <2>2. CASE TestRecording
      BY <2>2 DEF TestRecording, Recording
    <2>3. CASE PressHotkey
      BY <1>1, <2>3 DEF PressHotkey, IInv, Recording, Agreed, mStartTimer, recordVars
    <2>4. CASE \E t \in timers : Elapse(t)
      BY <1>1, <2>4 DEF Elapse, IInv, Recording, Agreed, mStartTimer
    <2>. QED  BY <2>1, <2>2, <2>3, <2>4
  <1>. QED  BY <1>3, <1>4, <1>5 DEF IInv, SInv

\* Around StartTraceSession and StopTraceSession.
LEMMA AroundKeeps ==
    ASSUME IInv, UNCHANGED fpsVars,
           MainCreateConsumers \/ MainRefused \/ SaveLight \/ EnterLoop \/ MainShutDown \/ Return
             \/ TerminateExisting \/ Register
    PROVE  IInv'
  <1>. fpc' = fpc
    BY DEF fpsVars
  <1>1. CASE MainCreateConsumers
    <2>1. SInv'
      BY <1>1 DEF MainCreateConsumers, CreateConsumers, IInv, SInv, SessionTyped, Stage, NoThread, Threads, Handles,
         Failing, Session_, Host, InLoop, Starting, Stopping, etwVars, threadVars, sessionVars, Providers
    <2>2. MainTyped' /\ Recording'
      BY <1>1 DEF MainCreateConsumers, CreateConsumers, sessionVars, IInv, MainTyped, Recording, Agreed, mStartTimer, recordVars, lightVars
    <2>. QED  BY <2>1, <2>2 DEF IInv, SInv
  <1>2. CASE MainRefused
    <2>1. SInv'
      BY <1>2 DEF MainRefused, IInv, SInv, SessionTyped, Stage, NoThread, Threads, Handles,
         Failing, Session_, Host, InLoop, Starting, Stopping, etwVars, threadVars, sessionVars, Providers
    <2>2. MainTyped' /\ Recording'
      BY <1>2 DEF MainRefused, sessionVars, IInv, MainTyped, Recording, Agreed, mStartTimer, recordVars, lightVars
    <2>. QED  BY <2>1, <2>2 DEF IInv, SInv
  <1>8. CASE SaveLight
    <2>1. messages' \in Seq(Messages) /\ gHotkeyIgnoreCount' \in Nat /\ unsent' \in Nat
      BY <1>8, EnableTyped DEF SaveLight, keyVars, IInv, SessionTyped, MainTyped
    <2>2. SInv'
      BY <1>8, <2>1 DEF SaveLight, otherSessionVars, IInv, SInv, SessionTyped, Stage, NoThread, Threads, Handles,
         Failing, Session_, Host, InLoop, Starting, Stopping, etwVars, threadVars, sessionVars, Providers
    <2>3. MainTyped' /\ Recording'
      BY <1>8, <2>1 DEF SaveLight, otherSessionVars, IInv, MainTyped, Recording, Agreed, mStartTimer, recordVars
    <2>. QED  BY <2>2, <2>3 DEF IInv, SInv
  <1>3. CASE EnterLoop
    <2>1. messages' \in Seq(Messages)
      BY <1>3, AppendProperties DEF EnterLoop, Messages, IInv, SessionTyped
    <2>2. SInv'
      BY <1>3, <2>1 DEF EnterLoop, otherSessionVars, IInv, SInv, SessionTyped, Stage, NoThread, Threads, Handles,
         Failing, Session_, Host, InLoop, Starting, Stopping, etwVars, threadVars, sessionVars, Providers
    <2>3. MainTyped' /\ Recording'
      BY <1>3, <2>1 DEF EnterLoop, otherSessionVars, IInv, MainTyped, Recording, Agreed, mStartTimer, recordVars, lightVars
    <2>. QED  BY <2>2, <2>3 DEF IInv, SInv
  <1>4. CASE MainShutDown
    <2>1. messages' \in Seq(Messages) /\ gHotkeyIgnoreCount' \in Nat /\ unsent' \in Nat
      BY <1>4, IndicateTyped DEF MainShutDown
    <2>2. SInv'
      BY <1>4, <2>1 DEF MainShutDown, IInv, SInv, SessionTyped, Stage, NoThread, Threads, Handles,
         Failing, Session_, Host, InLoop, Starting, Stopping, etwVars, threadVars, sessionVars, Providers
    <2>3. MainTyped' /\ Recording'
      BY <1>4, <2>1 DEF MainShutDown, otherSessionVars, IInv, MainTyped, Recording, Agreed, mStartTimer, recordVars, lightVars
    <2>. QED  BY <2>2, <2>3 DEF IInv, SInv
  <1>5. CASE Return
    <2>1. SInv'
      BY <1>5 DEF Return, IInv, SInv, SessionTyped, Stage, NoThread, Threads, Handles,
         Failing, Session_, Host, InLoop, Starting, Stopping, etwVars, threadVars, sessionVars, Providers
    <2>2. MainTyped' /\ Recording'
      BY <1>5 DEF Return, sessionVars, IInv, MainTyped, Recording, Agreed, mStartTimer, recordVars, lightVars
    <2>. QED  BY <2>1, <2>2 DEF IInv, SInv
  <1>6. CASE TerminateExisting
    <2>1. SInv'
      BY <1>6 DEF TerminateExisting, IInv, SInv, SessionTyped, Stage, NoThread, Threads, Handles,
         Failing, Session_, Host, InLoop, Starting, Stopping, etwVars, threadVars, sessionVars, Providers
    <2>2. MainTyped' /\ Recording'
      BY <1>6 DEF TerminateExisting, sessionVars, IInv, MainTyped, Recording, Agreed, mStartTimer, recordVars, lightVars
    <2>. QED  BY <2>1, <2>2 DEF IInv, SInv
  <1>7. CASE Register
    <2>1. SInv'
      BY <1>7 DEF Register, IInv, SInv, SessionTyped, Stage, NoThread, Threads, Handles,
         Failing, Session_, Host, InLoop, Starting, Stopping, etwVars, threadVars, sessionVars, Providers
    <2>2. MainTyped' /\ Recording'
      BY <1>7 DEF Register, sessionVars, IInv, MainTyped, Recording, Agreed, mStartTimer, recordVars, lightVars
    <2>. QED  BY <2>1, <2>2 DEF IInv, SInv
  <1>. QED  BY <1>1, <1>2, <1>3, <1>4, <1>5, <1>6, <1>7, <1>8

LEMMA MainKeeps ==
    ASSUME IInv, MainNext, UNCHANGED fpsVars
    PROVE  IInv'
  BY SwitchKeeps, HotkeyKeeps, TimerKeeps, QuitKeeps, OutsideKeeps, AroundKeeps
  DEF MainNext, Main, Ctrl, HandleWindowMessage

-----------------------------------------------------------------------------
(* FpsTracker.                                                             *)

LEMMA FpsKeeps ==
    ASSUME IInv, FpsNext, UNCHANGED mainVars
    PROVE  IInv'
  <1>1. SInv' /\ setup' = setup
    <2>. mpc' = mpc
      BY DEF mainVars
    <2>1. CASE Start
      BY <2>1 DEF Start, CreateConsumers, IInv, SInv, SessionTyped, Stage, NoThread, Threads, Handles,
         Failing, Session_, Host, InLoop, Starting, Stopping, etwVars, threadVars, sessionVars, Providers
    <2>2. CASE StartReturns
      BY <2>2 DEF StartReturns, IInv, SInv, SessionTyped, Stage, NoThread, Threads, Handles,
         Failing, Session_, Host, InLoop, Starting, Stopping, etwVars, threadVars, sessionVars, Providers
    <2>3. CASE SubscribeOnPresentEvent
      BY <2>3 DEF SubscribeOnPresentEvent, IInv, SInv, SessionTyped, Stage, NoThread, Threads, Handles,
         Failing, Session_, Host, InLoop, Starting, Stopping, etwVars, threadVars, sessionVars, Providers
    <2>4. CASE Stop
      BY <2>4 DEF Stop, IInv, SInv, SessionTyped, Stage, NoThread, Threads, Handles,
         Failing, Session_, Host, InLoop, Starting, Stopping, etwVars, threadVars, sessionVars, Providers
    <2>5. CASE StopReturns
      BY <2>5 DEF StopReturns, IInv, SInv, SessionTyped, Stage, NoThread, Threads, Handles,
         Failing, Session_, Host, InLoop, Starting, Stopping, etwVars, threadVars, sessionVars, Providers
    <2>6. CASE CompletePresent \/ CompleteLate \/ Deliver
      <3>. UNCHANGED <<sessionVars, fpc>>
        BY <2>6 DEF CompletePresent, CompleteLate, Deliver, AddPresent, NotifySubscribers
      <3>. QED  BY DEF IInv, SInv, SessionTyped, Stage, NoThread, Threads, Handles,
         Failing, Session_, Host, InLoop, Starting, Stopping, etwVars, threadVars, sessionVars, Providers
    <2>. QED  BY <2>1, <2>2, <2>3, <2>4, <2>5, <2>6 DEF FpsNext, App
  <1>2. MainTyped' /\ Recording'
    BY <1>1 DEF mainVars, IInv, MainTyped, Recording, Agreed, mStartTimer, recordVars, lightVars
  <1>. QED  BY <1>1, <1>2 DEF IInv, SInv

-----------------------------------------------------------------------------
(* The theorems.                                                           *)

LEMMA InitKeeps == Init => IInv
  <1>. SUFFICES ASSUME Init PROVE IInv
    OBVIOUS
  <1>. USE DEF Init, SessionInit, MainInit, FpsInit
  <1>1. setup.host \in {"exe", "lib"}
    BY SetupsAssumption DEF Options
  <1>2. SessionTyped
    <2>1. messages \in Seq(Messages)
      OBVIOUS
    <2>2. named \in {"nobody", "us", "other", "left"}
      OBVIOUS
    <2>3. /\ setup \in Setups
          /\ mHandle \in BOOLEAN /\ mTraceHandle \in BOOLEAN
          /\ enabled \subseteq ToSet(Providers)
          /\ consumer = "none" /\ output = "none" /\ status = "success"
      OBVIOUS
    <2>. QED  BY <2>1, <2>2, <2>3 DEF SessionTyped
  <1>3. MainTyped
    BY DEF MainTyped
  <1>4. Stage
    BY DEF Stage, NoThread, Handles
  <1>5. Session_
    BY DEF Session_
  <1>6. Host
    BY <1>1 DEF Host
  <1>7. Recording
    BY <1>1 DEF Recording, Agreed
  <1>. QED  BY <1>2, <1>3, <1>4, <1>5, <1>6, <1>7 DEF IInv

LEMMA StepKeeps == IInv /\ [Next]_vars => IInv'
  <1>. SUFFICES ASSUME IInv, [Next]_vars PROVE IInv'
    OBVIOUS
  <1>1. CASE Session
    BY <1>1, SessionKeeps
  <1>2. CASE MainNext /\ UNCHANGED fpsVars
    BY <1>2, MainKeeps
  <1>3. CASE FpsNext /\ UNCHANGED mainVars
    BY <1>3, FpsKeeps
  <1>4. CASE UNCHANGED vars
    <2>1. SInv'
      BY <1>4 DEF vars, sessionVars, mainVars, fpsVars, IInv, SInv, SessionTyped, Stage, NoThread,
         Threads, Handles, Failing, Session_, Host, InLoop, Starting, Stopping, etwVars, threadVars,
         Providers
    <2>2. SessionOnly /\ UNCHANGED setup
      BY <1>4 DEF vars, SessionOnly, sessionVars
    <2>. QED  BY <2>1, <2>2, MainUntouched DEF IInv, SInv
  <1>. QED  BY <1>1, <1>2, <1>3, <1>4 DEF Next

\* What exists at each point of StartTraceSession and StopTraceSession, and where
\* the host is meanwhile (PresentMon/TraceSession.cpp, MainThread.cpp,
\* FpsTracker.cpp), is an invariant of both programs.
THEOREM ProgramsInductive == Spec => []IInv
  BY InitKeeps, StepKeeps, PTL DEF Spec

\* Every variable keeps its type: gHotkeyIgnoreCount, a uint32_t, is never taken below
\* zero (MainThread.cpp), and only providers of EnableProviders are ever enabled.
THEOREM TypeCorrect == Spec => []TypeOK
  <1>1. IInv => TypeOK
    <2>. SUFFICES ASSUME IInv PROVE TypeOK
      OBVIOUS
    <2>1. ToSet(messages) \subseteq {"hotkey", "quit"}
      BY DEF IInv, SessionTyped, Messages, ToSet
    <2>. QED  BY <2>1 DEF IInv, SessionTyped, MainTyped, TypeOK
  <1>. QED  BY <1>1, ProgramsInductive, PTL

\* PresentMon that returned, and an application that is between a Stop and a Start
\* or was thrown an exception, left no trace, thread or consumer behind, and no
\* session but one that ControlTrace(STOP) failed to stop, whichever call of
\* TraceSession::Start failed and whoever stopped the session.
THEOREM EndedLeavesNothing == Spec => []NothingIsLeftOpen
  <1>1. IInv => NothingIsLeftOpen
    <2>. SUFFICES ASSUME IInv, Ended
                  PROVE  /\ named # "us" /\ ~mHandle /\ ~mTraceHandle
                         /\ consumer = "none" /\ output = "none" /\ ~consumers
      BY DEF NothingIsLeftOpen
    <2>1. spc \in {"out", "refused", "stopped"}
      BY DEF IInv, Host, InLoop, Ended
    <2>2. ~consumers /\ NoThread /\ Handles(FALSE, FALSE)
      BY <2>1 DEF IInv, Stage, Failing
    <2>. QED  BY <2>2 DEF IInv, Session_, NoThread, Handles
  <1>. QED  BY <1>1, ProgramsInductive, PTL

\* The consumers and the critical section outlive the threads that use them, and a
\* trace that is processed is one of all providers (TraceSession.cpp:95-125).
THEOREM ThreadsAreProvided == Spec => []ThreadsHaveWhatTheyUse
  <1>1. IInv => ThreadsHaveWhatTheyUse
    BY DEF IInv, SessionTyped, Stage, Session_, ThreadsHaveWhatTheyUse, NoThread, Threads, Handles,
           Failing
  <1>. QED  BY <1>1, ProgramsInductive, PTL

\* MainThread.cpp and OutputThread.cpp agree whether a recording is on whenever
\* main waits for a message and no Ctrl event has come.
THEOREM RecordingAgrees == Spec => []RecordingIsAgreed
  <1>1. IInv => RecordingIsAgreed
    BY DEF IInv, Recording, Agreed, RecordingIsAgreed
  <1>. QED  BY <1>1, ProgramsInductive, PTL

-----------------------------------------------------------------------------
(* Hotkey presses.                                                         *)

Hotkeys(ms) == {i \in DOMAIN ms : ms[i] = "hotkey"}

LEMMA HotkeysFinite ==
    ASSUME NEW ms \in Seq(Messages)
    PROVE  IsFiniteSet(Hotkeys(ms)) /\ Cardinality(Hotkeys(ms)) \in Nat
  <1>1. Hotkeys(ms) \in SUBSET (1..Len(ms)) /\ Len(ms) \in Nat
    BY DEF Hotkeys
  <1>2. IsFiniteSet(1..Len(ms))
    BY <1>1, FS_Interval
  <1>. QED  BY <1>1, <1>2, FS_Subset, FS_CardinalityType

LEMMA HotkeyPosted ==
    ASSUME NEW ms \in Seq(Messages)
    PROVE  /\ Cardinality(Hotkeys(Append(ms, "hotkey"))) = Cardinality(Hotkeys(ms)) + 1
           /\ Cardinality(Hotkeys(Append(ms, "quit"))) = Cardinality(Hotkeys(ms))
  <1>. DEFINE n == Len(ms) + 1
  <1>1. n \in Nat /\ n \notin Hotkeys(ms)
    BY DEF Hotkeys
  <1>2. Hotkeys(Append(ms, "hotkey")) = Hotkeys(ms) \cup {n}
    BY DEF Hotkeys, Messages
  <1>3. Hotkeys(Append(ms, "quit")) = Hotkeys(ms)
    BY DEF Hotkeys, Messages
  <1>. HIDE DEF n
  <1>. QED  BY <1>1, <1>2, <1>3, HotkeysFinite, FS_AddElement

LEMMA HotkeyTaken ==
    ASSUME NEW ms \in Seq(Messages), ms # <<>>, Head(ms) = "hotkey"
    PROVE  Cardinality(Hotkeys(Tail(ms))) = Cardinality(Hotkeys(ms)) - 1
  <1>. DEFINE A == Hotkeys(Tail(ms))
              B == Hotkeys(ms) \ {1}
              f == [i \in A |-> i + 1]
  <1>1. /\ Tail(ms) \in Seq(Messages) /\ Len(Tail(ms)) = Len(ms) - 1 /\ Len(ms) \in Nat \ {0}
        /\ \A i \in 1..Len(ms) - 1 : Tail(ms)[i] = ms[i + 1]
        /\ ms[1] = "hotkey"
    BY HeadTailProperties, EmptySeq
  <1>2. 1 \in Hotkeys(ms)
    BY <1>1 DEF Hotkeys
  <1>3. f \in Bijection(A, B)
    <2>1. \A i \in A : i \in 1..Len(ms) - 1 /\ ms[i + 1] = "hotkey"
      BY <1>1 DEF Hotkeys
    <2>2. \A i \in A : i + 1 \in B
      BY <1>1, <2>1 DEF Hotkeys
    <2>3. \A j \in B : j - 1 \in A /\ f[j - 1] = j
      BY <1>1 DEF Hotkeys
    <2>4. \A i, j \in A : f[i] = f[j] => i = j
      BY <2>1
    <2>. HIDE DEF A, B
    <2>. QED  BY <2>2, <2>3, <2>4 DEF Bijection, Injection, Surjection, IsInjective
  <1>4. IsFiniteSet(A) /\ ExistsBijection(A, B)
    BY <1>1, <1>3, HotkeysFinite DEF ExistsBijection
  <1>5. Cardinality(B) = Cardinality(A)
    <2>. HIDE DEF A, B
    <2>. QED  BY <1>4, FS_Bijection
  <1>6. Cardinality(B) = Cardinality(Hotkeys(ms)) - 1
    BY <1>2, HotkeysFinite, FS_RemoveElement
  <1>. QED  BY <1>1, <1>5, <1>6, HotkeysFinite

Waiting == Cardinality(Hotkeys(messages))
Handled == presses + gHotkeyIgnoreCount - Waiting - Swallowed
Odd(n) == n % 2 = 1

\* Nothing stood between the light and what it was to show.
LightIsSure == mScrollLockIndicator /\ unsent = 0 /\ ~setup.stale

\* Without a delay or a timer, and before a Ctrl event, the hotkey is all that
\* switches the recording: as often as presses have been handled.  Every input the
\* program sent itself is still among the messages while it is to be ignored, but
\* for those that never arrived.
Toggling ==
  /\ presses \in Nat /\ scrollLock \in BOOLEAN /\ originalScrollLock \in BOOLEAN
  /\ cpc = "none" /\ ~mDelay /\ ~mStartTimer =>
       /\ timers = {} /\ due = {} /\ ~afterTimed /\ mpc # "exit"
       /\ gHotkeyIgnoreCount <= Waiting + Swallowed /\ Handled \in Nat
       /\ mpc \in {"out", "main", "start", "starting", "simulate"} =>
            ~gIsRecording /\ Handled = 0
       /\ mpc = "loop" => gIsRecording = Odd(Handled)
       /\ mpc \in {"assign", "tell", "finish"} => wanted["main"] = Odd(Handled)
       /\ /\ LightIsSure
          /\ mpc \in {"simulate", "loop"} \/ (mpc \in {"tell", "finish"} /\ wanted["main"])
          /\ scrollLock # gIsRecording
          => gHotkeyIgnoreCount < Waiting

LEMMA WaitingTyped == IInv => Waiting \in Nat /\ Swallowed \in Nat
  BY HotkeysFinite DEF IInv, SessionTyped, MainTyped, Waiting, Swallowed

LEMMA ParityAlternates == \A n \in Nat : Odd(n + 1) = ~Odd(n)
  BY DEF Odd

\* A step that posts nothing but WM_QUIT.
LEMMA QuitIsNoHotkey ==
    ASSUME IInv, messages' = messages \/ PostQuit
    PROVE  Waiting' = Waiting
  BY HotkeyPosted DEF PostQuit, Waiting, IInv, SessionTyped

LEMMA SessionPosts ==
    ASSUME Session
    PROVE  (messages' = messages \/ PostQuit) /\ UNCHANGED mainVars /\ setup' = setup
  BY DEF Session, StartSteps, StopSteps, StartTrace, StopNamedSession, EnableProviders, OpenTrace,
         StartConsumerThread, StartOutputThread, Refuse, CloseTrace, DisableProviders, StopTrace,
         WaitForConsumerThreadToExit, SetQuit, JoinOutput, DeleteConsumers, EndConsumer, ReadQuit,
         LastRound, CheckLostReports, TargetsExit, LoseEvents, Others, threadVars, mainVars

LEMMA FpsPosts ==
    ASSUME FpsNext
    PROVE  messages' = messages /\ setup' = setup
  BY DEF FpsNext, App, Start, StartReturns, SubscribeOnPresentEvent, Stop, StopReturns,
         CompletePresent, CompleteLate, Deliver, AddPresent, NotifySubscribers, CreateConsumers,
         sessionVars, threadVars

LEMMA TogglingUntouched ==
    ASSUME IInv, Toggling, UNCHANGED <<mainVars, setup>>, messages' = messages \/ PostQuit
    PROVE  Toggling'
  <1>1. Waiting' = Waiting
    BY QuitIsNoHotkey
  <1>. QED  BY <1>1 DEF Toggling, Handled, mainVars, recordVars, lightVars, LightIsSure, Swallowed,
                     ReturnsAsHotkey, mHotkeySupport, mDelay, mStartTimer, mScrollLockIndicator

\* What one input does to the counts and to the light.
Counted(enable) ==
  /\ \E n, k \in {0, 1} : /\ Waiting' = Waiting + n /\ Swallowed' = Swallowed + k
                          /\ gHotkeyIgnoreCount' = gHotkeyIgnoreCount + n + k
  /\ scrollLock' \in BOOLEAN
  /\ LightIsSure' => LightIsSure /\ scrollLock' = enable

LEMMA EnableCounts ==
    ASSUME IInv, scrollLock \in BOOLEAN, UNCHANGED setup, NEW enable \in BOOLEAN,
           NEW lit \in GetKeyState, EnableScrollLock(enable, lit)
    PROVE  Counted(enable)
  <1>1. /\ Waiting \in Nat /\ messages \in Seq(Messages) /\ gHotkeyIgnoreCount \in Nat
        /\ unsent \in Nat /\ Swallowed \in Nat
    BY WaitingTyped DEF IInv, SessionTyped, MainTyped
  <1>2. ReturnsAsHotkey' = ReturnsAsHotkey /\ mScrollLockIndicator' = mScrollLockIndicator
    BY DEF ReturnsAsHotkey, mHotkeySupport, mScrollLockIndicator
  <1>3. ~setup.stale => lit = scrollLock
    BY DEF GetKeyState
  <1>4. CASE lit = enable
    <2>1. UNCHANGED keyVars
      BY <1>4 DEF EnableScrollLock
    <2>. QED  BY <1>1, <1>2, <1>3, <1>4, <2>1 DEF keyVars, Waiting, Swallowed, Counted, LightIsSure
  <1>5. CASE lit # enable /\ Sent
    <2>1. Waiting' = IF ReturnsAsHotkey THEN Waiting + 1 ELSE Waiting
      BY <1>1, <1>5, HotkeyPosted DEF Sent, Waiting
    <2>2. gHotkeyIgnoreCount' = IF ReturnsAsHotkey THEN gHotkeyIgnoreCount + 1
                                ELSE gHotkeyIgnoreCount
      BY <1>5 DEF EnableScrollLock
    <2>3. Swallowed' = Swallowed /\ unsent' = unsent
      BY <1>2, <1>5 DEF Sent, Swallowed
    <2>4. LightIsSure' => LightIsSure /\ scrollLock' = enable
      BY <1>2, <1>3, <1>5, <2>3 DEF Sent, LightIsSure
    <2>5. scrollLock' \in BOOLEAN
      BY <1>5 DEF Sent
    <2>. QED  BY <1>1, <2>1, <2>2, <2>3, <2>4, <2>5 DEF Counted
  <1>6. CASE lit # enable /\ NotSent
    <2>1. Waiting' = Waiting /\ unsent' = unsent + 1 /\ scrollLock' = scrollLock
      BY <1>6 DEF NotSent, Waiting
    <2>2. gHotkeyIgnoreCount' = IF ReturnsAsHotkey THEN gHotkeyIgnoreCount + 1
                                ELSE gHotkeyIgnoreCount
      BY <1>6 DEF EnableScrollLock
    <2>3. Swallowed' = IF ReturnsAsHotkey THEN Swallowed + 1 ELSE Swallowed
      BY <1>2, <2>1 DEF Swallowed
    <2>4. ~LightIsSure'
      BY <1>1, <2>1 DEF LightIsSure
    <2>. QED  BY <1>1, <2>1, <2>2, <2>3, <2>4 DEF Counted
  <1>. QED  BY <1>4, <1>5, <1>6 DEF EnableScrollLock

LEMMA IndicateCounts ==
    ASSUME IInv, scrollLock \in BOOLEAN, UNCHANGED setup, NEW enable \in BOOLEAN, Indicate(enable)
    PROVE  Counted(enable)
  <1>1. CASE ~mScrollLockIndicator
    <2>1. UNCHANGED keyVars
      BY <1>1 DEF Indicate
    <2>2. /\ Waiting \in Nat /\ gHotkeyIgnoreCount \in Nat /\ Swallowed \in Nat
          /\ Waiting' = Waiting /\ Swallowed' = Swallowed /\ ~LightIsSure'
      BY <1>1, <2>1, WaitingTyped DEF keyVars, IInv, MainTyped, Waiting, Swallowed, LightIsSure,
         ReturnsAsHotkey, mHotkeySupport, mScrollLockIndicator
    <2>. QED  BY <2>1, <2>2 DEF keyVars, Counted
  <1>2. CASE mScrollLockIndicator
    BY <1>2, EnableCounts DEF Indicate
  <1>. QED  BY <1>1, <1>2

\* Counted changes nothing in how many presses have been handled.
LEMMA CountedKeeps ==
    ASSUME IInv, presses \in Nat, presses' = presses, NEW enable, Counted(enable)
    PROVE  /\ Handled' = Handled
           /\ gHotkeyIgnoreCount <= Waiting + Swallowed =>
                gHotkeyIgnoreCount' <= Waiting' + Swallowed'
  <1>1. PICK n, k \in {0, 1} : /\ Waiting' = Waiting + n /\ Swallowed' = Swallowed + k
                               /\ gHotkeyIgnoreCount' = gHotkeyIgnoreCount + n + k
    BY DEF Counted
  <1>2. Waiting \in Nat /\ Swallowed \in Nat /\ gHotkeyIgnoreCount \in Nat
    BY WaitingTyped DEF IInv, MainTyped
  <1>. HIDE DEF Waiting, Swallowed
  <1>. QED  BY <1>1, <1>2 DEF Handled

LEMMA SwitchToggles ==
    ASSUME IInv, Toggling, NEW t \in {"main", "ctrl"},
           Assign(t) \/ Tell(t) \/ FinishStop(t) \/ Exit(t) \/ (t = "main" /\ FinishStart(t))
    PROVE  Toggling'
  <1>a. presses \in Nat
    BY DEF Toggling
  <1>. USE DEF Toggling, mDelay, mStartTimer
  <1>1. presses' = presses /\ setup' = setup
    BY DEF Assign, Tell, FinishStop, Exit, FinishStart, otherSessionVars, sessionVars
  <1>2. wanted[t] \in BOOLEAN /\ gIsRecording \in BOOLEAN /\ gHotkeyIgnoreCount \in Nat
        /\ Waiting \in Nat /\ Swallowed \in Nat /\ unsent \in Nat
    BY WaitingTyped DEF IInv, MainTyped
  <1>3. scrollLock' \in BOOLEAN /\ originalScrollLock' \in BOOLEAN
    BY <1>1, <1>2, IndicateCounts DEF Assign, Tell, FinishStop, Exit, FinishStart, lightVars, keyVars, Counted
  <1>. SUFFICES ASSUME cpc' = "none", ~mDelay, ~mStartTimer PROVE Toggling'
    BY <1>1, <1>3
  <1>4. t = "main" /\ cpc = "none" /\ mpc # "exit"
    BY DEF Assign, Tell, FinishStop, Exit, FinishStart, At, Move
  <1>. USE DEF At, Move
  <1>0. ASSUME UNCHANGED keyVars
        PROVE  Handled' = Handled /\ Waiting' = Waiting /\ Swallowed' = Swallowed
                 /\ LightIsSure' = LightIsSure
    BY <1>0, <1>1 DEF keyVars, Handled, Waiting, Swallowed, ReturnsAsHotkey, mHotkeySupport, LightIsSure,
       mScrollLockIndicator
  <1>5. CASE Assign(t)
    <2>1. mpc = "assign" /\ mpc' = "tell" /\ wanted' = wanted /\ UNCHANGED <<timers, due, afterTimed>>
      BY <1>4, <1>5 DEF Assign
    <2>2. CASE wanted[t]
      <3>1. Indicate(TRUE) /\ gIsRecording'
        BY <1>5, <2>2 DEF Assign
      <3>2. Counted(TRUE)
        BY <1>1, <3>1, IndicateCounts
      <3>3. Handled' = Handled /\ gHotkeyIgnoreCount' <= Waiting' + Swallowed'
        BY <1>a, <1>1, <1>4, <3>2, CountedKeeps
      <3>. QED  BY <1>1, <1>2, <1>3, <1>4, <2>1, <2>2, <3>1, <3>2, <3>3 DEF Counted
    <2>3. CASE ~wanted[t]
      <3>1. UNCHANGED keyVars
        BY <1>5, <2>3 DEF Assign
      <3>2. UNCHANGED gHotkeyIgnoreCount /\ mpc' \notin {"simulate", "loop"}
        BY <2>1, <3>1 DEF keyVars
      <3>3. Handled' = Handled /\ Waiting' = Waiting /\ Swallowed' = Swallowed
        BY <1>0, <3>1
      <3>4. /\ timers = {} /\ due = {} /\ ~afterTimed /\ gHotkeyIgnoreCount <= Waiting + Swallowed
            /\ Handled \in Nat /\ wanted["main"] = Odd(Handled)
        BY <1>1, <1>4, <2>1
      <3>5. /\ timers' = {} /\ due' = {} /\ ~afterTimed'
            /\ gHotkeyIgnoreCount' <= Waiting' + Swallowed'
            /\ Handled' \in Nat /\ wanted'["main"] = Odd(Handled') /\ ~wanted'["main"]
            /\ presses' \in Nat
        <4>. HIDE DEF Toggling
        <4>. QED  BY <1>a, <1>1, <1>4, <2>1, <2>3, <3>2, <3>3, <3>4
      <3>6. mpc' \in {"assign", "tell", "finish"} => wanted'["main"] = Odd(Handled')
        BY <3>5
      <3>7. ~(mpc' \in {"simulate", "loop"} \/ (mpc' \in {"tell", "finish"} /\ wanted'["main"]))
        BY <2>1, <3>5
      <3>8. mpc' \notin {"out", "main", "start", "starting", "simulate"} /\ mpc' # "loop" /\ mpc' # "exit"
        BY <2>1
      <3>. QED  BY <1>3, <3>5, <3>6, <3>7, <3>8
    <2>. QED  BY <2>2, <2>3
  <1>6. CASE Tell(t)
    <2>1. UNCHANGED keyVars
      BY <1>6 DEF Tell, sessionVars, threadVars, lightVars, keyVars
    <2>. QED  BY <1>0, <1>1, <1>2, <1>3, <1>4, <1>6, <2>1 DEF Tell, keyVars
  <1>7. CASE FinishStart(t)
    <2>1. UNCHANGED keyVars
      BY <1>7 DEF FinishStart, sessionVars, threadVars, lightVars, keyVars
    <2>2. /\ mpc = "finish" /\ mpc' = "loop" /\ wanted["main"] /\ timers' = timers \ {DELAY}
          /\ due' \in {due, due \ {DELAY}} /\ UNCHANGED <<afterTimed, gIsRecording>>
          /\ UNCHANGED <<gHotkeyIgnoreCount, scrollLock>>
      BY <1>4, <1>7, <2>1 DEF FinishStart, keyVars
    <2>3. gIsRecording = wanted["main"]
      BY <1>4, <2>2 DEF IInv, Recording
    <2>4. Handled' = Handled /\ Waiting' = Waiting /\ Swallowed' = Swallowed
            /\ LightIsSure' = LightIsSure
      BY <1>0, <2>1
    <2>. QED  BY <1>1, <1>2, <1>3, <1>4, <2>2, <2>3, <2>4
  <1>8. CASE FinishStop(t)
    <2>1. /\ mpc = "finish" /\ ~wanted["main"] /\ mpc' = "loop" /\ Indicate(FALSE)
          /\ gIsRecording = FALSE /\ gIsRecording' = FALSE /\ UNCHANGED <<timers, due, afterTimed>>
      BY <1>2, <1>4, <1>8 DEF FinishStop, recordVars, IInv, Recording
    <2>2. Counted(FALSE)
      BY <1>1, <2>1, IndicateCounts
    <2>3. Handled' = Handled /\ gHotkeyIgnoreCount' <= Waiting' + Swallowed'
      BY <1>a, <1>1, <1>4, <2>2, CountedKeeps
    <2>. QED  BY <1>1, <1>2, <1>3, <1>4, <2>1, <2>2, <2>3 DEF Counted
  <1>9. CASE Exit(t)
    BY <1>4, <1>9 DEF Exit
  <1>. QED  BY <1>5, <1>6, <1>7, <1>8, <1>9

LEMMA HotkeyToggles ==
    ASSUME IInv, Toggling, WM_HOTKEY
    PROVE  Toggling'
  <1>. USE DEF Toggling, mDelay, mStartTimer
  <1>1. UNCHANGED <<presses, setup, cpc, scrollLock, originalScrollLock, afterTimed, unsent>>
    BY DEF WM_HOTKEY, otherSessionVars
  <1>2. /\ messages \in Seq(Messages) /\ messages # <<>> /\ Head(messages) = "hotkey"
        /\ messages' = Tail(messages) /\ mpc = "loop"
    BY DEF WM_HOTKEY, IInv, SessionTyped
  <1>3. Waiting' = Waiting - 1 /\ Waiting \in Nat /\ Waiting' \in Nat
    BY <1>2, HotkeyTaken, HotkeysFinite, HeadTailProperties DEF Waiting
  <1>4. gHotkeyIgnoreCount \in Nat /\ gIsRecording \in BOOLEAN /\ wanted \in [{"main", "ctrl"} -> BOOLEAN]
    BY DEF IInv, MainTyped
  <1>7. Swallowed' = Swallowed /\ LightIsSure' = LightIsSure /\ Swallowed \in Nat
    BY <1>1, WaitingTyped DEF Swallowed, ReturnsAsHotkey, mHotkeySupport, LightIsSure, mScrollLockIndicator
  <1>. SUFFICES ASSUME cpc = "none", ~mDelay, ~mStartTimer PROVE Toggling'
    BY <1>1
  <1>. gHotkeyIgnoreCount <= Waiting + Swallowed /\ Handled \in Nat /\ presses \in Nat /\ presses' = presses
    BY <1>1
  <1>5. CASE IgnoreOne
    <2>1. Handled' = Handled /\ gHotkeyIgnoreCount' <= Waiting' + Swallowed'
      BY <1>3, <1>4, <1>5, <1>7 DEF IgnoreOne, Handled
    <2>. QED  BY <1>1, <1>2, <1>3, <1>4, <1>5, <1>7, <2>1 DEF IgnoreOne, recordVars
  <1>6. CASE gHotkeyIgnoreCount = 0 /\ Switch(~gIsRecording) /\ UNCHANGED <<gHotkeyIgnoreCount, timers, due>>
    <2>1. Handled' = Handled + 1 /\ Handled \in Nat /\ Handled' \in Nat
      BY <1>3, <1>4, <1>6, <1>7 DEF Handled
    <2>2. wanted'["main"] = ~gIsRecording /\ mpc' = "assign"
      BY <1>4, <1>6 DEF Switch
    <2>3. gIsRecording = Odd(Handled)
      BY <1>2
    <2>4. wanted'["main"] = Odd(Handled')
      BY <2>1, <2>2, <2>3, ParityAlternates
    <2>. QED  BY <1>1, <1>3, <1>4, <1>6, <1>7, <2>1, <2>2, <2>4
  <1>. QED  BY <1>5, <1>6 DEF WM_HOTKEY


\* What else changes the messages or the light: the user, and main before and
\* after the loop.
LEMMA PressToggles ==
    ASSUME IInv, Toggling, PressHotkey
    PROVE  Toggling'
  <1>1. Waiting' = Waiting + 1 /\ Waiting \in Nat
    BY HotkeyPosted, HotkeysFinite DEF PressHotkey, Waiting, IInv, SessionTyped
  <1>2. /\ presses' = presses + 1 /\ presses \in Nat
        /\ UNCHANGED <<setup, mpc, cpc, afterTimed, wanted, gIsRecording, timers, due,
                       gHotkeyIgnoreCount, unsent>>
        /\ scrollLock' \in BOOLEAN /\ originalScrollLock' \in BOOLEAN
    BY DEF PressHotkey, otherSessionVars, recordVars, Toggling
  <1>3. /\ gHotkeyIgnoreCount \in Nat /\ Swallowed \in Nat /\ Swallowed' = Swallowed
        /\ LightIsSure' => Swallowed = 0
    BY <1>2, WaitingTyped DEF IInv, MainTyped, Swallowed, ReturnsAsHotkey, mHotkeySupport, LightIsSure
  <1>4. Handled' = Handled
    BY <1>1, <1>2, <1>3 DEF Handled
  <1>5. gHotkeyIgnoreCount <= Waiting + Swallowed =>
          /\ gHotkeyIgnoreCount' <= Waiting' + Swallowed'
          /\ LightIsSure' => gHotkeyIgnoreCount' < Waiting'
    BY <1>1, <1>2, <1>3
  <1>. QED  BY <1>1, <1>2, <1>4, <1>5 DEF Toggling, mDelay, mStartTimer

LEMMA AroundToggles ==
    ASSUME IInv, Toggling,
           MainCreateConsumers \/ MainRefused \/ SaveLight \/ EnterLoop \/ MainShutDown \/ Return
             \/ TerminateExisting \/ Register
    PROVE  Toggling'
  <1>. USE DEF mDelay, mStartTimer
  <1>1. CASE MainCreateConsumers \/ MainRefused \/ Return \/ TerminateExisting \/ Register
    <2>1. /\ UNCHANGED <<presses, setup, messages, cpc, scrollLock, originalScrollLock, afterTimed, wanted, gIsRecording,
                         timers, due, gHotkeyIgnoreCount, unsent>>
          /\ mpc \notin {"simulate", "loop", "assign", "tell", "finish", "exit"}
          /\ mpc' \notin {"simulate", "loop", "assign", "tell", "finish", "exit"}
          /\ mpc' \in {"out", "main", "start", "starting"}
               => mpc \in {"out", "main", "start", "starting"}
      BY <1>1 DEF MainCreateConsumers, CreateConsumers, MainRefused, Return, TerminateExisting, Register,
             sessionVars, threadVars, recordVars, lightVars
    <2>2. Waiting' = Waiting /\ Swallowed' = Swallowed /\ Handled' = Handled
      BY <2>1 DEF Waiting, Swallowed, Handled, ReturnsAsHotkey, mHotkeySupport
    <2>. QED  BY <2>1, <2>2 DEF Toggling
  <1>2. CASE SaveLight
    <2>1. /\ UNCHANGED <<presses, setup, cpc, afterTimed, wanted, gIsRecording, timers, due>>
          /\ mpc = "starting" /\ mpc' \in {"loop", "simulate"} /\ presses \in Nat
          /\ scrollLock \in BOOLEAN /\ originalScrollLock \in BOOLEAN
          /\ gIsRecording \in BOOLEAN /\ Waiting \in Nat /\ gHotkeyIgnoreCount \in Nat
      BY <1>2, WaitingTyped DEF SaveLight, otherSessionVars, recordVars, IInv, MainTyped, Toggling
    <2>2. Counted(gIsRecording) /\ originalScrollLock' \in BOOLEAN
      <3>1. CASE mScrollLockIndicator
        BY <1>2, <2>1, <3>1, EnableCounts DEF SaveLight, GetKeyState
      <3>2. CASE ~mScrollLockIndicator
        <4>1. Indicate(gIsRecording) /\ originalScrollLock' = originalScrollLock
          BY <1>2, <3>2 DEF SaveLight, Indicate
        <4>. QED  BY <2>1, <4>1, IndicateCounts
      <3>. QED  BY <3>1, <3>2
    <2>3. Handled' = Handled
            /\ (gHotkeyIgnoreCount <= Waiting + Swallowed =>
                  gHotkeyIgnoreCount' <= Waiting' + Swallowed')
      BY <2>1, <2>2, CountedKeeps
    <2>. SUFFICES ASSUME cpc = "none", ~mDelay, ~mStartTimer PROVE Toggling'
      BY <2>1, <2>2 DEF Toggling, Counted
    <2>4. gIsRecording = FALSE /\ Handled = 0 /\ gHotkeyIgnoreCount <= Waiting + Swallowed
      BY <2>1 DEF Toggling
    <2>5. gIsRecording' = Odd(Handled')
      <3>1. Handled' = 0 /\ gIsRecording' = FALSE
        BY <2>1, <2>3, <2>4
      <3>2. Odd(0) = FALSE
        BY DEF Odd
      <3>. QED  BY <3>1, <3>2, Zenon
    <2>. QED  BY <2>1, <2>2, <2>3, <2>4, <2>5 DEF Toggling, Counted
  <1>4. CASE EnterLoop
    <2>1. /\ UNCHANGED <<setup, cpc, afterTimed, wanted, gIsRecording, timers, due, scrollLock,
                         originalScrollLock, gHotkeyIgnoreCount, unsent>>
          /\ mpc = "simulate" /\ mpc' = "loop" /\ presses \in Nat /\ presses' = presses + 1
          /\ gIsRecording \in BOOLEAN /\ Waiting \in Nat /\ gHotkeyIgnoreCount \in Nat
          /\ Swallowed \in Nat
      BY <1>4, WaitingTyped DEF EnterLoop, otherSessionVars, recordVars, lightVars, IInv, MainTyped, Toggling
    <2>2. Waiting' = Waiting + 1
      BY <1>4, HotkeyPosted DEF EnterLoop, Waiting, IInv, SessionTyped
    <2>3. Swallowed' = Swallowed /\ LightIsSure' = LightIsSure
      BY <2>1 DEF Swallowed, ReturnsAsHotkey, mHotkeySupport, LightIsSure, mScrollLockIndicator
    <2>4. Handled' = Handled
      BY <2>1, <2>2, <2>3 DEF Handled
    <2>. SUFFICES ASSUME cpc = "none", ~mDelay, ~mStartTimer PROVE Toggling'
      BY <2>1 DEF Toggling
    <2>5. gIsRecording = FALSE /\ Handled = 0 /\ gHotkeyIgnoreCount <= Waiting + Swallowed
      BY <2>1 DEF Toggling
    <2>6. gIsRecording' = Odd(Handled')
      <3>1. Handled' = 0 /\ gIsRecording' = FALSE
        BY <2>1, <2>4, <2>5
      <3>2. Odd(0) = FALSE
        BY DEF Odd
      <3>. QED  BY <3>1, <3>2, Zenon
    <2>7. gHotkeyIgnoreCount' <= Waiting' + Swallowed' /\ Handled' \in Nat
      BY <2>1, <2>2, <2>3, <2>4, <2>5
    <2>8. LightIsSure' /\ scrollLock' # gIsRecording' => gHotkeyIgnoreCount' < Waiting'
      BY <2>1, <2>2, <2>3 DEF Toggling
    <2>. QED  BY <2>1, <2>6, <2>7, <2>8 DEF Toggling
  <1>3. CASE MainShutDown
    <2>1. /\ UNCHANGED <<presses, setup, cpc, afterTimed, timers, due>>
          /\ mpc' = "stopping" /\ presses \in Nat
      BY <1>3 DEF MainShutDown, recordVars, Toggling
    <2>2. originalScrollLock \in BOOLEAN /\ originalScrollLock' \in BOOLEAN
            /\ Indicate(originalScrollLock)
      BY <1>3 DEF MainShutDown, Toggling
    <2>3. Counted(originalScrollLock)
      BY <2>1, <2>2, IndicateCounts DEF Toggling
    <2>4. Handled' = Handled /\ (gHotkeyIgnoreCount <= Waiting + Swallowed =>
                                   gHotkeyIgnoreCount' <= Waiting' + Swallowed')
      BY <2>1, <2>3, CountedKeeps
    <2>. QED  BY <1>3, <2>1, <2>2, <2>3, <2>4 DEF MainShutDown, recordVars, Toggling, Counted
  <1>. QED  BY <1>1, <1>2, <1>3, <1>4


LEMMA OutsideToggles ==
    ASSUME IInv, Toggling,
           CtrlEvent \/ TestRecording \/ (\E t \in timers : Elapse(t)) \/ (\E t \in due : WM_TIMER(t))
             \/ WM_QUIT
    PROVE  Toggling'
  <1>. USE DEF Toggling, mDelay, mStartTimer
  <1>1. UNCHANGED <<presses, setup, messages, scrollLock, originalScrollLock, unsent>>
    BY DEF CtrlEvent, TestRecording, Elapse, WM_TIMER, WM_QUIT, sessionVars, threadVars, lightVars
  <1>2. CASE CtrlEvent \/ TestRecording
    BY <1>1, <1>2 DEF CtrlEvent, TestRecording
  <1>3. CASE (\E t \in timers : Elapse(t)) \/ (\E t \in due : WM_TIMER(t))
    BY <1>1, <1>3 DEF Elapse, WM_TIMER
  <1>4. CASE WM_QUIT
    <2>1. Waiting' = Waiting /\ Swallowed' = Swallowed /\ UNCHANGED gHotkeyIgnoreCount
      BY <1>1, <1>4 DEF WM_QUIT, lightVars, Waiting, Swallowed, ReturnsAsHotkey, mHotkeySupport
    <2>. QED  BY <1>1, <1>4, <2>1 DEF WM_QUIT, recordVars, Handled
  <1>. QED  BY <1>2, <1>3, <1>4

LEMMA TogglingKept == IInv /\ Toggling /\ [Next]_vars => Toggling'
  <1>. SUFFICES ASSUME IInv, Toggling, [Next]_vars PROVE Toggling'
    OBVIOUS
  <1>1. CASE Session
    BY <1>1, SessionPosts, TogglingUntouched
  <1>2. CASE MainNext
    BY <1>2, SwitchToggles, HotkeyToggles, PressToggles, AroundToggles, OutsideToggles
    DEF MainNext, Main, Ctrl, HandleWindowMessage
  <1>3. CASE FpsNext /\ UNCHANGED mainVars
    BY <1>3, FpsPosts, TogglingUntouched
  <1>4. CASE UNCHANGED vars
    <2>1. UNCHANGED <<mainVars, setup, messages>>
      BY <1>4 DEF vars, sessionVars, threadVars
    <2>. QED  BY <2>1, TogglingUntouched
  <1>. QED  BY <1>1, <1>2, <1>3, <1>4 DEF Next

LEMMA TogglingAtFirst == Init => Toggling
  <1>. SUFFICES ASSUME Init PROVE Toggling
    OBVIOUS
  <1>1. Hotkeys(messages) = {}
    BY DEF Init, SessionInit, Hotkeys
  <1>2. Waiting = 0
    BY <1>1, FS_EmptySet DEF Waiting
  <1>. QED  BY <1>2 DEF Init, SessionInit, MainInit, Toggling, Handled, Swallowed

\* However presses of the hotkey, the simulated one of a program without -hotkey and
\* the program's own switching of the SCROLLLOCK light are mixed (MainThread.cpp:38-60,
\* 176-200, 285-296), every press toggles the recording once, but for one swallowed for
\* every input that SendInput failed to send (MainThread.cpp:72-75); and when none did
\* and GetKeyState is current, the light shows the recording when no message waits.
THEOREM PressesToggle == Spec => []EveryPressToggles
  <1>1. IInv /\ Toggling => EveryPressToggles
    <2>. SUFFICES ASSUME IInv, Toggling, mpc = "loop", cpc = "none", ~mDelay, ~mStartTimer
                  PROVE  /\ gIsRecording = ((presses - (Waiting - gHotkeyIgnoreCount) - Swallowed) % 2 = 1)
                         /\ mScrollLockIndicator /\ messages = <<>> /\ unsent = 0 /\ ~setup.stale =>
                              scrollLock = gIsRecording
      BY DEF EveryPressToggles, Waiting, Hotkeys
    <2>1. presses - (Waiting - gHotkeyIgnoreCount) - Swallowed = Handled
      BY WaitingTyped DEF Handled, Toggling, IInv, MainTyped
    <2>2. messages = <<>> => Waiting = 0
      BY FS_EmptySet DEF Waiting, Hotkeys
    <2>3. gIsRecording \in BOOLEAN /\ gHotkeyIgnoreCount \in Nat
      BY DEF IInv, MainTyped
    <2>4. gIsRecording = Odd(Handled)
      BY DEF Toggling
    <2>5. mScrollLockIndicator /\ messages = <<>> /\ unsent = 0 /\ ~setup.stale =>
            scrollLock = gIsRecording
      BY <2>2, <2>3 DEF Toggling, LightIsSure
    <2>. QED  BY <2>1, <2>4, <2>5 DEF Odd
  <1>. QED  BY <1>1, TogglingAtFirst, TogglingKept, ProgramsInductive, PTL DEF Spec

-----------------------------------------------------------------------------
(* The presents of the last second.                                        *)

\* A set of numbers has a least, and a greatest when it is bounded.
LEMMA LeastOf ==
    ASSUME NEW T \in SUBSET Nat, T # {}
    PROVE  \E m \in T : \A k \in T : m <= k
  <1>. DEFINE D == {0..m : m \in T}
              R == StrictSubsetOrdering(Nat)
  <1>1. D \subseteq FiniteSubsetsOf(Nat) /\ D # {}
    <2>1. ASSUME NEW m \in T PROVE 0..m \in SUBSET Nat /\ IsFiniteSet(0..m)
      BY FS_Interval
    <2>. QED  BY <2>1 DEF FiniteSubsetsOf
  <1>2. PICK d \in D : \A e \in D : ~ <<e, d>> \in R
    <2>. HIDE DEF D
    <2>. QED  BY <1>1, FS_StrictSubsetOrderingWellFounded, WFMin
  <1>3. PICK m \in T : d = 0..m
    OBVIOUS
  <1>4. ASSUME NEW k \in T, ~(m <= k) PROVE FALSE
    <2>1. 0..k \in D /\ k \in Nat /\ m \in Nat /\ k < m
      BY <1>4
    <2>2. 0..k \in SUBSET Nat /\ 0..m \in SUBSET Nat
      OBVIOUS
    <2>3. 0..k \subseteq 0..m /\ m \in 0..m /\ m \notin 0..k
      BY <2>1
    <2>4. <<0..k, 0..m>> \in R
      BY <2>2, <2>3 DEF StrictSubsetOrdering
    <2>. QED  BY <1>2, <1>3, <2>1, <2>4
  <1>. QED  BY <1>4

LEMMA GreatestOf ==
    ASSUME NEW T \in SUBSET Nat, T # {}, NEW b \in Nat, \A k \in T : k <= b
    PROVE  \E m \in T : \A k \in T : k <= m
  <1>. DEFINE U == {b - k : k \in T}
  <1>1. \A k \in T : k \in Nat /\ b - k \in Nat
    OBVIOUS
  <1>2. U \in SUBSET Nat /\ U # {}
    BY <1>1
  <1>3. PICK u \in U : \A v \in U : u <= v
    <2>. HIDE DEF U
    <2>. QED  BY <1>2, LeastOf
  <1>4. PICK m \in T : u = b - m
    OBVIOUS
  <1>5. ASSUME NEW k \in T PROVE k <= m
    <2>1. b - k \in U
      OBVIOUS
    <2>2. b - m <= b - k
      BY <1>3, <1>4, <2>1
    <2>. QED  BY <1>1, <2>2
  <1>. QED  BY <1>5

\* The times kept are the last of those seen, and each of the others is more than a
\* second before some time seen.
Window(kept, all) ==
  /\ all # <<>> => kept # <<>>
  /\ \E n \in Nat :
       /\ Len(all) = n + Len(kept)
       /\ \A i \in 1..Len(kept) : kept[i] = all[n + i]
       /\ \A i \in 1..n : \E j \in 1..Len(all) : all[i] + QpcFrequency < all[j]

Ordered(times) == \A i, j \in 1..Len(times) : i <= j => times[i] <= times[j]

\* None of the times kept is more than a second before the last.
Recent(kept) == \A i \in 1..Len(kept) : kept[Len(kept)] <= kept[i] + QpcFrequency

\* Pruned keeps a suffix, before which every time is too old; it begins with one
\* that is not.
LEMMA PrunedSuffix ==
    ASSUME NEW times \in Seq(Nat), NEW t \in Nat
    PROVE  \E n \in 0..Len(times) :
             /\ Pruned(times, t) \in Seq(Nat) /\ Len(Pruned(times, t)) = Len(times) - n
             /\ \A i \in 1..Len(times) - n : Pruned(times, t)[i] = times[n + i]
             /\ \A i \in 1..n : times[i] + QpcFrequency < t
             /\ n < Len(times) => t <= times[n + 1] + QpcFrequency
  <1>. DEFINE recent == {i \in DOMAIN times : times[i] >= t - QpcFrequency}
  <1>. QpcFrequency \in Nat
    BY FrequencyAssumption
  <1>1. /\ Len(times) \in Nat /\ DOMAIN times = 1..Len(times)
        /\ \A i \in 1..Len(times) : times[i] \in Nat
    OBVIOUS
  <1>2. \A i \in 1..Len(times) : i \in recent <=> t <= times[i] + QpcFrequency
    BY <1>1
  <1>3. recent \in SUBSET Nat /\ recent \subseteq 1..Len(times)
    BY <1>1
  <1>. HIDE DEF recent
  <1>4. CASE recent = {}
    <2>1. Pruned(times, t) = <<>>
      BY <1>4 DEF Pruned, recent
    <2>2. \A i \in 1..Len(times) : times[i] + QpcFrequency < t
      BY <1>1, <1>2, <1>4
    <2>. WITNESS Len(times) \in 0..Len(times)
    <2>. QED  BY <1>1, <2>1, <2>2
  <1>5. CASE recent # {}
    <2>. DEFINE m == CHOOSE i \in recent : \A j \in recent : i <= j
    <2>1. \E i \in recent : \A j \in recent : i <= j
      BY <1>3, <1>5, LeastOf
    <2>2. m \in recent /\ \A j \in recent : m <= j
      BY <2>1
    <2>3. Pruned(times, t) = SubSeq(times, m, Len(times))
      BY <1>5 DEF Pruned, recent
    <2>. HIDE DEF m
    <2>4. m \in 1..Len(times) /\ m - 1 \in 0..Len(times) /\ m \in Int /\ Len(times) \in Int
      BY <1>1, <1>3, <2>2
    <2>5. \A i \in m..Len(times) : times[i] \in Nat
      BY <1>1, <2>4
    <2>6. /\ SubSeq(times, m, Len(times)) \in Seq(Nat)
          /\ Len(SubSeq(times, m, Len(times))) = Len(times) - m + 1
          /\ \A i \in 1..Len(times) - m + 1 : SubSeq(times, m, Len(times))[i] = times[m + i - 1]
      BY <2>4, <2>5, SubSeqProperties
    <2>7. \A i \in 1..m - 1 : times[i] + QpcFrequency < t
      <3>. SUFFICES ASSUME NEW i \in 1..m - 1 PROVE times[i] + QpcFrequency < t
        OBVIOUS
      <3>1. i \in 1..Len(times) /\ i \notin recent
        BY <2>2, <2>4
      <3>. QED  BY <1>1, <1>2, <3>1
    <2>8. t <= times[m] + QpcFrequency
      BY <1>2, <2>2, <2>4
    <2>9. \A i \in 1..Len(times) - (m - 1) : m + i - 1 = (m - 1) + i /\ (m - 1) + 1 = m
      BY <1>1, <2>4
    <2>10. Len(times) - m + 1 = Len(times) - (m - 1)
      BY <1>1, <2>4
    <2>. m - 1 \in 0..Len(times)
      BY <2>4
    <2>. WITNESS m - 1 \in 0..Len(times)
    <2>. QED  BY <1>1, <2>3, <2>4, <2>6, <2>7, <2>8, <2>9, <2>10
  <1>. QED  BY <1>4, <1>5

LEMMA WindowKept ==
    ASSUME NEW kept \in Seq(Nat), NEW all \in Seq(Nat), NEW t \in Nat, Window(kept, all)
    PROVE  /\ Append(Pruned(kept, t), t) \in Seq(Nat)
           /\ Window(Append(Pruned(kept, t), t), Append(all, t))
  <1>1. PICK n \in 0..Len(kept) :
             /\ Pruned(kept, t) \in Seq(Nat) /\ Len(Pruned(kept, t)) = Len(kept) - n
             /\ \A i \in 1..Len(kept) - n : Pruned(kept, t)[i] = kept[n + i]
             /\ \A i \in 1..n : kept[i] + QpcFrequency < t
    BY PrunedSuffix
  <1>2. PICK c \in Nat :
          /\ Len(all) = c + Len(kept)
          /\ \A i \in 1..Len(kept) : kept[i] = all[c + i]
          /\ \A i \in 1..c : \E j \in 1..Len(all) : all[i] + QpcFrequency < all[j]
    BY DEF Window
  <1>. DEFINE s == Append(Pruned(kept, t), t)
              a == Append(all, t)
  <1>3. PICK m \in Nat : m = Len(kept) - n /\ Len(kept) = n + m
    <2>1. Len(kept) \in Nat /\ n \in Nat /\ n <= Len(kept)
      BY LenProperties
    <2>. QED  BY <2>1
  <1>4. /\ n \in Nat /\ QpcFrequency \in Nat
        /\ Len(all) = c + n + m /\ c + n \in Nat /\ Len(all) \in Nat /\ Len(kept) \in Nat
    BY <1>2, <1>3, FrequencyAssumption
  <1>5. /\ s \in Seq(Nat) /\ Len(s) = m + 1 /\ s[m + 1] = t
        /\ \A i \in 1..m : s[i] = kept[n + i]
    BY <1>1, <1>3, AppendProperties
  <1>6. a \in Seq(Nat) /\ Len(a) = c + n + m + 1 /\ a[c + n + m + 1] = t /\ \A i \in 1..Len(all) : a[i] = all[i]
    BY <1>4, AppendProperties
  <1>. HIDE DEF s, a
  <1>7. \A i \in 1..Len(s) : s[i] = a[(c + n) + i]
    <2>. SUFFICES ASSUME NEW i \in 1..m + 1 PROVE s[i] = a[(c + n) + i]
      BY <1>5
    <2>1. CASE i = m + 1
      <3>1. (c + n) + i = c + n + m + 1
        BY <2>1
      <3>. QED  BY <1>5, <1>6, <2>1, <3>1
    <2>2. CASE i # m + 1
      <3>1. i \in 1..m /\ n + i \in 1..Len(kept) /\ c + (n + i) \in 1..Len(all)
        <4>1. i \in 1..m /\ n \in Nat /\ i \in Nat
          BY <1>4, <2>2
        <4>2. n + i \in 1..n + m /\ c + (n + i) \in 1..c + (n + m)
          BY <4>1
        <4>. QED  BY <1>2, <1>3, <4>1, <4>2
      <3>2. s[i] = kept[n + i] /\ kept[n + i] = all[c + (n + i)]
        BY <1>2, <1>5, <3>1
      <3>3. c + (n + i) = (c + n) + i
        BY <1>2
      <3>. QED  BY <1>6, <3>1, <3>2, <3>3
    <2>. QED  BY <2>1, <2>2
  <1>8. \A i \in 1..c + n : \E j \in 1..Len(a) : a[i] + QpcFrequency < a[j]
    <2>. SUFFICES ASSUME NEW i \in 1..c + n
                  PROVE  \E j \in 1..Len(a) : a[i] + QpcFrequency < a[j]
      OBVIOUS
    <2>1. i \in 1..Len(all) /\ a[i] = all[i] /\ Len(a) = Len(all) + 1
      BY <1>4, <1>6
    <2>2. CASE i \in 1..c
      <3>1. PICK j \in 1..Len(all) : all[i] + QpcFrequency < all[j]
        BY <1>2, <2>2
      <3>2. j \in 1..Len(a) /\ a[j] = all[j]
        BY <1>4, <1>6, <2>1
      <3>. QED  BY <2>1, <3>1, <3>2
    <2>3. CASE i \notin 1..c
      <3>1. PICK k \in 1..n : i = c + k
        BY <2>3
      <3>2. k \in 1..Len(kept) /\ kept[k] = all[i]
        BY <1>2, <1>3, <3>1
      <3>3. all[i] + QpcFrequency < t
        BY <1>1, <3>1, <3>2
      <3>4. Len(a) \in 1..Len(a) /\ a[Len(a)] = t
        BY <1>4, <1>6
      <3>. QED  BY <2>1, <3>3, <3>4
    <2>. QED  BY <2>2, <2>3
  <1>9. s # <<>>
    BY <1>5
  <1>10. Len(a) = (c + n) + Len(s)
    BY <1>5, <1>6
  <1>11. Window(s, a)
    BY <1>4, <1>7, <1>8, <1>9, <1>10 DEF Window
  <1>. QED  BY <1>5, <1>11 DEF s, a

LEMMA RecentKept ==
    ASSUME NEW times \in Seq(Nat), NEW t \in Nat, Ordered(times)
    PROVE  Recent(Append(Pruned(times, t), t))
  <1>1. PICK n \in 0..Len(times) :
             /\ Pruned(times, t) \in Seq(Nat) /\ Len(Pruned(times, t)) = Len(times) - n
             /\ \A i \in 1..Len(times) - n : Pruned(times, t)[i] = times[n + i]
             /\ n < Len(times) => t <= times[n + 1] + QpcFrequency
    BY PrunedSuffix
  <1>. DEFINE s == Append(Pruned(times, t), t)
  <1>2. PICK m \in Nat : m = Len(times) - n /\ Len(times) = n + m
    <2>1. Len(times) \in Nat /\ n \in Nat /\ n <= Len(times)
      BY LenProperties
    <2>. QED  BY <2>1
  <1>3. /\ s \in Seq(Nat) /\ Len(s) = m + 1 /\ s[m + 1] = t
        /\ \A i \in 1..m : s[i] = times[n + i]
    BY <1>1, <1>2, AppendProperties
  <1>. HIDE DEF s
  <1>4. ASSUME NEW i \in 1..m + 1 PROVE t <= s[i] + QpcFrequency
    <2>1. CASE i = m + 1
      BY <1>3, <2>1, FrequencyAssumption
    <2>2. CASE i # m + 1
      <3>1. i \in 1..m /\ n + 1 \in 1..Len(times) /\ n + i \in 1..Len(times) /\ n + 1 <= n + i /\ n < Len(times)
        <4>1. i \in 1..m /\ n \in Nat /\ i \in Nat
          BY <2>2
        <4>2. n + i \in 1..n + m /\ n + 1 \in 1..n + m /\ n + 1 <= n + i /\ n < n + m
          BY <4>1
        <4>. QED  BY <1>2, <4>1, <4>2
      <3>2. times[n + 1] <= times[n + i] /\ times[n + 1] \in Nat /\ times[n + i] \in Nat
        BY <3>1 DEF Ordered
      <3>3. t <= times[n + 1] + QpcFrequency /\ s[i] = times[n + i]
        BY <1>1, <1>3, <3>1
      <3>. QED  BY <3>2, <3>3, FrequencyAssumption
    <2>. QED  BY <2>1, <2>2
  <1>. QED  BY <1>3, <1>4 DEF Recent, s

LEMMA OrderedAppended ==
    ASSUME NEW s \in Seq(Nat), NEW t \in Nat, Ordered(s), \A i \in 1..Len(s) : s[i] <= t
    PROVE  Ordered(Append(s, t))
  <1>. DEFINE a == Append(s, t)
  <1>1. Len(a) = Len(s) + 1 /\ a[Len(s) + 1] = t /\ \A i \in 1..Len(s) : a[i] = s[i] /\ s[i] \in Nat
    BY AppendProperties
  <1>. HIDE DEF a
  <1>2. ASSUME NEW i \in 1..Len(s) + 1, NEW j \in 1..Len(s) + 1, i <= j
        PROVE  a[i] <= a[j]
    <2>1. CASE j = Len(s) + 1
      BY <1>1, <1>2, <2>1
    <2>2. CASE j # Len(s) + 1
      BY <1>1, <1>2, <2>2 DEF Ordered
    <2>. QED  BY <2>1, <2>2
  <1>. QED  BY <1>1, <1>2 DEF Ordered, a

LEMMA WindowOrdered ==
    ASSUME NEW kept \in Seq(Nat), NEW all \in Seq(Nat), Window(kept, all), Ordered(all)
    PROVE  Ordered(kept)
  <1>1. PICK c \in Nat : Len(all) = c + Len(kept) /\ \A i \in 1..Len(kept) : kept[i] = all[c + i]
    BY DEF Window
  <1>2. ASSUME NEW i \in 1..Len(kept), NEW j \in 1..Len(kept), i <= j
        PROVE  kept[i] <= kept[j]
    <2>1. c + i \in 1..Len(all) /\ c + j \in 1..Len(all) /\ c + i <= c + j
      BY <1>1, <1>2
    <2>. QED  BY <1>1, <2>1 DEF Ordered
  <1>. QED  BY <1>2 DEF Ordered

\* The times of the last second are among those kept, and are all of them when the
\* times are in order.
LEMMA WindowCounts ==
    ASSUME NEW kept \in Seq(Nat), NEW all \in Seq(Nat), Window(kept, all),
           NEW k \in 1..Len(all), \A i \in 1..Len(all) : all[i] <= all[k]
    PROVE  LET last == {i \in DOMAIN all : all[i] >= all[k] - QpcFrequency}
           IN  /\ Len(kept) >= Cardinality(last)
               /\ Ordered(all) /\ Recent(kept) => Len(kept) = Cardinality(last)
  <1>. DEFINE last == {i \in DOMAIN all : all[i] >= all[k] - QpcFrequency}
  <1>1. PICK c \in Nat :
          /\ Len(all) = c + Len(kept)
          /\ \A i \in 1..Len(kept) : kept[i] = all[c + i]
          /\ \A i \in 1..c : \E j \in 1..Len(all) : all[i] + QpcFrequency < all[j]
    BY DEF Window
  <1>2. PICK K \in Nat : K = Len(kept)
    BY LenProperties
  <1>3. QpcFrequency \in Nat /\ DOMAIN all = 1..c + K /\ Len(all) = c + K /\ \A i \in 1..c + K : all[i] \in Nat
    BY <1>1, <1>2, FrequencyAssumption
  <1>4. last \in SUBSET ((c + 1)..(c + K))
    <2>. SUFFICES ASSUME NEW i \in last, i \in 1..c PROVE FALSE
      BY <1>3
    <2>1. PICK j \in 1..c + K : all[i] + QpcFrequency < all[j]
      BY <1>1, <1>3
    <2>2. all[j] <= all[k] /\ all[i] >= all[k] - QpcFrequency /\ i \in 1..c + K /\ k \in 1..c + K
      BY <1>3
    <2>. QED  BY <1>3, <2>1, <2>2
  <1>5. IsFiniteSet((c + 1)..(c + K)) /\ Cardinality((c + 1)..(c + K)) = K
    <2>1. c + 1 \in Int /\ c + K \in Int /\ (IF c + 1 > c + K THEN 0 ELSE (c + K) - (c + 1) + 1) = K
      OBVIOUS
    <2>2. /\ IsFiniteSet((c + 1)..(c + K))
          /\ Cardinality((c + 1)..(c + K)) = IF c + 1 > c + K THEN 0 ELSE (c + K) - (c + 1) + 1
      BY <2>1, FS_Interval
    <2>. QED  BY <2>1, <2>2
  <1>6. ASSUME Ordered(all), Recent(kept), NEW i \in (c + 1)..(c + K)
        PROVE  i \in last
    <2>1. PICK m \in 1..K : i = c + m
      BY <1>6
    <2>2. kept[K] = all[c + K] /\ kept[m] = all[i] /\ kept[K] <= kept[m] + QpcFrequency
      BY <1>1, <1>2, <1>6, <2>1 DEF Recent
    <2>3. i \in 1..c + K /\ c + K \in 1..c + K /\ k \in 1..c + K /\ k <= c + K
      BY <1>3, <2>1
    <2>4. all[k] <= all[c + K]
      BY <1>3, <1>6, <2>3 DEF Ordered
    <2>. QED  BY <1>3, <2>2, <2>3, <2>4
  <1>. HIDE DEF last
  <1>7. IsFiniteSet(last) /\ Cardinality(last) <= K /\ Cardinality(last) \in Nat
    BY <1>4, <1>5, FS_Subset, FS_CardinalityType
  <1>8. Ordered(all) /\ Recent(kept) => last = (c + 1)..(c + K)
    BY <1>4, <1>6
  <1>9. /\ Len(kept) >= Cardinality(last)
        /\ Ordered(all) /\ Recent(kept) => Len(kept) = Cardinality(last)
    BY <1>2, <1>5, <1>7, <1>8
  <1>. QED  BY <1>9 DEF last

\* fpsdelta is what the subscribers have not been told yet.
Counting ==
  /\ now \in Nat /\ QpcFrequency < now
  /\ queue \in Seq(Nat) /\ seen \in Seq(Nat) /\ PresentEventTimes \in Seq(Nat)
  /\ \A i \in 1..Len(queue) : queue[i] <= now
  /\ \A i \in 1..Len(seen) : seen[i] <= now
  /\ Window(PresentEventTimes, seen)
  /\ fps \in Nat /\ fpsdelta = Len(PresentEventTimes) - fps
  /\ setup.inOrder =>
       /\ Ordered(queue) /\ Ordered(seen) /\ Recent(PresentEventTimes)
       /\ \A i \in 1..Len(seen) : \A j \in 1..Len(queue) : seen[i] <= queue[j]

LEMMA CountingUntouched ==
    ASSUME Counting, UNCHANGED <<fpsVars, setup>>
    PROVE  Counting'
  BY DEF Counting, fpsVars

LEMMA MainLeavesSetup ==
    ASSUME MainNext
    PROVE  setup' = setup
  BY DEF MainNext, Main, Ctrl, CtrlEvent, PressHotkey, Elapse, MainCreateConsumers, CreateConsumers,
         MainRefused, SaveLight, EnterLoop, MainShutDown, Return, HandleWindowMessage, WM_HOTKEY, WM_TIMER, WM_QUIT,
         TerminateExisting, Register, Assign, Tell, FinishStart, FinishStop, Exit, TestRecording,
         otherSessionVars, sessionVars

\* A present that started before the others is behind them only out of order.
LEMMA QueueGrows ==
    ASSUME Counting, NEW t \in Nat, now <= now', now' \in Nat, t <= now', queue' = Append(queue, t),
           setup.inOrder => now <= t,
           UNCHANGED <<setup, seen, PresentEventTimes, fps, fpsdelta>>
    PROVE  Counting'
  <1>1. /\ queue \in Seq(Nat) /\ queue' \in Seq(Nat) /\ Len(queue') = Len(queue) + 1 /\ Len(queue) \in Nat
        /\ queue'[Len(queue) + 1] = t /\ \A i \in 1..Len(queue) : queue'[i] = queue[i] /\ queue[i] \in Nat
    BY AppendProperties DEF Counting
  <1>2. now \in Nat /\ QpcFrequency < now' /\ \A i \in 1..Len(seen) : seen[i] <= now' /\ seen[i] \in Nat
    BY FrequencyAssumption DEF Counting
  <1>3. \A i \in 1..Len(queue') : queue'[i] <= now'
    <2>. SUFFICES ASSUME NEW i \in 1..Len(queue) + 1 PROVE queue'[i] <= now'
      BY <1>1
    <2>1. CASE i = Len(queue) + 1
      BY <1>1, <2>1
    <2>2. CASE i # Len(queue) + 1
      <3>1. i \in 1..Len(queue)
        BY <1>1, <2>2
      <3>2. queue[i] <= now /\ queue'[i] = queue[i] /\ queue[i] \in Nat
        BY <1>1, <3>1 DEF Counting
      <3>. QED  BY <1>2, <3>2
    <2>. QED  BY <2>1, <2>2
  <1>4. ASSUME setup.inOrder
        PROVE  /\ Ordered(queue')
               /\ \A i \in 1..Len(seen) : \A j \in 1..Len(queue') : seen[i] <= queue'[j]
    <2>1. Ordered(queue') /\ \A i \in 1..Len(seen) : seen[i] <= t
      <3>1. Ordered(queue) /\ now <= t
        BY <1>4 DEF Counting
      <3>2. \A i \in 1..Len(queue) : queue[i] <= now /\ queue[i] \in Nat
        BY <1>1 DEF Counting
      <3>3. \A i \in 1..Len(seen) : seen[i] <= now /\ seen[i] \in Nat
        BY DEF Counting
      <3>4. (\A i \in 1..Len(queue) : queue[i] <= t) /\ (\A i \in 1..Len(seen) : seen[i] <= t)
        BY <1>2, <3>1, <3>2, <3>3
      <3>. QED  BY <1>1, <3>1, <3>4, OrderedAppended
    <2>2. ASSUME NEW i \in 1..Len(seen), NEW j \in 1..Len(queue')
          PROVE  seen[i] <= queue'[j]
      <3>1. CASE j = Len(queue) + 1
        BY <1>1, <2>1, <3>1
      <3>2. CASE j # Len(queue) + 1
        BY <1>1, <1>4, <3>2 DEF Counting
      <3>. QED  BY <3>1, <3>2
    <2>. QED  BY <2>1, <2>2
  <1>. QED  BY <1>1, <1>2, <1>3, <1>4 DEF Counting

LEMMA PresentSeen ==
    ASSUME Counting, AddPresent
    PROVE  Counting'
  <1>1. /\ queue \in Seq(Nat) /\ queue # <<>> /\ queue' = Tail(queue) /\ fpsdelta = 0
        /\ UNCHANGED <<setup, now, fps>>
    BY DEF AddPresent, sessionVars, Counting
  <1>2. /\ queue' \in Seq(Nat) /\ Len(queue') = Len(queue) - 1 /\ Len(queue) \in Nat \ {0}
        /\ \A i \in 1..Len(queue') : queue'[i] = queue[i + 1] /\ i + 1 \in 1..Len(queue)
        /\ Head(queue) = queue[1] /\ Head(queue) \in Nat
    BY <1>1, HeadTailProperties
  <1>3. /\ \A i \in 1..Len(queue') : queue'[i] <= now
        /\ Head(queue) <= now
    <2>1. \A i \in 1..Len(queue) : queue[i] <= now
      BY DEF Counting
    <2>2. 1 \in 1..Len(queue)
      BY <1>2
    <2>. QED  BY <1>2, <2>1, <2>2
  <1>4. ASSUME setup.inOrder
        PROVE  /\ Ordered(queue')
               /\ \A j \in 1..Len(queue') : Head(queue) <= queue'[j]
               /\ \A i \in 1..Len(seen) : seen[i] <= Head(queue)
               /\ \A i \in 1..Len(seen) : \A j \in 1..Len(queue') : seen[i] <= queue'[j]
    <2>1. /\ \A i, j \in 1..Len(queue) : i <= j => queue[i] <= queue[j]
          /\ \A i \in 1..Len(seen) : \A j \in 1..Len(queue) : seen[i] <= queue[j]
      BY <1>4 DEF Counting, Ordered
    <2>2. 1 \in 1..Len(queue)
      BY <1>2
    <2>3. \A j \in 1..Len(queue') : queue'[j] = queue[j + 1] /\ j + 1 \in 1..Len(queue) /\ 1 <= j + 1
      BY <1>2
    <2>4. Ordered(queue')
      <3>. SUFFICES ASSUME NEW i \in 1..Len(queue'), NEW j \in 1..Len(queue'), i <= j
                    PROVE  queue'[i] <= queue'[j]
        BY DEF Ordered
      <3>1. i + 1 <= j + 1
        BY <1>2
      <3>. QED  BY <2>1, <2>3, <3>1
    <2>. QED  BY <1>2, <2>1, <2>2, <2>3, <2>4
  <1>5. CASE OnPresentEvent(Head(queue))
    <2>. DEFINE t == Head(queue)
                kept == Pruned(PresentEventTimes, t)
    <2>. HIDE DEF t
    <2>0. t \in Nat /\ t = Head(queue)
      BY <1>2 DEF t
    <2>. USE DEF Counting
    <2>1. /\ PresentEventTimes' = Append(kept, t) /\ seen' = Append(seen, t)
          /\ fpsdelta' = Len(kept) + 1 - Len(PresentEventTimes)
      BY <1>5 DEF OnPresentEvent, t
    <2>2. PresentEventTimes' \in Seq(Nat) /\ Window(PresentEventTimes', seen')
      BY <2>0, <2>1, WindowKept
    <2>3. kept \in Seq(Nat) /\ Len(kept) \in Nat /\ Len(PresentEventTimes) \in Nat
      BY <2>0, PrunedSuffix, LenProperties
    <2>. HIDE DEF kept
    <2>4. Len(PresentEventTimes') = Len(kept) + 1
      BY <2>0, <2>1, <2>3, AppendProperties
    <2>5. fps' = Len(PresentEventTimes)
      BY <1>1, <2>3
    <2>6. fpsdelta' = Len(PresentEventTimes') - fps' /\ fps' \in Nat
      BY <2>1, <2>3, <2>4, <2>5
    <2>7. /\ seen \in Seq(Nat) /\ seen' \in Seq(Nat) /\ Len(seen') = Len(seen) + 1 /\ Len(seen) \in Nat
          /\ seen'[Len(seen) + 1] = t /\ \A i \in 1..Len(seen) : seen'[i] = seen[i]
      BY <2>0, <2>1, AppendProperties
    <2>8. ASSUME NEW i \in 1..Len(seen') PROVE i \in 1..Len(seen) \/ seen'[i] = t
      BY <2>7
    <2>9. \A i \in 1..Len(seen') : seen'[i] <= now
      BY <1>3, <2>0, <2>7, <2>8
    <2>10. ASSUME setup.inOrder
           PROVE  /\ Ordered(seen') /\ Recent(PresentEventTimes')
                  /\ \A i \in 1..Len(seen') : \A j \in 1..Len(queue') : seen'[i] <= queue'[j]
      <3>1. Ordered(seen')
        BY <1>4, <2>0, <2>1, <2>10, OrderedAppended
      <3>2. Ordered(PresentEventTimes)
        BY <2>10, WindowOrdered
      <3>3. Recent(PresentEventTimes')
        BY <2>0, <2>1, <3>2, RecentKept DEF kept
      <3>4. \A i \in 1..Len(seen') : \A j \in 1..Len(queue') : seen'[i] <= queue'[j]
        BY <1>4, <2>0, <2>7, <2>8, <2>10
      <3>. QED  BY <3>1, <3>3, <3>4
    <2>. QED  BY <1>1, <1>2, <1>3, <1>4, <2>2, <2>6, <2>7, <2>9, <2>10
  <1>6. CASE UNCHANGED <<PresentEventTimes, fpsdelta, seen>>
    BY <1>1, <1>2, <1>3, <1>4, <1>6 DEF Counting
  <1>. QED  BY <1>5, <1>6 DEF AddPresent

LEMMA CountingKept == Counting /\ [Next]_vars => Counting'
  <1>. SUFFICES ASSUME Counting, [Next]_vars PROVE Counting'
    OBVIOUS
  <1>1. CASE Session
    BY <1>1, SessionPosts, CountingUntouched DEF Session
  <1>2. CASE MainNext /\ UNCHANGED fpsVars
    BY <1>2, MainLeavesSetup, CountingUntouched
  <1>3. CASE FpsNext
    <2>1. setup' = setup
      BY <1>3, FpsPosts
    <2>2. CASE App
      BY <2>1, <2>2 DEF App, Start, StartReturns, SubscribeOnPresentEvent, Stop, StopReturns, Counting
    <2>3. CASE CompletePresent
      <3>1. PICK t \in now..now + QpcFrequency + 1 : now' = t /\ queue' = Append(queue, t)
        BY <2>3 DEF CompletePresent
      <3>2. now \in Nat /\ t \in Nat /\ now <= t
        BY FrequencyAssumption DEF Counting
      <3>3. UNCHANGED <<setup, seen, PresentEventTimes, fps, fpsdelta>>
        BY <2>1, <2>3 DEF CompletePresent
      <3>. QED  BY <3>1, <3>2, <3>3, QueueGrows
    <2>4. CASE CompleteLate
      <3>1. PICK t \in (now - QpcFrequency)..(now - 1) : queue' = Append(queue, t)
        BY <2>4 DEF CompleteLate
      <3>2. now \in Nat /\ now' = now /\ t \in Nat /\ t <= now /\ ~setup.inOrder
        BY <2>4, FrequencyAssumption DEF CompleteLate, Counting
      <3>3. UNCHANGED <<setup, seen, PresentEventTimes, fps, fpsdelta>>
        BY <2>1, <2>4 DEF CompleteLate
      <3>. QED  BY <3>1, <3>2, <3>3, QueueGrows
    <2>5. CASE NotifySubscribers
      <3>1. Len(PresentEventTimes) \in Nat /\ fps' = Len(PresentEventTimes) /\ fpsdelta' = 0
        BY <2>5 DEF NotifySubscribers, Counting
      <3>2. fpsdelta' = Len(PresentEventTimes) - fps'
        BY <3>1
      <3>. QED  BY <2>1, <2>5, <3>1, <3>2 DEF NotifySubscribers, Counting
    <2>. QED  BY <1>3, <2>2, <2>3, <2>4, <2>5, PresentSeen DEF FpsNext, Deliver
  <1>4. CASE UNCHANGED vars
    BY <1>4, CountingUntouched DEF vars, sessionVars
  <1>. QED  BY <1>1, <1>2, <1>3, <1>4 DEF Next

LEMMA CountingAtFirst == Init => Counting
  <1>. SUFFICES ASSUME Init PROVE Counting
    OBVIOUS
  <1>1. now \in Nat /\ QpcFrequency < now
    BY FrequencyAssumption DEF Init, FpsInit
  <1>2. queue = <<>> /\ seen = <<>> /\ PresentEventTimes = <<>> /\ fpsdelta = 0 /\ fps = 0
    BY DEF Init, FpsInit
  <1>3. Len(seen) = 0 /\ Len(queue) = 0 /\ Len(PresentEventTimes) = 0
    BY <1>2
  <1>. QED  BY <1>1, <1>2, <1>3 DEF Counting, Window, Ordered, Recent

\* The number of frames FpsTracker reports is the number of the presents of the
\* second before the latest, for any frequency of the counter, any number of presents
\* and restarts; it is never too small when presents come out of order.
THEOREM FpsAreExact == Spec => []FpsIsExact
  <1>1. Counting => FpsIsExact
    <2>. SUFFICES ASSUME Counting, fpsdelta = 0, seen # <<>>
                  PROVE  LET latest == CHOOSE t \in ToSet(seen) : \A u \in ToSet(seen) : u <= t
                             count  == Cardinality({i \in DOMAIN seen : seen[i] >= latest - QpcFrequency})
                         IN  fps >= count /\ (setup.inOrder => fps = count)
      BY DEF FpsIsExact
    <2>. DEFINE latest == CHOOSE t \in ToSet(seen) : \A u \in ToSet(seen) : u <= t
    <2>1. /\ seen \in Seq(Nat) /\ now \in Nat /\ \A u \in ToSet(seen) : u <= now
          /\ ToSet(seen) \in SUBSET Nat /\ ToSet(seen) # {}
      <3>1. seen \in Seq(Nat) /\ now \in Nat /\ \A i \in 1..Len(seen) : seen[i] <= now /\ seen[i] \in Nat
        BY DEF Counting
      <3>2. 1 \in 1..Len(seen)
        BY <3>1, EmptySeq
      <3>. QED  BY <3>1, <3>2 DEF ToSet
    <2>2. \E t \in ToSet(seen) : \A u \in ToSet(seen) : u <= t
      BY <2>1, GreatestOf
    <2>3. latest \in ToSet(seen) /\ \A u \in ToSet(seen) : u <= latest
      BY <2>2
    <2>. HIDE DEF latest
    <2>4. PICK k \in 1..Len(seen) : latest = seen[k]
      BY <2>1, <2>3 DEF ToSet
    <2>5. \A i \in 1..Len(seen) : seen[i] <= seen[k]
      BY <2>1, <2>3, <2>4 DEF ToSet
    <2>6. /\ Len(PresentEventTimes) >= Cardinality({i \in DOMAIN seen : seen[i] >= seen[k] - QpcFrequency})
          /\ Ordered(seen) /\ Recent(PresentEventTimes)
               => Len(PresentEventTimes) = Cardinality({i \in DOMAIN seen : seen[i] >= seen[k] - QpcFrequency})
      BY <2>1, <2>5, WindowCounts DEF Counting
    <2>7. fps = Len(PresentEventTimes)
      BY DEF Counting
    <2>. QED  BY <2>4, <2>6, <2>7 DEF Counting, latest
  <1>. QED  BY <1>1, CountingAtFirst, CountingKept, PTL DEF Spec
=============================================================================
