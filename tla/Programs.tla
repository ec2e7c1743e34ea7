------------------------------- MODULE Programs -------------------------------
(***************************************************************************)
(* The two programs that run a trace session: PresentMon (MainThread) and  *)
(* a program around the library (FpsTracker), each with its consumer and   *)
(* output threads and with others that use the same session name.          *)
(* setup.host says which one a behaviour is of.                            *)
(***************************************************************************)
EXTENDS MainThread, FpsTracker

vars == <<sessionVars, mainVars, fpsVars>>

Init == SessionInit /\ MainInit /\ FpsInit

\* The last round of Output empties the queue before it asks for losses.
LastRound == (queue = <<>> /\ fpsdelta = 0) /\ CheckLostReports

Session ==
  /\ \/ StartSteps \/ StopSteps
     \/ EndConsumer \/ ReadQuit \/ LastRound \/ TargetsExit \/ LoseEvents \/ Others
  /\ UNCHANGED <<mainVars, fpsVars>>

Next ==
  \/ Session
  \/ MainNext /\ UNCHANGED fpsVars
  \/ FpsNext /\ UNCHANGED mainVars

Spec == Init /\ [][Next]_vars

(***************************************************************************)
(* Windows runs every thread, and timers elapse.  Neither the user, nor    *)
(* the application, nor anybody else has to do anything; that a file is    *)
(* read to its end is not assumed.                                         *)
(***************************************************************************)
FairSpec ==
  /\ Spec
  /\ WF_vars(StartSteps /\ UNCHANGED <<mainVars, fpsVars>>)
  /\ WF_vars(StopSteps /\ UNCHANGED <<mainVars, fpsVars>>)
  /\ WF_vars(TraceEnded /\ EndConsumer /\ UNCHANGED <<mainVars, fpsVars>>)
  /\ WF_vars((ReadQuit \/ LastRound) /\ UNCHANGED <<mainVars, fpsVars>>)
  /\ WF_vars(Main /\ UNCHANGED fpsVars) /\ WF_vars(Ctrl /\ UNCHANGED fpsVars)
  /\ \A t \in {DELAY, TIMED} : WF_vars(Elapse(t) /\ UNCHANGED fpsVars)
  /\ WF_vars((StartReturns \/ SubscribeOnPresentEvent \/ StopReturns) /\ UNCHANGED mainVars)
  /\ WF_vars(Deliver /\ UNCHANGED mainVars)

-----------------------------------------------------------------------------
TypeOK ==
  /\ setup \in Setups
  /\ named \in {"nobody", "us", "other", "left"}
  /\ mHandle \in BOOLEAN /\ mTraceHandle \in BOOLEAN
  /\ enabled \subseteq ToSet(Providers)
  /\ consumer \in {"none", "processing", "ended"}
  /\ output \in {"none", "running", "last", "ended"}
  /\ ToSet(messages) \subseteq {"hotkey", "quit"}
  /\ timers \subseteq {DELAY, TIMED} /\ due \subseteq {DELAY, TIMED}
  /\ gHotkeyIgnoreCount \in Nat /\ unsent \in Nat
  /\ exitCode \in {0, 3, 4, 5, 6, 7}

Ended == mpc = "returned" \/ (setup.host = "lib" /\ fpc \in {"idle", "threw"})

\* MainThread.cpp:152-154 fears to "leave the trace session open": however
\* Start failed and whoever else meddled with the session, a program that has
\* ended left no thread behind, and no session but one Windows refused to stop.
NothingIsLeftOpen ==
  Ended => /\ named # "us" /\ ~mHandle /\ ~mTraceHandle
           /\ consumer = "none" /\ output = "none" /\ ~consumers

\* TraceSession.cpp:120-121 "(which are using the consumers)": a thread that runs
\* finds the consumers and the critical section it uses; and while it can
\* receive events, no provider is missing.
ThreadsHaveWhatTheyUse ==
  /\ consumer # "none" => consumers
  /\ output # "none" => consumers /\ section
  /\ consumer = "processing" /\ mTraceHandle /\ named = "us" =>
       enabled = ToSet(Providers)

\* MainThread.cpp:47-49 fears "an infinite recording toggle loop": the presses of
\* the hotkey that have been handled, the program's own input taken off, are each
\* one toggle of the recording, but for one that is swallowed for each input the
\* program counted and could not send; and when everything was sent and GetKeyState
\* is current, the light shows it whenever the queue is empty.
Swallowed == IF ReturnsAsHotkey THEN unsent ELSE 0
EveryPressToggles ==
  mpc = "loop" /\ cpc = "none" /\ ~mDelay /\ ~mStartTimer =>
    LET waiting == Cardinality({i \in DOMAIN messages : messages[i] = "hotkey"})
                     - gHotkeyIgnoreCount
    IN  /\ gIsRecording = ((presses - waiting - Swallowed) % 2 = 1)
        /\ mScrollLockIndicator /\ messages = <<>> /\ unsent = 0 /\ ~setup.stale =>
             scrollLock = gIsRecording

\* Both gIsRecording agree whenever no handler is at work and no Ctrl event has
\* come, stale WM_TIMERs included, and a -timed recording has its timer running.
RecordingIsAgreed ==
  mpc = "loop" /\ cpc = "none" =>
    /\ gIsRecording = outputIsRecording
    /\ mStartTimer /\ gIsRecording => TIMED \in timers

\* README.md:107 "Stop recording after the provided amount of time": every
\* recording started ends, or the program does.
TimedRecordingEnds == mStartTimer /\ gIsRecording ~> ~gIsRecording \/ mpc = "returned"

\* MainThread.cpp:138-140: however the program is asked to end (Ctrl event,
\* WM_QUIT of the consumer when somebody else stops its session, last target,
\* -terminate_after_timed, FpsTracker::Stop), it ends.
AskedToEnd ==
  \/ "quit" \in ToSet(messages)
  \/ consumer = "processing" /\ named # "us" /\ ~setup.etl /\ setup.host = "exe"
  \/ fpc = "stopping"
AskedProgramEnds == AskedToEnd ~> Ended

\* OutputThread.cpp:635 "Output warning if events were lost".
LossIsReported == lost /\ Ended => warned

\* FpsTracker.cpp:157-161: the number of frames last reported is that of the
\* presents in the second before the latest, and never too few when presents
\* come out of order.
FpsIsExact ==
  fpsdelta = 0 /\ seen # <<>> =>
    LET latest == CHOOSE t \in ToSet(seen) : \A u \in ToSet(seen) : u <= t
        count  == Cardinality({i \in DOMAIN seen : seen[i] >= latest - QpcFrequency})
    IN  fps >= count /\ (setup.inOrder => fps = count)
=============================================================================
