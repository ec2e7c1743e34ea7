------------------------------ MODULE MainThread ------------------------------
(***************************************************************************)
(* The main thread of PresentMon (PresentMon/MainThread.cpp): recording    *)
(* control by hotkey, -delay and -timed timers and Ctrl events, and the    *)
(* life of the program around StartTraceSession and StopTraceSession.      *)
(* `main' and the Ctrl handler's system thread share gIsRecording, the     *)
(* timers and the output side's recording state without a lock.            *)
(***************************************************************************)
EXTENDS TraceSession

DELAY == "delay"
TIMED == "timed"

VARIABLES
  mpc,          \* where main is: "main", "loop", a step of a handler, "quit", "returned"
  exitCode,     \* what it returned, or 0
  cpc,          \* where the Ctrl handler is: "none", "test", a step, "asleep"
  wanted,       \* per thread: what it is about to make of gIsRecording
  afterTimed,   \* the recording is being stopped by the -timed timer
  gIsRecording, \* of MainThread.cpp
  outputIsRecording, \* gIsRecording of OutputThread.cpp
  timers,       \* those set
  due,          \* those with a WM_TIMER that has not been retrieved
  gHotkeyIgnoreCount,
  scrollLock, originalScrollLock,
  presses,      \* history: the presses of the hotkey, simulated ones included
  unsent,       \* history: how often SendInput sent nothing
  everRecorded  \* history: a recording has been started

recordVars == <<wanted, gIsRecording, outputIsRecording, timers, due, everRecorded>>
keyVars    == <<gHotkeyIgnoreCount, scrollLock, messages, unsent>>
lightVars  == <<gHotkeyIgnoreCount, scrollLock, originalScrollLock, unsent>>
mainVars   == <<mpc, exitCode, cpc, afterTimed, recordVars, lightVars, presses>>
otherSessionVars == <<setup, etwVars, consumers, spc, status, consumer, output, gQuit,
                      section, lost, warned>>

\* What ParseCommandLine makes of the options.
mHotkeySupport     == "hotkey" \in setup.options
mDelay             == "delay" \in setup.options
mStartTimer        == "timed" \in setup.options
mTerminateExisting == "terminateExisting" \in setup.options
mScrollLockIndicator == "scroll" \in setup.options

MainInit ==
  /\ mpc = IF setup.host = "exe" THEN "main" ELSE "out"
  /\ exitCode = 0 /\ cpc = "none" /\ afterTimed = FALSE
  /\ wanted = [t \in {"main", "ctrl"} |-> FALSE]
  /\ gIsRecording = FALSE /\ outputIsRecording = FALSE
  /\ timers = {} /\ due = {} /\ everRecorded = FALSE
  /\ gHotkeyIgnoreCount = 0 /\ scrollLock \in BOOLEAN
  /\ originalScrollLock = scrollLock /\ presses = 0 /\ unsent = 0
  /\ mScrollLockIndicator \/ ~scrollLock

\* KillTimer takes no message out of the queue that is in it already; whether
\* one that is due is, nobody can tell.
KillTimer(t) == timers' = timers \ {t} /\ due' \in {due, due \ {t}}
SetTimer(t)  == timers' = timers \cup {t} /\ UNCHANGED due

\* GetKeyState, which with setup.stale has not caught up with the input yet: it
\* follows the messages the calling thread has retrieved.
GetKeyState == IF setup.stale THEN BOOLEAN ELSE {scrollLock}

\* The hotkey is SCROLLLOCK (without a modifier), so that what EnableScrollLock
\* sends comes back as a WM_HOTKEY.
ReturnsAsHotkey == mHotkeySupport /\ "lockKey" \in setup.options

Sent ==
  /\ scrollLock' = ~scrollLock /\ UNCHANGED unsent
  /\ messages' = IF ReturnsAsHotkey THEN Append(messages, "hotkey") ELSE messages

\* SendInput sends nothing, which is told to the user and nobody else.  (Half of
\* the input is the press without the release, and switches the light as well.)
NotSent ==
  /\ unsent < setup.maxUnsent
  /\ unsent' = unsent + 1 /\ UNCHANGED <<scrollLock, messages>>

\* A faulty EnableScrollLock that ignores none of its own input.
EnableScrollLock_NoIgnore(enable, lit) ==
  IF lit = enable THEN UNCHANGED keyVars
  ELSE UNCHANGED gHotkeyIgnoreCount /\ (Sent \/ NotSent)

\* EnableScrollLock, when GetKeyState returns `lit'; that the message handler
\* is to ignore one is noted before the input is sent.
EnableScrollLock(enable, lit) ==
  IF lit = enable THEN UNCHANGED keyVars
  ELSE /\ gHotkeyIgnoreCount' = IF ReturnsAsHotkey THEN gHotkeyIgnoreCount + 1
                                ELSE gHotkeyIgnoreCount
       /\ Sent \/ NotSent

Indicate(enable) ==
  IF mScrollLockIndicator THEN \E lit \in GetKeyState : EnableScrollLock(enable, lit)
  ELSE UNCHANGED keyVars

At(t)     == IF t = "main" THEN mpc ELSE cpc
Move(t, to) == IF t = "main" THEN mpc' = to /\ UNCHANGED cpc
                             ELSE cpc' = to /\ UNCHANGED mpc

-----------------------------------------------------------------------------
(***************************************************************************)
(* StartRecording and StopRecording, by either thread.                     *)
(***************************************************************************)
\* gIsRecording is set; a stop also kills the -timed timer, a start shows the
\* light before the output side is told.
Assign(t) ==
  /\ At(t) = "assign" /\ Move(t, "tell")
  /\ gIsRecording' = wanted[t] /\ everRecorded' = (everRecorded \/ wanted[t])
  /\ IF ~wanted[t] /\ mStartTimer THEN KillTimer(TIMED) ELSE UNCHANGED <<timers, due>>
  /\ IF wanted[t] THEN Indicate(TRUE)
     ELSE UNCHANGED keyVars
  /\ UNCHANGED <<otherSessionVars, exitCode, afterTimed, wanted, outputIsRecording,
                 originalScrollLock, presses>>

\* SetOutputRecordingState, whose own steps OutputThread models.
Tell(t) ==
  /\ At(t) = "tell" /\ Move(t, "finish")
  /\ outputIsRecording' = wanted[t]
  /\ UNCHANGED <<sessionVars, exitCode, afterTimed, wanted, gIsRecording, timers, due,
                 everRecorded, lightVars, presses>>

\* A faulty one that kills every timer once the delay is over.
FinishStart_KillsAll(t) ==
  /\ At(t) = "finish" /\ wanted[t] /\ Move(t, "loop")
  /\ timers' = {} /\ UNCHANGED due
  /\ UNCHANGED <<sessionVars, exitCode, afterTimed, wanted, gIsRecording,
                 outputIsRecording, everRecorded, lightVars, presses>>

\* The rest of StartRecording and of its caller.
FinishStart(t) ==
  /\ At(t) = "finish" /\ wanted[t] /\ Move(t, "loop")
  /\ timers' = (IF mStartTimer THEN timers \cup {TIMED} ELSE timers) \ {DELAY}
  /\ due' \in {due, due \ {DELAY}}
  /\ UNCHANGED <<sessionVars, exitCode, afterTimed, wanted, gIsRecording,
                 outputIsRecording, everRecorded, lightVars, presses>>

\* The rest of StopRecording; -terminate_after_timed and the Ctrl handler then
\* ask for the end.
FinishStop(t) ==
  /\ At(t) = "finish" /\ ~wanted[t]
  /\ Move(t, IF t = "ctrl" THEN "exit" ELSE IF afterTimed THEN "exit" ELSE "loop")
  /\ Indicate(FALSE)
  /\ UNCHANGED <<otherSessionVars, exitCode, afterTimed, recordVars, originalScrollLock,
                 presses>>

Exit(t) ==
  /\ At(t) = "exit" /\ Move(t, IF t = "ctrl" THEN "asleep" ELSE "loop")
  /\ PostQuit /\ afterTimed' = (t = "ctrl" /\ afterTimed)
  /\ UNCHANGED <<otherSessionVars, exitCode, recordVars, lightVars, presses>>

\* HandleCtrlEvent, on a thread of its own, at any time after it was registered.
CtrlEvent ==
  /\ setup.ctrl /\ cpc = "none" /\ mpc \notin {"out", "main", "returned"}
  /\ cpc' = "test"
  /\ UNCHANGED <<sessionVars, mpc, exitCode, afterTimed, recordVars, lightVars, presses>>

TestRecording ==
  /\ cpc = "test"
  /\ cpc' = IF gIsRecording THEN "assign" ELSE "exit"
  /\ wanted' = [wanted EXCEPT !["ctrl"] = FALSE]
  /\ UNCHANGED <<sessionVars, mpc, exitCode, afterTimed, gIsRecording, outputIsRecording,
                 timers, due, everRecorded, lightVars, presses>>

\* It ends with the process.
Ctrl ==
  /\ mpc # "returned"
  /\ \/ TestRecording \/ Assign("ctrl") \/ Tell("ctrl") \/ FinishStop("ctrl")
     \/ Exit("ctrl")

-----------------------------------------------------------------------------
(***************************************************************************)
(* HandleWindowMessage.                                                    *)
(***************************************************************************)
Switch(to) ==
  /\ mpc' = "assign" /\ wanted' = [wanted EXCEPT !["main"] = to]
  /\ UNCHANGED <<gIsRecording, outputIsRecording, everRecorded>>

\* A faulty one that takes it off whether any is to be ignored or not.
IgnoreOne_Always ==
  /\ gHotkeyIgnoreCount' = gHotkeyIgnoreCount - 1
  /\ UNCHANGED <<mpc, recordVars>>

\* One of the program's own; the count is a uint32_t.
IgnoreOne ==
  /\ gHotkeyIgnoreCount > 0
  /\ gHotkeyIgnoreCount' = gHotkeyIgnoreCount - 1
  /\ UNCHANGED <<mpc, recordVars>>

WM_HOTKEY ==
  /\ mpc = "loop" /\ messages # <<>> /\ Head(messages) = "hotkey"
  /\ messages' = Tail(messages)
  /\ \/ IgnoreOne
     \/ /\ gHotkeyIgnoreCount = 0 /\ (gIsRecording \/ ~mDelay)
        /\ Switch(~gIsRecording) /\ UNCHANGED <<gHotkeyIgnoreCount, timers, due>>
     \/ /\ gHotkeyIgnoreCount = 0 /\ ~gIsRecording /\ mDelay
        /\ SetTimer(DELAY)
        /\ UNCHANGED <<gHotkeyIgnoreCount, mpc, wanted, gIsRecording, outputIsRecording,
                       everRecorded>>
  /\ UNCHANGED <<otherSessionVars, exitCode, cpc, afterTimed, scrollLock,
                 originalScrollLock, unsent, presses>>

\* Timers are served when nothing else is posted.
WM_TIMER(t) ==
  /\ mpc = "loop" /\ messages = <<>> /\ t \in due
  /\ due' = due \ {t} /\ UNCHANGED timers
  /\ Switch(t = DELAY)
  /\ afterTimed' = (t = TIMED /\ setup.terminateAfterTimed)
  /\ UNCHANGED <<sessionVars, exitCode, cpc, lightVars, presses>>

WM_QUIT ==
  /\ mpc = "loop" /\ messages # <<>> /\ Head(messages) = "quit"
  /\ mpc' = "quit"
  /\ UNCHANGED <<sessionVars, exitCode, cpc, afterTimed, recordVars, lightVars, presses>>

HandleWindowMessage == WM_HOTKEY \/ (\E t \in due : WM_TIMER(t)) \/ WM_QUIT

-----------------------------------------------------------------------------
(***************************************************************************)
(* main().                                                                 *)
(***************************************************************************)
\* -terminate_existing does nothing else.
TerminateExisting ==
  /\ mpc = "main" /\ mTerminateExisting
  /\ mpc' = "returned"
  /\ \/ named # "nobody" /\ named' = "nobody" /\ exitCode' = 0
     \/ (named = "nobody" \/ setup.mayFail) /\ exitCode' = 7 /\ UNCHANGED named
  /\ UNCHANGED <<setup, mHandle, mTraceHandle, mContinueProcessingBuffers, enabled,
                 threadVars, consumers, spc, status, cpc, afterTimed, recordVars,
                 lightVars, presses>>

\* The window class, the window and the hotkey (returns 3, 4, 5).
Register ==
  /\ mpc = "main" /\ ~mTerminateExisting
  /\ \/ /\ mpc' = "start" /\ UNCHANGED exitCode
     \/ /\ setup.mayFail
        /\ mpc' = "returned"
        /\ exitCode' \in {3, 4} \cup IF mHotkeySupport THEN {5} ELSE {}
  /\ UNCHANGED <<sessionVars, cpc, afterTimed, recordVars, lightVars, presses>>

MainCreateConsumers ==
  /\ mpc = "start" /\ mpc' = "starting"
  /\ CreateConsumers
  /\ UNCHANGED <<exitCode, cpc, afterTimed, recordVars, lightVars, presses>>

MainRefused ==
  /\ mpc = "starting" /\ spc = "refused"
  /\ mpc' = "returned" /\ exitCode' = 6
  /\ UNCHANGED <<sessionVars, cpc, afterTimed, recordVars, lightVars, presses>>

\* The light is saved as GetKeyState tells it, and set.
SaveLight ==
  /\ mpc = "starting" /\ spc = "started"
  /\ mpc' = IF mHotkeySupport THEN "loop" ELSE "simulate"
  /\ IF mScrollLockIndicator
     THEN \E lit \in GetKeyState :
            EnableScrollLock(gIsRecording, lit) /\ originalScrollLock' = lit
     ELSE UNCHANGED <<keyVars, originalScrollLock>>
  /\ UNCHANGED <<otherSessionVars, exitCode, cpc, afterTimed, recordVars, presses>>

\* Without -hotkey a press of it is simulated.
EnterLoop ==
  /\ mpc = "simulate" /\ mpc' = "loop"
  /\ messages' = Append(messages, "hotkey") /\ presses' = presses + 1
  /\ UNCHANGED <<otherSessionVars, exitCode, cpc, afterTimed, recordVars, lightVars>>

MainShutDown ==
  /\ mpc = "quit" /\ mpc' = "stopping"
  /\ Indicate(originalScrollLock)
  /\ spc' = "closeTrace"
  /\ UNCHANGED <<setup, etwVars, consumers, status, consumer, output, gQuit, section,
                 lost, warned, exitCode, cpc, afterTimed, recordVars, originalScrollLock,
                 presses>>

Return ==
  /\ mpc = "stopping" /\ spc = "stopped"
  /\ mpc' = "returned"
  /\ UNCHANGED <<sessionVars, exitCode, cpc, afterTimed, recordVars, lightVars, presses>>

Main ==
  \/ MainCreateConsumers \/ MainRefused \/ SaveLight \/ EnterLoop \/ MainShutDown
  \/ Return \/ HandleWindowMessage \/ TerminateExisting \/ Register
  \/ Assign("main") \/ Tell("main") \/ FinishStart("main") \/ FinishStop("main") \/ Exit("main")

-----------------------------------------------------------------------------
\* The user presses the hotkey; SCROLLLOCK switches its own light as well.
PressHotkey ==
  /\ mHotkeySupport /\ mpc \notin {"out", "main", "returned"} /\ presses < setup.maxPresses
  /\ "quit" \notin ToSet(messages)
  /\ presses' = presses + 1
  /\ messages' = Append(messages, "hotkey")
  /\ scrollLock' = IF ReturnsAsHotkey /\ mScrollLockIndicator THEN ~scrollLock ELSE scrollLock
  /\ UNCHANGED <<otherSessionVars, mpc, exitCode, cpc, afterTimed, recordVars,
                 gHotkeyIgnoreCount, originalScrollLock, unsent>>

\* Timers are periodic; one WM_TIMER of each is kept at a time.
Elapse(t) ==
  /\ t \in timers /\ t \notin due
  /\ due' = due \cup {t}
  /\ UNCHANGED <<sessionVars, mpc, exitCode, cpc, afterTimed, wanted, gIsRecording,
                 outputIsRecording, timers, everRecorded, lightVars, presses>>

MainNext ==
  \/ Main \/ Ctrl \/ CtrlEvent \/ PressHotkey \/ (\E t \in timers : Elapse(t))

=============================================================================
