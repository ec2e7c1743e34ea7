----------------------------- MODULE TraceSession -----------------------------
(***************************************************************************)
(* The ETW session of a program (PresentData/TraceSession.cpp), the two    *)
(* threads that live off it (PresentMon/ConsumerThread.cpp and the ends of *)
(* OutputThread.cpp), and the calls that bring both up and down            *)
(* (PresentMon/TraceSession.cpp).  The code is compiled into PresentMon    *)
(* (MainThread) and, with BUILD_PRESENTMON_AS_LIB, into a library          *)
(* (FpsTracker); `host' is the thread that calls StartTraceSession and     *)
(* StopTraceSession in either.                                             *)
(*                                                                         *)
(* A session belongs to Windows and is known by its name.  Whoever knows   *)
(* the name can stop it, and it outlives a process that does not stop it.  *)
(***************************************************************************)
EXTENDS Naturals, Sequences, FiniteSets, SequencesExt

CONSTANT Setups  \* the command lines and environments of a run

Options == [
  host : {"exe", "lib"},      \* PresentMon, or a program around the library
  etl : BOOLEAN,              \* -etl_file
  stopExisting : BOOLEAN,     \* -stop_existing_session
  simple : BOOLEAN,           \* -simple
  winMR : BOOLEAN,            \* -include_mixed_reality
  taken : BOOLEAN,            \* a session of the name exists at the beginning
  mayFail : BOOLEAN,          \* bound: whether calls into ETW may fail
  interferes : BOOLEAN,       \* bound: others start and stop sessions of the name
  loses : BOOLEAN,            \* bound: ETW may lose events
  exits : BOOLEAN,            \* -terminate_on_proc_exit, with targets that exit
  options : SUBSET {"hotkey", "delay", "timed", "scroll", "lockKey",
                    "terminateExisting"},
  terminateAfterTimed : BOOLEAN,
  ctrl : BOOLEAN,             \* bound: whether a Ctrl event may come
  maxPresses : Nat,           \* bound on the user's hotkey presses
  maxUnsent : Nat,            \* bound on the calls of SendInput that fail
  stale : BOOLEAN,            \* bound: whether GetKeyState may be out of date
  inOrder : BOOLEAN,          \* presents complete in the order they started
  maxStarts : Nat,            \* bound on FpsTracker::Start
  maxPresents : Nat ]         \* bound on the presents of a run of the library

ASSUME SetupsAssumption == Setups \subseteq Options

VARIABLES
  setup,         \* fixed from the beginning
  named,         \* who started the session of our name: "nobody", "us", "other", or
                 \* "left" for one of ours when the call that was to stop it failed
  mHandle,       \* whether it is a session's handle, not 0
  mTraceHandle,  \* whether it is an open trace, not INVALID_PROCESSTRACE_HANDLE
  mContinueProcessingBuffers,
  enabled,       \* the providers our session receives events from
  consumers,     \* whether gPMConsumer and gMRConsumer exist
  consumer,      \* its thread: "none", "processing" or "ended"
  output,        \* its thread: "none", "running", "last" or "ended"
  gQuit,
  section,       \* whether gRecordingToggleCS is initialized
  spc,           \* where the host is in StartTraceSession or StopTraceSession
  status,        \* what the call into ETW returned: "success", "exists" or "error"
  messages,      \* posted to the main thread's window
  lost, warned   \* history: ETW lost events; the output thread said so

threadVars  == <<consumer, output, gQuit, section, lost, warned, messages>>
etwVars     == <<named, mHandle, mTraceHandle, mContinueProcessingBuffers, enabled>>
sessionVars == <<setup, etwVars, threadVars, consumers, spc, status>>

SessionInit ==
  /\ setup \in Setups
  /\ named = IF setup.taken THEN "other" ELSE "nobody"
  /\ mHandle = FALSE /\ mTraceHandle = FALSE
  /\ mContinueProcessingBuffers = TRUE /\ enabled = {}
  /\ consumers = FALSE /\ consumer = "none" /\ output = "none"
  /\ gQuit = FALSE /\ section = FALSE
  /\ spc = "out" /\ status = "success"
  /\ messages = <<>> /\ lost = FALSE /\ warned = FALSE

\* ExitMainThread: nothing behind the first WM_QUIT is read, so one is kept.
\* The library's ExitMainThread does nothing.
PostQuit ==
  messages' = IF setup.host = "exe" /\ "quit" \notin ToSet(messages)
              THEN Append(messages, "quit") ELSE messages

Goto(from, to) == spc = from /\ spc' = to

-----------------------------------------------------------------------------
(***************************************************************************)
(* StartTraceSession and TraceSession::Start.                              *)
(***************************************************************************)
CreateConsumers ==
  /\ spc' = "startTrace" /\ consumers' = TRUE /\ status' = "success"
  /\ UNCHANGED <<setup, etwVars, threadVars>>

\* StartTraceA.  A name that is taken is given up at once, or freed and tried
\* once more with -stop_existing_session.
StartTrace ==
  /\ spc = "startTrace"
  /\ mContinueProcessingBuffers' = TRUE
  /\ \/ /\ named = "nobody"
        /\ named' = "us" /\ mHandle' = TRUE /\ status' = "success"
        /\ spc' = "enable"
     \/ /\ named # "nobody"
        /\ status' = "exists"
        /\ spc' = IF setup.stopExisting /\ status # "exists" THEN "stopNamed" ELSE "refuse"
        /\ UNCHANGED <<named, mHandle>>
     \/ /\ setup.mayFail
        /\ status' = "error" /\ spc' = "refuse"
        /\ UNCHANGED <<named, mHandle>>
  /\ UNCHANGED <<setup, mTraceHandle, enabled, threadVars, consumers>>

StopNamedSession ==
  /\ spc = "stopNamed"
  /\ \/ /\ named # "nobody"
        /\ named' = "nobody" /\ spc' = "startTrace" /\ UNCHANGED status
     \/ /\ named = "nobody" \/ setup.mayFail
        /\ status' = "error" /\ spc' = "refuse" /\ UNCHANGED named
  /\ UNCHANGED <<setup, mHandle, mTraceHandle, mContinueProcessingBuffers, enabled,
                 threadVars, consumers>>

\* The providers in the order EnableProviders takes them.
Providers ==
  <<"DXGI", "D3D9">>
    \o (IF setup.simple THEN <<>>
        ELSE <<"DxgKrnl", "DxgKrnlWin7", "Win32k", "Dwm", "DwmWin7">>)
    \o (IF setup.winMR THEN <<"DHD">> ELSE <<>>)
    \o (IF setup.winMR /\ ~setup.simple THEN <<"SPECTRUMCONTINUOUS">> ELSE <<>>)

\* A faulty Start that returns without Stop when a provider fails.
EnableProviders_NoStop ==
  /\ spc = "enable"
  /\ \/ /\ named = "us"
        /\ enabled' = ToSet(Providers) /\ Goto("enable", "open") /\ UNCHANGED status
     \/ /\ setup.mayFail \/ named # "us"
        /\ status' = "error" /\ Goto("enable", "refuse") /\ UNCHANGED enabled
  /\ UNCHANGED <<setup, named, mHandle, mTraceHandle, mContinueProcessingBuffers,
                 threadVars, consumers>>

\* It returns at the first that fails, and Start undoes what was done so far.
EnableProviders ==
  /\ spc = "enable"
  /\ \/ /\ named = "us"
        /\ enabled' = ToSet(Providers) /\ Goto("enable", "open") /\ UNCHANGED status
     \/ /\ setup.mayFail \/ named # "us"
        /\ \E n \in 0..Len(Providers) - 1 :
             enabled' = IF named = "us" THEN ToSet(SubSeq(Providers, 1, n)) ELSE {}
        /\ status' = "error" /\ Goto("enable", "closeTrace")
  /\ UNCHANGED <<setup, named, mHandle, mTraceHandle, mContinueProcessingBuffers,
                 threadVars, consumers>>

OpenTrace ==
  /\ \/ mTraceHandle' = TRUE /\ Goto("open", "startConsumer") /\ UNCHANGED status
     \/ /\ setup.mayFail
        /\ status' = "error" /\ Goto("open", "closeTrace") /\ UNCHANGED mTraceHandle
  /\ UNCHANGED <<setup, named, mHandle, mContinueProcessingBuffers, enabled,
                 threadVars, consumers>>

StartConsumerThread ==
  /\ Goto("startConsumer", "startOutput")
  /\ consumer' = "processing"
  /\ UNCHANGED <<setup, etwVars, output, gQuit, section, lost, warned, messages,
                 consumers, status>>

\* gQuit is not reset here, nor anywhere else.
StartOutputThread ==
  /\ Goto("startOutput", "started")
  /\ section' = TRUE /\ output' = "running"
  /\ UNCHANGED <<setup, etwVars, consumer, gQuit, lost, warned, messages, consumers,
                 status>>

Refuse ==
  /\ Goto("refuse", "refused")
  /\ consumers' = FALSE
  /\ UNCHANGED <<setup, etwVars, threadVars, status>>

StartSteps ==
  \/ StartTrace \/ StopNamedSession \/ EnableProviders \/ OpenTrace
  \/ StartConsumerThread \/ StartOutputThread \/ Refuse

-----------------------------------------------------------------------------
(***************************************************************************)
(* StopTraceSession and TraceSession::Stop, which Start also calls when it *)
(* fails half-way.                                                         *)
(***************************************************************************)
CloseTrace ==
  /\ Goto("closeTrace", "disable")
  /\ mContinueProcessingBuffers' = FALSE /\ mTraceHandle' = FALSE
  /\ UNCHANGED <<setup, named, mHandle, enabled, threadVars, consumers, status>>

\* Every provider there is, whether it was enabled or not.
DisableProviders ==
  /\ Goto("disable", "stopTrace")
  /\ enabled' = {}
  /\ UNCHANGED <<setup, named, mHandle, mTraceHandle, mContinueProcessingBuffers,
                 threadVars, consumers, status>>

\* EVENT_TRACE_CONTROL_STOP by handle; the session may be gone already, and what
\* the call returns is not looked at.
StopTrace ==
  /\ Goto("stopTrace", IF status = "error" THEN "refuse" ELSE "joinConsumer")
  /\ \/ named' = IF named = "us" /\ mHandle THEN "nobody" ELSE named
     \/ setup.mayFail /\ named = "us" /\ mHandle /\ named' = "left"
  /\ enabled' = {} /\ mHandle' = FALSE
  /\ UNCHANGED <<setup, mTraceHandle, mContinueProcessingBuffers, threadVars,
                 consumers, status>>

\* A faulty one that does not wait.
WaitForConsumerThreadToExit_NoWait ==
  /\ Goto("joinConsumer", "setQuit")
  /\ UNCHANGED <<setup, etwVars, threadVars, consumers, status>>

WaitForConsumerThreadToExit ==
  /\ Goto("joinConsumer", "setQuit") /\ consumer \in {"none", "ended"}
  /\ consumer' = "none"
  /\ UNCHANGED <<setup, etwVars, output, gQuit, section, lost, warned, messages,
                 consumers, status>>

SetQuit ==
  /\ Goto("setQuit", "joinOutput")
  /\ gQuit' = TRUE
  /\ UNCHANGED <<setup, etwVars, consumer, output, section, lost, warned, messages,
                 consumers, status>>

JoinOutput ==
  /\ Goto("joinOutput", "delete") /\ output = "ended"
  /\ output' = "none" /\ section' = FALSE
  /\ UNCHANGED <<setup, etwVars, consumer, gQuit, lost, warned, messages, consumers,
                 status>>

DeleteConsumers ==
  /\ Goto("delete", "stopped")
  /\ consumers' = FALSE
  /\ UNCHANGED <<setup, etwVars, threadVars, status>>

StopSteps ==
  \/ CloseTrace \/ DisableProviders \/ StopTrace \/ WaitForConsumerThreadToExit
  \/ SetQuit \/ JoinOutput \/ DeleteConsumers

-----------------------------------------------------------------------------
(***************************************************************************)
(* The threads, and everybody else in the system.                          *)
(***************************************************************************)
\* What makes ProcessTrace return: CloseTrace or the end of the session in a
\* realtime trace, BufferCallback or the end of the file in another.
TraceEnded ==
  IF setup.etl THEN ~mContinueProcessingBuffers ELSE ~mTraceHandle \/ named # "us"

\* A faulty consumer that does not ask main to exit.
EndConsumer_Silent ==
  /\ consumer = "processing" /\ (TraceEnded \/ setup.etl)
  /\ consumer' = "ended"
  /\ UNCHANGED <<setup, etwVars, consumers, spc, status, output, gQuit, section, lost,
                 warned, messages>>

EndConsumer ==
  /\ consumer = "processing" /\ (TraceEnded \/ setup.etl)
  /\ consumer' = "ended" /\ PostQuit
  /\ UNCHANGED <<setup, etwVars, consumers, spc, status, output, gQuit, section, lost,
                 warned>>

\* The loop of Output, seen from here: it goes on until it has read gQuit ...
ReadQuit ==
  /\ output = "running" /\ gQuit
  /\ output' = "last"
  /\ UNCHANGED <<setup, etwVars, consumers, spc, status, consumer, gQuit, section, lost,
                 warned, messages>>

\* ... and after the round begun with it asks the session what was lost.
CheckLostReports ==
  /\ output = "last"
  /\ output' = "ended" /\ warned' = (warned \/ (mHandle /\ named = "us" /\ lost))
  /\ UNCHANGED <<setup, etwVars, consumers, spc, status, consumer, gQuit, section, lost,
                 messages>>

\* HandleTerminatedProcess, when the last target has exited.
TargetsExit ==
  /\ setup.exits /\ output \in {"running", "last"} /\ "quit" \notin ToSet(messages)
  /\ PostQuit
  /\ UNCHANGED <<setup, etwVars, consumers, spc, status, consumer, output, gQuit,
                 section, lost, warned>>

LoseEvents ==
  /\ setup.loses /\ named = "us" /\ consumer = "processing" /\ ~lost
  /\ lost' = TRUE
  /\ UNCHANGED <<setup, etwVars, consumers, spc, status, consumer, output, gQuit,
                 section, warned, messages>>

\* Another program with the same session name.
Others ==
  /\ setup.interferes
  /\ \/ named = "nobody" /\ named' = "other" /\ UNCHANGED enabled
     \/ named \in {"other", "left"} /\ named' = "nobody" /\ UNCHANGED enabled
     \/ named = "us" /\ named' = "nobody" /\ enabled' = {}
  /\ UNCHANGED <<setup, mHandle, mTraceHandle, mContinueProcessingBuffers, threadVars,
                 consumers, spc, status>>

=============================================================================
