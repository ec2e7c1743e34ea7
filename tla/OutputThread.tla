----------------------------- MODULE OutputThread -----------------------------
(***************************************************************************)
(* PresentMon's output side (PresentMon/OutputThread.cpp) with the three   *)
(* threads that feed it:                                                   *)
(*   consumer  (ConsumerThread.cpp) turns trace events into completed      *)
(*             presents and process events, each queue behind its own lock;*)
(*   main      (MainThread.cpp) switches recording on a hotkey and shuts   *)
(*             everything down when WM_QUIT arrives;                       *)
(*   ctrl      (HandleCtrlEvent) a system thread that stops a recording    *)
(*             and posts WM_QUIT.                                          *)
(* The output thread pairs every present with the recording state at the   *)
(* present's own time, keeps the list of processes, and forgets a process  *)
(* once the present stream has passed the time of its exit.                *)
(*                                                                         *)
(* QueryPerformanceCounter is `now'.  It advances when something happens   *)
(* that presents are compared with (a toggle, an exit); presents take it   *)
(* as it is, so a present may carry the very time of a toggle.             *)
(***************************************************************************)
EXTENDS Naturals, Sequences, FiniteSets, SequencesExt

CONSTANTS
  Pids,         \* processes; each runs once
  main, ctrl,   \* the threads that switch recording
  NoEntry,      \* a pid that is not in gProcesses
  Setups        \* the command lines and environments of a run

ASSUME ConstantsAssumption ==
  /\ IsFiniteSet(Pids)
  /\ main # ctrl
  /\ NoEntry \notin [handle : BOOLEAN, named : BOOLEAN, target : BOOLEAN]
  /\ \A s \in Setups :
       /\ s.targetPids \subseteq Pids     \* -process_id, at most one
       /\ Cardinality(s.targetPids) <= 1
       /\ s.named \subseteq Pids          \* those -process_name gives the image name of
       /\ s.excluded \subseteq Pids       \* those -exclude gives the image name of
       /\ s.etl \in BOOLEAN               \* an ETL file instead of a realtime session
       /\ s.terminateOnProcExit \in BOOLEAN
       /\ s.switchers \in {{main}, {main, ctrl}}
       /\ s.mortal \subseteq Pids         \* bound: the processes that may exit
       /\ s.unsure \subseteq Pids         \* bound: those that may be closed to PresentMon
       /\ s.inOrder \in BOOLEAN           \* presents complete in the order they started
       /\ s.maxToggles \in Nat            \* bound on hotkey presses and Ctrl events
       /\ s.maxEvents \in Nat \ {0}       \* bound on the presents in one queue

VARIABLES
  setup,           \* fixed from the beginning
  now,
  \* consumer
  life,            \* of each process: "new", "running" or "exited"
  inflight,        \* presents that have started and not completed
  consumer,        \* "running" or "ended": ProcessTrace has returned
  mPresentEvents,  \* completed presents, behind mPresentEventMutex
  mProcessEvents,  \* process starts and exits, behind mProcessEventMutex; starts
                   \* and exits are dealt with apart, and only exits in order
  \* recording control
  tpc, treq,       \* where each switching thread is, and what it wants
  isRecording,     \* gIsRecording of MainThread.cpp
  gIsRecording,    \* gIsRecording of OutputThread.cpp
  toggles,         \* gRecordingToggleHistory
  switches,        \* history: every change of gIsRecording, never erased
  presses,         \* hotkey presses and Ctrl events so far
  \* shutdown
  quitPosted,      \* WM_QUIT is in the main thread's queue
  gQuit,
  \* output thread
  opc, quit,       \* where it is, and its local copy of gQuit
  newProcesses, batch, history, handled, recording,  \* locals of ProcessEvents
  terminated,      \* terminatedProcesses
  gProcesses, gTargetProcessCount,
  gRecordingCount, \* index of the CSV file being written
  gone,            \* history: processes HandleTerminatedProcess has erased
  logged           \* history: what became of the last present of a target

consumerVars == <<life, inflight, consumer, mPresentEvents, mProcessEvents>>
switchVars   == <<tpc, treq, isRecording, gIsRecording, switches, presses>>
localVars    == <<quit, newProcesses, batch, history, handled, recording>>
processVars  == <<terminated, gProcesses, gTargetProcessCount, gone>>
vars == <<setup, now, consumerVars, switchVars, toggles, quitPosted, gQuit, opc,
          localVars, processVars, gRecordingCount, logged>>

NoEvents    == [starts |-> {}, exits |-> <<>>]
NotRecorded == 0
NotLogged   == [qpc |-> 0, csv |-> NotRecorded]

\* IsTargetProcess; the name is "<error>" when it could not be looked up.
IsTargetProcess(p, nameKnown) ==
  /\ ~(nameKnown /\ p \in setup.excluded)
  /\ \/ setup.targetPids = {} /\ setup.named = {}
     \/ p \in setup.targetPids
     \/ nameKnown /\ p \in setup.named

\* IsProcessTrackedForFiltering: -process_id turns the filter on.
IsProcessTracked(p) == setup.targetPids = {} \/ p \in setup.targetPids

Init ==
  /\ setup \in Setups
  /\ now = 0
  /\ life = [p \in Pids |-> IF setup.etl THEN "new" ELSE "running"]
  /\ inflight = {} /\ consumer = "running"
  /\ mPresentEvents = <<>> /\ mProcessEvents = NoEvents
  /\ tpc = [t \in {main, ctrl} |-> "idle"]
  /\ treq = [t \in {main, ctrl} |-> [on |-> FALSE, qpc |-> 0]]
  /\ isRecording = FALSE /\ gIsRecording = FALSE
  /\ toggles = <<>> /\ switches = <<>> /\ presses = 0
  /\ quitPosted = FALSE /\ gQuit = FALSE
  /\ opc = "top" /\ quit = FALSE
  /\ newProcesses = NoEvents /\ batch = <<>> /\ history = <<>> /\ handled = 0
  /\ recording = FALSE
  /\ terminated = <<>> /\ gProcesses = [p \in Pids |-> NoEntry]
  /\ gTargetProcessCount = 0
  /\ gRecordingCount = 1 /\ gone = {} /\ logged = NotLogged

-----------------------------------------------------------------------------
(***************************************************************************)
(* The consumer and the processes it observes.                             *)
(***************************************************************************)
ExitEvent(p, qpc) == [pid |-> p, qpc |-> qpc]

consumerUnchanged ==
  UNCHANGED <<setup, switchVars, toggles, gQuit, opc, localVars, processVars,
              gRecordingCount, logged>>

\* Only an ETL file tells of processes starting.
StartProcess(p) ==
  /\ consumer = "running" /\ life[p] = "new"
  /\ life' = [life EXCEPT ![p] = "running"]
  /\ mProcessEvents' = [mProcessEvents EXCEPT !.starts = @ \cup {p}]
  /\ UNCHANGED <<now, inflight, consumer, mPresentEvents, quitPosted>>
  /\ consumerUnchanged

ExitProcess(p) ==
  /\ p \in setup.mortal /\ life[p] = "running"
  /\ setup.etl => consumer = "running"
  /\ life' = [life EXCEPT ![p] = "exited"]
  /\ now' = now + 1
  /\ mProcessEvents' =
       IF setup.etl
       THEN [mProcessEvents EXCEPT !.exits = Append(@, ExitEvent(p, now + 1))]
       ELSE mProcessEvents
  /\ UNCHANGED <<inflight, consumer, mPresentEvents, quitPosted>>
  /\ consumerUnchanged

\* One present of a process is in flight at a time.
StartPresent(p) ==
  /\ consumer = "running" /\ life[p] = "running" /\ IsProcessTracked(p)
  /\ \A r \in inflight : r.pid # p
  /\ inflight' = inflight \cup {[pid |-> p, qpc |-> now]}
  /\ UNCHANGED <<now, life, consumer, mPresentEvents, mProcessEvents, quitPosted>>
  /\ consumerUnchanged

\* The trace reaches the consumer later than the few instructions between the
\* two halves of SetOutputRecordingState take.
Prompt(r) == \A t \in {main, ctrl} : tpc[t] = "push" => r.qpc < treq[t].qpc

CompletePresent(r) ==
  /\ consumer = "running" /\ r \in inflight
  /\ setup.inOrder => \A s \in inflight : r.qpc <= s.qpc
  /\ Prompt(r)
  /\ Len(mPresentEvents) < setup.maxEvents
  /\ inflight' = inflight \ {r}
  /\ mPresentEvents' = Append(mPresentEvents, r)
  /\ UNCHANGED <<now, life, consumer, mProcessEvents, quitPosted>>
  /\ consumerUnchanged

\* A lost present goes to a queue that the output thread empties unread.
LosePresent(r) ==
  /\ consumer = "running" /\ r \in inflight
  /\ inflight' = inflight \ {r}
  /\ UNCHANGED <<now, life, consumer, mPresentEvents, mProcessEvents, quitPosted>>
  /\ consumerUnchanged

\* The file ends, the session is closed, or somebody else stops it.
EndConsumer ==
  /\ consumer = "running"
  /\ consumer' = "ended" /\ quitPosted' = TRUE
  /\ UNCHANGED <<now, life, inflight, mPresentEvents, mProcessEvents>>
  /\ consumerUnchanged

-----------------------------------------------------------------------------
(***************************************************************************)
(* Switching the recording: IsRecording(), then StartRecording or          *)
(* StopRecording, then SetOutputRecordingState, which tests gIsRecording   *)
(* and reads the clock before it takes the lock.                           *)
(***************************************************************************)
Step(t, from, to) == tpc[t] = from /\ tpc' = [tpc EXCEPT ![t] = to]

\* After the switch main returns to its message loop; the Ctrl handler posts
\* WM_QUIT and sleeps for ever.
Switched(t) ==
  /\ tpc' = [tpc EXCEPT ![t] = IF t = main THEN "idle" ELSE "asleep"]
  /\ quitPosted' = (quitPosted \/ t # main)

switchUnchanged ==
  UNCHANGED <<setup, consumerVars, gQuit, opc, localVars, processVars, gRecordingCount, logged>>

\* WM_HOTKEY with no -delay, or the Ctrl event.
Press(t) ==
  /\ tpc[t] = "idle" /\ presses < setup.maxToggles
  /\ presses' = presses + 1
  /\ IF t = main \/ isRecording
     THEN /\ Step(t, "idle", "assign")
          /\ treq' = [treq EXCEPT ![t] = [on |-> ~isRecording, qpc |-> @.qpc]]
          /\ UNCHANGED quitPosted
     ELSE Switched(t) /\ UNCHANGED treq
  /\ UNCHANGED <<now, isRecording, gIsRecording, switches, toggles>>
  /\ switchUnchanged

Assign(t) ==
  /\ Step(t, "assign", "look")
  /\ isRecording' = treq[t].on
  /\ UNCHANGED <<now, treq, gIsRecording, switches, presses, toggles, quitPosted>>
  /\ switchUnchanged

\* Nothing to change: SetOutputRecordingState returns.
LookAway(t) ==
  /\ tpc[t] = "look" /\ gIsRecording = treq[t].on
  /\ Switched(t)
  /\ UNCHANGED <<now, treq, isRecording, gIsRecording, switches, presses, toggles>>
  /\ switchUnchanged

Look(t) ==
  /\ gIsRecording # treq[t].on
  /\ Step(t, "look", "push")
  /\ now' = now + 1
  /\ treq' = [treq EXCEPT ![t] = [on |-> @.on, qpc |-> now + 1]]
  /\ UNCHANGED <<isRecording, gIsRecording, switches, presses, toggles, quitPosted>>
  /\ switchUnchanged

\* Under gRecordingToggleCS.  An ETL file keeps no history.
Push(t) ==
  /\ tpc[t] = "push"
  /\ toggles' = IF setup.etl THEN toggles ELSE Append(toggles, treq[t].qpc)
  /\ gIsRecording' = treq[t].on
  /\ switches' = Append(switches, treq[t])
  /\ Switched(t)
  /\ UNCHANGED <<now, treq, isRecording, presses>>
  /\ switchUnchanged

\* WM_QUIT: StopTraceSession closes the trace, joins the consumer, sets gQuit
\* and joins the output thread.
Close ==
  /\ Step(main, "idle", "close") /\ quitPosted
  /\ UNCHANGED <<now, treq, isRecording, gIsRecording, switches, presses, toggles,
                 quitPosted>>
  /\ switchUnchanged

\* Fault: the output thread is told to quit while the consumer is still running.
SetQuit_Early ==
  /\ Step(main, "close", "join")
  /\ gQuit' = TRUE
  /\ UNCHANGED <<setup, now, consumerVars, treq, isRecording, gIsRecording, switches, presses,
                 toggles, quitPosted, opc, localVars, processVars, gRecordingCount, logged>>
SetQuit ==
  /\ Step(main, "close", "join") /\ consumer = "ended"
  /\ gQuit' = TRUE
  /\ UNCHANGED <<setup, now, consumerVars, treq, isRecording, gIsRecording, switches, presses,
                 toggles, quitPosted, opc, localVars, processVars, gRecordingCount, logged>>

JoinOutput ==
  /\ Step(main, "join", "done") /\ opc = "done"
  /\ UNCHANGED <<now, treq, isRecording, gIsRecording, switches, presses, toggles,
                 quitPosted>>
  /\ switchUnchanged

-----------------------------------------------------------------------------
(***************************************************************************)
(* The output thread: Output's loop around ProcessEvents.                  *)
(***************************************************************************)
Goto(from, to) == opc = from /\ opc' = to

outputUnchanged == UNCHANGED <<setup, now, life, inflight, consumer, switchVars, gQuit>>

\* gQuit is read before the queues and tested after them.
ReadQuit ==
  /\ Goto("top", "processes")
  /\ quit' = gQuit
  /\ UNCHANGED <<mPresentEvents, mProcessEvents, toggles, quitPosted, newProcesses,
                 batch, history, handled, recording, processVars, gRecordingCount, logged>>
  /\ outputUnchanged

DequeueProcessEvents ==
  /\ Goto("processes", "presents")
  /\ newProcesses' = mProcessEvents /\ mProcessEvents' = NoEvents
  /\ UNCHANGED <<mPresentEvents, toggles, quitPosted, quit, batch, history, handled,
                 recording, processVars, gRecordingCount, logged>>
  /\ outputUnchanged

DequeuePresentEvents ==
  /\ Goto("presents", IF newProcesses = NoEvents /\ mPresentEvents = <<>>
                      THEN "bottom" ELSE "copy")
  /\ batch' = mPresentEvents /\ mPresentEvents' = <<>>
  /\ UNCHANGED <<mProcessEvents, toggles, quitPosted, quit, newProcesses, history,
                 handled, recording, processVars, gRecordingCount, logged>>
  /\ outputUnchanged

Odd(n) == n % 2 = 1

\* The state before the first toggle still in the history.
StateBefore(hist, on) == Odd(Len(hist) + IF on THEN 1 ELSE 0)

\* Started processes get their entry now, exits are queued.
UpdateProcesses ==
  LET new == {p \in newProcesses.starts : gProcesses[p] = NoEntry}
  IN
  /\ gProcesses' = [p \in Pids |->
       IF p \in new THEN [handle |-> FALSE, named |-> TRUE,
                          target |-> IsTargetProcess(p, TRUE)]
       ELSE gProcesses[p]]
  /\ gTargetProcessCount' =
       gTargetProcessCount + Cardinality({p \in new : IsTargetProcess(p, TRUE)})
  /\ terminated' = terminated \o newProcesses.exits

\* CopyRecordingToggleHistory, then UpdateProcesses.
CopyToggles ==
  /\ Goto("copy", "events")
  /\ history' = toggles /\ handled' = 0
  /\ recording' = StateBefore(toggles, gIsRecording)
  /\ UpdateProcesses
  /\ newProcesses' = NoEvents
  /\ UNCHANGED <<mPresentEvents, mProcessEvents, toggles, quitPosted, quit, batch,
                 gone, gRecordingCount, logged>>
  /\ outputUnchanged

eventsUnchanged ==
  /\ UNCHANGED <<mPresentEvents, mProcessEvents, toggles, quit, newProcesses>>
  /\ outputUnchanged

\* An exit is dealt with before a toggle unless the toggle came first.
ExitIsNext ==
  terminated # <<>> /\ (history # <<>> => terminated[1].qpc <= history[1])
ToggleIsNext == history # <<>> /\ ~ExitIsNext

\* Fault: an exit is handled as soon as it is known.
PastExit_Now == ExitIsNext

\* What the first present of the batch has reached.
PastExit   == ExitIsNext /\ batch[1].qpc >= terminated[1].qpc
PastToggle == ToggleIsNext /\ batch[1].qpc >= history[1]

\* GetProcessInfo: what is known already, or what comes of opening the process by its
\* id and looking up its name.  Either may fail (another account, a path that is too
\* long, an exit in between), and both do once it has exited; in an ETL file there is
\* nothing to open.
Entries(p) ==
  IF gProcesses[p] # NoEntry THEN {gProcesses[p]}
  ELSE {e \in [handle : BOOLEAN, named : BOOLEAN, target : BOOLEAN] :
          LET there == ~setup.etl /\ life[p] = "running" IN
          /\ e.handle => there
          /\ e.named => e.handle
          /\ p \notin setup.unsure => e.named = there
          /\ e.target = IsTargetProcess(p, e.named)}

AddPresent ==
  /\ opc = "events" /\ batch # <<>> /\ ~PastExit /\ ~PastToggle
  /\ LET r == batch[1] IN \E e \in Entries(r.pid) :
     /\ gProcesses' = [gProcesses EXCEPT ![r.pid] = e]
     /\ gTargetProcessCount' =
          gTargetProcessCount + IF gProcesses[r.pid] = NoEntry /\ e.target THEN 1 ELSE 0
     /\ logged' = IF ~e.target THEN logged
                  ELSE [qpc |-> r.qpc,
                        csv |-> IF recording THEN gRecordingCount ELSE NotRecorded]
  /\ batch' = Tail(batch)
  /\ UNCHANGED <<opc, history, handled, recording, terminated, gone, gRecordingCount,
                 quitPosted>>
  /\ eventsUnchanged

\* Faults: processes that are no targets are counted down too; the count is not
\* taken down at all.
HandleTerminatedProcess_CountsAll ==
  /\ opc = "events" /\ batch # <<>> /\ PastExit
  /\ gTargetProcessCount' = gTargetProcessCount - 1
  /\ gProcesses' = [gProcesses EXCEPT ![terminated[1].pid] = NoEntry]
  /\ gone' = gone \cup {terminated[1].pid}
  /\ terminated' = Tail(terminated)
  /\ UNCHANGED <<opc, batch, history, handled, recording, gRecordingCount, logged, quitPosted>>
  /\ eventsUnchanged
HandleTerminatedProcess ==
  /\ opc = "events" /\ batch # <<>> /\ PastExit
  /\ LET p == terminated[1].pid
         counted == gProcesses[p] # NoEntry /\ gProcesses[p].target
         left == gTargetProcessCount - IF counted THEN 1 ELSE 0 IN
     /\ gTargetProcessCount' = left
     /\ quitPosted' = (quitPosted \/ (counted /\ setup.terminateOnProcExit /\ left = 0))
     /\ gProcesses' = [gProcesses EXCEPT ![p] = NoEntry]
     /\ gone' = gone \cup {p}
  /\ terminated' = Tail(terminated)
  /\ UNCHANGED <<opc, batch, history, handled, recording, gRecordingCount, logged>>
  /\ eventsUnchanged

\* A recording that stops closes its CSV; the next one gets the next index.
ToggleRecording ==
  /\ opc = "events" /\ batch # <<>> /\ PastToggle
  /\ recording' = ~recording
  /\ gRecordingCount' = gRecordingCount + IF recording THEN 1 ELSE 0
  /\ history' = Tail(history) /\ handled' = handled + 1
  /\ UNCHANGED <<opc, batch, processVars, quitPosted, logged>>
  /\ eventsUnchanged

\* Fault: the whole history is erased, with what was not reached or came later.
FinishEvents_ErasesAll ==
  /\ Goto("events", "bottom") /\ batch = <<>>
  /\ toggles' = <<>>
  /\ history' = <<>> /\ handled' = 0 /\ recording' = FALSE
  /\ UNCHANGED <<mPresentEvents, mProcessEvents, quitPosted, quit, newProcesses, batch,
                 processVars, gRecordingCount, logged>>
  /\ outputUnchanged

\* UpdateRecordingToggles; unhandled toggles and exits wait for the next batch.
FinishEvents ==
  /\ Goto("events", "bottom") /\ batch = <<>>
  /\ toggles' = SubSeq(toggles, handled + 1, Len(toggles))
  /\ history' = <<>> /\ handled' = 0 /\ recording' = FALSE
  /\ UNCHANGED <<mPresentEvents, mProcessEvents, quitPosted, quit, newProcesses, batch,
                 processVars, gRecordingCount, logged>>
  /\ outputUnchanged

\* CheckForTerminatedRealtimeProcesses: the time of the exit is now.
CheckForTerminatedRealtimeProcesses ==
  LET exited == {p \in Pids : /\ gProcesses[p] # NoEntry /\ gProcesses[p].handle
                              /\ life[p] = "exited"}
  IN
  /\ Goto("bottom", "top") /\ ~quit
  /\ terminated' = terminated \o
       SetToSeq({ExitEvent(p, now) : p \in exited})
  /\ gProcesses' = [p \in Pids |->
       IF p \in exited THEN [gProcesses[p] EXCEPT !.handle = FALSE] ELSE gProcesses[p]]
  /\ UNCHANGED <<mPresentEvents, mProcessEvents, toggles, quitPosted, localVars,
                 gTargetProcessCount, gone, gRecordingCount, logged>>
  /\ outputUnchanged

Finish ==
  /\ Goto("bottom", "done") /\ quit
  /\ gProcesses' = [p \in Pids |-> NoEntry]
  /\ UNCHANGED <<mPresentEvents, mProcessEvents, toggles, quitPosted, localVars,
                 terminated, gTargetProcessCount, gone, gRecordingCount, logged>>
  /\ outputUnchanged

-----------------------------------------------------------------------------
Output ==
  \/ ReadQuit \/ DequeueProcessEvents \/ DequeuePresentEvents \/ CopyToggles
  \/ AddPresent \/ HandleTerminatedProcess \/ ToggleRecording \/ FinishEvents
  \/ CheckForTerminatedRealtimeProcesses \/ Finish

SetOutputRecordingState(t) ==
  Press(t) \/ Assign(t) \/ LookAway(t) \/ Look(t) \/ Push(t)

ShutDown == Close \/ SetQuit \/ JoinOutput

Consume(p) ==
  \/ StartProcess(p) \/ ExitProcess(p) \/ StartPresent(p)
  \/ \E r \in inflight : r.pid = p /\ (CompletePresent(r) \/ LosePresent(r))

Next ==
  \/ \E p \in Pids : Consume(p)
  \/ EndConsumer
  \/ \E t \in setup.switchers : SetOutputRecordingState(t)
  \/ ShutDown
  \/ Output

Spec == Init /\ [][Next]_vars

\* Main has come back from everything and returns 0.
Stopped == tpc[main] = "done"

(***************************************************************************)
(* Every thread of the program runs, and ProcessTrace returns once its     *)
(* trace has been closed.  No process has to exit, nobody has to press a   *)
(* key.  Presenting: processes that run keep presenting, and not all of    *)
(* their presents are lost.                                                *)
(***************************************************************************)
Fairness ==
  /\ WF_vars(Output) /\ WF_vars(ShutDown)
  /\ WF_vars(tpc[main] = "close" /\ EndConsumer)
  /\ \A t \in {main, ctrl} : WF_vars(Assign(t) \/ LookAway(t) \/ Look(t) \/ Push(t))

Presenting ==
  \A p \in Pids : /\ WF_vars(StartPresent(p))
                  /\ SF_vars(\E r \in inflight : r.pid = p /\ CompletePresent(r))

FairSpec == Spec /\ Fairness /\ Presenting

-----------------------------------------------------------------------------
TypeOK ==
  /\ now \in Nat
  /\ life \in [Pids -> {"new", "running", "exited"}]
  /\ \A r \in inflight : r.pid \in Pids /\ r.qpc \in 0..now
  /\ consumer \in {"running", "ended"}
  /\ \A i \in DOMAIN mPresentEvents : mPresentEvents[i].pid \in Pids
  /\ \A i \in DOMAIN toggles : toggles[i] \in 0..now
  /\ \A i \in DOMAIN terminated : terminated[i].pid \in Pids /\ terminated[i].qpc \in 0..now
  /\ handled \in 0..Len(toggles)
  /\ \A p \in Pids : gProcesses[p] # NoEntry =>
       gProcesses[p] \in [handle : BOOLEAN, named : BOOLEAN, target : BOOLEAN]
  /\ gTargetProcessCount \in 0..Cardinality(Pids)
  /\ gRecordingCount \in Nat \ {0}

\* The recording state at time q, and the index of the recording then running.
Before(q)  == {i \in DOMAIN switches : switches[i].qpc <= q}
On(q)      == Before(q) # {} /\ switches[Cardinality(Before(q))].on
Session(q) == 1 + Cardinality({i \in Before(q) : ~switches[i].on})

\* OutputThread.cpp:80-83 "When we consider recording an event, we can look
\* back and see what the recording state was at the time the event actually
\* occurred": each present of a target goes to the CSV of the recording that was
\* running when it started, and to none when none was, as long as presents are
\* delivered in the order they started, and a single thread switches; an ETL file
\* has no history to look back at.
RecordedAsOfItsTime ==
  setup.inOrder /\ ~setup.etl /\ setup.switchers = {main} =>
    logged.csv = IF On(logged.qpc) THEN Session(logged.qpc) ELSE NotRecorded

\* OutputThread.cpp:581-583 "This ensures that we call DequeueAnalyzedInfo() at
\* least once after events have stopped being collected so that all events are
\* included": whatever the interleaving of the shutdown, nothing is left in a
\* queue when the output thread is gone.
NothingLeftBehind ==
  opc = "done" => mPresentEvents = <<>> /\ mProcessEvents = NoEvents /\ batch = <<>>

\* OutputThread.cpp:465-468: waiting for a present that started after the exit is
\* enough; no present of an exited process turns up once its entry is erased, as
\* long as presents are delivered in the order they started.
GoneStaysGone == setup.inOrder => \A p \in gone : gProcesses[p] = NoEntry

\* gTargetProcessCount, on which -terminate_on_proc_exit rests, is the number of
\* targets in gProcesses, even when presents re-create entries already erased.
\* Each exit is noticed, and queued, once: polling the handles races with presents
\* still completing, but cannot count one process down twice.
TargetsAreCounted ==
  /\ opc # "done" =>
       gTargetProcessCount =
         Cardinality({p \in Pids : gProcesses[p] # NoEntry /\ gProcesses[p].target})
  /\ \A i, j \in DOMAIN terminated : terminated[i].pid = terminated[j].pid => i = j

\* README.md:131 of -terminate_on_proc_exit: "Terminate PresentMon when all the
\* target processes have exited": once every target has exited, and one was seen,
\* PresentMon does quit.
TargetsGone ==
  /\ \E p \in Pids : gProcesses[p] # NoEntry /\ gProcesses[p].target
  /\ \A p \in Pids : IsTargetProcess(p, TRUE) => life[p] = "exited"
QuitsWhenTargetsGone == setup.terminateOnProcExit /\ TargetsGone ~> quitPosted

=============================================================================
