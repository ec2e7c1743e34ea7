# A verification project for ArcControlPresentMon

TLA+ models of the concurrent and order-sensitive parts of this repository,
TLC configurations that check them on small instances, and proofs, checked by
TLAPS, that hold for every instance. `PROJECT.json` maps each definition to the
lines it models and lists runs, findings, hazards and theorems.

    tlc -workers 2 -config egp.cfg MCEnduranceGamingPolicy.tla
    tlapm EnduranceGamingPolicyProofs.tla

## 1. The system

Two programs share one library.

**PresentMon** listens to ETW events of the graphics stack and writes one row
per `Present()` call with what became of it.

| part | state | operations | talks to |
|---|---|---|---|
| trace session (`PresentData/TraceSession.cpp`, `PresentMon/TraceSession.cpp`) | session and trace handles, enabled providers, the two consumers | start with its failure paths, stop, stop by name, query of lost events | Windows; whoever else uses the session's name |
| consumer thread (`ConsumerThread.cpp`) | none | runs `ProcessTrace`, which calls every event handler in turn | the consumers below; posts WM_QUIT when the trace ends |
| `PMTraceConsumer` | presents in progress; the maps that find one by thread, submit sequence, token, window, DXG context, process, swap chain; a ring of all of them; three output queues | one handler per event; track, complete, lose | output thread, through mutex-guarded queues |
| `MRTraceConsumer` | holographic frames, presentation sources, the late-stage reprojection (LSR) in progress; a queue | one handler per event of two providers | output thread, through a queue and shared pointers |
| output thread (`OutputThread.cpp`) | process table, target count, pending exits, recording count | every 100 ms: empty the queues, pair presents with recording state, handle exits | main thread (WM_QUIT); reads the toggle history; calls present subscribers |
| CSV files (`CsvOutput.cpp`) | `FILE*`s, shared or one per process, names with a recording count | opened at the first row, closed at the end of a recording or process | output thread |
| main thread (`MainThread.cpp`) | `gIsRecording`, window messages, timers, the scroll-lock light | hotkey and timers, start and stop recording, shutdown, exit code | pushes toggles; joins the others |
| Ctrl handler (a system thread) | none | stops the recording, posts WM_QUIT, sleeps for ever | as main |
| swap-chain history | ring of 120 presents, count, next index, last displayed index | `AddPresents`, `PruneHistory` | read by `UpdateCsv` and the console |
| console, command line, privileges | | | |

**TestEG** uses PresentMon as a library, with three trackers and a policy.

| part | state | operations | talks to |
|---|---|---|---|
| `GpuTracker` | utilization per process | its thread reports every process once a second | `OnGpuChanged` in TestEG |
| `GameDetectionLogic` | game mode, the game's pid | asked by the GPU tracker's thread; own thread polls for the game's exit; called back by Windows | `OnGameChanged` |
| `EnduranceGamingPolicy` | power, enablement, game; a worker thread and its semaphore | three updates, subscribe, unsubscribe | TestEG's callbacks |
| `FpsTracker` | the times of the presents of the last second, per process | starts and stops a trace session; called by the output thread for every present | TestEG |
| TestEG | window, title | composes them, forwards window messages | all |

What is hard in each, and what makes it correct:

* *Trace session*: any call of the start may fail, others may take or stop the
  session at any time, and a session outlives a process that leaves it. A
  program that ended left nothing open, whatever failed; a thread that runs
  finds what it uses.
* *Main thread*: hotkeys, timers, Ctrl events and input the program sends itself
  arrive in any order, and two threads switch the recording. Every press is one
  toggle, both sides agree on the recording, a timed recording ends, and a
  program that is asked to end does.
* *Present tracking*: the events of one present come from several providers
  and threads, in no fixed order, some not at all. A present must be in
  exactly one place (in progress, delivered, lost), must be delivered once
  and in order per swap chain, must not be found or changed after delivery,
  and must carry a screen time when it is called displayed.
* *Mixed reality*: LSRs and frames are shared between two threads without a
  lock. What is handed over is complete and stays as it is.
* *Output thread*: presents complete late, toggles and exits have times of
  their own. A present belongs to the recording of its own time; an exited
  process is forgotten once and for good; targets are counted right; nothing
  queued is lost at shutdown, and shutdown ends.
* *CSV files*: one `FILE*` may be copied into many processes. A handle in use
  is open, none leaks, rows end up in their own recording's file.
* *History*: three counters must agree on what a slot of the ring means.
* *Policy*: several threads update it at once. One worker at most, stop
  signals not lost, joins that end, notifications that are states.
* *Game detector and TestEG*: answers used after their lock is released,
  notifications that overtake reports, callbacks under locks, shutdown
  while callbacks run.
* *FPS tracker*: subscribes while the output thread already runs; the number it
  reports must be that of a second's presents.

## 2. Modules

| module | models | kind |
|---|---|---|
| `PolicySwitch` | what the policy promises its callers | abstract specification |
| `EnduranceGamingPolicy` | the policy with its mutexes, semaphore, worker, subscribers | component |
| `EnduranceGamingPolicyProofs` | its invariants; that it implements `PolicySwitch` | proofs |
| `TestEG` | GPU tracker's thread, game detector with both its threads, window procedure, shutdown, around an instance of `PolicySwitch` | composition |
| `TestEGProofs` | its invariants | proofs |
| `PresentTracking` | data and helpers of `PMTraceConsumer` | operators |
| `PMTraceConsumer` | its event handlers | component |
| `PMTraceConsumerProofs` | that it delivers in order, for any events | proofs |
| `PMTraceConsumerAccounting` | that it loses sight of no present, and leaves alone what it published | proofs |
| `OutputThread` | output thread, queues, process table, toggle history, shutdown | composition of four threads |
| `OutputThreadProofs` | its invariants | proofs |
| `SwapChainHistory`, `SwapChainHistoryProofs` | the ring of presents of a swap chain; proofs | component |
| `TraceSession` | the ETW session, consumer thread, both ends of the output thread, start and stop | component |
| `MainThread` | main, window procedure, hotkey, timers, Ctrl handler, exit codes; EXTENDS `TraceSession` | component |
| `FpsTracker` | the library's host: start, stop, subscription, count of presents; EXTENDS `TraceSession` | component |
| `Programs` | either host with its session, threads and rivals | composition |
| `ProgramsProofs` | their invariants | proofs |
| `CsvOutput` | which `FILE*` a row goes to, and when files are opened, shared and closed | component |
| `MixedReality` | the LSR consumer and the rows of its files; EXTENDS `CsvOutput` | composition of two threads |
| `MixedRealityProofs` | the invariants of both | proofs |
| `MC*` | instances for TLC | |

### EnduranceGamingPolicy

`stateVars` are the three inputs under `LockState`; each method's critical
section is one action (`Update`), because every access to the inputs is inside
one. A caller then goes through `ToggleEnduranceGamingLogic` (`AcquireKeepGoing`
to `ReleaseKeepGoing`) and `NotifySubscribers` step by step. The worker reads
`KeepGoing` without the lock (`Check`) and waits on the semaphore (`Wake`,
`TimeOut`). The only policy of the program is the global `gEGP`, so members the
constructor does not set start as zero.

`PolicySwitch` has no locks or worker: an update stores the input and computes
the verdict; if it changed, the call switches the worker to *its* verdict in
one later step and returns. It does not promise that the last switch is that of
the last update, which is exactly what the code does not keep
(`egp_inverted_toggles`).

### TestEG

The policy is an instance of `PolicySwitch`; a thread's place outside the
policy is in `place`, inside it in `call`. `LockState` and
`SubscribersOnGameChangedLock` of the detector are variables only where they are
held across a callback: `IsGamingPID` holds the first while it notifies
(`NotifyAssigned`), notifications hold the second. The answer of `IsGamingPID`
is carried in `told[gpu]` to `OnGpuChanged` after the lock is released. The
detector's thread reads `KeepGoing` without a lock and checks under `LockState`
in a second step. A process goes from running to exited, and, at any time from
then on, to gone: the last handle of it is closed, and it cannot be opened any
more. `UpdatePowerStatus` may come at any time and find either status. `Quit` is
the sequence of `wWinMain`: stop and join the detector, unsubscribe
`OnGameChanged` under the subscribers' lock, stop the FPS tracker, whose callback
takes `LockState`, stop and join the GPU tracker. `overtaken` only observes: the
games whose exit was told while `OnGpuChanged` was about to pass them on.

### PresentTracking and PMTraceConsumer

One thread calls all handlers, so a handler is one step, and a helper is a
function from the consumer to the consumer it leaves behind, in statement order.
A present is a record in `presents`; maps are functions to present numbers.
`PRESENTEVENT_CIRCULAR_BUFFER_SIZE` is `RingSize`. `CompletePresent` calls itself
for the presents that ride along and, in a loop, for the older ones of the swap
chain; the model keeps the stack of what is left to do (`Job`), and `Do` is one
piece of the function, between two calls. `Jobs` is more than a completion that
ends takes (four jobs for each present, one for each turn of a loop, none waiting
for DWM twice); a stack that is not empty by then is a loop that cannot end,
recorded in `hung`, a failing assertion in `failed` (the code goes on, as a
release build does). Presents that nothing can reach any more lose the fields no
branch reads, so that states stay few. `trace`, chosen from `Traces` before the
first event, says which groups of events each thread feeds in, which runtimes,
keys and flip statuses occur, and whether the providers are those of Windows 7 or only the
runtime's (`mSimpleMode`: the session then enables no other provider of these,
`PresentData/TraceSession.cpp:118`, and its callback hands no other event over, `:222`);
within a group events come in any order, repeat or stay away.

### OutputThread

`setup`, chosen from `Setups`, is the command line with the bounds of a run.
Queues are sequences; the two dequeues are two steps, because they take two
locks. `UpdateProcesses` treats starts and exits independently of each other, so
the queue of process events is a set of starts and a sequence of exits.
`ProcessEvents` is cut where it can be interrupted meaningfully: after
each dequeue, after the copy of the toggles, and at each exit or toggle reached.
`SetOutputRecordingState` is cut at its unlocked read, its clock reading and its
critical section. `Entries` is what `GetProcessInfo` may come to: a process of
`unsure` may be one that cannot be opened, or whose name cannot be had.
`switches`, `gone` and `logged` only observe.

### SwapChainHistory

The ring, `count`, `next`, `lastDisplayed`, as in `SwapChainData`. `row` and
`newest` observe what `UpdateCsv` took its differences from.

### TraceSession, MainThread, FpsTracker and Programs

`spc` is where `StartTraceSession` or `StopTraceSession` is: one step per call
into Windows, each of which may fail where `setup.mayFail` allows, and one per
thread started or joined. A session belongs to Windows and is known by its name:
`named` says who started the one of our name, `mHandle` and `mTraceHandle` what
the program believes it has. `Others` starts and stops sessions of the name. Nobody
looks at what the call that stops our session returns: if it fails, the session
is `left` for others to stop.
The output thread appears with its two ends only (`ReadQuit`,
`CheckLostReports`); what it does in between is `OutputThread`'s.

`MainThread` has the message loop (`messages`, a sequence of "hotkey" and "quit",
and `due`, the timers whose WM_TIMER waits, which stays when its timer is
killed), and a handler's steps in `mpc`; the Ctrl handler's thread is in `cpc`.
Both use the same steps (`Assign`, `Tell`, `FinishStart`, `FinishStop`) on
`gIsRecording` and `outputIsRecording`, as the code does without a lock.
`EnableScrollLock` switches `scrollLock` by sending the key. If the hotkey is
that key, alone (`lockKey`), what it sends comes back as a hotkey, which
`gHotkeyIgnoreCount` announces before it is sent. `SendInput` may send nothing
(`NotSent`, counted in `unsent`): the next press of the user is then ignored in
its place. `GetKeyState` may be out of date (`stale`); the state of a key is
that of the messages retrieved, and the program asks right after it has sent
one. `SaveLight` saves and sets the light before the loop, with or without a
hotkey; `EnterLoop` is the press that is simulated without one.

`FpsTracker` is the other host. `listed` says whether its callback is in
`TheSubscribersOnPresentEvent`, a list without a lock: while the application is
in the middle of adding to it, the output thread may see it or not.
`Programs` puts a host (`setup.host`) together with the session.

### CsvOutput and MixedReality

A `FILE*` is the number of an opening in `files`; `disk` is what each path holds
and `belongs` what it should hold. A path is a name, a recording and whether it
is the main or the `_WMR` file. `orphans` are `_WMR` files left without a main
file. `ParseCommandLine` is how the options reconcile each other.
`FileName` is what the name of a file is made of, `Reopened` the two ways in
which a path is opened a second time and its rows are gone.
`GetOutputCsv` and `CloseOutputCsv` are functions from the files to the files,
with what the caller stores; a row is one step (`AddPresent`, `AddLSR`).

`MixedReality` adds the consumer: frames and LSRs are records by number, shared
by both threads as the code shares pointers; each event is one step, and any of
them may be lost, so every event is allowed at any time. That a source was
acquired before a frame of it is latched, which
`MixedRealityTraceConsumer.cpp:301` asserts, is about a time, and left out.

## 3. Runs

All invariants and properties are defined, with a comment, at the end of the
component's module. Every property of a passing run also has a mutant in
`PROJECT.json`: an edit of the code's definition that makes that run fail.

### Passing

| run | instance | shows |
|---|---|---|
| `egp` | 2 callers, 1 game, 1 subscriber, 2 workers, fair mutexes | one worker (`AtMostOneWorker`); `KeepGoing` truthful (`KeepGoingMeansRunning`); no lost stop (`StopIsNeverLost`); consistent notifications (`ObservedIsConsistent`); final unsubscribe (`NoCallbackAfterUnsubscribe`); `PolicySwitch` implemented (`SwitchesOnce`); each call returns, no timeout firing (`CallsReturn`) |
| `testeg` | 2 games, one of them on the Intel GPU | between reports the policy has no game but the detector's, one whose exit was overtaken apart (`PolicyFollowsDetector`); an exit is noticed while the process can be opened (`OpenableExitIsNoticed`); `GameIsRecognised`, `ShutdownCompletes` |
| `pm` | eight kinds of presentation, ring of 2, two to four presents | accounting (`EveryPresentAccountedFor`), order (`DeliveredInOrder`), finality (`PublishedIsFinal`), screen times (`DisplayedHasScreenTime`), settled blits (`BlitIsSettled`), assertions (`AssertsHold`) |
| `output` | five set-ups of two processes: toggles, exits, an ETL file, presents out of order, stops of every kind | presents go to the recording of their time (`RecordedAsOfItsTime`); exited processes stay gone (`GoneStaysGone`); exits queued once, targets counted (`TargetsAreCounted`); nothing is left behind at the end (`NothingLeftBehind`) |
| `programs` | seven groups of set-ups, below | nothing stays open but what Windows refused to stop (`NothingIsLeftOpen`), threads find what they use (`ThreadsHaveWhatTheyUse`), presses and recordings agree (`EveryPressToggles`, `RecordingIsAgreed`), the FPS count is right (`FpsIsExact`), timed recordings end (`TimedRecordingEnds`), and so does whoever is asked to (`AskedProgramEnds`) |
| `recordings` | seven groups of set-ups, below | handles and their owners (`OpenIsHeld`), rows in their own file (`RowsSurvive`), what is handed over is complete, final and all there is (`HandedOverIsComplete`, `QueuedIsFinal`, `EveryTimedLSRComesOut`); the counters of a swap chain's history agree (`HistoryIsContiguous`, `LastDisplayedIsRetained`), its rows and pruning are right (`RowsAreGrounded`, `PruneIsExact`) |

`pm`, `output` and `programs` also check the `TypeOK` of their module.

The kinds of presentation of `pm` (`MCPMTraceConsumer`): `Fullscreen` flips,
`Overlay` flips with present tests and the end of the kernel present, `Simple`
mode with two threads sharing a swap chain, `BlitsOfWin7` settled by the next
packet of their context, `Blits` settled by the end of the kernel present or
cancelled, `Windowed` flips tracked by Win32K tokens, `Independent` flips the
hardware takes over, with the end of the kernel present, and `Composed` copies
that ride along with the presents of DWM. An `Overlay` flip may have any status, the others have those the code deals
with. Three properties are stated for what they can hold of:
`DisplayedHasScreenTime` not in simple mode, nor where a flip has an overlay status
the code does not deal with ("There are others, but they're more complicated to
deal with", `ETW/Microsoft_Windows_DxgKrnl.h:390`), which gives no time;
`BlitIsSettled` where the settling event exists, and with what happens when it is
lost: such a blit waits until a newer present of its swap chain is displayed, and
is reported together with it; `AssertsHold` without the asserts of lines 313, 1441
and 1577, which can fail.

The set-ups of `programs` (`MCPrograms`): `Failing` (every call may fail, with
every set of providers, live or from a file, the name taken or not), `Contended`
(others start and stop sessions of our name, targets exit, Ctrl events come),
`Terminator` (`-terminate_existing`), `Hotkeys` (presses mixed with the input the
program sends itself for the light, which may come back as hotkeys, find a stale
key state, or not be sent; a Ctrl event, exits), `Timers` (`-delay` and
`-timed` with and without the hotkey and `-terminate_after_timed`), `Library`
(the FPS tracker with presents in order or not), `Restarted` (its second start,
with failures and rivals).

The set-ups of `recordings` (`MCMixedReality`): `Presenting` (every mix of the
options that choose files, two processes of one name or of two, two recordings,
an exit), `Excluding` (`-exclude_dropped`), `FailingToOpen`, `Reprojecting` (all
events of LSRs and frames), `WritingBoth` and `WritingEach` (rows of LSRs into a
shared file, or one per process), and `HistoryAlone`, in which nothing but the
history of a swap chain moves: a ring of 3, 8 presents, a window of 2.

The set-up of `testeg` (`MCTestEG`): with the game on the Intel GPU alone,
anything happens. From the start of the second game, on another GPU, only the
power source, that game's exit and the user's wish to quit are held back
(`Bound`), which have all been seen with one game.

### Counterexamples to what the repository says of itself

Each checks one property, a sentence of a comment, a header or `src/README.md`;
`PROJECT.json` quotes it under `findings`.

| run | property | what TLC finds |
|---|---|---|
| `testeg_gone_game` | `ExitIsNoticed` | the last handle of an exited game is closed before the detector's next poll; `OpenProcess` fails, which `CheckIfGameExited` takes for "still there" (`GameDetectionLogic.cpp:207`), and the game stays the game |
| `egp_inverted_toggles` | `ActiveMeansRunning` | two updates toggle in the wrong order; verdict and worker disagree until the next change |
| `pm_late_loss` | `HandlersReturn` | a present lost in front of a completed one; the completion loop never ends |
| `output_filtered_exit` | `QuitsWhenTargetsGone` | with `-process_id` no present follows the exit, so it is never handled |
| `history_stale` | `DisplayChangeIsFromDisplayed` | after a full ring of dropped presents a row measures from a dropped one |
| `programs_lost_events` | `LossIsReported` | the session is stopped and its handle zeroed (`PresentData/TraceSession.cpp:404`) before the output thread leaves its loop and asks it what was lost (`OutputThread.cpp:635`): nothing is ever reported |

The passing runs leave out these cases, in which a property they check does not
hold either; each is reached by changing the constants named, or by dropping the
condition named from the property.

* `PublishedIsFinal`, `EveryPresentAccountedFor` and `AssertsHold` with
  `Traces <- DriverThread`: a present given up as lost, or one that was delivered, is
  still found through the thread of the driver it was first seen on, until a
  DxgkPresent event comes on that thread (`PresentMonTraceConsumer.cpp:743`). The next
  flip there gives it up as lost again, although it no longer waits anywhere: the
  assertion of line 1395 fails.
* `PublishedIsFinal` with `Traces <- ToFullscreen` and `RingSize = 3`: a present that
  rides along with DWM is completed by a newer one of its swap chain and rewritten
  to Error when DWM's own present completes.
* `RecordedAsOfItsTime` with a set-up of three toggles and `switchers` `{main, ctrl}`: two
  threads that stop the same recording push the toggle twice, and the parity of
  the history turns older presents round. An ETL file keeps no toggle history, so
  the property is of live sessions.
* `RecordedAsOfItsTime` and `GoneStaysGone` are stated for `inOrder`: presents of
  several processes are delivered in the order they complete, and one that began
  before a toggle or an exit may be met after one that began later. It is then
  filed under the wrong recording, or re-creates a process for ever.
* `PolicyFollowsDetector` excepts the games in `overtaken`, and only those:
  `OnGpuChanged` uses an answer of `IsGamingPID` that is older than the telling
  of the game's exit, and the policy then keeps a game that has gone.
* `OpenableExitIsNoticed` speaks of processes somebody still has a handle of;
  the others are `testeg_gone_game`.
* `NothingIsLeftOpen` excepts a session whose stop Windows refused.
* `RowsSurvive` where `Reopened`: with `-multi_csv`, two processes of one name, or
  one that was restarted, open the same path for writing; and a `_WMR` file
  whose main file cannot be opened is opened, and truncated, again at every row.
  These are the ways rows get lost in this code; the property says that there is
  no other.
* `RecordingIsAgreed` before a Ctrl event only: that thread changes
  `gIsRecording` beside the main thread.
* `EveryPressToggles` without timers: a hotkey press with `-delay` only sets the
  timer, or sets it anew, and `-timed` stops a recording nobody pressed for. One
  press is swallowed for each input that was announced and could not be sent
  (`Swallowed`; the comment of `MainThread.cpp:47-49` takes the input for certain),
  and of the light nothing is said where `GetKeyState` may be out of date or
  something could not be sent.
* A `-terminate_on_proc_exit` that works is not claimed; `output_filtered_exit`
  shows one that does not.

Met while modelling, and visible in the models without a property of their own:
a WM_TIMER that was already queued when its timer was killed makes the
assertions `MainThread.cpp:90` and `:116` fail (a release build goes on);
`gQuit` is never set back, so the output thread of a second `FpsTracker::Start`
ends at once; the Ctrl handler may enter `gRecordingToggleCS` after it was
deleted (`OutputThread.cpp:672`); the assertion `LateStageReprojectionData.cpp:45`
may fail when events were lost; a queued WM_TIMER of a `-timed` recording that
was stopped ends the next one too early (`TimedRecordingEnds` asks only that each
ends); a notification of the policy may be overtaken by a newer one
(`ObservedIsConsistent` says that each is a state, not that the last one told is
the last); the presents a callback of `FpsTracker` counts are read by another
thread without a lock (`FpsIsExact` sees their number, not a torn vector).

### Bounds, and why they are enough

* Two callers are enough for two toggles, two notifications, or a toggle and a
  notification to overlap, which is what the policy's properties are about, and
  two worker identities for "two at once"; the proofs lift both bounds. A third
  caller adds only longer queues at the same two mutexes. `MaxTokens` bounds
  left-over semaphore tokens: each needs one more timeout race, and behaves as
  the first.
* Two games in TestEG let one replace the other, on the same or on another GPU,
  in the detector and in the hands of `OnGpuChanged`; the liveness properties
  speak of one game, and `ShutdownCompletes` is decided by the threads, whose
  steps do not depend on the number of games. The proof of
  `PolicyFollowsDetector` is for any set of games, and without `Bound`.
* A ring of 2 with 3 presents makes the ring wrap, evict a present in flight and
  have an older and a newer present of one swap chain; with 2 presents (overlays,
  blits, windowed and independent flips, whose events are many) the ring is full.
  Two blits let the event that settles one be lost and that of the next arrive. Two submit
  sequences or tokens let a map hold the wrong one of two.
  The proofs of `DeliveredInOrder` and `DisplayedHasScreenTime` are for any ring,
  any presents and any kind of trace, those of the other properties for any ring,
  any presents and the kinds section 4 names.
* Two processes, up to two queued presents and three toggles let a recording
  start, stop and start again between a present's start and its delivery; the
  proofs lift these bounds.
* A history of 3 slots and 8 presents wraps the ring more than twice; the proofs
  lift the bound.
* `maxPresses`: four presses (three beside timers) start, stop and start a
  recording with one more waiting, each with the input the light adds to the
  queue. `maxUnsent`: one input that is not sent swallows one press. `maxStarts`: one failed or stopped start before another. `maxPresents`
  of the FPS tracker: four, with a second of one tick, put presents in, at the
  edge of and outside the last second, in order or not; it needs no more because
  only the last second is kept. The proofs of `ProgramsProofs` lift all of these.
* `bound` in `recordings`: four or five presents of two processes write to two
  recordings each, three toggles begin a second recording and end it, one exit
  closes a shared handle; two frames with one frame id make it repeat, two LSRs
  and two misses make an LSR missed once and more than once; three LSRs write
  to a file, to the next one and to a closed one. The proofs lift these.
* Model values with symmetry only where no liveness property is checked; the set
  of traces is closed under it.
* `CHECK_DEADLOCK FALSE` is used where the system may stop: the program has
  ended, or the trace has.

### Fairness

Threads that can run are scheduled (weak fairness of each thread). No call, key,
failure or process exit is ever assumed to happen. Beyond that:

* `FairMutexSpec` and TestEG's `Fairness` let a thread that waits for a mutex,
  `wWinMain` on its way out among them, have it in the end (strong fairness): every loop that takes one of them sleeps
  a second or more between two rounds, so the mutex is almost always free. The
  policy's semaphore timeout is not assumed to fire.
* `Programs`: `ProcessTrace` returns once its trace is closed or its session
  stopped, as Windows documents, and timers that are set elapse. That the user,
  the application or others do anything, or that a file is read to its end, is
  not assumed.
* `Presenting` of `OutputThread` (running processes keep presenting, and not all
  their presents are lost) matters only for `QuitsWhenTargetsGone`; the code
  handles exits when presents come, and cannot do better without them.

### What is assumed of the environment

Process ids are not reused (the code holds a handle or, in TestEG, cannot tell);
Windows does not reissue a token while the consumer holds a present under it;
trace delivery takes longer than the few instructions between the clock reading
of `SetOutputRecordingState` and its push (`Prompt`); one present per process is
in flight in `OutputThread`; with `inOrder` presents of all processes complete
in the order they began, which is what the code's comments assume. In `TestEG`
every process that uses the GPU is in each report and stays on its GPU. In
`FpsTracker` there is one target process, and the clock is more than a second
old. In `MixedReality` the compositor gives out each present id once.

## 4. What is proved

Every theorem is for all values of the constants that satisfy the module's
`ASSUME`, which TLC also evaluates in the runs.

**Policy** (`EnduranceGamingPolicyProofs`). None of the worker properties is
inductive. The invariant `IInv` adds the discipline of the toggle section: a
mutex's owner is exactly the caller whose program counter is inside
(`LockDiscipline`); each program counter inside fixes `KeepGoing`, the handle
and the tokens (`ToggleSection`); outside, `KeepGoing` and the handle agree, and
a worker exits only after `KeepGoing` was cleared (`WorkerState`); a pending
snapshot meets the verdict's own condition (`SnapshotsAreConsistent`). From it:
`TypeCorrect`, `WorkerIsUnique`, `KeepGoingIsTruthful`, `NoLostStop`,
`ConsistentNotifications`, `UnsubscribeIsFinal`.

**Refinement** (also `EnduranceGamingPolicyProofs`). `PolicyImplementsSwitch`:
`Spec => Switch!Spec`, with `running <- KeepGoing` and a caller's place mapped
to how far its call is. `Start` and `Stop` (or finding nothing to do) are the
switch; signal, join and the loop of notifications map to stutters up to the
return. It needs that a caller about to start wants "on".

**TestEG** (`TestEGProofs`). `PolicyFollows` is `PolicyFollowsDetector`, which is
not inductive. `InHand` says of the pid that the GPU tracker's thread carries
from `IsGamingPID` to `UpdateGameStatus` that it is the detector's game, or the
detector has given it up since, because it exited, and is about to say so or has
said so (`StillOrTold`); `PolicyIsUpToDate` says the same of what the policy
holds, unless a newer game is in those hands; `ExitsAreTold`, that an exit is told
before `OnGameChanged` is unsubscribed. TestEG is written with the actions of
`PolicySwitch`, which `PolicyImplementsSwitch` shows that the policy implements:
the two meet there.

**History** (`SwapChainHistoryProofs`). For every ring size and window:
`HistoryContiguous`, `LastDisplayedIsRight`, `RowsGrounded`, `PruneExact`, with
`TimeOrdered` (the loop of `PruneHistory` stops at the first young present) and
`NewestAgrees` as strengthening, and arithmetic lemmas on `%` proved from
scratch (`SlotsDiffer`: indices less than a ring apart have different slots).

**Output thread** (`OutputThreadProofs`). The invariant follows events on their
way from the trace to the output thread, for any number of processes, presents,
exits and toggles:

* `Quitting`: what the output thread holds at each point, and that once it has
  read `gQuit` the consumer has ended, so that what it empties stays empty. From
  it `QuitLeavesNothing`.
* `Order`: presents in flight, queued and in the batch, in this order, have
  growing times. `ExitsOnce` and `Leaving`: an exit is in one queue, once, with
  a time after every present of its process still on its way. Together: by the
  time a present later than an exit is met, no present of that process is left (`ErasedStaysErased`).
* `Counted`: the count is that of the table, and a process with an exit on its
  way cannot be noticed to exit again (`CountIsOfTargets`).
* `Switches` and `Handled`: the toggle history is the latest switches, with
  their parity; those already handled or erased lie before every present still
  to come, and those pushed since the batch's copy lie after every present of
  it. So the state at which a present is met is that of its own time
  (`RecordsAsOfTheTime`).

**Programs** (`ProgramsProofs`). `Stage` says for each point of
`StartTraceSession` and `StopTraceSession` what exists: which handles, threads,
critical section and consumers. Two more parts relate it to where main or the
application is, and `Session_` says that a session of ours has its handle and,
while its trace is open, all providers. From these `EndedLeavesNothing`, which
excepts a session Windows refused to stop, and `ThreadsAreProvided`. `RecordingAgrees` follows the handlers step by step: what
a handler has done to one `gIsRecording` and not yet to the other, and which
timers are set. `TypeCorrect` includes that the unsigned count of ignored
hotkeys is never taken below zero.

**CSV files** (`MixedRealityProofs`). `OpenIsHeld` alone is not inductive: that
closing one holder's files closes nobody else's rests on who may hold what,
which is different with `-output_stdout` (everybody holds stdout, which is never
closed), `-multi_csv` (the processes' files are disjoint) and a single file (the
processes hold copies of the single one's, which are cleared, not closed).

**Mixed reality** (`MixedRealityProofs`). A frame is found by its frame id while
it is rendered, by its present id while it waits to be latched, and by no event
from then on (`Rendering`, `Waiting`); a source and an LSR show latched frames
only (`Shown`); the LSR in progress has not been handed over. From this
`OnlyCompleteIsHandedOver` and, as an action property, `HandedOverIsFinal`.

**Present tracking** (`PMTraceConsumerProofs`). `DeliveryIsInOrder` holds for
any kind of trace: any events of any threads, in any order, late, repeated or
missing, whatever has been lost, evicted or left hanging before. That what was
delivered is in order is not inductive. `Order` adds that every swap chain's deque
is in the order its presents were made and holds presents of that chain only, and
that what was delivered of a chain is older than everything still in its deque.
So a delivery, which takes the ready prefix off one deque, appends presents that
are younger than what was delivered of their chain and older than what stays; and
giving up a present only takes one out of the middle. `Good(c, n)` says that `c`
is a consumer of `n` presents, of the code's types, and in `Order`; each helper of
`PresentTracking` has a lemma that it takes a good consumer to a good one
(`UntrackGood`, `RemoveLostGood`, `DeliverReadyGood`, `CompleteGood`,
`TrackGood`, `FindFreshGood`...), and each handler one that composes them. The
number of presents grows, so the invariant says that there is some `n`
(`Fine`). `CompleteGood` is by induction over the stack machine: `CompletingRuns`
shows that its recursive function exists, from finite prefixes that agree. `TypeCorrect`
follows from the same invariant.

So does `DisplayedIsTimed`. That a *delivered* present has its time says too little
to be inductive, because presents ride along with others, are completed by newer
ones, or are given up, long before they are delivered. What each step keeps is that
*every* present said to have been displayed has its time, delivered or not, which
`Presents(n)` makes part of what a record is; whoever sets `FinalState` to Presented
has set `ScreenTime`, or copies both (`Ride`), and nobody takes a time back.

**Where the presents are** (`PMTraceConsumerAccounting`, on the second part of
`PMTraceConsumerProofs`). Three more theorems about `PMTraceConsumer`, for any
ring, any number of presents, and events in any order, late, repeated or missing:
`AllAccountedFor` (`EveryPresentAccountedFor`), `AssertsKept` (`AssertsHold`) and
`PublishedIsLeftAlone`, below.
They have the hypothesis `OwnThreads(trace)`: a thread with events whose handlers
look a present up by the process (flips, blits, history and Win32K tokens) is the
only one of its process that makes presents. All of `AllTraces` are such
(`ThreadsAreOwn` in `MCPMTraceConsumer`), with DWM or without. The hypothesis is
about what is traced, not about the code: without it, one thread finds the present
another one made, completes it, and still finds it afterwards under its own id
(`DriverThread`), and all three properties fail (section 3).

None is inductive. `Neat(c, n)` is: every present waits, was
delivered or is lost (`Placed`), the ring holds those that wait, each in its own
slot (`Ringed`), one that waits and is completed was not displayed (`Told`), and,
which is what all of it rests on, *what a collection finds is open, and is found
under the keys that its own record names* (`Linked`, `Named`). So the erasing by
`RemovePresentFromTemporaryTrackingCollections`, which goes by the record, erases
the present everywhere, and nothing that was published can be found. `Named` is kept
because a record that is found again is always a fresh one (`FindFreshFinds`:
`Staged` says which of its keys a mode rules out; this also gives the asserts).

`Neat` does not hold while `CompletePresent` runs, which calls itself. `Busy` is
what does hold: of the jobs on the stack, one that delivers is of a present nothing
finds any more, and comes right after the loop over the older ones (`Pending`); a
present that is completed, waits and is said to be displayed is the very next to be
corrected (`Corrects`). Each job takes a busy completion to a
busy one, and with no job left it is `Neat` (`CompleteNeat`); that it may never get
there is why the theorems say nothing of `HandlersReturn`. Each handler then has a
lemma (`DxgkFlipNeat`, `TokenDiscardedNeat`, ...), and `BecomesNeat` adds `Forget`.

`PublishedIsLeftAlone` is what finality comes to with DWM on the desktop. A published
present is changed by no event unless it *rides* with DWM: it waits for DWM, is the
last that was seen in a window, or is a dependent of another present. Those are the
places a completion may leave it in: it is taken out of its own window's entry and
once from those that wait (`PresentMonTraceConsumer.cpp:1318-1337`), but not from an
entry that another window's event made, nor from another present's dependents
(`:1418`); and presents there do change, as `ToFullscreen` shows. The theorem adds
that one which does not ride never comes to: these places are filled with presents
that are not published, or from each other. So such a present is final from then on,
and the output thread may keep it. `Lasting` is the part of `Neat` that says so: what
was published before the step, and did not ride then, is as it was and does not ride
(`Mine`, `LastingKept`); it is carried through each job of a completion as the rest
is. `PublishedIsFinal`, which `pm` checks, says more of the kinds of trace it is
checked on: there even a present that rides is not changed once it was published.

**Contents of sequences.** Four properties say what whole sequences hold, so each
has an invariant about how they came about:

* `PressesToggle` (`ProgramsProofs`), with `Toggling`: the input the program sent
  itself and still has to ignore is among the messages, and at each point of a
  handler the recording, or what the handler is about to make of it, has the
  parity of the presses handled, those swallowed for an input that was never sent
  taken off. It is for any number of presses and of inputs not sent.
* `FpsAreExact` (`ProgramsProofs`), with `Counting`: the kept times are a suffix of
  those seen, without anything from the last second left out, and in order when the
  presents came in order; `fpsdelta` is what was not reported yet.
* `LSRsComeInOrder` (`MixedRealityProofs`), with `Ordered`: the LSR in progress is
  the newest; every event but one that begins an LSR changes no other (`Settled`).
* `RowsAreNeverLost` (`MixedRealityProofs`), with `Survive`: a path that has rows and
  may get more is that of a file somebody holds, unless it was opened again, so
  nobody creates it anew; the single file is renamed by the recording's count, which
  only grows.

Cardinalities and least elements, where these need induction over numbers, come
from one lemma, `LeastOf`: a set of numbers that is not empty has a least one. It
follows from the well-foundedness of finite subsets, and turns an induction into
the choice of a least counterexample.

**Only model-checked**: all liveness; that handlers return (`HandlersReturn` does
not hold of every trace, see `pm_late_loss`); that presents which ride with DWM are
not changed either (`PublishedIsFinal`) and `BlitIsSettled`, which with DWM hold of
the kind `Composed` and not of every other.

## 5. What is not modelled, and why

* The console, privileges and elevation, the decoding of event payloads, debug
  printing: pure functions or I/O with no state that others read. The clamp of
  `Console.cpp:63` is in this part.
* The text of the command line: how options reconcile each other is modelled,
  how they are read is not; process names are matched as sets of processes.
* Data of a present no property reads (times beyond their order, sizes, flags no
  branch tests), ties of `QpcTime` within a process, times of LSRs.
* The 32-bit wrap of `mNextPresentIndex`, and the unsigned underflow of
  `PruneHistory` for a clock younger than two seconds.
* The FPS tracker's lists of subscribers and of excluded names, each behind its
  own lock or set before the start.
* `PDH` failures: thrown in a thread, they end the program.
* What happens when globals are destroyed: nobody stops the policy's worker, so
  the destructor meets a joinable thread; listed as a hazard.
* Vendored googletest, tests, tools, generated ETW headers.

Things the models do **not** claim: a stale
notification of no game can reach the policy after a newer report, and is only
put right by the next one (`GameIsRecognised`).

## 6. Plan

Done, in this order of importance: present tracking, output thread, policy and
its refinement and proofs, swap-chain history with proofs, TestEG composition
with proofs, session, main thread and library with proofs, CSV files and mixed
reality with proofs, proofs of the output thread, proofs of the order in which presents
are delivered, of what whole sequences hold, and of where every present is.

Left:
1. `PublishedIsFinal` for presents that ride with DWM, and `BlitIsSettled`, for every
   trace in which they hold.
2. An abstract recording (a set of intervals) that the toggle history of
   `OutputThread` and the handlers of `MainThread` both refine for one switching
   thread; it would join the two views of the recording, which meet today only in
   `SetOutputRecordingState`.
