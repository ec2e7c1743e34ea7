------------------------------ MODULE FpsTracker ------------------------------
(***************************************************************************)
(* The library around the output thread (FpsTracker/FpsTracker.cpp): the   *)
(* application starts and stops the session, and the output thread calls   *)
(* OnPresentEvent for every present, which counts the presents of the last *)
(* second and tells the application when their number changes.             *)
(* TheSubscribersOnPresentEvent (OutputThread.cpp) has no lock, and the    *)
(* output thread already runs when FpsTracker::Start adds to it.           *)
(***************************************************************************)
EXTENDS TraceSession, Integers

CONSTANT QpcFrequency  \* performance counts in a second

ASSUME FrequencyAssumption == QpcFrequency \in Nat \ {0}

VARIABLES
  fpc,        \* the application: "out", "idle", "starting", "subscribing",
              \* "running", "stopping", "threw"
  starts,     \* how often it has called Start
  listed,     \* whether OnPresentEvent is in TheSubscribersOnPresentEvent
  now,        \* QueryPerformanceCounter, more than a second after the boot
  presents,   \* how many the consumer has completed so far
  queue,      \* their times, on the way to the output thread
  PresentEventTimes,
  fpsdelta,   \* what OnPresentEvent is about to report, or 0
  fps,        \* what OnFpsChanged was told last
  seen        \* history: the times of all presents OnPresentEvent was called with

fpsVars   == <<fpc, starts, listed, now, presents, queue, PresentEventTimes, fpsdelta,
               fps, seen>>

FpsInit ==
  /\ fpc = IF setup.host = "lib" THEN "idle" ELSE "out"
  /\ starts = 0 /\ listed = FALSE /\ now = QpcFrequency + 1 /\ presents = 0
  /\ queue = <<>> /\ PresentEventTimes = <<>> /\ fpsdelta = 0 /\ fps = 0 /\ seen = <<>>

-----------------------------------------------------------------------------
(***************************************************************************)
(* The application's thread.                                               *)
(***************************************************************************)
Start ==
  /\ fpc = "idle" /\ starts < setup.maxStarts
  /\ fpc' = "starting" /\ starts' = starts + 1
  /\ CreateConsumers
  /\ UNCHANGED <<listed, now, presents, queue, PresentEventTimes, fpsdelta, fps, seen>>

StartReturns ==
  /\ fpc = "starting"
  /\ \/ spc = "started" /\ fpc' = "subscribing"
     \/ spc = "refused" /\ fpc' = "threw"
  /\ UNCHANGED <<sessionVars, starts, listed, now, presents, queue, PresentEventTimes,
                 fpsdelta, fps, seen>>

\* SubscribeOnPresentEvent; after a Stop the entry is still there.
SubscribeOnPresentEvent ==
  /\ fpc = "subscribing" /\ fpc' = "running"
  /\ listed' = TRUE
  /\ UNCHANGED <<sessionVars, starts, now, presents, queue, PresentEventTimes, fpsdelta,
                 fps, seen>>

Stop ==
  /\ fpc = "running" /\ fpc' = "stopping"
  /\ spc' = "closeTrace"
  /\ UNCHANGED <<setup, etwVars, threadVars, consumers, status, starts, listed, now,
                 presents, queue, PresentEventTimes, fpsdelta, fps, seen>>

StopReturns ==
  /\ fpc = "stopping" /\ spc = "stopped"
  /\ fpc' = "idle"
  /\ UNCHANGED <<sessionVars, starts, listed, now, presents, queue, PresentEventTimes,
                 fpsdelta, fps, seen>>

-----------------------------------------------------------------------------
\* The consumer completes a present.
CompletePresent ==
  /\ setup.host = "lib" /\ consumer = "processing" /\ presents < setup.maxPresents
  /\ presents' = presents + 1
  /\ \E t \in now..now + QpcFrequency + 1 :
       /\ now' = t
       /\ queue' = Append(queue, t)
       /\ UNCHANGED <<sessionVars, fpc, starts, listed, PresentEventTimes, fpsdelta, fps,
                      seen>>

\* One that started up to a second before the last and completes after it.
CompleteLate ==
  /\ ~setup.inOrder
  /\ setup.host = "lib" /\ consumer = "processing" /\ presents < setup.maxPresents
  /\ presents' = presents + 1
  /\ \E t \in (now - QpcFrequency)..(now - 1) : queue' = Append(queue, t)
  /\ UNCHANGED <<sessionVars, fpc, starts, listed, now, PresentEventTimes, fpsdelta, fps,
                 seen>>

\* A faulty one that takes a present of exactly a second ago for too old.
Pruned_Early(times, t) ==
  LET recent == {i \in DOMAIN times : times[i] > t - QpcFrequency}
  IN  IF recent = {} THEN <<>>
      ELSE SubSeq(times, CHOOSE i \in recent : \A j \in recent : i <= j, Len(times))

\* The times left when those at the front that are too old have been erased.
Pruned(times, t) ==
  LET recent == {i \in DOMAIN times : times[i] >= t - QpcFrequency}
  IN  IF recent = {} THEN <<>>
      ELSE SubSeq(times, CHOOSE i \in recent : \A j \in recent : i <= j, Len(times))

\* AddPresents for a present of a target: the static and the member function
\* OnPresentEvent, up to the report.
OnPresentEvent(t) ==
  LET kept == Pruned(PresentEventTimes, t)
  IN  /\ PresentEventTimes' = Append(kept, t)
      /\ fpsdelta' = Len(kept) + 1 - Len(PresentEventTimes)
      /\ seen' = Append(seen, t)

AddPresent ==
  /\ output \in {"running", "last"} /\ queue # <<>> /\ fpsdelta = 0
  /\ queue' = Tail(queue)
  /\ \/ /\ listed \/ fpc = "subscribing" \* a data race: it may be seen or not
        /\ OnPresentEvent(Head(queue))
     \/ ~listed /\ UNCHANGED <<PresentEventTimes, fpsdelta, seen>>
  /\ UNCHANGED <<sessionVars, fpc, starts, listed, now, presents, fps>>

NotifySubscribers ==
  /\ fpsdelta # 0
  /\ fps' = Len(PresentEventTimes) /\ fpsdelta' = 0
  /\ UNCHANGED <<sessionVars, fpc, starts, listed, now, presents, queue,
                 PresentEventTimes, seen>>

App == Start \/ StartReturns \/ SubscribeOnPresentEvent \/ Stop \/ StopReturns
Deliver == AddPresent \/ NotifySubscribers

FpsNext == App \/ CompletePresent \/ CompleteLate \/ Deliver

=============================================================================
