--------------------------- MODULE OutputThreadProofs ---------------------------
(***************************************************************************)
(* The output side, for any number of processes, presents, exits and       *)
(* toggles: nothing is left behind when it ends, targets are counted as    *)
(* the process table holds them, processes that were erased stay erased,   *)
(* and every present is recorded as of its own time.                       *)
(*                                                                         *)
(* The inductive invariant follows the events on their way.  Presents are  *)
(* in flight, then queued, then in the batch, and in this order their      *)
(* times grow.  An exit is queued once, with a time after every present of *)
(* its process.  The toggles kept in the history are the latest switches;  *)
(* those erased or handled lie before every present that is still to come, *)
(* and those the batch does not know of lie after every present in it.     *)
(***************************************************************************)
EXTENDS OutputThread, FiniteSetTheorems, SequenceTheorems, TLAPS

Timed        == [pid : Pids, qpc : Nat]
SomeEvents   == [starts : SUBSET Pids, exits : Seq(Timed)]
Request      == [on : BOOLEAN, qpc : Nat]
ProcessInfo  == [handle : BOOLEAN, named : BOOLEAN, target : BOOLEAN]

Typed ==
  /\ setup \in Setups /\ now \in Nat
  /\ life \in [Pids -> {"new", "running", "exited"}]
  /\ inflight \subseteq Timed
  /\ consumer \in {"running", "ended"}
  /\ mPresentEvents \in Seq(Timed) /\ batch \in Seq(Timed)
  /\ mProcessEvents \in SomeEvents /\ newProcesses \in SomeEvents
  /\ terminated \in Seq(Timed)
  /\ tpc \in [{main, ctrl} -> {"idle", "assign", "look", "push", "asleep", "close", "join",
                               "done"}]
  /\ treq \in [{main, ctrl} -> Request]
  /\ isRecording \in BOOLEAN /\ gIsRecording \in BOOLEAN /\ recording \in BOOLEAN
  /\ toggles \in Seq(Nat) /\ history \in Seq(Nat) /\ switches \in Seq(Request)
  /\ opc \in {"top", "processes", "presents", "copy", "events", "bottom", "done"}
  /\ handled \in Nat /\ gRecordingCount \in Nat \ {0}
  /\ gProcesses \in [Pids -> ProcessInfo \cup {NoEntry}]
  /\ gone \subseteq Pids /\ logged \in [qpc : Nat, csv : Nat]

\* What the output thread holds at each point, and what is left when it quits.
Quitting ==
  /\ gQuit => consumer = "ended"
  /\ quit => gQuit
  /\ opc = "done" => quit
  /\ quit /\ opc \notin {"top", "processes"} => mProcessEvents = NoEvents
  /\ quit /\ opc \notin {"top", "processes", "presents"} => mPresentEvents = <<>>
  /\ opc \notin {"copy", "events"} => batch = <<>>
  /\ opc \notin {"presents", "copy"} => newProcesses = NoEvents
  /\ opc # "events" => history = <<>> /\ handled = 0
  /\ handled + Len(history) <= Len(toggles)

\* The presents and the exits that are still to be dealt with.
Pending == inflight \cup ToSet(mPresentEvents) \cup ToSet(batch)
Queued  == ToSet(terminated) \cup ToSet(newProcesses.exits) \cup ToSet(mProcessEvents.exits)

\* Nothing has a time yet to come.
Past ==
  /\ \A r \in Pending : r.qpc <= now
  /\ \A e \in Queued : e.qpc <= now
  /\ \A q \in ToSet(toggles) : q <= now
  /\ \A e \in ToSet(switches) : e.qpc <= now
  /\ \A t \in {main, ctrl} : treq[t].qpc <= now
  /\ logged.qpc <= now

\* Each exit is queued once, with no handle left to notice it by.
Once(s)   == \A i, j \in DOMAIN s : s[i].pid = s[j].pid => i = j
PidsOf(s) == {s[i].pid : i \in DOMAIN s}
ExitQueued ==
  PidsOf(terminated) \cup PidsOf(newProcesses.exits) \cup PidsOf(mProcessEvents.exits)
ExitsOnce ==
  /\ Once(terminated) /\ Once(newProcesses.exits) /\ Once(mProcessEvents.exits)
  /\ PidsOf(terminated) \cap PidsOf(newProcesses.exits) = {}
  /\ PidsOf(terminated) \cap PidsOf(mProcessEvents.exits) = {}
  /\ PidsOf(newProcesses.exits) \cap PidsOf(mProcessEvents.exits) = {}
  /\ \A p \in ExitQueued \cup gone : life[p] = "exited"
  /\ ~setup.etl =>
       /\ mProcessEvents = NoEvents /\ newProcesses = NoEvents
       /\ \A p \in Pids : life[p] # "new"
  /\ \A p \in Pids : gProcesses[p] # NoEntry /\ gProcesses[p].handle =>
       ~setup.etl /\ p \notin PidsOf(terminated)

Targets == {p \in Pids : gProcesses[p] # NoEntry /\ gProcesses[p].target}
Counted ==
  /\ opc # "done" => gTargetProcessCount = Cardinality(Targets)
  /\ gTargetProcessCount \in 0..Cardinality(Pids)

Sorted(s)    == \A i, j \in DOMAIN s : i <= j => s[i].qpc <= s[j].qpc
NoLater(S, T) == \A r \in S, u \in T : r.qpc <= u.qpc
Order ==
  setup.inOrder =>
    /\ Sorted(batch) /\ Sorted(mPresentEvents)
    /\ NoLater(ToSet(batch), ToSet(mPresentEvents))
    /\ NoLater(ToSet(batch), inflight)
    /\ NoLater(ToSet(mPresentEvents), inflight)

\* An exit is later than every present of its process, and its start is earlier.
Leaving ==
  /\ \A r \in Pending : life[r.pid] = "exited" => r.qpc < now
  /\ \A r \in Pending : life[r.pid] # "new"
  /\ \A e \in Queued : \A r \in Pending : r.pid = e.pid => r.qpc < e.qpc
  /\ \A p \in mProcessEvents.starts \cup newProcesses.starts : life[p] # "new"
  /\ \A p \in PidsOf(terminated) \cup gone :
       p \notin mProcessEvents.starts \cup newProcesses.starts
  /\ PidsOf(newProcesses.exits) \cap mProcessEvents.starts = {}
  /\ setup.inOrder =>
       \A p \in gone : gProcesses[p] = NoEntry /\ \A r \in Pending : r.pid # p

\* How many switches the output thread has erased or handled.
Done == Len(switches) - Len(toggles) + handled

\* With one thread that switches, and a history of it.
OneSwitcher == setup.inOrder /\ ~setup.etl /\ setup.switchers = {main}

\* Switches alternate, and their times grow.
Alternate ==
  /\ \A i, j \in DOMAIN switches : i < j => switches[i].qpc < switches[j].qpc
  /\ \A i \in DOMAIN switches : switches[i].qpc > 0 /\ switches[i].on = Odd(i)
  /\ gIsRecording = Odd(Len(switches))

\* The switch about to be made is later than all that is completed.
Pushing ==
  /\ treq[main].on # gIsRecording /\ treq[main].qpc > 0
  /\ \A i \in DOMAIN switches : switches[i].qpc < treq[main].qpc
  /\ \A r \in ToSet(mPresentEvents) \cup ToSet(batch) : r.qpc < treq[main].qpc
  /\ logged.qpc < treq[main].qpc

Switches == OneSwitcher => Alternate /\ (tpc[main] = "push" => Pushing)

Handled ==
  OneSwitcher =>
    /\ Len(toggles) <= Len(switches)
    /\ \A i \in DOMAIN toggles : toggles[i] = switches[Len(switches) - Len(toggles) + i].qpc
    /\ \A i \in DOMAIN history : history[i] = toggles[handled + i]
    /\ opc = "events" => recording = Odd(Done)
    /\ gRecordingCount = 1 + Cardinality({i \in 1..Done : ~switches[i].on})
    /\ \A r \in Pending : \A i \in 1..Done : switches[i].qpc <= r.qpc
    /\ opc = "events" =>
         \A r \in ToSet(batch) : \A i \in (Done + Len(history) + 1)..Len(switches) :
           r.qpc < switches[i].qpc

IInv ==
  /\ Typed /\ Quitting /\ Past /\ ExitsOnce /\ Counted /\ Order /\ Leaving
  /\ Switches /\ Handled /\ RecordedAsOfItsTime

-----------------------------------------------------------------------------
(* Sequences.                                                              *)

LEMMA EmptyIsEmpty ==
  /\ ToSet(<<>>) = {} /\ PidsOf(<<>>) = {} /\ Once(<<>>) /\ Sorted(<<>>)
  /\ \A S : <<>> \in Seq(S)
  BY DEF ToSet, PidsOf, Once, Sorted

LEMMA AppendedSeq ==
    ASSUME NEW S, NEW s \in Seq(S), NEW e \in S
    PROVE  /\ Append(s, e) \in Seq(S) /\ Len(Append(s, e)) = Len(s) + 1
           /\ DOMAIN s = 1..Len(s) /\ DOMAIN Append(s, e) = 1..Len(s) + 1
           /\ \A i \in 1..Len(s) : Append(s, e)[i] = s[i]
           /\ Append(s, e)[Len(s) + 1] = e
           /\ ToSet(Append(s, e)) = ToSet(s) \cup {e}
  <1>1. /\ Append(s, e) \in Seq(S) /\ Len(Append(s, e)) = Len(s) + 1
        /\ \A i \in 1..Len(s) : Append(s, e)[i] = s[i]
        /\ Append(s, e)[Len(s) + 1] = e
    BY AppendProperties
  <1>2. DOMAIN s = 1..Len(s) /\ DOMAIN Append(s, e) = 1..Len(s) + 1 /\ Len(s) \in Nat
    BY <1>1, LenProperties
  <1>. QED  BY <1>1, <1>2 DEF ToSet

LEMMA TailedSeq ==
    ASSUME NEW S, NEW s \in Seq(S), s # <<>>
    PROVE  /\ Tail(s) \in Seq(S) /\ Len(Tail(s)) = Len(s) - 1 /\ Len(s) \in Nat \ {0}
           /\ DOMAIN s = 1..Len(s) /\ DOMAIN Tail(s) = 1..Len(s) - 1
           /\ \A i \in 1..Len(s) - 1 : Tail(s)[i] = s[i + 1]
           /\ s[1] \in S /\ s[1] \in ToSet(s)
           /\ ToSet(Tail(s)) \subseteq ToSet(s)
  <1>1. /\ Tail(s) \in Seq(S) /\ Len(Tail(s)) = Len(s) - 1
        /\ \A i \in 1..Len(Tail(s)) : Tail(s)[i] = s[i + 1]
    BY HeadTailProperties
  <1>2. Len(s) \in Nat \ {0}
    BY EmptySeq
  <1>3. DOMAIN s = 1..Len(s) /\ DOMAIN Tail(s) = 1..Len(s) - 1
    BY <1>1, LenProperties
  <1>4. s[1] \in S
    BY <1>2, ElementOfSeq
  <1>. QED  BY <1>1, <1>2, <1>3, <1>4 DEF ToSet

LEMMA JoinedSeq ==
    ASSUME NEW S, NEW s \in Seq(S), NEW t \in Seq(S)
    PROVE  /\ s \o t \in Seq(S) /\ Len(s \o t) = Len(s) + Len(t)
           /\ DOMAIN s = 1..Len(s) /\ DOMAIN t = 1..Len(t)
           /\ DOMAIN (s \o t) = 1..Len(s) + Len(t)
           /\ Len(s) \in Nat /\ Len(t) \in Nat
           /\ \A i \in 1..Len(s) : (s \o t)[i] = s[i]
           /\ \A i \in Len(s) + 1..Len(s) + Len(t) : (s \o t)[i] = t[i - Len(s)]
  <1>1. Len(s) \in Nat /\ Len(t) \in Nat /\ DOMAIN s = 1..Len(s) /\ DOMAIN t = 1..Len(t)
    BY LenProperties
  <1>2. /\ s \o t \in Seq(S) /\ Len(s \o t) = Len(s) + Len(t)
        /\ \A i \in 1 .. Len(s) + Len(t) :
             (s \o t)[i] = IF i <= Len(s) THEN s[i] ELSE t[i - Len(s)]
    BY ConcatProperties
  <1>3. DOMAIN (s \o t) = 1..Len(s) + Len(t)
    BY <1>2, LenProperties
  <1>. QED  BY <1>1, <1>2, <1>3

LEMMA JoinedSet ==
    ASSUME NEW S, NEW s \in Seq(S), NEW t \in Seq(S)
    PROVE  ToSet(s \o t) = ToSet(s) \cup ToSet(t)
  <1>. DEFINE st == s \o t
  <1>1. /\ DOMAIN s = 1..Len(s) /\ DOMAIN t = 1..Len(t) /\ DOMAIN st = 1..Len(s) + Len(t)
        /\ Len(s) \in Nat /\ Len(t) \in Nat
        /\ \A i \in 1..Len(s) : st[i] = s[i]
        /\ \A i \in Len(s) + 1..Len(s) + Len(t) : st[i] = t[i - Len(s)]
    BY JoinedSeq
  <1>. HIDE DEF st
  <1>2. ToSet(st) \subseteq ToSet(s) \cup ToSet(t)
    <2>1. ASSUME NEW i \in DOMAIN st PROVE st[i] \in ToSet(s) \cup ToSet(t)
      <3>1. CASE i <= Len(s)
        BY <1>1, <3>1 DEF ToSet
      <3>2. CASE i > Len(s)
        <4>1. i - Len(s) \in DOMAIN t /\ st[i] = t[i - Len(s)]
          BY <1>1, <3>2
        <4>. QED  BY <4>1 DEF ToSet
      <3>. QED  BY <1>1, <3>1, <3>2
    <2>. QED  BY <2>1 DEF ToSet
  <1>3. ToSet(s) \subseteq ToSet(st)
    BY <1>1 DEF ToSet
  <1>4. ToSet(t) \subseteq ToSet(st)
    <2>1. ASSUME NEW i \in DOMAIN t PROVE t[i] \in ToSet(st)
      <3>1. i + Len(s) \in DOMAIN st /\ st[i + Len(s)] = t[i]
        BY <1>1
      <3>. QED  BY <3>1 DEF ToSet
    <2>. QED  BY <2>1 DEF ToSet
  <1>5. ToSet(st) = ToSet(s) \cup ToSet(t)
    BY <1>2, <1>3, <1>4
  <1>. QED  BY <1>5 DEF st

\* Exits are queued behind those queued before, and taken from the front.
LEMMA PidsAppend ==
    ASSUME NEW s \in Seq(Timed), NEW e \in Timed
    PROVE  /\ PidsOf(Append(s, e)) = PidsOf(s) \cup {e.pid}
           /\ Once(s) /\ e.pid \notin PidsOf(s) => Once(Append(s, e))
  <1>1. /\ DOMAIN s = 1..Len(s) /\ DOMAIN Append(s, e) = 1..Len(s) + 1 /\ Len(s) \in Nat
        /\ \A i \in 1..Len(s) : Append(s, e)[i] = s[i]
        /\ Append(s, e)[Len(s) + 1] = e
    BY AppendedSeq, LenProperties
  <1>2. PidsOf(Append(s, e)) = PidsOf(s) \cup {e.pid}
    BY <1>1 DEF PidsOf
  <1>3. ASSUME Once(s), e.pid \notin PidsOf(s) PROVE Once(Append(s, e))
    BY <1>1, <1>3 DEF Once, PidsOf
  <1>. QED  BY <1>2, <1>3

LEMMA PidsTyped ==
    ASSUME NEW s \in Seq(Timed)
    PROVE  PidsOf(s) \subseteq Pids
  <1>1. \A i \in DOMAIN s : s[i] \in Timed
    BY LenProperties, ElementOfSeq
  <1>. QED  BY <1>1 DEF PidsOf, Timed

LEMMA PidsTail ==
    ASSUME NEW s \in Seq(Timed), s # <<>>, Once(s)
    PROVE  /\ Once(Tail(s)) /\ PidsOf(Tail(s)) \subseteq PidsOf(s)
           /\ s[1].pid \in PidsOf(s) /\ s[1].pid \notin PidsOf(Tail(s))
  <1>1. /\ DOMAIN s = 1..Len(s) /\ DOMAIN Tail(s) = 1..Len(s) - 1 /\ Len(s) \in Nat \ {0}
        /\ \A i \in 1..Len(s) - 1 : Tail(s)[i] = s[i + 1]
    BY TailedSeq
  <1>2. \A i \in DOMAIN Tail(s) : i + 1 \in DOMAIN s /\ Tail(s)[i] = s[i + 1] /\ i \in Nat
    BY <1>1
  <1>3. Once(Tail(s))
    BY <1>2 DEF Once
  <1>4. PidsOf(Tail(s)) \subseteq PidsOf(s)
    BY <1>2 DEF PidsOf
  <1>5. s[1].pid \in PidsOf(s)
    BY <1>1 DEF PidsOf
  <1>6. s[1].pid \notin PidsOf(Tail(s))
    <2>. SUFFICES ASSUME NEW i \in DOMAIN Tail(s), Tail(s)[i].pid = s[1].pid PROVE FALSE
      BY DEF PidsOf
    <2>. QED  BY <1>1, <1>2 DEF Once
  <1>. QED  BY <1>3, <1>4, <1>5, <1>6

LEMMA PidsJoin ==
    ASSUME NEW s \in Seq(Timed), NEW t \in Seq(Timed)
    PROVE  /\ PidsOf(s \o t) = PidsOf(s) \cup PidsOf(t)
           /\ Once(s) /\ Once(t) /\ PidsOf(s) \cap PidsOf(t) = {} => Once(s \o t)
           /\ \A i \in DOMAIN (s \o t) :
                \/ \E j \in DOMAIN s : (s \o t)[i] = s[j]
                \/ \E j \in DOMAIN t : (s \o t)[i] = t[j]
  <1>. DEFINE st == s \o t
  <1>1. /\ DOMAIN s = 1..Len(s) /\ DOMAIN t = 1..Len(t) /\ DOMAIN st = 1..Len(s) + Len(t)
        /\ Len(s) \in Nat /\ Len(t) \in Nat
        /\ \A i \in 1..Len(s) : st[i] = s[i]
        /\ \A i \in Len(s) + 1..Len(s) + Len(t) : st[i] = t[i - Len(s)]
    BY JoinedSeq
  <1>. HIDE DEF st
  <1>2. \A i \in DOMAIN st :
          \/ i \in DOMAIN s /\ st[i] = s[i]
          \/ i > Len(s) /\ i - Len(s) \in DOMAIN t /\ st[i] = t[i - Len(s)]
    BY <1>1
  <1>3. PidsOf(st) = PidsOf(s) \cup PidsOf(t)
    <2>1. PidsOf(st) \subseteq PidsOf(s) \cup PidsOf(t)
      BY <1>2 DEF PidsOf
    <2>2. PidsOf(s) \subseteq PidsOf(st)
      BY <1>1 DEF PidsOf
    <2>3. ASSUME NEW j \in DOMAIN t PROVE t[j].pid \in PidsOf(st)
      <3>1. j + Len(s) \in DOMAIN st /\ st[j + Len(s)] = t[j]
        BY <1>1
      <3>. QED  BY <3>1 DEF PidsOf
    <2>. QED  BY <2>1, <2>2, <2>3 DEF PidsOf
  <1>4. ASSUME Once(s), Once(t), PidsOf(s) \cap PidsOf(t) = {},
               NEW i \in DOMAIN st, NEW j \in DOMAIN st, st[i].pid = st[j].pid
        PROVE  i = j
    <2>1. CASE i \in DOMAIN s /\ j \in DOMAIN s
      BY <1>1, <1>4, <2>1 DEF Once
    <2>2. CASE i > Len(s) /\ j > Len(s)
      <3>1. i - Len(s) \in DOMAIN t /\ j - Len(s) \in DOMAIN t /\ i \in Nat /\ j \in Nat
        BY <1>1, <2>2
      <3>2. t[i - Len(s)].pid = t[j - Len(s)].pid
        BY <1>1, <1>4, <2>2
      <3>. QED  BY <1>1, <1>4, <3>1, <3>2 DEF Once
    <2>3. ASSUME NEW k \in DOMAIN st, NEW l \in DOMAIN st, k \in DOMAIN s, l > Len(s)
          PROVE  st[k].pid # st[l].pid
      <3>1. st[k] = s[k] /\ l - Len(s) \in DOMAIN t /\ st[l] = t[l - Len(s)]
        BY <1>1, <2>3
      <3>2. st[k].pid \in PidsOf(s)
        BY <2>3, <3>1 DEF PidsOf
      <3>3. st[l].pid \in PidsOf(t)
        BY <3>1 DEF PidsOf
      <3>. QED  BY <1>4, <3>2, <3>3
    <2>. QED  BY <1>1, <1>4, <2>1, <2>2, <2>3
  <1>5. Once(s) /\ Once(t) /\ PidsOf(s) \cap PidsOf(t) = {} => Once(st)
    BY <1>4 DEF Once
  <1>. QED  BY <1>2, <1>3, <1>5 DEF st

\* What CheckForTerminatedRealtimeProcesses appends, in the order of gProcesses.
LEMMA SetToSeqIsSeq ==
    ASSUME NEW S, IsFiniteSet(S)
    PROVE  LET s == SetToSeq(S) IN
           /\ s \in Seq(S) /\ IsInjective(s)
           /\ \A i \in DOMAIN s : s[i] \in S
  <1>1. Cardinality(S) \in Nat /\ ExistsBijection(1..Cardinality(S), S)
    BY FS_CardinalityType
  <1>2. \E f \in [1..Cardinality(S) -> S] : IsInjective(f)
    <2>1. PICK f : f \in Bijection(1..Cardinality(S), S)
      BY <1>1 DEF ExistsBijection
    <2>. QED  BY <2>1 DEF Bijection, Injection, IsInjective
  <1>3. SetToSeq(S) \in [1..Cardinality(S) -> S] /\ IsInjective(SetToSeq(S))
    BY <1>2 DEF SetToSeq
  <1>4. DOMAIN SetToSeq(S) = 1..Cardinality(S)
    BY <1>3
  <1>. QED  BY <1>1, <1>3, <1>4

-----------------------------------------------------------------------------
(* What the steps of each thread leave alone, and the types.               *)

Consumer  == (\E p \in Pids : Consume(p)) \/ EndConsumer
Switching == (\E t \in setup.switchers : SetOutputRecordingState(t)) \/ ShutDown

LEMMA SetupTyped ==
    ASSUME Typed
    PROVE  /\ setup.etl \in BOOLEAN /\ setup.inOrder \in BOOLEAN
           /\ setup.switchers \in {{main}, {main, ctrl}}
           /\ IsFiniteSet(Pids) /\ main # ctrl /\ NoEntry \notin ProcessInfo
  BY ConstantsAssumption DEF Typed, ProcessInfo

LEMMA Steps ==
    ASSUME Next
    PROVE  Consumer \/ Switching \/ Output
  BY DEF Next, Consumer, Switching

LEMMA ConsumerLeaves ==
    ASSUME Consumer
    PROVE  UNCHANGED <<setup, switchVars, toggles, gQuit, opc, localVars, processVars,
                       gRecordingCount, logged>>
  BY DEF Consumer, Consume, StartProcess, ExitProcess, StartPresent, CompletePresent,
         LosePresent, EndConsumer, consumerUnchanged

LEMMA SwitchingLeaves ==
    ASSUME Switching
    PROVE  UNCHANGED <<setup, consumerVars, opc, localVars, processVars, gRecordingCount, logged>>
  BY DEF Switching, SetOutputRecordingState, ShutDown, Press, Assign, LookAway, Look, Push,
         Close, SetQuit, JoinOutput, switchUnchanged

LEMMA OutputLeaves ==
    ASSUME Output
    PROVE  UNCHANGED <<setup, now, life, inflight, consumer, switchVars, gQuit>>
  BY DEF Output, ReadQuit, DequeueProcessEvents, DequeuePresentEvents, CopyToggles,
         AddPresent, HandleTerminatedProcess, ToggleRecording, FinishEvents,
         CheckForTerminatedRealtimeProcesses, Finish, outputUnchanged, eventsUnchanged

LEMMA StartsTyped ==
    ASSUME NEW e \in SomeEvents, NEW p \in Pids
    PROVE  [e EXCEPT !.starts = @ \cup {p}] \in SomeEvents
  BY DEF SomeEvents

LEMMA ExitsTyped ==
    ASSUME NEW e \in SomeEvents, NEW x \in Timed
    PROVE  [e EXCEPT !.exits = Append(@, x)] \in SomeEvents
  <1>1. Append(e.exits, x) \in Seq(Timed)
    BY AppendedSeq DEF SomeEvents
  <1>. QED  BY <1>1 DEF SomeEvents

LEMMA ConsumerTyped ==
    ASSUME Typed, Consumer
    PROVE  Typed'
  <1>1. UNCHANGED <<setup, switchVars, toggles, gQuit, opc, localVars, processVars,
                    gRecordingCount, logged>>
    BY ConsumerLeaves
  <1>. DEFINE Fine ==
        /\ now' \in Nat /\ life' \in [Pids -> {"new", "running", "exited"}]
        /\ inflight' \subseteq Timed /\ consumer' \in {"running", "ended"}
        /\ mPresentEvents' \in Seq(Timed) /\ mProcessEvents' \in SomeEvents
  <1>2. Fine
    <2>1. ASSUME NEW p \in Pids, StartProcess(p) PROVE Fine
      BY <2>1, StartsTyped DEF Typed, StartProcess
    <2>2. ASSUME NEW p \in Pids, ExitProcess(p) PROVE Fine
      <3>1. ExitEvent(p, now + 1) \in Timed
        BY DEF Typed, ExitEvent, Timed
      <3>2. mProcessEvents' \in SomeEvents
        BY <2>2, <3>1, ExitsTyped DEF Typed, ExitProcess
      <3>. QED  BY <2>2, <3>2 DEF Typed, ExitProcess
    <2>3. ASSUME NEW p \in Pids, StartPresent(p) PROVE Fine
      BY <2>3 DEF Typed, StartPresent, Timed
    <2>4. ASSUME NEW r \in inflight, CompletePresent(r) PROVE Fine
      BY <2>4, AppendedSeq DEF Typed, CompletePresent
    <2>5. ASSUME NEW r \in inflight, LosePresent(r) PROVE Fine
      BY <2>5 DEF Typed, LosePresent
    <2>6. ASSUME EndConsumer PROVE Fine
      BY <2>6 DEF Typed, EndConsumer
    <2>. QED  BY <2>1, <2>2, <2>3, <2>4, <2>5, <2>6 DEF Consumer, Consume
  <1>. QED  BY <1>1, <1>2 DEF Typed, switchVars, localVars, processVars

LEMMA SwitchingTyped ==
    ASSUME Typed, Switching
    PROVE  Typed'
  <1>1. UNCHANGED <<setup, consumerVars, opc, localVars, processVars, gRecordingCount, logged>>
    BY SwitchingLeaves
  <1>. DEFINE Fine ==
        /\ now' \in Nat
        /\ tpc' \in [{main, ctrl} -> {"idle", "assign", "look", "push", "asleep", "close",
                                      "join", "done"}]
        /\ treq' \in [{main, ctrl} -> Request]
        /\ isRecording' \in BOOLEAN /\ gIsRecording' \in BOOLEAN
        /\ toggles' \in Seq(Nat) /\ switches' \in Seq(Request)
  <1>2. Fine
    <2>1. ASSUME NEW t \in {main, ctrl}, Press(t) PROVE Fine
      <3>1. [on |-> ~isRecording, qpc |-> treq[t].qpc] \in Request
        BY DEF Typed, Request
      <3>2. treq' \in [{main, ctrl} -> Request]
        BY <2>1, <3>1 DEF Typed, Press
      <3>. QED  BY <2>1, <3>2 DEF Typed, Press, Step, Switched
    <2>2. ASSUME NEW t \in {main, ctrl}, Assign(t) PROVE Fine
      BY <2>2 DEF Typed, Assign, Step, Request
    <2>3. ASSUME NEW t \in {main, ctrl}, LookAway(t) PROVE Fine
      BY <2>3 DEF Typed, LookAway, Switched
    <2>4. ASSUME NEW t \in {main, ctrl}, Look(t) PROVE Fine
      <3>1. [on |-> treq[t].on, qpc |-> now + 1] \in Request
        BY DEF Typed, Request
      <3>2. treq' \in [{main, ctrl} -> Request]
        BY <2>4, <3>1 DEF Typed, Look
      <3>. QED  BY <2>4, <3>2 DEF Typed, Look, Step
    <2>5. ASSUME NEW t \in {main, ctrl}, Push(t) PROVE Fine
      <3>1. treq[t] \in Request /\ treq[t].qpc \in Nat /\ treq[t].on \in BOOLEAN
        BY DEF Typed, Request
      <3>2. Append(toggles, treq[t].qpc) \in Seq(Nat) /\ Append(switches, treq[t]) \in Seq(Request)
        BY <3>1, AppendedSeq DEF Typed
      <3>. QED  BY <2>5, <3>1, <3>2 DEF Typed, Push, Switched
    <2>6. ASSUME ShutDown PROVE Fine
      BY <2>6 DEF Typed, ShutDown, Close, SetQuit, JoinOutput, Step
    <2>. QED  BY <2>1, <2>2, <2>3, <2>4, <2>5, <2>6, SetupTyped DEF Switching,
                 SetOutputRecordingState
  <1>. QED  BY <1>1, <1>2 DEF Typed, consumerVars, localVars, processVars

LEMMA EntryTyped ==
    ASSUME Typed, NEW p \in Pids, NEW e \in Entries(p)
    PROVE  /\ e \in ProcessInfo /\ e # NoEntry
           /\ gProcesses[p] # NoEntry => e = gProcesses[p]
           /\ gProcesses[p] = NoEntry /\ e.handle => ~setup.etl /\ life[p] = "running"
  <1>1. e \in ProcessInfo
    BY DEF Typed, Entries, ProcessInfo
  <1>. QED  BY <1>1, SetupTyped DEF Entries

LEMMA UpdateTyped ==
    ASSUME Typed, UpdateProcesses
    PROVE  gProcesses' \in [Pids -> ProcessInfo \cup {NoEntry}] /\ terminated' \in Seq(Timed)
  <1>1. terminated' \in Seq(Timed)
    BY JoinedSeq DEF Typed, SomeEvents, UpdateProcesses
  <1>2. \A p \in Pids : [handle |-> FALSE, named |-> TRUE, target |-> IsTargetProcess(p, TRUE)]
                          \in ProcessInfo
    BY DEF ProcessInfo, IsTargetProcess
  <1>. QED  BY <1>1, <1>2 DEF Typed, UpdateProcesses

\* The exits CheckForTerminatedRealtimeProcesses finds.
LEMMA NoticedExits ==
    ASSUME Typed, NEW P \in SUBSET Pids
    PROVE  LET s == SetToSeq({ExitEvent(p, now) : p \in P}) IN
           /\ s \in Seq(Timed) /\ Once(s) /\ PidsOf(s) \subseteq P
           /\ \A i \in DOMAIN s : s[i].qpc = now
  <1>. DEFINE S == {ExitEvent(p, now) : p \in P}
              s == SetToSeq(S)
  <1>1. IsFiniteSet(S)
    <2>1. IsFiniteSet(P)
      BY FS_Subset, SetupTyped
    <2>. DEFINE f == [p \in P |-> ExitEvent(p, now)]
    <2>2. f \in [P -> S] /\ \A e \in S : \E p \in P : f[p] = e
      OBVIOUS
    <2>. HIDE DEF S, f
    <2>3. f \in Surjection(P, S)
      BY <2>2 DEF Surjection
    <2>. QED  BY <2>1, <2>3, FS_Surjection
  <1>2. S \subseteq Timed
    BY DEF Typed, ExitEvent, Timed
  <1>3. \A e \in S : e.pid \in P /\ e.qpc = now
    BY DEF ExitEvent
  <1>4. \A e, f \in S : e.pid = f.pid => e = f
    BY DEF ExitEvent
  <1>. HIDE DEF S
  <1>5. s \in Seq(S) /\ IsInjective(s) /\ \A i \in DOMAIN s : s[i] \in S
    BY <1>1, SetToSeqIsSeq
  <1>6. s \in Seq(Timed)
    BY <1>2, <1>5, SeqMonotonic
  <1>7. Once(s)
    BY <1>4, <1>5 DEF Once, IsInjective
  <1>. QED  BY <1>3, <1>5, <1>6, <1>7 DEF PidsOf, S

LEMMA FirstTyped ==
    ASSUME NEW s \in Seq(Timed), s # <<>>
    PROVE  s[1] \in Timed /\ s[1].pid \in Pids /\ s[1].qpc \in Nat /\ Tail(s) \in Seq(Timed)
  <1>1. s[1] \in Timed /\ Tail(s) \in Seq(Timed)
    BY TailedSeq
  <1>. QED  BY <1>1 DEF Timed

LEMMA OutputTyped ==
    ASSUME Typed, Output
    PROVE  Typed'
  <1>1. UNCHANGED <<setup, now, life, inflight, consumer, switchVars, gQuit>>
    BY OutputLeaves
  <1>. DEFINE Fine ==
        /\ mPresentEvents' \in Seq(Timed) /\ batch' \in Seq(Timed)
        /\ mProcessEvents' \in SomeEvents /\ newProcesses' \in SomeEvents
        /\ terminated' \in Seq(Timed)
        /\ recording' \in BOOLEAN /\ toggles' \in Seq(Nat) /\ history' \in Seq(Nat)
        /\ opc' \in {"top", "processes", "presents", "copy", "events", "bottom", "done"}
        /\ handled' \in Nat /\ gRecordingCount' \in Nat \ {0}
        /\ gProcesses' \in [Pids -> ProcessInfo \cup {NoEntry}]
        /\ gone' \subseteq Pids /\ logged' \in [qpc : Nat, csv : Nat]
  <1>2. NoEvents \in SomeEvents /\ \A S : <<>> \in Seq(S)
    BY EmptyIsEmpty DEF SomeEvents, NoEvents
  <1>3. Fine
    <2>1. CASE ReadQuit
      BY <2>1 DEF Typed, ReadQuit, Goto, processVars
    <2>2. CASE DequeueProcessEvents
      BY <1>2, <2>2 DEF Typed, DequeueProcessEvents, Goto, processVars
    <2>3. CASE DequeuePresentEvents
      BY <1>2, <2>3 DEF Typed, DequeuePresentEvents, Goto, processVars
    <2>4. CASE CopyToggles
      BY <1>2, <2>4, UpdateTyped DEF Typed, CopyToggles, Goto, StateBefore, Odd
    <2>5. CASE AddPresent
      <3>1. /\ batch[1] \in Timed /\ batch[1].pid \in Pids /\ batch[1].qpc \in Nat
            /\ Tail(batch) \in Seq(Timed)
        BY <2>5, FirstTyped DEF Typed, AddPresent
      <3>2. PICK e \in Entries(batch[1].pid) : gProcesses' = [gProcesses EXCEPT ![batch[1].pid] = e]
        BY <2>5 DEF AddPresent
      <3>3. gProcesses' \in [Pids -> ProcessInfo \cup {NoEntry}]
        BY <3>1, <3>2, EntryTyped DEF Typed
      <3>4. logged' \in [qpc : Nat, csv : Nat]
        <4>1. \/ logged' = logged
              \/ logged' = [qpc |-> batch[1].qpc,
                            csv |-> IF recording THEN gRecordingCount ELSE 0]
          BY <2>5 DEF AddPresent, NotRecorded
        <4>2. (IF recording THEN gRecordingCount ELSE 0) \in Nat
          BY DEF Typed
        <4>. QED  BY <3>1, <4>1, <4>2 DEF Typed
      <3>. QED  BY <2>5, <3>1, <3>3, <3>4 DEF Typed, AddPresent, eventsUnchanged
    <2>6. CASE HandleTerminatedProcess
      <3>1. /\ terminated[1] \in Timed /\ terminated[1].pid \in Pids
            /\ Tail(terminated) \in Seq(Timed)
        BY <2>6, FirstTyped DEF Typed, HandleTerminatedProcess, PastExit, ExitIsNext
      <3>2. gProcesses' \in [Pids -> ProcessInfo \cup {NoEntry}]
        BY <2>6, <3>1 DEF Typed, HandleTerminatedProcess
      <3>. QED  BY <2>6, <3>1, <3>2 DEF Typed, HandleTerminatedProcess, eventsUnchanged
    <2>7. CASE ToggleRecording
      <3>1. Tail(history) \in Seq(Nat)
        BY <2>7, TailedSeq DEF Typed, ToggleRecording, PastToggle, ToggleIsNext
      <3>. QED  BY <2>7, <3>1 DEF Typed, ToggleRecording, eventsUnchanged, processVars
    <2>8. CASE FinishEvents
      <3>1. SubSeq(toggles, handled + 1, Len(toggles)) \in Seq(Nat)
        <4>1. \A i \in handled + 1..Len(toggles) : toggles[i] \in Nat
          BY LenProperties DEF Typed
        <4>2. handled + 1 \in Int /\ Len(toggles) \in Int
          BY LenProperties DEF Typed
        <4>. QED  BY <4>1, <4>2, SubSeqProperties
      <3>. QED  BY <1>2, <2>8, <3>1 DEF Typed, FinishEvents, Goto, processVars
    <2>9. CASE CheckForTerminatedRealtimeProcesses
      <3>. DEFINE exited == {p \in Pids : /\ gProcesses[p] # NoEntry /\ gProcesses[p].handle
                                          /\ life[p] = "exited"}
      <3>1. terminated' \in Seq(Timed)
        <4>1. SetToSeq({ExitEvent(p, now) : p \in exited}) \in Seq(Timed)
          BY NoticedExits
        <4>. QED  BY <2>9, <4>1, JoinedSeq DEF Typed, CheckForTerminatedRealtimeProcesses
      <3>2. \A p \in exited : [gProcesses[p] EXCEPT !.handle = FALSE] \in ProcessInfo
        BY DEF Typed, ProcessInfo
      <3>3. gProcesses' \in [Pids -> ProcessInfo \cup {NoEntry}]
        BY <2>9, <3>2 DEF Typed, CheckForTerminatedRealtimeProcesses
      <3>. QED  BY <2>9, <3>1, <3>3 DEF Typed, CheckForTerminatedRealtimeProcesses, Goto, localVars
    <2>10. CASE Finish
      BY <2>10 DEF Typed, Finish, Goto, localVars
    <2>. QED  BY <2>1, <2>2, <2>3, <2>4, <2>5, <2>6, <2>7, <2>8, <2>9, <2>10 DEF Output
  <1>. QED  BY <1>1, <1>3 DEF Typed, switchVars

LEMMA TypedKeeps ==
    ASSUME Typed, Next
    PROVE  Typed'
  BY Steps, ConsumerTyped, SwitchingTyped, OutputTyped

-----------------------------------------------------------------------------
(* Nothing comes once the output thread has been told to quit.             *)

LEMMA QuittingKeeps ==
    ASSUME Typed, Quitting, Next
    PROVE  Quitting'
  <1>1. CASE Consumer
    <2>1. UNCHANGED <<toggles, gQuit, opc, localVars>>
      BY <1>1, ConsumerLeaves
    <2>2. /\ consumer = "ended" => consumer' = "ended"
          /\ consumer = "ended" => UNCHANGED <<mPresentEvents, mProcessEvents>>
      BY <1>1 DEF Consumer, Consume, StartProcess, ExitProcess, StartPresent, CompletePresent,
                  LosePresent, EndConsumer
    <2>. QED  BY <2>1, <2>2 DEF Quitting, localVars
  <1>2. CASE Switching
    <2>1. UNCHANGED <<consumerVars, opc, localVars>>
      BY <1>2, SwitchingLeaves
    <2>2. gQuit' => consumer = "ended"
      BY <1>2 DEF Switching, SetOutputRecordingState, ShutDown, Press, Assign, LookAway, Look,
                  Push, Close, SetQuit, JoinOutput, switchUnchanged, Quitting
    <2>3. gQuit => gQuit'
      BY <1>2 DEF Switching, SetOutputRecordingState, ShutDown, Press, Assign, LookAway, Look,
                  Push, Close, SetQuit, JoinOutput, switchUnchanged
    <2>4. Len(toggles) \in Nat /\ Len(toggles') \in Nat /\ Len(toggles) <= Len(toggles')
      <3>1. Len(toggles) \in Nat
        BY LenProperties DEF Typed
      <3>2. ASSUME NEW t \in {main, ctrl}, Push(t)
            PROVE  Len(toggles') \in {Len(toggles), Len(toggles) + 1}
        <4>1. treq[t].qpc \in Nat
          BY DEF Typed, Request
        <4>. QED  BY <3>2, <4>1, AppendedSeq DEF Push, Typed
      <3>3. \/ toggles' = toggles
            \/ \E t \in {main, ctrl} : Push(t)
        BY <1>2, SetupTyped DEF Switching, SetOutputRecordingState, ShutDown, Press, Assign,
           LookAway, Look, Close, SetQuit, JoinOutput
      <3>. QED  BY <3>1, <3>2, <3>3
    <2>5. handled \in Nat /\ Len(history) \in Nat
      BY LenProperties DEF Typed
    <2>6. handled' + Len(history') <= Len(toggles')
      BY <2>1, <2>4, <2>5 DEF Quitting, localVars
    <2>. QED  BY <2>1, <2>2, <2>3, <2>6 DEF Quitting, consumerVars, localVars
  <1>3. CASE Output
    <2>1. UNCHANGED <<consumer, gQuit>>
      BY <1>3, OutputLeaves
    <2>2. CASE ReadQuit
      BY <2>1, <2>2 DEF ReadQuit, Goto, Quitting
    <2>3. CASE DequeueProcessEvents
      BY <2>1, <2>3 DEF DequeueProcessEvents, Goto, Quitting
    <2>4. CASE DequeuePresentEvents
      BY <2>1, <2>4 DEF DequeuePresentEvents, Goto, Quitting
    <2>5. CASE CopyToggles
      <3>1. Len(toggles) \in Nat
        BY LenProperties DEF Typed
      <3>. QED  BY <2>1, <2>5, <3>1 DEF CopyToggles, Goto, Quitting
    <2>6. CASE AddPresent \/ HandleTerminatedProcess
      BY <2>1, <2>6 DEF AddPresent, HandleTerminatedProcess, eventsUnchanged, Quitting
    <2>7. CASE ToggleRecording
      <3>1. Len(Tail(history)) = Len(history) - 1 /\ Len(history) \in Nat \ {0} /\ handled \in Nat
        BY <2>7, TailedSeq DEF ToggleRecording, PastToggle, ToggleIsNext, Typed
      <3>2. Len(toggles) \in Nat
        BY LenProperties DEF Typed
      <3>. QED  BY <2>1, <2>7, <3>1, <3>2 DEF ToggleRecording, eventsUnchanged, Quitting
    <2>8. CASE FinishEvents
      <3>1. Len(toggles') \in Nat
        BY <1>3, TypedKeeps, LenProperties DEF Typed, Next
      <3>2. handled' = 0 /\ history' = <<>>
        BY <2>8 DEF FinishEvents
      <3>3. handled' + Len(history') <= Len(toggles')
        BY <3>1, <3>2
      <3>. QED  BY <2>1, <2>8, <3>3 DEF FinishEvents, Goto, Quitting
    <2>9. CASE CheckForTerminatedRealtimeProcesses \/ Finish
      BY <2>1, <2>9 DEF CheckForTerminatedRealtimeProcesses, Finish, Goto, localVars, Quitting
    <2>. QED  BY <1>3, <2>2, <2>3, <2>4, <2>5, <2>6, <2>7, <2>8, <2>9 DEF Output
  <1>. QED  BY <1>1, <1>2, <1>3, Steps

-----------------------------------------------------------------------------
(* Times.                                                                  *)

\* The output thread only takes presents.
LEMMA QueuesMove ==
    ASSUME Typed, Output
    PROVE  ToSet(mPresentEvents') \cup ToSet(batch') \subseteq ToSet(mPresentEvents) \cup ToSet(batch)
  <1>1. CASE DequeuePresentEvents
    BY <1>1, EmptyIsEmpty DEF DequeuePresentEvents
  <1>2. CASE AddPresent
    <2>1. ToSet(Tail(batch)) \subseteq ToSet(batch)
      BY <1>2, TailedSeq DEF AddPresent, Typed
    <2>. QED  BY <1>2, <2>1 DEF AddPresent, eventsUnchanged
  <1>. QED  BY <1>1, <1>2 DEF Output, ReadQuit, DequeueProcessEvents, CopyToggles,
            HandleTerminatedProcess, ToggleRecording, FinishEvents,
            CheckForTerminatedRealtimeProcesses, Finish, eventsUnchanged, localVars

\* The present time is that of the youngest presents; the others only move on.
LEMMA PendingMoves ==
    ASSUME Typed, Quitting, Next
    PROVE  /\ now <= now'
           /\ \A r \in Pending' :
                \/ r \in Pending
                \/ /\ r.qpc = now /\ r.pid \in Pids /\ life[r.pid] = "running"
                   /\ UNCHANGED <<now, life, mPresentEvents, batch>>
  <1>1. CASE Consumer
    <2>1. batch' = batch
      BY <1>1, ConsumerLeaves DEF localVars
    <2>2. ASSUME NEW p \in Pids, StartPresent(p)
          PROVE  /\ now' = now /\ life' = life /\ mPresentEvents' = mPresentEvents
                 /\ inflight' = inflight \cup {[pid |-> p, qpc |-> now]} /\ life[p] = "running"
      BY <2>2 DEF StartPresent
    <2>3. ASSUME NEW r \in inflight, CompletePresent(r)
          PROVE  /\ now' = now /\ inflight' \subseteq inflight
                 /\ ToSet(mPresentEvents') = ToSet(mPresentEvents) \cup {r}
      BY <2>3, AppendedSeq DEF CompletePresent, Typed
    <2>4. ASSUME NEW r \in inflight, LosePresent(r)
          PROVE  now' = now /\ inflight' \subseteq inflight /\ mPresentEvents' = mPresentEvents
      BY <2>4 DEF LosePresent
    <2>5. ASSUME \/ \E p \in Pids : StartProcess(p) \/ ExitProcess(p)
                 \/ EndConsumer
          PROVE  now <= now' /\ inflight' = inflight /\ mPresentEvents' = mPresentEvents
      BY <2>5 DEF StartProcess, ExitProcess, EndConsumer, Typed
    <2>6. now \in Nat
      BY DEF Typed
    <2>7. CASE \E p \in Pids : StartPresent(p)
      BY <2>1, <2>2, <2>6, <2>7 DEF Pending
    <2>8. CASE \E r \in inflight : CompletePresent(r) \/ LosePresent(r)
      BY <2>1, <2>3, <2>4, <2>6, <2>8 DEF Pending
    <2>9. CASE (\E p \in Pids : StartProcess(p) \/ ExitProcess(p)) \/ EndConsumer
      BY <2>1, <2>5, <2>9 DEF Pending
    <2>. QED  BY <1>1, <2>7, <2>8, <2>9 DEF Consumer, Consume
  <1>2. CASE Switching
    <2>1. UNCHANGED <<inflight, mPresentEvents, batch>>
      BY <1>2, SwitchingLeaves DEF consumerVars, localVars
    <2>2. now <= now'
      BY <1>2, SetupTyped DEF Switching, SetOutputRecordingState, ShutDown, Press, Assign, LookAway,
         Look, Push, Close, SetQuit, JoinOutput, Typed
    <2>. QED  BY <2>1, <2>2 DEF Pending
  <1>3. CASE Output
    <2>1. now <= now' /\ inflight' = inflight
      BY <1>3, OutputLeaves DEF Typed
    <2>2. ToSet(mPresentEvents') \cup ToSet(batch') \subseteq ToSet(mPresentEvents) \cup ToSet(batch)
      BY <1>3, QueuesMove
    <2>. QED  BY <2>1, <2>2 DEF Pending
  <1>. QED  BY <1>1, <1>2, <1>3, Steps

\* The steps that move exits, or the starts along with them.
LEMMA ExitsMove ==
    ASSUME Next
    PROVE  \/ \E p \in Pids : StartProcess(p) \/ ExitProcess(p)
           \/ DequeueProcessEvents \/ CopyToggles \/ HandleTerminatedProcess
           \/ CheckForTerminatedRealtimeProcesses
           \/ UNCHANGED <<mProcessEvents, newProcesses, terminated, gone, life>>
  <1>1. CASE Consumer
    BY <1>1, ConsumerLeaves DEF Consumer, Consume, StartPresent, CompletePresent, LosePresent,
       EndConsumer, localVars, processVars
  <1>2. CASE Switching
    BY <1>2, SwitchingLeaves DEF consumerVars, localVars, processVars
  <1>3. CASE Output
    BY <1>3, OutputLeaves DEF Output, ReadQuit, DequeuePresentEvents, AddPresent, ToggleRecording,
       FinishEvents, Finish, eventsUnchanged, localVars, processVars
  <1>. QED  BY <1>1, <1>2, <1>3, Steps

LEMMA SomeExits ==
    ASSUME Typed
    PROVE  mProcessEvents.exits \in Seq(Timed) /\ newProcesses.exits \in Seq(Timed)
           /\ mProcessEvents.starts \subseteq Pids /\ newProcesses.starts \subseteq Pids
           /\ NoEvents.exits = <<>> /\ NoEvents.starts = {}
  BY DEF Typed, SomeEvents, NoEvents

LEMMA QueuedTyped ==
    ASSUME Typed
    PROVE  Queued \subseteq Timed /\ \A e \in Queued : e.pid \in ExitQueued
  <1>1. /\ terminated \in Seq(Timed) /\ newProcesses.exits \in Seq(Timed)
        /\ mProcessEvents.exits \in Seq(Timed)
    BY SomeExits DEF Typed
  <1>2. ASSUME NEW s \in Seq(Timed)
        PROVE  ToSet(s) \subseteq Timed /\ \A e \in ToSet(s) : e.pid \in PidsOf(s)
    BY LenProperties, ElementOfSeq DEF ToSet, PidsOf
  <1>. QED  BY <1>1, <1>2 DEF Queued, ExitQueued

\* An exit that is new is that of a process that exits now, or one noticed now.
LEMMA QueuedMoves ==
    ASSUME Typed, Next
    PROVE  \A e \in Queued' :
             \/ e \in Queued
             \/ /\ e.qpc = now + 1 /\ now' = now + 1
                /\ UNCHANGED <<inflight, mPresentEvents, batch>>
             \/ /\ e.qpc = now /\ life[e.pid] = "exited"
                /\ UNCHANGED <<now, life, inflight, mPresentEvents, batch>>
  <1>1. ASSUME NEW p \in Pids, StartProcess(p) PROVE Queued' = Queued
    BY <1>1 DEF StartProcess, consumerUnchanged, localVars, processVars, Typed, SomeEvents, Queued
  <1>2. ASSUME NEW p \in Pids, ExitProcess(p)
        PROVE  /\ \A e \in Queued' : e \in Queued \/ e.qpc = now + 1
               /\ now' = now + 1 /\ UNCHANGED <<inflight, mPresentEvents, batch>>
    <2>. DEFINE x == ExitEvent(p, now + 1)
    <2>1. /\ UNCHANGED <<terminated, newProcesses, inflight, mPresentEvents, batch>>
          /\ now' = now + 1
      BY <1>2 DEF ExitProcess, consumerUnchanged, localVars, processVars
    <2>2. CASE setup.etl
      <3>1. x \in Timed /\ x.qpc = now + 1
        BY DEF ExitEvent, Timed, Typed
      <3>2. mProcessEvents'.exits = Append(mProcessEvents.exits, x)
        BY <1>2, <2>2 DEF ExitProcess, Typed, SomeEvents
      <3>3. ToSet(mProcessEvents'.exits) = ToSet(mProcessEvents.exits) \cup {x}
        BY <3>1, <3>2, SomeExits, AppendedSeq
      <3>. QED  BY <2>1, <3>1, <3>3 DEF Queued
    <2>3. CASE ~setup.etl
      BY <1>2, <2>1, <2>3 DEF ExitProcess, Queued
    <2>. QED  BY <2>2, <2>3
  <1>3. CASE DequeueProcessEvents
    BY <1>3, SomeExits, EmptyIsEmpty DEF DequeueProcessEvents, processVars, Queued
  <1>4. CASE CopyToggles
    <2>1. terminated' = terminated \o newProcesses.exits
      BY <1>4 DEF CopyToggles, UpdateProcesses
    <2>2. ToSet(terminated') = ToSet(terminated) \cup ToSet(newProcesses.exits)
      BY <2>1, SomeExits, JoinedSet DEF Typed
    <2>. QED  BY <1>4, <2>2, SomeExits, EmptyIsEmpty DEF CopyToggles, Queued
  <1>5. CASE HandleTerminatedProcess
    <2>1. ToSet(Tail(terminated)) \subseteq ToSet(terminated)
      BY <1>5, TailedSeq DEF HandleTerminatedProcess, PastExit, ExitIsNext, Typed
    <2>. QED  BY <1>5, <2>1 DEF HandleTerminatedProcess, eventsUnchanged, Queued
  <1>6. CASE CheckForTerminatedRealtimeProcesses
    <2>. DEFINE exited == {p \in Pids : /\ gProcesses[p] # NoEntry /\ gProcesses[p].handle
                                        /\ life[p] = "exited"}
                s == SetToSeq({ExitEvent(p, now) : p \in exited})
    <2>1. /\ s \in Seq(Timed) /\ PidsOf(s) \subseteq exited
          /\ \A i \in DOMAIN s : s[i].qpc = now
      BY NoticedExits
    <2>2. /\ terminated' = terminated \o s
          /\ UNCHANGED <<mProcessEvents, newProcesses, now, life, inflight, mPresentEvents, batch>>
      BY <1>6 DEF CheckForTerminatedRealtimeProcesses, localVars, outputUnchanged
    <2>. HIDE DEF s
    <2>3. ToSet(terminated') = ToSet(terminated) \cup ToSet(s)
      BY <2>1, <2>2, JoinedSet DEF Typed
    <2>4. \A e \in ToSet(s) : e.qpc = now /\ e.pid \in exited
      BY <2>1 DEF ToSet, PidsOf
    <2>. QED  BY <2>2, <2>3, <2>4 DEF Queued
  <1>7. CASE UNCHANGED <<mProcessEvents, newProcesses, terminated>>
    BY <1>7 DEF Queued
  <1>. QED  BY <1>1, <1>2, <1>3, <1>4, <1>5, <1>6, <1>7, ExitsMove

LEMMA PushTyped ==
    ASSUME Typed, NEW t \in {main, ctrl}, Push(t)
    PROVE  /\ treq[t] \in Request /\ treq[t].qpc \in Nat
           /\ ToSet(switches') = ToSet(switches) \cup {treq[t]}
           /\ ToSet(toggles') \subseteq ToSet(toggles) \cup {treq[t].qpc}
  <1>1. treq[t] \in Request /\ treq[t].qpc \in Nat
    BY DEF Typed, Request
  <1>2. ToSet(switches') = ToSet(switches) \cup {treq[t]}
    BY <1>1, AppendedSeq DEF Push, Typed
  <1>3. ToSet(toggles') \subseteq ToSet(toggles) \cup {treq[t].qpc}
    <2>1. toggles' = IF setup.etl THEN toggles ELSE Append(toggles, treq[t].qpc)
      BY DEF Push
    <2>. DEFINE N == Nat
    <2>2. toggles \in Seq(N) /\ treq[t].qpc \in N
      BY <1>1 DEF Typed
    <2>. HIDE DEF N
    <2>3. ToSet(Append(toggles, treq[t].qpc)) = ToSet(toggles) \cup {treq[t].qpc}
      BY <2>2, AppendedSeq
    <2>. QED  BY <2>1, <2>3
  <1>. QED  BY <1>1, <1>2, <1>3

LEMMA LookTyped ==
    ASSUME Typed, NEW t \in {main, ctrl}, Look(t)
    PROVE  /\ treq'[t].qpc = now + 1 /\ now' = now + 1 /\ treq'[t].on = treq[t].on
           /\ \A u \in {main, ctrl} : u # t => treq'[u] = treq[u]
  BY DEF Look, Typed

LEMMA PressTyped ==
    ASSUME Typed, NEW t \in {main, ctrl}, Press(t)
    PROVE  \A u \in {main, ctrl} : treq'[u].qpc = treq[u].qpc
  <1>1. \/ treq' = [treq EXCEPT ![t] = [on |-> ~isRecording, qpc |-> treq[t].qpc]]
        \/ treq' = treq
    BY DEF Press
  <1>2. DOMAIN treq = {main, ctrl}
    BY DEF Typed
  <1>3. ASSUME NEW u \in {main, ctrl} PROVE treq'[u].qpc = treq[u].qpc
    <2>1. CASE u = t
      BY <1>1, <1>2, <2>1
    <2>2. CASE u # t
      BY <1>1, <1>2, <2>2
    <2>. QED  BY <2>1, <2>2
  <1>. QED  BY <1>3

\* The history loses its front, and only there.
LEMMA FinishTyped ==
    ASSUME Typed, Quitting, FinishEvents
    PROVE  /\ Len(toggles') = Len(toggles) - handled
           /\ Len(toggles) \in Nat /\ handled \in Nat /\ handled <= Len(toggles)
           /\ \A i \in 1..Len(toggles) - handled : toggles'[i] = toggles[handled + i]
           /\ ToSet(toggles') \subseteq ToSet(toggles)
  <1>1. /\ handled \in Nat /\ Len(toggles) \in Nat /\ DOMAIN toggles = 1..Len(toggles)
        /\ \A i \in handled + 1..Len(toggles) : toggles[i] \in Nat
    BY LenProperties DEF Typed
  <1>2. handled <= Len(toggles)
    BY <1>1, LenProperties DEF Typed, Quitting
  <1>. DEFINE h == SubSeq(toggles, handled + 1, Len(toggles))
  <1>3. toggles' = h
    BY DEF FinishEvents
  <1>4. /\ h \in Seq(Nat)
        /\ Len(h) = IF handled + 1 <= Len(toggles) THEN Len(toggles) - (handled + 1) + 1 ELSE 0
        /\ \A i \in 1..Len(toggles) - (handled + 1) + 1 : h[i] = toggles[handled + 1 + i - 1]
    <2>1. handled + 1 \in Int /\ Len(toggles) \in Int
      BY <1>1
    <2>. QED  BY <1>1, <2>1, SubSeqProperties
  <1>. HIDE DEF h
  <1>5. Len(h) = Len(toggles) - handled
    <2>1. CASE handled = Len(toggles)
      BY <1>1, <1>4, <2>1
    <2>2. CASE handled < Len(toggles)
      <3>1. handled + 1 <= Len(toggles)
        BY <1>1, <2>2
      <3>2. Len(h) = Len(toggles) - (handled + 1) + 1
        BY <1>4, <3>1
      <3>. QED  BY <1>1, <3>2
    <2>3. handled = Len(toggles) \/ handled < Len(toggles)
      <3>1. handled \in Int /\ Len(toggles) \in Int
        BY <1>1
      <3>. QED  BY <1>2, <3>1
    <2>. QED  BY <2>1, <2>2, <2>3
  <1>6. DOMAIN h = 1..Len(toggles) - handled
    BY <1>4, <1>5, LenProperties
  <1>7. \A i \in 1..Len(toggles) - handled : h[i] = toggles[handled + i]
    <2>1. ASSUME NEW i \in 1..Len(toggles) - handled PROVE h[i] = toggles[handled + i]
      <3>1. handled + 1 + i - 1 = handled + i /\ i \in 1..Len(toggles) - (handled + 1) + 1
        BY <1>1
      <3>. QED  BY <1>4, <3>1
    <2>. QED  BY <2>1
  <1>8. ToSet(h) \subseteq ToSet(toggles)
    <2>1. \A i \in DOMAIN h : handled + i \in DOMAIN toggles
      BY <1>1, <1>2, <1>6
    <2>. QED  BY <1>6, <1>7, <2>1 DEF ToSet
  <1>. QED  BY <1>1, <1>2, <1>3, <1>5, <1>7, <1>8

\* One more present is dealt with, and is the last one logged or not.
LEMMA AddTyped ==
    ASSUME Typed, AddPresent
    PROVE  /\ batch[1] \in Timed /\ batch[1].qpc \in Nat /\ batch[1].pid \in Pids
           /\ batch[1] \in ToSet(batch) /\ batch[1] \in Pending
           /\ \/ logged' = logged
              \/ logged' = [qpc |-> batch[1].qpc,
                            csv |-> IF recording THEN gRecordingCount ELSE NotRecorded]
  <1>1. batch # <<>>
    BY DEF AddPresent
  <1>2. batch[1] \in Timed /\ batch[1].qpc \in Nat /\ batch[1].pid \in Pids /\ batch[1] \in ToSet(batch)
    BY <1>1, FirstTyped, TailedSeq DEF Typed
  <1>3. \/ logged' = logged
        \/ logged' = [qpc |-> batch[1].qpc,
                      csv |-> IF recording THEN gRecordingCount ELSE NotRecorded]
    BY DEF AddPresent
  <1>. QED  BY <1>2, <1>3 DEF Pending

\* The steps that move toggles and switches, or log a present.
LEMMA SwitchesMove ==
    ASSUME Next
    PROVE  \/ \E t \in setup.switchers : Press(t) \/ Look(t) \/ Push(t)
           \/ AddPresent \/ FinishEvents
           \/ UNCHANGED <<toggles, switches, treq, logged>>
  <1>1. CASE Consumer
    BY <1>1, ConsumerLeaves DEF switchVars
  <1>2. CASE Switching
    BY <1>2, SwitchingLeaves DEF Switching, SetOutputRecordingState, ShutDown, Assign, LookAway,
       Close, SetQuit, JoinOutput
  <1>3. CASE Output
    BY <1>3, OutputLeaves DEF Output, ReadQuit, DequeueProcessEvents, DequeuePresentEvents,
       CopyToggles, HandleTerminatedProcess, ToggleRecording, CheckForTerminatedRealtimeProcesses,
       Finish, eventsUnchanged, switchVars
  <1>. QED  BY <1>1, <1>2, <1>3, Steps

LEMMA PastKeeps ==
    ASSUME Typed, Quitting, Past, Next
    PROVE  Past'
  <1>1. now \in Nat /\ now' \in Nat /\ now <= now'
    BY PendingMoves, TypedKeeps DEF Typed
  <1>2. \A r \in Pending : r.qpc \in Nat
    <2>1. Pending \subseteq Timed
      <3>1. ToSet(mPresentEvents) \subseteq Timed /\ ToSet(batch) \subseteq Timed
        BY LenProperties, ElementOfSeq DEF ToSet, Typed
      <3>. QED  BY <3>1 DEF Pending, Typed
    <2>. QED  BY <2>1 DEF Timed
  <1>3. \A r \in Pending' : r.qpc <= now'
    BY <1>1, <1>2, PendingMoves DEF Past
  <1>4. Queued \subseteq Timed
    BY QueuedTyped
  <1>5. \A e \in Queued : e.qpc \in Nat /\ e.qpc <= now
    BY <1>4 DEF Past, Timed
  <1>6. \A e \in Queued' : e \in Queued \/ e.qpc <= now'
    BY <1>1, QueuedMoves
  <1>7. \A e \in Queued' : e.qpc <= now'
    BY <1>1, <1>5, <1>6
  <1>8. \A t \in {main, ctrl} : treq[t].qpc \in Nat /\ treq[t].qpc <= now
    BY DEF Past, Typed, Request
  <1>9. \A e \in ToSet(switches) : e.qpc \in Nat /\ e.qpc <= now
    <2>1. ToSet(switches) \subseteq Request
      BY LenProperties, ElementOfSeq DEF ToSet, Typed
    <2>. QED  BY <2>1 DEF Past, Request
  <1>10. \A q \in ToSet(toggles) : q \in Nat /\ q <= now
    <2>1. ToSet(toggles) \subseteq Nat
      BY LenProperties, ElementOfSeq DEF ToSet, Typed
    <2>. QED  BY <2>1 DEF Past
  <1>11. logged.qpc \in Nat /\ logged.qpc <= now
    BY DEF Past, Typed
  <1>12. /\ \A t \in {main, ctrl} : treq'[t].qpc <= now'
         /\ \A e \in ToSet(switches') : e.qpc <= now'
         /\ \A q \in ToSet(toggles') : q <= now'
         /\ logged'.qpc <= now'
    <2>1. ASSUME NEW t \in {main, ctrl}, Press(t) PROVE <1>12
      BY <2>1, <1>1, <1>8, <1>9, <1>10, <1>11, PressTyped, SwitchingLeaves DEF Press, switchUnchanged
    <2>2. ASSUME NEW t \in {main, ctrl}, Look(t) PROVE <1>12
      BY <2>2, <1>1, <1>8, <1>9, <1>10, <1>11, LookTyped DEF Look, switchUnchanged
    <2>3. ASSUME NEW t \in {main, ctrl}, Push(t) PROVE <1>12
      BY <2>3, <1>1, <1>8, <1>9, <1>10, <1>11, PushTyped DEF Push, switchUnchanged
    <2>4. CASE AddPresent
      <3>1. logged'.qpc \in {logged.qpc, batch[1].qpc} /\ batch[1] \in Pending
        BY <2>4, AddTyped
      <3>2. logged'.qpc <= now'
        BY <1>1, <1>2, <1>11, <3>1 DEF Past
      <3>3. UNCHANGED <<treq, switches, toggles, now>>
        BY <2>4 DEF AddPresent, eventsUnchanged, outputUnchanged, switchVars
      <3>. QED  BY <3>2, <3>3, <1>8, <1>9, <1>10
    <2>5. CASE FinishEvents
      <3>1. UNCHANGED <<treq, switches, now, logged>>
        BY <2>5 DEF FinishEvents, outputUnchanged, switchVars
      <3>. QED  BY <2>5, <3>1, <1>8, <1>9, <1>10, <1>11, FinishTyped
    <2>6. CASE UNCHANGED <<toggles, switches, treq, logged>>
      BY <2>6, <1>1, <1>8, <1>9, <1>10, <1>11
    <2>. QED  BY <2>1, <2>2, <2>3, <2>4, <2>5, <2>6, SwitchesMove, SetupTyped
  <1>. QED  BY <1>3, <1>7, <1>12 DEF Past

-----------------------------------------------------------------------------
(* Each exit is noticed once.                                              *)

\* The steps that change the process table.
LEMMA TableMoves ==
    ASSUME Next
    PROVE  \/ AddPresent \/ Finish \/ CopyToggles \/ HandleTerminatedProcess
           \/ CheckForTerminatedRealtimeProcesses
           \/ UNCHANGED <<gProcesses, gTargetProcessCount>>
  <1>1. CASE Consumer \/ Switching
    BY <1>1, ConsumerLeaves, SwitchingLeaves DEF processVars
  <1>2. CASE Output
    BY <1>2 DEF Output, ReadQuit, DequeueProcessEvents, DequeuePresentEvents, ToggleRecording,
       FinishEvents, processVars
  <1>. QED  BY <1>1, <1>2, Steps

LEMMA SetupStays ==
    ASSUME Next
    PROVE  setup' = setup
  BY Steps, ConsumerLeaves, SwitchingLeaves, OutputLeaves

\* What UpdateProcesses and GetProcessInfo enter.
LEMMA EntersStarted ==
    ASSUME Typed, UpdateProcesses, NEW p \in Pids
    PROVE  \/ gProcesses'[p] = gProcesses[p]
           \/ /\ gProcesses[p] = NoEntry /\ p \in newProcesses.starts
              /\ gProcesses'[p] = [handle |-> FALSE, named |-> TRUE,
                                   target |-> IsTargetProcess(p, TRUE)]
              /\ gProcesses'[p] # NoEntry /\ ~gProcesses'[p].handle
  <1>1. [handle |-> FALSE, named |-> TRUE, target |-> IsTargetProcess(p, TRUE)] # NoEntry
    <2>1. [handle |-> FALSE, named |-> TRUE, target |-> IsTargetProcess(p, TRUE)] \in ProcessInfo
      BY DEF ProcessInfo, IsTargetProcess
    <2>. QED  BY <2>1, SetupTyped
  <1>. QED  BY <1>1 DEF UpdateProcesses

LEMMA EntersPresenting ==
    ASSUME Typed, AddPresent, NEW p \in Pids
    PROVE  \/ gProcesses'[p] = gProcesses[p]
           \/ /\ gProcesses[p] = NoEntry /\ p = batch[1].pid /\ gProcesses'[p] # NoEntry
              /\ gProcesses'[p].handle => ~setup.etl /\ life[p] = "running"
  <1>1. batch[1].pid \in Pids
    BY AddTyped
  <1>2. PICK e \in Entries(batch[1].pid) : gProcesses' = [gProcesses EXCEPT ![batch[1].pid] = e]
    BY DEF AddPresent
  <1>3. gProcesses'[batch[1].pid] = e
    BY <1>1, <1>2 DEF Typed
  <1>4. CASE p = batch[1].pid
    BY <1>1, <1>2, <1>3, <1>4, EntryTyped
  <1>5. CASE p # batch[1].pid
    BY <1>1, <1>2, <1>5 DEF Typed
  <1>. QED  BY <1>4, <1>5

LEMMA ExitsOnceKeeps ==
    ASSUME Typed, Quitting, ExitsOnce, Next
    PROVE  ExitsOnce'
  <1>1. setup' = setup /\ Typed'
    BY SetupStays, TypedKeeps
  <1>. DEFINE Apart ==
        /\ Once(terminated) /\ Once(newProcesses.exits) /\ Once(mProcessEvents.exits)
        /\ PidsOf(terminated) \cap PidsOf(newProcesses.exits) = {}
        /\ PidsOf(terminated) \cap PidsOf(mProcessEvents.exits) = {}
        /\ PidsOf(newProcesses.exits) \cap PidsOf(mProcessEvents.exits) = {}
        /\ \A p \in ExitQueued \cup gone : life[p] = "exited"
              Realtime ==
        ~setup.etl => /\ mProcessEvents = NoEvents /\ newProcesses = NoEvents
                      /\ \A p \in Pids : life[p] # "new"
              Handles ==
        \A p \in Pids : gProcesses[p] # NoEntry /\ gProcesses[p].handle =>
          ~setup.etl /\ p \notin PidsOf(terminated)
  <1>2. Apart /\ Realtime /\ Handles
    BY DEF ExitsOnce
  <1>3. /\ terminated \in Seq(Timed) /\ newProcesses.exits \in Seq(Timed)
        /\ mProcessEvents.exits \in Seq(Timed)
        /\ NoEvents.exits = <<>> /\ PidsOf(<<>>) = {} /\ Once(<<>>)
    BY SomeExits, EmptyIsEmpty DEF Typed
  <1>4. Apart' /\ Realtime'
    <2>1. ASSUME NEW p \in Pids, StartProcess(p) PROVE <1>4
      <3>1. /\ UNCHANGED <<terminated, newProcesses, gone>>
            /\ mProcessEvents'.exits = mProcessEvents.exits
            /\ life[p] = "new" /\ life' = [life EXCEPT ![p] = "running"]
        BY <2>1 DEF StartProcess, consumerUnchanged, localVars, processVars, Typed, SomeEvents
      <3>2. ExitQueued' = ExitQueued
        BY <3>1 DEF ExitQueued
      <3>3. \A q \in ExitQueued \cup gone : life'[q] = "exited"
        BY <1>2, <3>1 DEF Typed
      <3>4. setup.etl
        BY <1>2, <3>1
      <3>. QED  BY <1>1, <1>2, <3>1, <3>2, <3>3, <3>4
    <2>2. ASSUME NEW p \in Pids, ExitProcess(p) PROVE <1>4
      <3>1. /\ UNCHANGED <<terminated, newProcesses, gone>>
            /\ life[p] = "running" /\ life' = [life EXCEPT ![p] = "exited"]
        BY <2>2 DEF ExitProcess, consumerUnchanged, localVars, processVars
      <3>2. /\ life'[p] = "exited" /\ \A q \in Pids : q # p => life'[q] = life[q]
            /\ \A q \in Pids : life[q] # "new" => life'[q] # "new"
        BY <3>1 DEF Typed
      <3>3. p \notin ExitQueued \cup gone
        BY <1>2, <3>1
      <3>4. ExitQueued \cup gone \subseteq Pids
        BY <1>3, PidsTyped DEF ExitQueued, Typed
      <3>5. CASE setup.etl
        <4>. DEFINE e == ExitEvent(p, now + 1)
        <4>1. e \in Timed /\ e.pid = p
          BY DEF ExitEvent, Timed, Typed
        <4>2. mProcessEvents'.exits = Append(mProcessEvents.exits, e)
          BY <2>2, <3>5 DEF ExitProcess, Typed, SomeEvents
        <4>. HIDE DEF e
        <4>3. /\ PidsOf(mProcessEvents'.exits) = PidsOf(mProcessEvents.exits) \cup {p}
              /\ Once(mProcessEvents'.exits)
          BY <1>2, <1>3, <3>3, <4>1, <4>2, PidsAppend DEF ExitQueued
        <4>4. ExitQueued' = ExitQueued \cup {p}
          BY <3>1, <4>3 DEF ExitQueued
        <4>5. \A q \in ExitQueued' \cup gone' : life'[q] = "exited"
          BY <1>2, <3>1, <3>2, <3>4, <4>4
        <4>. QED  BY <1>1, <1>2, <3>1, <3>3, <3>5, <4>3, <4>5 DEF ExitQueued
      <3>6. CASE ~setup.etl
        <4>1. mProcessEvents' = mProcessEvents
          BY <2>2, <3>6 DEF ExitProcess
        <4>2. ExitQueued' = ExitQueued
          BY <3>1, <4>1 DEF ExitQueued
        <4>3. \A q \in ExitQueued' \cup gone' : life'[q] = "exited"
          BY <1>2, <3>1, <3>2, <3>4, <4>2
        <4>. QED  BY <1>1, <1>2, <3>1, <3>2, <4>1, <4>3
      <3>. QED  BY <3>5, <3>6, SetupTyped
    <2>3. CASE DequeueProcessEvents
      <3>1. /\ UNCHANGED <<terminated, gone, life>>
            /\ newProcesses' = mProcessEvents /\ mProcessEvents' = NoEvents
        BY <2>3 DEF DequeueProcessEvents, processVars, outputUnchanged
      <3>2. ExitQueued' \subseteq ExitQueued
        BY <1>3, <3>1 DEF ExitQueued
      <3>. QED  BY <1>1, <1>2, <1>3, <3>1, <3>2
    <2>4. CASE CopyToggles
      <3>1. /\ UNCHANGED <<mProcessEvents, gone, life>> /\ newProcesses' = NoEvents
            /\ terminated' = terminated \o newProcesses.exits
        BY <2>4 DEF CopyToggles, UpdateProcesses, outputUnchanged
      <3>2. /\ PidsOf(terminated') = PidsOf(terminated) \cup PidsOf(newProcesses.exits)
            /\ Once(terminated')
        BY <1>2, <1>3, <3>1, PidsJoin
      <3>3. ExitQueued' = ExitQueued
        BY <1>3, <3>1, <3>2 DEF ExitQueued
      <3>. QED  BY <1>1, <1>2, <1>3, <3>1, <3>2, <3>3
    <2>5. CASE HandleTerminatedProcess
      <3>1. /\ UNCHANGED <<mProcessEvents, newProcesses, life>> /\ terminated # <<>>
            /\ terminated' = Tail(terminated) /\ gone' = gone \cup {terminated[1].pid}
        BY <2>5 DEF HandleTerminatedProcess, PastExit, ExitIsNext, eventsUnchanged, outputUnchanged
      <3>2. /\ PidsOf(terminated') \subseteq PidsOf(terminated) /\ Once(terminated')
            /\ terminated[1].pid \in PidsOf(terminated)
        BY <1>2, <1>3, <3>1, PidsTail
      <3>3. ExitQueued' \cup gone' \subseteq ExitQueued \cup gone
        BY <3>1, <3>2 DEF ExitQueued
      <3>. QED  BY <1>1, <1>2, <3>1, <3>2, <3>3
    <2>6. CASE CheckForTerminatedRealtimeProcesses
      <3>. DEFINE exited == {p \in Pids : /\ gProcesses[p] # NoEntry /\ gProcesses[p].handle
                                          /\ life[p] = "exited"}
                  s == SetToSeq({ExitEvent(p, now) : p \in exited})
      <3>1. s \in Seq(Timed) /\ Once(s) /\ PidsOf(s) \subseteq exited
        BY NoticedExits
      <3>2. terminated' = terminated \o s /\ UNCHANGED <<mProcessEvents, newProcesses, gone, life>>
        BY <2>6 DEF CheckForTerminatedRealtimeProcesses, localVars, outputUnchanged
      <3>. HIDE DEF s
      <3>3. PidsOf(s) \cap PidsOf(terminated) = {}
        BY <1>2, <3>1
      <3>4. PidsOf(terminated') = PidsOf(terminated) \cup PidsOf(s) /\ Once(terminated')
        BY <1>2, <1>3, <3>1, <3>2, <3>3, PidsJoin
      <3>5. ExitQueued' = ExitQueued \cup PidsOf(s)
        BY <3>2, <3>4 DEF ExitQueued
      <3>6. PidsOf(s) # {} => newProcesses.exits = <<>> /\ mProcessEvents.exits = <<>>
        BY <1>2, <1>3, <3>1
      <3>7. \A q \in ExitQueued' \cup gone' : life'[q] = "exited"
        BY <1>2, <3>1, <3>2, <3>5
      <3>. QED  BY <1>1, <1>2, <1>3, <3>2, <3>4, <3>6, <3>7
    <2>7. CASE UNCHANGED <<mProcessEvents, newProcesses, terminated, gone, life>>
      <3>1. ExitQueued' = ExitQueued
        BY <2>7 DEF ExitQueued
      <3>. QED  BY <1>1, <1>2, <2>7, <3>1
    <2>. QED  BY <2>1, <2>2, <2>3, <2>4, <2>5, <2>6, <2>7, ExitsMove
  <1>5. Handles'
    <2>. SUFFICES ASSUME NEW p \in Pids, gProcesses'[p] # NoEntry, gProcesses'[p].handle
                  PROVE  ~setup.etl /\ p \notin PidsOf(terminated')
      BY <1>1
    <2>1. CASE AddPresent
      <3>1. terminated' = terminated
        BY <2>1 DEF AddPresent
      <3>2. CASE gProcesses'[p] = gProcesses[p]
        BY <1>2, <3>1, <3>2
      <3>3. CASE ~setup.etl /\ life[p] = "running"
        BY <1>2, <3>1, <3>3 DEF ExitQueued
      <3>. QED  BY <2>1, <3>2, <3>3, EntersPresenting
    <2>2. CASE Finish
      BY <2>2 DEF Finish
    <2>3. CASE CopyToggles
      <3>1. UpdateProcesses /\ terminated' = terminated \o newProcesses.exits
        BY <2>3 DEF CopyToggles, UpdateProcesses
      <3>2. gProcesses'[p] = gProcesses[p]
        BY <3>1, EntersStarted
      <3>3. ~setup.etl /\ p \notin PidsOf(terminated)
        BY <1>2, <3>2
      <3>4. PidsOf(terminated') = PidsOf(terminated) \cup PidsOf(newProcesses.exits)
        BY <1>3, <3>1, PidsJoin
      <3>. QED  BY <1>2, <1>3, <3>3, <3>4
    <2>4. CASE HandleTerminatedProcess
      <3>1. /\ terminated # <<>> /\ terminated' = Tail(terminated)
            /\ gProcesses' = [gProcesses EXCEPT ![terminated[1].pid] = NoEntry]
        BY <2>4 DEF HandleTerminatedProcess, PastExit, ExitIsNext
      <3>2. PidsOf(terminated') \subseteq PidsOf(terminated)
        BY <1>2, <1>3, <3>1, PidsTail
      <3>3. terminated[1].pid \in Pids
        BY <1>3, <3>1, FirstTyped
      <3>4. DOMAIN gProcesses = Pids
        BY DEF Typed
      <3>5. gProcesses'[p] = gProcesses[p]
        <4>1. CASE p = terminated[1].pid
          BY <3>1, <3>4, <4>1
        <4>2. CASE p # terminated[1].pid
          BY <3>1, <3>4, <4>2
        <4>. QED  BY <4>1, <4>2
      <3>. QED  BY <1>2, <3>2, <3>5
    <2>5. CASE CheckForTerminatedRealtimeProcesses
      <3>. DEFINE exited == {q \in Pids : /\ gProcesses[q] # NoEntry /\ gProcesses[q].handle
                                          /\ life[q] = "exited"}
                  s == SetToSeq({ExitEvent(q, now) : q \in exited})
      <3>1. s \in Seq(Timed) /\ Once(s) /\ PidsOf(s) \subseteq exited
        BY NoticedExits
      <3>2. /\ terminated' = terminated \o s
            /\ gProcesses' = [q \in Pids |->
                 IF q \in exited THEN [gProcesses[q] EXCEPT !.handle = FALSE] ELSE gProcesses[q]]
        BY <2>5 DEF CheckForTerminatedRealtimeProcesses
      <3>. HIDE DEF s
      <3>3. PidsOf(terminated') = PidsOf(terminated) \cup PidsOf(s)
        BY <1>3, <3>1, <3>2, PidsJoin
      <3>4. p \notin exited
        <4>. SUFFICES ASSUME p \in exited PROVE FALSE
          OBVIOUS
        <4>1. gProcesses'[p] = [gProcesses[p] EXCEPT !.handle = FALSE]
          BY <3>2
        <4>2. gProcesses[p] \in ProcessInfo
          BY DEF Typed
        <4>. QED  BY <4>1, <4>2 DEF ProcessInfo
      <3>5. gProcesses'[p] = gProcesses[p]
        BY <3>2, <3>4
      <3>. QED  BY <1>2, <3>1, <3>3, <3>4, <3>5
    <2>6. CASE UNCHANGED gProcesses /\ UNCHANGED terminated
      BY <1>2, <2>6
    <2>7. CASE UNCHANGED <<gProcesses, gTargetProcessCount>>
      <3>1. \/ terminated' = terminated
            \/ CopyToggles \/ HandleTerminatedProcess \/ CheckForTerminatedRealtimeProcesses
        BY ExitsMove DEF StartProcess, ExitProcess, consumerUnchanged, processVars,
           DequeueProcessEvents
      <3>. QED  BY <2>3, <2>4, <2>5, <2>6, <2>7, <3>1
    <2>. QED  BY <2>1, <2>2, <2>3, <2>4, <2>5, <2>7, TableMoves
  <1>. QED  BY <1>4, <1>5 DEF ExitsOnce

-----------------------------------------------------------------------------
(* The targets are counted.                                                *)

LEMMA TargetsFinite ==
    ASSUME Typed
    PROVE  /\ IsFiniteSet(Targets) /\ Cardinality(Targets) \in Nat
           /\ Cardinality(Pids) \in Nat /\ Cardinality(Targets) <= Cardinality(Pids)
  <1>1. Targets \in SUBSET Pids
    BY DEF Targets
  <1>. QED  BY <1>1, SetupTyped, FS_Subset, FS_CardinalityType

LEMMA DoneStays ==
    ASSUME opc = "done", Next
    PROVE  UNCHANGED <<opc, gTargetProcessCount>>
  <1>1. ~Output
    BY DEF Output, ReadQuit, DequeueProcessEvents, DequeuePresentEvents, CopyToggles, AddPresent,
       HandleTerminatedProcess, ToggleRecording, FinishEvents, CheckForTerminatedRealtimeProcesses,
       Finish, Goto
  <1>. QED  BY <1>1, Steps, ConsumerLeaves, SwitchingLeaves DEF processVars

LEMMA AddCounts ==
    ASSUME Typed, AddPresent, gTargetProcessCount = Cardinality(Targets)
    PROVE  gTargetProcessCount' = Cardinality(Targets')
  <1>. DEFINE p == batch[1].pid
  <1>2. PICK e \in Entries(p) :
          /\ gProcesses' = [gProcesses EXCEPT ![p] = e]
          /\ gTargetProcessCount' =
               gTargetProcessCount + IF gProcesses[p] = NoEntry /\ e.target THEN 1 ELSE 0
    BY DEF AddPresent
  <1>1. /\ p \in Pids /\ e \in ProcessInfo /\ e # NoEntry
        /\ gProcesses[p] # NoEntry => e = gProcesses[p]
    BY AddTyped, EntryTyped
  <1>. HIDE DEF p
  <1>3. gProcesses'[p] = e /\ \A q \in Pids : q # p => gProcesses'[q] = gProcesses[q]
    BY <1>1, <1>2 DEF Typed
  <1>4. CASE gProcesses[p] = NoEntry /\ e.target
    <2>1. Targets' = Targets \cup {p} /\ p \notin Targets
      BY <1>1, <1>3, <1>4 DEF Targets
    <2>2. Cardinality(Targets') = Cardinality(Targets) + 1
      BY <2>1, TargetsFinite, FS_AddElement
    <2>. QED  BY <1>2, <1>4, <2>2
  <1>5. CASE ~(gProcesses[p] = NoEntry /\ e.target)
    <2>1. Targets' = Targets
      BY <1>1, <1>3, <1>5 DEF Targets
    <2>2. gTargetProcessCount' = gTargetProcessCount + 0
      BY <1>2, <1>5
    <2>. QED  BY <2>1, <2>2, TargetsFinite
  <1>. QED  BY <1>4, <1>5

LEMMA UpdateCounts ==
    ASSUME Typed, UpdateProcesses, gTargetProcessCount = Cardinality(Targets)
    PROVE  gTargetProcessCount' = Cardinality(Targets')
  <1>. DEFINE new == {p \in newProcesses.starts : gProcesses[p] = NoEntry}
              N == {p \in new : IsTargetProcess(p, TRUE)}
  <1>1. gTargetProcessCount' = gTargetProcessCount + Cardinality(N)
    BY DEF UpdateProcesses
  <1>2. /\ newProcesses.starts \subseteq Pids
        /\ gProcesses' = [p \in Pids |->
             IF p \in new THEN [handle |-> FALSE, named |-> TRUE,
                                target |-> IsTargetProcess(p, TRUE)]
             ELSE gProcesses[p]]
    BY SomeExits DEF UpdateProcesses
  <1>3. Targets' = Targets \cup N
    <2>1. ASSUME NEW p \in Pids PROVE p \in Targets' <=> p \in Targets \cup N
      <3>1. CASE p \in new
        <4>1. gProcesses'[p] = [handle |-> FALSE, named |-> TRUE,
                                target |-> IsTargetProcess(p, TRUE)]
          BY <1>2, <3>1
        <4>2. gProcesses'[p] # NoEntry
          <5>1. gProcesses'[p] \in ProcessInfo
            BY <4>1 DEF ProcessInfo, IsTargetProcess
          <5>. QED  BY <5>1, SetupTyped
        <4>3. gProcesses'[p].target <=> IsTargetProcess(p, TRUE)
          BY <4>1
        <4>. QED  BY <3>1, <4>2, <4>3 DEF Targets
      <3>2. CASE p \notin new
        <4>1. gProcesses'[p] = gProcesses[p]
          BY <1>2, <3>2
        <4>. QED  BY <3>2, <4>1 DEF Targets
      <3>. QED  BY <3>1, <3>2
    <2>. QED  BY <1>2, <2>1 DEF Targets
  <1>4. Targets \cap N = {} /\ N \in SUBSET Pids
    BY <1>2 DEF Targets
  <1>. HIDE DEF N, new
  <1>5. IsFiniteSet(N) /\ Cardinality(N) \in Nat
    BY <1>4, SetupTyped, FS_Subset, FS_CardinalityType
  <1>6. Cardinality(Targets \cup N) =
          Cardinality(Targets) + Cardinality(N) - Cardinality(Targets \cap N)
    BY <1>5, TargetsFinite, FS_Union
  <1>7. Cardinality(Targets \cap N) = 0
    BY <1>4, FS_EmptySet
  <1>. QED  BY <1>1, <1>3, <1>5, <1>6, <1>7, TargetsFinite

LEMMA HandleCounts ==
    ASSUME Typed, HandleTerminatedProcess, gTargetProcessCount = Cardinality(Targets)
    PROVE  gTargetProcessCount' = Cardinality(Targets')
  <1>. DEFINE p == terminated[1].pid
  <1>1. p \in Pids
    BY FirstTyped DEF HandleTerminatedProcess, PastExit, ExitIsNext, Typed
  <1>2. /\ gProcesses' = [gProcesses EXCEPT ![p] = NoEntry]
        /\ gTargetProcessCount' =
             gTargetProcessCount - IF gProcesses[p] # NoEntry /\ gProcesses[p].target THEN 1 ELSE 0
    BY DEF HandleTerminatedProcess
  <1>. HIDE DEF p
  <1>3. gProcesses'[p] = NoEntry /\ \A q \in Pids : q # p => gProcesses'[q] = gProcesses[q]
    BY <1>1, <1>2 DEF Typed
  <1>4. Targets' = Targets \ {p}
    BY <1>1, <1>3 DEF Targets
  <1>5. Cardinality(Targets') = IF p \in Targets THEN Cardinality(Targets) - 1
                                ELSE Cardinality(Targets)
    BY <1>4, TargetsFinite, FS_RemoveElement
  <1>6. p \in Targets <=> gProcesses[p] # NoEntry /\ gProcesses[p].target
    BY <1>1 DEF Targets
  <1>7. CASE p \in Targets
    BY <1>2, <1>5, <1>6, <1>7
  <1>8. CASE p \notin Targets
    <2>1. gTargetProcessCount' = gTargetProcessCount - 0
      BY <1>2, <1>6, <1>8
    <2>. QED  BY <1>5, <1>8, <2>1, TargetsFinite
  <1>. QED  BY <1>7, <1>8

LEMMA CheckCounts ==
    ASSUME Typed, CheckForTerminatedRealtimeProcesses
    PROVE  Targets' = Targets /\ gTargetProcessCount' = gTargetProcessCount
  <1>. DEFINE exited == {p \in Pids : /\ gProcesses[p] # NoEntry /\ gProcesses[p].handle
                                      /\ life[p] = "exited"}
  <1>1. gProcesses' = [p \in Pids |->
          IF p \in exited THEN [gProcesses[p] EXCEPT !.handle = FALSE] ELSE gProcesses[p]]
    BY DEF CheckForTerminatedRealtimeProcesses
  <1>2. ASSUME NEW p \in Pids PROVE p \in Targets' <=> p \in Targets
    <2>1. CASE p \in exited
      <3>1. gProcesses[p] \in ProcessInfo /\ gProcesses[p] # NoEntry
        BY <2>1 DEF Typed
      <3>2. gProcesses'[p] = [gProcesses[p] EXCEPT !.handle = FALSE]
        BY <1>1, <2>1
      <3>3. gProcesses'[p] \in ProcessInfo /\ gProcesses'[p].target = gProcesses[p].target
        BY <3>1, <3>2 DEF ProcessInfo
      <3>4. gProcesses'[p] # NoEntry
        BY <3>3, SetupTyped
      <3>. QED  BY <3>1, <3>3, <3>4 DEF Targets
    <2>2. CASE p \notin exited
      BY <1>1, <2>2 DEF Targets
    <2>. QED  BY <2>1, <2>2
  <1>3. Targets' = Targets
    BY <1>2 DEF Targets
  <1>. QED  BY <1>3 DEF CheckForTerminatedRealtimeProcesses

LEMMA CountedKeeps ==
    ASSUME Typed, Counted, Next
    PROVE  Counted'
  <1>1. CASE opc = "done"
    BY <1>1, DoneStays DEF Counted
  <1>2. CASE opc # "done"
    <2>1. gTargetProcessCount = Cardinality(Targets)
      BY <1>2 DEF Counted
    <2>2. CASE gTargetProcessCount' = Cardinality(Targets')
      <3>1. Cardinality(Targets') \in Nat /\ Cardinality(Targets') <= Cardinality(Pids)
        <4>1. Targets' \in SUBSET Pids
          BY DEF Targets
        <4>. QED  BY <4>1, SetupTyped, FS_Subset, FS_CardinalityType
      <3>. QED  BY <2>2, <3>1, TargetsFinite DEF Counted
    <2>3. CASE AddPresent
      BY <2>1, <2>2, <2>3, AddCounts
    <2>4. CASE CopyToggles
      BY <2>1, <2>2, <2>4, UpdateCounts DEF CopyToggles
    <2>5. CASE HandleTerminatedProcess
      BY <2>1, <2>2, <2>5, HandleCounts
    <2>6. CASE CheckForTerminatedRealtimeProcesses
      BY <2>1, <2>2, <2>6, CheckCounts
    <2>7. CASE Finish
      BY <2>7 DEF Finish, Goto, Counted
    <2>8. CASE UNCHANGED <<gProcesses, gTargetProcessCount>>
      BY <2>1, <2>2, <2>8 DEF Targets
    <2>. QED  BY <2>3, <2>4, <2>5, <2>6, <2>7, <2>8, TableMoves
  <1>. QED  BY <1>1, <1>2

-----------------------------------------------------------------------------
(* Presents stay in their order.                                           *)

LEMMA SortedAppend ==
    ASSUME NEW s \in Seq(Timed), NEW e \in Timed, Sorted(s), \A x \in ToSet(s) : x.qpc <= e.qpc
    PROVE  Sorted(Append(s, e))
  <1>1. /\ DOMAIN s = 1..Len(s) /\ DOMAIN Append(s, e) = 1..Len(s) + 1 /\ Len(s) \in Nat
        /\ \A i \in 1..Len(s) : Append(s, e)[i] = s[i]
        /\ Append(s, e)[Len(s) + 1] = e
    BY AppendedSeq, LenProperties
  <1>2. e.qpc \in Nat /\ \A i \in DOMAIN s : s[i] \in ToSet(s)
    BY DEF Timed, ToSet
  <1>. SUFFICES ASSUME NEW i \in DOMAIN Append(s, e), NEW j \in DOMAIN Append(s, e), i <= j
                PROVE  Append(s, e)[i].qpc <= Append(s, e)[j].qpc
    BY DEF Sorted
  <1>3. CASE j \in 1..Len(s)
    <2>1. i \in 1..Len(s)
      BY <1>1, <1>3
    <2>. QED  BY <1>1, <1>3, <2>1 DEF Sorted
  <1>4. CASE j = Len(s) + 1 /\ i \in 1..Len(s)
    BY <1>1, <1>2, <1>4
  <1>5. CASE j = Len(s) + 1 /\ i = Len(s) + 1
    BY <1>1, <1>2, <1>5
  <1>. QED  BY <1>1, <1>3, <1>4, <1>5

LEMMA SortedTail ==
    ASSUME NEW s \in Seq(Timed), s # <<>>, Sorted(s)
    PROVE  Sorted(Tail(s)) /\ \A x \in ToSet(s) : s[1].qpc <= x.qpc
  <1>1. /\ DOMAIN s = 1..Len(s) /\ DOMAIN Tail(s) = 1..Len(s) - 1 /\ Len(s) \in Nat \ {0}
        /\ \A i \in 1..Len(s) - 1 : Tail(s)[i] = s[i + 1]
    BY TailedSeq
  <1>2. \A i \in DOMAIN Tail(s) : i + 1 \in DOMAIN s /\ Tail(s)[i] = s[i + 1] /\ i \in Nat
    BY <1>1
  <1>3. Sorted(Tail(s))
    <2>. SUFFICES ASSUME NEW i \in DOMAIN Tail(s), NEW j \in DOMAIN Tail(s), i <= j
                  PROVE  Tail(s)[i].qpc <= Tail(s)[j].qpc
      BY DEF Sorted
    <2>1. i + 1 <= j + 1
      BY <1>2
    <2>. QED  BY <1>2, <2>1 DEF Sorted
  <1>4. 1 \in DOMAIN s /\ \A i \in DOMAIN s : 1 <= i
    BY <1>1
  <1>. QED  BY <1>3, <1>4 DEF Sorted, ToSet

\* The steps that move presents.
LEMMA PresentsMove ==
    ASSUME Next
    PROVE  \/ \E p \in Pids : StartPresent(p)
           \/ \E r \in inflight : CompletePresent(r) \/ LosePresent(r)
           \/ DequeuePresentEvents \/ AddPresent
           \/ UNCHANGED <<inflight, mPresentEvents, batch>>
  <1>1. CASE Consumer
    BY <1>1, ConsumerLeaves DEF Consumer, Consume, StartProcess, ExitProcess, EndConsumer, localVars
  <1>2. CASE Switching
    BY <1>2, SwitchingLeaves DEF consumerVars, localVars
  <1>3. CASE Output
    BY <1>3, OutputLeaves DEF Output, ReadQuit, DequeueProcessEvents, CopyToggles,
       HandleTerminatedProcess, ToggleRecording, FinishEvents,
       CheckForTerminatedRealtimeProcesses, Finish, eventsUnchanged, localVars
  <1>. QED  BY <1>1, <1>2, <1>3, Steps

LEMMA PendingTyped ==
    ASSUME Typed
    PROVE  /\ Pending \subseteq Timed /\ \A r \in Pending : r.qpc \in Nat /\ r.pid \in Pids
           /\ inflight \subseteq Pending /\ ToSet(mPresentEvents) \subseteq Pending
           /\ ToSet(batch) \subseteq Pending
  <1>1. ToSet(mPresentEvents) \subseteq Timed /\ ToSet(batch) \subseteq Timed
    BY LenProperties, ElementOfSeq DEF ToSet, Typed
  <1>2. Pending \subseteq Timed
    BY <1>1 DEF Pending, Typed
  <1>. QED  BY <1>2 DEF Pending, Timed

LEMMA OrderKeeps ==
    ASSUME Typed, Quitting, Past, Order, Next
    PROVE  Order'
  <1>. SUFFICES ASSUME setup'.inOrder
                PROVE  /\ Sorted(batch') /\ Sorted(mPresentEvents')
                       /\ NoLater(ToSet(batch'), ToSet(mPresentEvents'))
                       /\ NoLater(ToSet(batch'), inflight')
                       /\ NoLater(ToSet(mPresentEvents'), inflight')
    BY DEF Order
  <1>1. /\ setup.inOrder /\ Sorted(batch) /\ Sorted(mPresentEvents)
        /\ NoLater(ToSet(batch), ToSet(mPresentEvents))
        /\ NoLater(ToSet(batch), inflight) /\ NoLater(ToSet(mPresentEvents), inflight)
    BY SetupStays DEF Order
  <1>2. ASSUME NEW p \in Pids, StartPresent(p) PROVE Order'
    <2>1. /\ UNCHANGED <<mPresentEvents, batch>>
          /\ inflight' = inflight \cup {[pid |-> p, qpc |-> now]}
      BY <1>2 DEF StartPresent, consumerUnchanged, localVars
    <2>2. \A r \in ToSet(batch) \cup ToSet(mPresentEvents) : r.qpc <= now
      BY PendingTyped DEF Past
    <2>. QED  BY <1>1, <2>1, <2>2 DEF Order, NoLater
  <1>3. ASSUME NEW r \in inflight, CompletePresent(r) PROVE Order'
    <2>1. /\ batch' = batch /\ mPresentEvents' = Append(mPresentEvents, r)
          /\ inflight' = inflight \ {r} /\ \A x \in inflight : r.qpc <= x.qpc
      BY <1>1, <1>3 DEF CompletePresent, consumerUnchanged, localVars
    <2>2. r \in Timed /\ mPresentEvents \in Seq(Timed)
      BY DEF Typed
    <2>3. ToSet(mPresentEvents') = ToSet(mPresentEvents) \cup {r}
      BY <2>1, <2>2, AppendedSeq
    <2>4. Sorted(mPresentEvents')
      BY <1>1, <2>1, <2>2, SortedAppend DEF NoLater
    <2>. QED  BY <1>1, <2>1, <2>3, <2>4 DEF Order, NoLater
  <1>4. ASSUME NEW r \in inflight, LosePresent(r) PROVE Order'
    <2>1. UNCHANGED <<mPresentEvents, batch>> /\ inflight' = inflight \ {r}
      BY <1>4 DEF LosePresent, consumerUnchanged, localVars
    <2>. QED  BY <1>1, <2>1 DEF Order, NoLater
  <1>5. CASE DequeuePresentEvents
    <2>1. inflight' = inflight /\ batch' = mPresentEvents /\ mPresentEvents' = <<>>
      BY <1>5 DEF DequeuePresentEvents, outputUnchanged
    <2>. QED  BY <1>1, <2>1, EmptyIsEmpty DEF Order, NoLater
  <1>6. CASE AddPresent
    <2>1. /\ UNCHANGED <<inflight, mPresentEvents>> /\ batch # <<>> /\ batch' = Tail(batch)
      BY <1>6 DEF AddPresent, eventsUnchanged, outputUnchanged
    <2>2. batch \in Seq(Timed)
      BY DEF Typed
    <2>3. Sorted(batch') /\ ToSet(batch') \subseteq ToSet(batch)
      BY <1>1, <2>1, <2>2, SortedTail, TailedSeq
    <2>. QED  BY <1>1, <2>1, <2>3 DEF Order, NoLater
  <1>7. CASE UNCHANGED <<inflight, mPresentEvents, batch>>
    BY <1>1, <1>7 DEF Order, NoLater
  <1>8. CASE \E p \in Pids : StartPresent(p)
    BY <1>2, <1>8 DEF Order
  <1>9. CASE \E r \in inflight : CompletePresent(r) \/ LosePresent(r)
    BY <1>3, <1>4, <1>9 DEF Order
  <1>. QED  BY <1>5, <1>6, <1>7, <1>8, <1>9, PresentsMove

-----------------------------------------------------------------------------
(* A process leaves after its last present.                                *)

LEMMA LifeMoves ==
    ASSUME Typed, Next
    PROVE  /\ \A p \in Pids : life[p] # "new" => life'[p] # "new"
           /\ \A p \in Pids : life[p] = "exited" => life'[p] = "exited"
           /\ \A p \in Pids : life'[p] = "exited" => life[p] = "exited" \/ now' = now + 1
  <1>1. ASSUME NEW p \in Pids, StartProcess(p)
        PROVE  life[p] = "new" /\ life' = [life EXCEPT ![p] = "running"]
    BY <1>1 DEF StartProcess
  <1>2. ASSUME NEW p \in Pids, ExitProcess(p)
        PROVE  life[p] = "running" /\ life' = [life EXCEPT ![p] = "exited"] /\ now' = now + 1
    BY <1>2 DEF ExitProcess
  <1>3. \/ \E p \in Pids : StartProcess(p) \/ ExitProcess(p)
        \/ life' = life
    BY ExitsMove DEF DequeueProcessEvents, CopyToggles, HandleTerminatedProcess, outputUnchanged,
       CheckForTerminatedRealtimeProcesses, eventsUnchanged
  <1>. QED  BY <1>1, <1>2, <1>3 DEF Typed

\* Nothing that was in the batch or behind it comes before its first present.
LEMMA FirstIsOldest ==
    ASSUME Typed, Order, setup.inOrder, batch # <<>>
    PROVE  \A r \in Pending : batch[1].qpc <= r.qpc
  <1>1. batch \in Seq(Timed) /\ batch[1] \in ToSet(batch)
    BY TailedSeq DEF Typed
  <1>2. \A r \in ToSet(batch) : batch[1].qpc <= r.qpc
    BY <1>1, SortedTail DEF Order
  <1>. QED  BY <1>1, <1>2 DEF Order, NoLater, Pending

LEMMA LeavingKeeps ==
    ASSUME Typed, Quitting, Past, ExitsOnce, Order, Leaving, Next
    PROVE  Leaving'
  <1>. DEFINE Starts == mProcessEvents.starts \cup newProcesses.starts
  <1>1. setup' = setup /\ now \in Nat /\ now' \in Nat /\ now <= now'
    BY SetupStays, PendingMoves, TypedKeeps DEF Typed
  <1>2. /\ \A r \in Pending : r.qpc \in Nat /\ r.pid \in Pids /\ r.qpc <= now
        /\ \A r \in Pending' : r.pid \in Pids
        /\ \A r \in Pending' :
             \/ r \in Pending
             \/ /\ r.qpc = now /\ life[r.pid] = "running"
                /\ UNCHANGED <<now, life, mPresentEvents, batch>>
    BY PendingTyped, PendingMoves DEF Past
  <1>3. \A e \in Queued : e.qpc \in Nat /\ e.pid \in Pids /\ life[e.pid] = "exited"
    BY QueuedTyped DEF ExitsOnce, Timed
  <1>4. ASSUME NEW r \in Pending', life'[r.pid] = "exited" PROVE r.qpc < now'
    <2>1. r \in Pending /\ r.qpc \in Nat /\ r.qpc <= now /\ r.pid \in Pids
      BY <1>2, <1>4
    <2>2. CASE life[r.pid] = "exited"
      <3>1. r.qpc < now
        BY <2>1, <2>2 DEF Leaving
      <3>. QED  BY <1>1, <2>1, <3>1
    <2>3. CASE now' = now + 1
      BY <1>1, <2>1, <2>3
    <2>. QED  BY <1>4, <2>1, <2>2, <2>3, LifeMoves
  <1>5. \A r \in Pending' : life'[r.pid] # "new"
    BY <1>2, LifeMoves DEF Leaving
  <1>6. \A e \in Queued' : \A r \in Pending' : r.pid = e.pid => r.qpc < e.qpc
    <2>. SUFFICES ASSUME NEW e \in Queued', NEW r \in Pending', r.pid = e.pid
                  PROVE  r.qpc < e.qpc
      OBVIOUS
    <2>1. CASE e \in Queued
      BY <1>2, <1>3, <2>1 DEF Leaving
    <2>2. CASE e.qpc = now + 1
      BY <1>1, <1>2, <2>2
    <2>3. CASE e.qpc = now /\ life[e.pid] = "exited"
      BY <1>2, <2>3 DEF Leaving
    <2>. QED  BY <2>1, <2>2, <2>3, QueuedMoves
  <1>7. /\ \A p \in Starts' : life'[p] # "new"
        /\ \A p \in PidsOf(terminated') \cup gone' : p \notin Starts'
        /\ PidsOf(newProcesses'.exits) \cap mProcessEvents'.starts = {}
    <2>1. /\ \A p \in Starts : life[p] # "new" /\ p \in Pids
          /\ \A p \in PidsOf(terminated) \cup gone : p \notin Starts
          /\ PidsOf(newProcesses.exits) \cap mProcessEvents.starts = {}
          /\ \A p \in PidsOf(newProcesses.exits) \cup PidsOf(terminated) \cup gone :
               life[p] = "exited"
      BY SomeExits DEF Leaving, ExitsOnce, ExitQueued
    <2>2. /\ terminated \in Seq(Timed) /\ newProcesses.exits \in Seq(Timed)
          /\ NoEvents.exits = <<>> /\ NoEvents.starts = {} /\ PidsOf(<<>>) = {}
      BY SomeExits, EmptyIsEmpty DEF Typed
    <2>3. ASSUME NEW p \in Pids, StartProcess(p) PROVE <1>7
      <3>1. /\ UNCHANGED <<terminated, newProcesses, gone>> /\ life[p] = "new"
            /\ mProcessEvents'.starts = mProcessEvents.starts \cup {p} /\ life'[p] = "running"
        BY <2>3 DEF StartProcess, consumerUnchanged, localVars, processVars, Typed, SomeEvents
      <3>. QED  BY <2>1, <3>1, LifeMoves
    <2>4. ASSUME NEW p \in Pids, ExitProcess(p) PROVE <1>7
      <3>1. /\ UNCHANGED <<terminated, newProcesses, gone>>
            /\ mProcessEvents'.starts = mProcessEvents.starts
        BY <2>4 DEF ExitProcess, consumerUnchanged, localVars, processVars, Typed, SomeEvents
      <3>. QED  BY <2>1, <3>1, LifeMoves
    <2>5. CASE DequeueProcessEvents
      <3>1. /\ UNCHANGED <<terminated, gone, life>>
            /\ newProcesses' = mProcessEvents /\ mProcessEvents' = NoEvents
        BY <2>5 DEF DequeueProcessEvents, processVars, outputUnchanged
      <3>. QED  BY <2>1, <2>2, <3>1
    <2>6. CASE CopyToggles
      <3>1. /\ UNCHANGED <<mProcessEvents, gone, life>> /\ newProcesses' = NoEvents
            /\ terminated' = terminated \o newProcesses.exits
        BY <2>6 DEF CopyToggles, UpdateProcesses, outputUnchanged
      <3>2. PidsOf(terminated') = PidsOf(terminated) \cup PidsOf(newProcesses.exits)
        BY <2>2, <3>1, PidsJoin
      <3>. QED  BY <2>1, <2>2, <3>1, <3>2
    <2>7. CASE HandleTerminatedProcess
      <3>1. /\ UNCHANGED <<mProcessEvents, newProcesses, life>> /\ terminated # <<>>
            /\ terminated' = Tail(terminated) /\ gone' = gone \cup {terminated[1].pid}
        BY <2>7 DEF HandleTerminatedProcess, PastExit, ExitIsNext, eventsUnchanged, outputUnchanged
      <3>2. /\ PidsOf(terminated') \subseteq PidsOf(terminated)
            /\ terminated[1].pid \in PidsOf(terminated)
        BY <2>2, <3>1, PidsTail DEF ExitsOnce
      <3>. QED  BY <2>1, <3>1, <3>2
    <2>8. CASE CheckForTerminatedRealtimeProcesses
      <3>. DEFINE exited == {p \in Pids : /\ gProcesses[p] # NoEntry /\ gProcesses[p].handle
                                          /\ life[p] = "exited"}
                  s == SetToSeq({ExitEvent(p, now) : p \in exited})
      <3>1. s \in Seq(Timed) /\ PidsOf(s) \subseteq exited
        BY NoticedExits
      <3>2. terminated' = terminated \o s /\ UNCHANGED <<mProcessEvents, newProcesses, gone, life>>
        BY <2>8 DEF CheckForTerminatedRealtimeProcesses, localVars, outputUnchanged
      <3>. HIDE DEF s
      <3>3. PidsOf(terminated') = PidsOf(terminated) \cup PidsOf(s)
        BY <2>2, <3>1, <3>2, PidsJoin
      <3>4. PidsOf(s) # {} => Starts = {}
        BY <2>2, <3>1 DEF ExitsOnce
      <3>. QED  BY <2>1, <3>2, <3>3, <3>4
    <2>9. CASE UNCHANGED <<mProcessEvents, newProcesses, terminated, gone, life>>
      BY <2>1, <2>9
    <2>. QED  BY <2>3, <2>4, <2>5, <2>6, <2>7, <2>8, <2>9, ExitsMove
  <1>8. setup'.inOrder =>
          \A p \in gone' : gProcesses'[p] = NoEntry /\ \A r \in Pending' : r.pid # p
    <2>. SUFFICES ASSUME setup.inOrder, NEW p \in gone'
                  PROVE  gProcesses'[p] = NoEntry /\ \A r \in Pending' : r.pid # p
      BY <1>1
    <2>1. ASSUME p \in gone
          PROVE  /\ p \in Pids /\ gProcesses[p] = NoEntry /\ life[p] = "exited"
                 /\ \A r \in Pending : r.pid # p
                 /\ p \notin newProcesses.starts
      BY <2>1 DEF Leaving, ExitsOnce, Typed
    <2>2. p \in gone => \A r \in Pending' : r.pid # p
      BY <1>2, <2>1
    <2>3. CASE HandleTerminatedProcess
      <3>. DEFINE x == terminated[1]
      <3>1. /\ UNCHANGED <<inflight, mPresentEvents, batch>> /\ terminated # <<>> /\ batch # <<>>
            /\ batch[1].qpc >= x.qpc
            /\ gone' = gone \cup {x.pid} /\ gProcesses' = [gProcesses EXCEPT ![x.pid] = NoEntry]
        BY <2>3 DEF HandleTerminatedProcess, PastExit, ExitIsNext, eventsUnchanged, outputUnchanged
      <3>2. x \in Queued /\ x.pid \in Pids /\ x.qpc \in Nat
        <4>1. x \in Queued
          BY <3>1, TailedSeq DEF Queued, Typed
        <4>. QED  BY <1>3, <4>1
      <3>. HIDE DEF x
      <3>3. \A r \in Pending : r.pid # x.pid
        <4>1. batch[1].qpc \in Nat
          BY <3>1, FirstTyped DEF Typed
        <4>2. \A r \in Pending : batch[1].qpc <= r.qpc
          BY <3>1, FirstIsOldest
        <4>. QED  BY <1>2, <3>1, <3>2, <4>1, <4>2 DEF Leaving
      <3>4. Pending' = Pending
        BY <3>1 DEF Pending
      <3>5. gProcesses'[p] = NoEntry
        <4>1. CASE p = x.pid
          BY <3>1, <3>2, <4>1 DEF Typed
        <4>2. CASE p # x.pid
          BY <2>1, <3>1, <3>2, <4>2 DEF Typed
        <4>. QED  BY <4>1, <4>2
      <3>. QED  BY <2>1, <3>1, <3>3, <3>4, <3>5
    <2>4. CASE ~HandleTerminatedProcess
      <3>1. gone' = gone
        BY <2>4, ExitsMove DEF StartProcess, ExitProcess, consumerUnchanged, DequeueProcessEvents,
           CopyToggles, CheckForTerminatedRealtimeProcesses, processVars
      <3>2. gProcesses'[p] = NoEntry
        <4>1. CASE AddPresent
          <5>1. batch[1].pid # p
            BY <2>1, <3>1, <4>1, AddTyped
          <5>. QED  BY <2>1, <3>1, <4>1, <5>1, EntersPresenting
        <4>2. CASE Finish
          BY <2>1, <3>1, <4>2 DEF Finish
        <4>3. CASE CopyToggles
          BY <2>1, <3>1, <4>3, EntersStarted DEF CopyToggles
        <4>4. CASE CheckForTerminatedRealtimeProcesses
          BY <2>1, <3>1, <4>4 DEF CheckForTerminatedRealtimeProcesses
        <4>5. CASE UNCHANGED <<gProcesses, gTargetProcessCount>>
          BY <2>1, <3>1, <4>5
        <4>. QED  BY <2>4, <4>1, <4>2, <4>3, <4>4, <4>5, TableMoves
      <3>. QED  BY <2>2, <3>1, <3>2
    <2>. QED  BY <2>3, <2>4
  <1>. QED  BY <1>4, <1>5, <1>6, <1>7, <1>8 DEF Leaving

-----------------------------------------------------------------------------
(* A single thread switches.                                               *)

LEMMA OddNext ==
    ASSUME NEW n \in Nat
    PROVE  Odd(n) \in BOOLEAN /\ Odd(n + 1) = ~Odd(n)
  BY DEF Odd

LEMMA OneSwitches ==
    ASSUME Typed, OneSwitcher, Switching
    PROVE  \/ Look(main) \/ Push(main)
           \/ UNCHANGED <<toggles, switches, gIsRecording>> /\ tpc'[main] # "push"
  <1>1. setup.switchers = {main}
    BY DEF OneSwitcher
  <1>2. \/ Press(main) \/ Assign(main) \/ LookAway(main) \/ Look(main) \/ Push(main)
        \/ Close \/ SetQuit \/ JoinOutput
    BY <1>1 DEF Switching, SetOutputRecordingState, ShutDown
  <1>3. DOMAIN tpc = {main, ctrl}
    BY DEF Typed
  <1>4. CASE Press(main) \/ LookAway(main)
    BY <1>3, <1>4 DEF Press, LookAway, Step, Switched
  <1>5. CASE Assign(main)
    BY <1>3, <1>5 DEF Assign, Step
  <1>6. CASE Close \/ SetQuit \/ JoinOutput
    BY <1>3, <1>6 DEF Close, SetQuit, JoinOutput, Step
  <1>. QED  BY <1>2, <1>4, <1>5, <1>6

LEMMA SwitchesTyped ==
    ASSUME Typed
    PROVE  /\ Len(switches) \in Nat /\ DOMAIN switches = 1..Len(switches)
           /\ \A i \in DOMAIN switches : switches[i] \in ToSet(switches)
           /\ \A i \in DOMAIN switches : switches[i].qpc \in Nat /\ switches[i].on \in BOOLEAN
           /\ treq[main] \in Request /\ treq[main].qpc \in Nat /\ treq[main].on \in BOOLEAN
  <1>1. Len(switches) \in Nat /\ DOMAIN switches = 1..Len(switches)
    BY LenProperties DEF Typed
  <1>2. \A i \in DOMAIN switches : switches[i] \in Request /\ switches[i] \in ToSet(switches)
    BY <1>1, ElementOfSeq DEF Typed, ToSet
  <1>. QED  BY <1>1, <1>2 DEF Typed, Request

\* One more switch, behind the others.
LEMMA OnePushes ==
    ASSUME Typed, OneSwitcher, Push(main)
    PROVE  /\ tpc[main] = "push" /\ tpc'[main] # "push" /\ gIsRecording' = treq[main].on
           /\ Len(switches') = Len(switches) + 1
           /\ DOMAIN switches' = 1..Len(switches) + 1
           /\ \A i \in 1..Len(switches) : switches'[i] = switches[i]
           /\ switches'[Len(switches) + 1] = treq[main]
           /\ toggles' = Append(toggles, treq[main].qpc)
           /\ UNCHANGED <<setup, consumerVars, opc, localVars, processVars, gRecordingCount, logged>>
  <1>1. switches' = Append(switches, treq[main]) /\ switches \in Seq(Request)
    BY DEF Push, Typed
  <1>2. treq[main] \in Request
    BY SwitchesTyped
  <1>3. /\ Len(switches') = Len(switches) + 1
        /\ DOMAIN switches' = 1..Len(switches) + 1
        /\ \A i \in 1..Len(switches) : switches'[i] = switches[i]
        /\ switches'[Len(switches) + 1] = treq[main]
    BY <1>1, <1>2, AppendedSeq
  <1>4. /\ tpc[main] = "push" /\ tpc'[main] # "push" /\ gIsRecording' = treq[main].on
    BY DEF Push, Switched, Typed
  <1>5. toggles' = Append(toggles, treq[main].qpc)
    BY DEF Push, OneSwitcher
  <1>. QED  BY <1>3, <1>4, <1>5 DEF Push, switchUnchanged

LEMMA SwitchesKeeps ==
    ASSUME Typed, Quitting, Past, Switches, Next
    PROVE  Switches'
  <1>. SUFFICES ASSUME OneSwitcher' PROVE Alternate' /\ (tpc'[main] = "push" => Pushing')
    BY DEF Switches
  <1>1. OneSwitcher /\ Alternate /\ (tpc[main] = "push" => Pushing)
    BY SetupStays DEF OneSwitcher, Switches
  <1>2. /\ Len(switches) \in Nat /\ DOMAIN switches = 1..Len(switches)
        /\ \A i \in DOMAIN switches : switches[i].qpc \in Nat /\ switches[i].on \in BOOLEAN
        /\ treq[main].qpc \in Nat /\ treq[main].on \in BOOLEAN
    BY SwitchesTyped
  <1>3. CASE Push(main)
    <2>1. /\ tpc'[main] # "push" /\ gIsRecording' = treq[main].on /\ Pushing
          /\ Len(switches') = Len(switches) + 1
          /\ DOMAIN switches' = 1..Len(switches) + 1
          /\ \A i \in 1..Len(switches) : switches'[i] = switches[i]
          /\ switches'[Len(switches) + 1] = treq[main]
      BY <1>1, <1>3, OnePushes
    <2>2. treq[main].on = Odd(Len(switches) + 1)
      BY <1>1, <1>2, <2>1, OddNext DEF Alternate, Pushing
    <2>3. \A i, j \in DOMAIN switches' : i < j => switches'[i].qpc < switches'[j].qpc
      <3>. SUFFICES ASSUME NEW i \in DOMAIN switches', NEW j \in DOMAIN switches', i < j
                    PROVE  switches'[i].qpc < switches'[j].qpc
        OBVIOUS
      <3>1. i \in 1..Len(switches)
        BY <1>2, <2>1
      <3>2. CASE j \in 1..Len(switches)
        BY <1>1, <1>2, <2>1, <3>1, <3>2 DEF Alternate
      <3>3. CASE j = Len(switches) + 1
        BY <1>1, <1>2, <2>1, <3>1, <3>3 DEF Pushing
      <3>. QED  BY <1>2, <2>1, <3>2, <3>3
    <2>4. \A i \in DOMAIN switches' : switches'[i].qpc > 0 /\ switches'[i].on = Odd(i)
      <3>. SUFFICES ASSUME NEW i \in DOMAIN switches'
                    PROVE  switches'[i].qpc > 0 /\ switches'[i].on = Odd(i)
        OBVIOUS
      <3>1. CASE i \in 1..Len(switches)
        BY <1>1, <1>2, <2>1, <3>1 DEF Alternate
      <3>2. CASE i = Len(switches) + 1
        BY <2>1, <2>2, <3>2 DEF Pushing
      <3>. QED  BY <1>2, <2>1, <3>1, <3>2
    <2>. QED  BY <2>1, <2>2, <2>3, <2>4 DEF Alternate
  <1>4. CASE Look(main)
    <2>1. /\ treq'[main].qpc = now + 1 /\ treq'[main].on = treq[main].on
          /\ gIsRecording # treq[main].on /\ now \in Nat
      BY <1>4, LookTyped DEF Look, Typed
    <2>2. UNCHANGED <<gIsRecording, switches, mPresentEvents, batch, logged>>
      BY <1>4 DEF Look, switchUnchanged, consumerVars, localVars
    <2>3. /\ \A i \in DOMAIN switches : switches[i].qpc <= now
          /\ \A r \in ToSet(mPresentEvents) \cup ToSet(batch) : r.qpc \in Nat /\ r.qpc <= now
          /\ logged.qpc \in Nat /\ logged.qpc <= now
      BY PendingTyped, SwitchesTyped DEF Past, Typed
    <2>4. Pushing'
      BY <1>2, <2>1, <2>2, <2>3 DEF Pushing
    <2>5. Alternate'
      BY <1>1, <2>2 DEF Alternate
    <2>. QED  BY <2>4, <2>5
  <1>5. CASE UNCHANGED <<toggles, switches, gIsRecording>> /\ tpc'[main] # "push"
    BY <1>1, <1>5 DEF Alternate
  <1>6. CASE Switching
    BY <1>1, <1>3, <1>4, <1>5, <1>6, OneSwitches
  <1>7. CASE Consumer
    <2>1. UNCHANGED <<tpc, treq, gIsRecording, switches, batch, logged>>
      BY <1>7, ConsumerLeaves DEF switchVars, localVars
    <2>2. ASSUME tpc[main] = "push"
          PROVE  \A r \in ToSet(mPresentEvents') : r.qpc < treq[main].qpc
      <3>1. \A r \in ToSet(mPresentEvents) : r.qpc < treq[main].qpc
        BY <1>1, <2>2 DEF Pushing
      <3>2. ASSUME NEW x \in inflight, CompletePresent(x)
            PROVE  /\ ToSet(mPresentEvents') = ToSet(mPresentEvents) \cup {x}
                   /\ x.qpc < treq[main].qpc
        <4>1. ToSet(mPresentEvents') = ToSet(mPresentEvents) \cup {x}
          BY <3>2, AppendedSeq DEF CompletePresent, Typed
        <4>. QED  BY <2>2, <3>2, <4>1 DEF CompletePresent, Prompt
      <3>3. \/ mPresentEvents' = mPresentEvents
            \/ \E x \in inflight : CompletePresent(x)
        BY <1>7 DEF Consumer, Consume, StartProcess, ExitProcess, StartPresent, LosePresent,
           EndConsumer
      <3>. QED  BY <3>1, <3>2, <3>3
    <2>. QED  BY <1>1, <2>1, <2>2 DEF Alternate, Pushing
  <1>8. CASE Output
    <2>1. UNCHANGED <<tpc, treq, gIsRecording, switches>>
      BY <1>8, OutputLeaves DEF switchVars
    <2>2. ToSet(mPresentEvents') \cup ToSet(batch') \subseteq ToSet(mPresentEvents) \cup ToSet(batch)
      BY <1>8, QueuesMove
    <2>3. logged'.qpc = logged.qpc \/ \E r \in ToSet(batch) : logged'.qpc = r.qpc
      <3>1. CASE AddPresent
        BY <3>1, AddTyped
      <3>2. CASE logged' = logged
        BY <3>2
      <3>. QED  BY <1>8, <3>1, <3>2 DEF Output, ReadQuit, DequeueProcessEvents,
                DequeuePresentEvents, CopyToggles, HandleTerminatedProcess, ToggleRecording,
                FinishEvents, CheckForTerminatedRealtimeProcesses, Finish
    <2>. QED  BY <1>1, <2>1, <2>2, <2>3 DEF Alternate, Pushing
  <1>. QED  BY <1>6, <1>7, <1>8, Steps

-----------------------------------------------------------------------------
(* The toggles that are left, and those that have been handled.            *)

LEMMA OddBefore ==
    ASSUME NEW m \in Nat, NEW n \in Nat, m <= n
    PROVE  Odd(m + IF Odd(n) THEN 1 ELSE 0) = Odd(n - m)
  <1>1. CASE Odd(n)
    BY <1>1 DEF Odd
  <1>2. CASE ~Odd(n)
    BY <1>2 DEF Odd
  <1>. QED  BY <1>1, <1>2

LEMMA Lengths ==
    ASSUME Typed, Quitting
    PROVE  /\ Len(switches) \in Nat /\ Len(toggles) \in Nat /\ Len(history) \in Nat
           /\ handled \in Nat /\ handled + Len(history) <= Len(toggles)
           /\ DOMAIN toggles = 1..Len(toggles) /\ DOMAIN history = 1..Len(history)
           /\ Done \in Int /\ Done + Len(history) <= Len(switches)
           /\ Len(toggles) <= Len(switches) => Done \in Nat
  <1>1. /\ Len(switches) \in Nat /\ Len(toggles) \in Nat /\ Len(history) \in Nat
        /\ handled \in Nat
        /\ DOMAIN toggles = 1..Len(toggles) /\ DOMAIN history = 1..Len(history)
    BY LenProperties DEF Typed
  <1>2. handled + Len(history) <= Len(toggles)
    BY DEF Quitting
  <1>. QED  BY <1>1, <1>2 DEF Done

\* The stops among the switches that have been handled.
Stops(n) == {i \in 1..n : ~switches[i].on}

LEMMA StopsGrow ==
    ASSUME NEW n \in Nat
    PROVE  /\ IsFiniteSet(Stops(n)) /\ Cardinality(Stops(n)) \in Nat
           /\ switches[n + 1].on => Stops(n + 1) = Stops(n)
           /\ ~switches[n + 1].on =>
                Cardinality(Stops(n + 1)) = Cardinality(Stops(n)) + 1
  <1>1. IsFiniteSet(Stops(n)) /\ Cardinality(Stops(n)) \in Nat
    <2>1. IsFiniteSet(1..n)
      BY FS_Interval
    <2>2. Stops(n) \in SUBSET (1..n)
      BY DEF Stops
    <2>. QED  BY <2>1, <2>2, FS_Subset, FS_CardinalityType
  <1>2. switches[n + 1].on => Stops(n + 1) = Stops(n)
    BY DEF Stops
  <1>3. ASSUME ~switches[n + 1].on
        PROVE  Cardinality(Stops(n + 1)) = Cardinality(Stops(n)) + 1
    <2>1. Stops(n + 1) = Stops(n) \cup {n + 1} /\ n + 1 \notin Stops(n)
      BY <1>3 DEF Stops
    <2>. QED  BY <1>1, <2>1, FS_AddElement
  <1>. QED  BY <1>1, <1>2, <1>3

\* The steps that move toggles, or the history of them.
LEMMA HistoryMoves ==
    ASSUME Typed, Output
    PROVE  \/ CopyToggles \/ ToggleRecording \/ FinishEvents
           \/ /\ UNCHANGED <<toggles, history, handled, recording, gRecordingCount>>
              /\ opc' = "events" => opc = "events" /\ ToSet(batch') \subseteq ToSet(batch)
  <1>1. CASE AddPresent
    <2>1. ToSet(Tail(batch)) \subseteq ToSet(batch)
      BY <1>1, TailedSeq DEF AddPresent, Typed
    <2>. QED  BY <1>1, <2>1 DEF AddPresent, eventsUnchanged
  <1>2. CASE HandleTerminatedProcess
    BY <1>2 DEF HandleTerminatedProcess, eventsUnchanged
  <1>3. CASE ReadQuit \/ DequeueProcessEvents \/ DequeuePresentEvents
    BY <1>3 DEF ReadQuit, DequeueProcessEvents, DequeuePresentEvents, Goto
  <1>4. CASE CheckForTerminatedRealtimeProcesses \/ Finish
    BY <1>4 DEF CheckForTerminatedRealtimeProcesses, Finish, Goto, localVars
  <1>. QED  BY <1>1, <1>2, <1>3, <1>4 DEF Output

LEMMA HandledKeeps ==
    ASSUME Typed, Quitting, Past, Order, Switches, Handled, Next
    PROVE  Handled'
  <1>. DEFINE Left ==
        /\ Len(toggles) <= Len(switches)
        /\ \A i \in DOMAIN toggles : toggles[i] = switches[Len(switches) - Len(toggles) + i].qpc
              Copied == \A i \in DOMAIN history : history[i] = toggles[handled + i]
              Counts == gRecordingCount = 1 + Cardinality(Stops(Done))
              Reached == \A r \in Pending : \A i \in 1..Done : switches[i].qpc <= r.qpc
              State == opc = "events" => recording = Odd(Done)
              After == opc = "events" =>
                 \A r \in ToSet(batch) : \A i \in (Done + Len(history) + 1)..Len(switches) :
                   r.qpc < switches[i].qpc
  <1>0. Handled <=> (OneSwitcher => Left /\ Copied /\ State /\ Counts /\ Reached /\ After)
    BY DEF Handled, Stops
  <1>1. Handled' <=> (OneSwitcher' => Left' /\ Copied' /\ State' /\ Counts' /\ Reached' /\ After')
    BY DEF Handled, Stops
  <1>. SUFFICES ASSUME OneSwitcher'
                PROVE  Left' /\ Copied' /\ State' /\ Counts' /\ Reached' /\ After'
    BY <1>1
  <1>2. OneSwitcher /\ setup.inOrder
    BY SetupStays DEF OneSwitcher
  <1>3. /\ Left /\ Copied /\ State /\ Counts /\ Reached /\ After
        /\ Alternate /\ (tpc[main] = "push" => Pushing)
    BY <1>0, <1>2 DEF Switches
  <1>4. /\ Len(switches) \in Nat /\ Len(toggles) \in Nat /\ Len(history) \in Nat
        /\ handled \in Nat /\ handled + Len(history) <= Len(toggles)
        /\ DOMAIN toggles = 1..Len(toggles) /\ DOMAIN history = 1..Len(history)
        /\ Done \in Nat /\ Done + Len(history) <= Len(switches)
        /\ DOMAIN switches = 1..Len(switches)
        /\ \A i \in 1..Len(switches) : switches[i].qpc \in Nat /\ switches[i].on \in BOOLEAN
    BY <1>3, Lengths, SwitchesTyped
  <1>5. ASSUME Len(switches') = Len(switches), switches' = switches, Done' = Done
        PROVE  Reached'
    <2>. SUFFICES ASSUME NEW r \in Pending', NEW i \in 1..Done
                  PROVE  switches[i].qpc <= r.qpc
      BY <1>5
    <2>1. CASE r \in Pending
      BY <1>3, <2>1
    <2>2. CASE r.qpc = now
      <3>1. i \in DOMAIN switches
        BY <1>4
      <3>. QED  BY <2>2, <3>1, SwitchesTyped DEF Past
    <2>. QED  BY <2>1, <2>2, PendingMoves
  <1>6. CASE Push(main)
    <2>1. /\ tpc[main] = "push" /\ Len(switches') = Len(switches) + 1
          /\ DOMAIN switches' = 1..Len(switches) + 1
          /\ \A i \in 1..Len(switches) : switches'[i] = switches[i]
          /\ switches'[Len(switches) + 1] = treq[main]
          /\ toggles' = Append(toggles, treq[main].qpc)
          /\ UNCHANGED <<opc, gRecordingCount, history, handled, recording, batch, inflight,
                         mPresentEvents>>
      BY <1>2, <1>6, OnePushes DEF consumerVars, localVars
    <2>2. /\ Len(toggles') = Len(toggles) + 1 /\ DOMAIN toggles' = 1..Len(toggles) + 1
          /\ \A i \in 1..Len(toggles) : toggles'[i] = toggles[i]
          /\ toggles'[Len(toggles) + 1] = treq[main].qpc
      <3>. DEFINE N == Nat
      <3>1. toggles \in Seq(N) /\ treq[main].qpc \in N
        BY SwitchesTyped DEF Typed
      <3>. HIDE DEF N
      <3>. QED  BY <2>1, <3>1, AppendedSeq
    <2>3. Done' = Done
      BY <1>4, <2>1, <2>2 DEF Done
    <2>4. Left'
      <3>1. ASSUME NEW i \in 1..Len(toggles) + 1
            PROVE  toggles'[i] = switches'[Len(switches) - Len(toggles) + i].qpc
        <4>1. CASE i \in 1..Len(toggles)
          <5>1. Len(switches) - Len(toggles) + i \in 1..Len(switches)
            BY <1>3, <1>4, <4>1
          <5>. QED  BY <1>3, <1>4, <2>1, <2>2, <4>1, <5>1
        <4>2. CASE i = Len(toggles) + 1
          <5>1. Len(switches) - Len(toggles) + i = Len(switches) + 1
            BY <1>4, <4>2
          <5>. QED  BY <2>1, <2>2, <4>2, <5>1
        <4>. QED  BY <1>4, <4>1, <4>2
      <3>2. /\ Len(toggles') <= Len(switches')
            /\ Len(switches') - Len(toggles') = Len(switches) - Len(toggles)
        BY <1>3, <1>4, <2>1, <2>2
      <3>. QED  BY <2>2, <3>1, <3>2
    <2>5. Copied'
      <3>1. ASSUME NEW i \in 1..Len(history) PROVE handled + i \in 1..Len(toggles)
        BY <1>4
      <3>. QED  BY <1>3, <1>4, <2>1, <2>2, <3>1
    <2>6. \A i \in 1..Done : i \in 1..Len(switches)
      BY <1>4
    <2>7. Counts'
      <3>1. Stops(Done)' = Stops(Done)
        BY <2>1, <2>3, <2>6 DEF Stops
      <3>. QED  BY <1>3, <2>1, <3>1
    <2>8. Reached'
      BY <1>3, <2>1, <2>3, <2>6 DEF Pending
    <2>9. After'
      <3>. SUFFICES ASSUME opc = "events", NEW r \in ToSet(batch),
                           NEW i \in (Done + Len(history) + 1)..Len(switches) + 1
                    PROVE  r.qpc < switches'[i].qpc
        BY <2>1, <2>3
      <3>1. CASE i \in (Done + Len(history) + 1)..Len(switches)
        <4>1. i \in 1..Len(switches)
          BY <1>4, <3>1
        <4>. QED  BY <1>3, <2>1, <3>1, <4>1
      <3>2. CASE i = Len(switches) + 1
        BY <1>3, <2>1, <3>2 DEF Pushing
      <3>. QED  BY <1>4, <3>1, <3>2
    <2>. QED  BY <1>3, <2>1, <2>3, <2>4, <2>5, <2>7, <2>8, <2>9
  <1>7. CASE UNCHANGED <<toggles, switches, opc, localVars, gRecordingCount>>
    <2>1. Done' = Done /\ Stops(Done)' = Stops(Done)
      BY <1>7 DEF Done, Stops, localVars
    <2>2. Reached'
      BY <1>5, <1>7, <2>1
    <2>. QED  BY <1>3, <1>7, <2>1, <2>2 DEF localVars
  <1>8. CASE Switching
    <2>1. UNCHANGED <<opc, localVars, gRecordingCount>>
      BY <1>8, SwitchingLeaves
    <2>2. CASE Look(main)
      BY <1>7, <2>1, <2>2 DEF Look
    <2>. QED  BY <1>2, <1>6, <1>7, <1>8, <2>1, <2>2, OneSwitches
  <1>9. CASE Consumer
    BY <1>7, <1>9, ConsumerLeaves DEF switchVars
  <1>10. CASE Output
    <2>1. switches' = switches
      BY <1>10, OutputLeaves DEF switchVars
    <2>2. CASE CopyToggles
      <3>1. /\ opc = "copy" /\ opc' = "events" /\ history' = toggles /\ handled' = 0
            /\ recording' = StateBefore(toggles, gIsRecording)
            /\ UNCHANGED <<toggles, batch, gRecordingCount>>
        BY <2>2 DEF CopyToggles, Goto
      <3>2. handled = 0
        BY <3>1 DEF Quitting
      <3>3. Done' = Done /\ Done = Len(switches) - Len(toggles)
        BY <1>4, <2>1, <3>1, <3>2 DEF Done
      <3>4. recording' = Odd(Len(switches) - Len(toggles))
        <4>1. gIsRecording = Odd(Len(switches))
          BY <1>3 DEF Alternate
        <4>2. recording' = Odd(Len(toggles) + IF Odd(Len(switches)) THEN 1 ELSE 0)
          BY <3>1, <4>1 DEF StateBefore
        <4>. QED  BY <1>3, <1>4, <4>2, OddBefore
      <3>5. Reached'
        BY <1>5, <2>1, <3>3
      <3>6. Counts'
        <4>1. Stops(Done)' = Stops(Done)
          BY <2>1, <3>3 DEF Stops
        <4>. QED  BY <1>3, <3>1, <4>1
      <3>7. Copied'
        <4>1. \A i \in DOMAIN toggles : 0 + i = i
          BY <1>4
        <4>. QED  BY <3>1, <4>1
      <3>8. After'
        <4>1. Done' + Len(history') + 1 = Len(switches) + 1
          BY <1>4, <3>1, <3>3
        <4>2. (Done' + Len(history') + 1)..Len(switches) = {}
          BY <1>4, <4>1
        <4>. QED  BY <2>1, <4>2
      <3>. QED  BY <1>3, <2>1, <3>1, <3>3, <3>4, <3>5, <3>6, <3>7, <3>8
    <2>3. CASE ToggleRecording
      <3>1. /\ opc = "events" /\ opc' = opc /\ batch # <<>> /\ history # <<>>
            /\ batch[1].qpc >= history[1]
            /\ recording' = ~recording /\ history' = Tail(history) /\ handled' = handled + 1
            /\ gRecordingCount' = gRecordingCount + IF recording THEN 1 ELSE 0
            /\ UNCHANGED <<toggles, batch, inflight, mPresentEvents>>
        BY <2>3 DEF ToggleRecording, PastToggle, ToggleIsNext, eventsUnchanged, outputUnchanged
      <3>2. /\ Len(history') = Len(history) - 1 /\ Len(history) \in Nat \ {0}
            /\ DOMAIN history' = 1..Len(history) - 1
            /\ \A i \in 1..Len(history) - 1 : history'[i] = history[i + 1]
        BY <3>1, TailedSeq DEF Typed
      <3>3. Done' = Done + 1 /\ Done + 1 \in 1..Len(switches)
        BY <1>4, <2>1, <3>1, <3>2 DEF Done
      <3>4. history[1] = switches[Done + 1].qpc
        <4>1. /\ 1 \in DOMAIN history /\ handled + 1 \in DOMAIN toggles
              /\ Len(switches) - Len(toggles) + (handled + 1) = Done + 1
          BY <1>4, <3>2 DEF Done
        <4>2. history[1] = toggles[handled + 1]
          BY <1>3, <4>1
        <4>3. toggles[handled + 1] = switches[Len(switches) - Len(toggles) + (handled + 1)].qpc
          BY <1>3, <4>1
        <4>. QED  BY <4>1, <4>2, <4>3
      <3>5. Left'
        BY <1>3, <2>1, <3>1
      <3>6. Copied'
        <4>. SUFFICES ASSUME NEW i \in 1..Len(history) - 1
                      PROVE  history[i + 1] = toggles[handled + 1 + i]
          BY <3>1, <3>2
        <4>1. i + 1 \in DOMAIN history /\ handled + (i + 1) = handled + 1 + i
          BY <1>4
        <4>. QED  BY <1>3, <4>1
      <3>7. recording = Odd(Done) /\ Odd(Done) \in BOOLEAN /\ Odd(Done + 1) = ~Odd(Done)
        BY <1>3, <1>4, <3>1, OddNext
      <3>8. State'
        BY <3>1, <3>3, <3>7
      <3>9. Counts'
        <4>1. switches[Done + 1].on = Odd(Done + 1)
          BY <1>3, <1>4, <3>3 DEF Alternate
        <4>2. Stops(Done)' = Stops(Done + 1)
          BY <2>1, <3>3 DEF Stops
        <4>3. CASE recording
          <5>1. Cardinality(Stops(Done + 1)) = Cardinality(Stops(Done)) + 1
            BY <1>4, <3>7, <4>1, <4>3, StopsGrow
          <5>2. gRecordingCount' = gRecordingCount + 1
            BY <3>1, <4>3
          <5>3. Cardinality(Stops(Done)) \in Nat
            BY <1>4, StopsGrow
          <5>. QED  BY <1>3, <4>2, <5>1, <5>2, <5>3
        <4>4. CASE ~recording
          <5>1. Stops(Done + 1) = Stops(Done)
            BY <1>4, <3>7, <4>1, <4>4, StopsGrow
          <5>2. gRecordingCount' = gRecordingCount
            BY <3>1, <4>4 DEF Typed
          <5>. QED  BY <1>3, <4>2, <5>1, <5>2
        <4>. QED  BY <4>3, <4>4
      <3>10. Reached'
        <4>. SUFFICES ASSUME NEW r \in Pending, NEW i \in 1..Done + 1
                      PROVE  switches[i].qpc <= r.qpc
          BY <2>1, <3>1, <3>3 DEF Pending
        <4>1. CASE i \in 1..Done
          BY <1>3, <4>1
        <4>2. CASE i = Done + 1
          <5>1. batch[1].qpc <= r.qpc
            BY <1>2, <3>1, FirstIsOldest
          <5>2. batch[1].qpc \in Nat /\ r.qpc \in Nat
            BY <3>1, FirstTyped, PendingTyped DEF Typed
          <5>3. switches[i].qpc \in Nat
            BY <1>4, <3>3, <4>2
          <5>. QED  BY <3>1, <3>4, <4>2, <5>1, <5>2, <5>3
        <4>. QED  BY <1>4, <4>1, <4>2
      <3>11. After'
        <4>1. Done' + Len(history') + 1 = Done + Len(history) + 1
          BY <1>4, <3>2, <3>3
        <4>. QED  BY <1>3, <2>1, <3>1, <4>1
      <3>. QED  BY <3>5, <3>6, <3>8, <3>9, <3>10, <3>11
    <2>4. CASE FinishEvents
      <3>1. /\ opc' = "bottom" /\ history' = <<>> /\ handled' = 0
            /\ UNCHANGED <<gRecordingCount>>
        BY <2>4 DEF FinishEvents, Goto
      <3>2. /\ Len(toggles') = Len(toggles) - handled /\ handled <= Len(toggles)
            /\ DOMAIN toggles' = 1..Len(toggles')
            /\ \A i \in 1..Len(toggles) - handled : toggles'[i] = toggles[handled + i]
        <4>1. DOMAIN toggles' = 1..Len(toggles')
          BY <1>10, OutputTyped, LenProperties DEF Typed
        <4>. QED  BY <2>4, <4>1, FinishTyped
      <3>3. Done' = Done
        BY <1>4, <2>1, <3>1, <3>2 DEF Done
      <3>4. Left'
        <4>1. Len(toggles') <= Len(switches')
          BY <1>3, <1>4, <2>1, <3>2
        <4>2. ASSUME NEW i \in 1..Len(toggles) - handled
              PROVE  toggles'[i] = switches[Len(switches) - (Len(toggles) - handled) + i].qpc
          <5>1. /\ handled + i \in 1..Len(toggles)
                /\ Len(switches) - Len(toggles) + (handled + i) =
                     Len(switches) - (Len(toggles) - handled) + i
            BY <1>4
          <5>2. toggles[handled + i] = switches[Len(switches) - Len(toggles) + (handled + i)].qpc
            BY <1>3, <1>4, <5>1
          <5>. QED  BY <3>2, <5>1, <5>2
        <4>. QED  BY <2>1, <3>2, <4>1, <4>2
      <3>5. Copied'
        BY <3>1
      <3>6. Reached'
        BY <1>5, <2>1, <3>3
      <3>7. Stops(Done)' = Stops(Done)
        BY <2>1, <3>3 DEF Stops
      <3>. QED  BY <1>3, <3>1, <3>4, <3>5, <3>6, <3>7
    <2>5. CASE /\ UNCHANGED <<toggles, history, handled, recording, gRecordingCount>>
               /\ opc' = "events" => opc = "events" /\ ToSet(batch') \subseteq ToSet(batch)
      <3>1. Done' = Done /\ Stops(Done)' = Stops(Done)
        BY <2>1, <2>5 DEF Done, Stops
      <3>2. Reached'
        BY <1>5, <2>1, <3>1
      <3>. QED  BY <1>3, <2>1, <2>5, <3>1, <3>2
    <2>. QED  BY <1>10, <2>2, <2>3, <2>4, <2>5, HistoryMoves
  <1>. QED  BY <1>8, <1>9, <1>10, Steps

-----------------------------------------------------------------------------
(* Each present is recorded as of its time.                                *)

\* The switches before the first present of the batch are those handled.
LEMMA HandledBefore ==
    ASSUME Typed, Quitting, Switches, Handled, OneSwitcher, AddPresent
    PROVE  Before(batch[1].qpc) = 1..Done
  <1>. DEFINE q == batch[1].qpc
  <1>1. /\ opc = "events" /\ q \in Nat /\ batch[1] \in ToSet(batch) /\ batch[1] \in Pending
    BY AddTyped DEF AddPresent
  <1>2. /\ Len(switches) \in Nat /\ DOMAIN switches = 1..Len(switches)
        /\ \A i \in DOMAIN switches : switches[i].qpc \in Nat
        /\ Len(toggles) \in Nat /\ Len(history) \in Nat /\ handled \in Nat
        /\ handled + Len(history) <= Len(toggles)
        /\ DOMAIN toggles = 1..Len(toggles) /\ DOMAIN history = 1..Len(history)
        /\ Done \in Nat /\ Done + Len(history) <= Len(switches)
    BY SwitchesTyped, Lengths DEF Handled
  <1>3. \A i \in 1..Done : switches[i].qpc <= q
    BY <1>1 DEF Handled
  <1>4. \A i \in (Done + Len(history) + 1)..Len(switches) : q < switches[i].qpc
    BY <1>1 DEF Handled
  <1>5. \A i \in 1..Len(history) : history[i] = switches[Done + i].qpc
    <2>. SUFFICES ASSUME NEW i \in 1..Len(history) PROVE history[i] = switches[Done + i].qpc
      OBVIOUS
    <2>1. /\ handled + i \in 1..Len(toggles)
          /\ Len(switches) - Len(toggles) + (handled + i) = Done + i
      BY <1>2 DEF Done
    <2>2. history[i] = toggles[handled + i]
      BY <1>2 DEF Handled
    <2>3. toggles[handled + i] = switches[Len(switches) - Len(toggles) + (handled + i)].qpc
      BY <1>2, <2>1 DEF Handled
    <2>. QED  BY <2>1, <2>2, <2>3
  <1>6. ASSUME history # <<>> PROVE q < history[1]
    <2>1. history[1] \in Nat
      BY <1>6, TailedSeq DEF Typed
    <2>2. CASE ~ExitIsNext
      <3>1. ~(q >= history[1])
        BY <1>6, <2>2 DEF AddPresent, PastToggle, ToggleIsNext
      <3>. QED  BY <1>1, <2>1, <3>1
    <2>3. CASE ExitIsNext
      <3>1. ~(q >= terminated[1].qpc) /\ terminated # <<>> /\ terminated[1].qpc <= history[1]
        BY <1>6, <2>3 DEF AddPresent, PastExit, ExitIsNext
      <3>2. terminated[1].qpc \in Nat
        BY <3>1, FirstTyped DEF Typed
      <3>. QED  BY <1>1, <2>1, <3>1, <3>2
    <2>. QED  BY <2>2, <2>3
  <1>. SUFFICES ASSUME NEW i \in DOMAIN switches
                PROVE  switches[i].qpc <= q <=> i \in 1..Done
    BY <1>2 DEF Before
  <1>7. switches[i].qpc \in Nat
    BY <1>2
  <1>8. CASE i \in 1..Done
    BY <1>3, <1>8
  <1>9. CASE i \in (Done + Len(history) + 1)..Len(switches)
    <2>1. i \notin 1..Done
      BY <1>2, <1>9
    <2>. QED  BY <1>1, <1>4, <1>7, <1>9, <2>1
  <1>10. CASE i \in (Done + 1)..(Done + Len(history))
    <2>1. i - Done \in 1..Len(history) /\ Done + (i - Done) = i /\ i \notin 1..Done
      BY <1>2, <1>10
    <2>2. history # <<>> /\ 1 \in 1..Len(history)
      BY <1>2, <2>1
    <2>3. q < history[1] /\ history[1] = switches[Done + 1].qpc
      BY <1>5, <1>6, <2>2
    <2>4. switches[Done + 1].qpc <= switches[i].qpc /\ switches[Done + 1].qpc \in Nat
      <3>1. Done + 1 \in DOMAIN switches /\ (i = Done + 1 \/ Done + 1 < i)
        BY <1>2, <1>10
      <3>2. Done + 1 < i => switches[Done + 1].qpc < switches[i].qpc
        BY <3>1 DEF Switches, Alternate
      <3>. QED  BY <1>2, <3>1, <3>2
    <2>. QED  BY <1>1, <1>7, <2>1, <2>3, <2>4
  <1>11. i \in Nat /\ 1 <= i /\ i <= Len(switches)
    BY <1>2
  <1>12. \/ i \in 1..Done \/ i \in (Done + 1)..(Done + Len(history))
         \/ i \in (Done + Len(history) + 1)..Len(switches)
    BY <1>2, <1>11
  <1>. QED  BY <1>2, <1>8, <1>9, <1>10, <1>11, <1>12

LEMMA RecordedKeeps ==
    ASSUME Typed, Quitting, Switches, Handled, RecordedAsOfItsTime, Next
    PROVE  RecordedAsOfItsTime'
  <1>. DEFINE AsOf(q) == IF On(q) THEN Session(q) ELSE NotRecorded
  <1>. SUFFICES ASSUME OneSwitcher' PROVE logged'.csv = AsOf(logged.qpc)'
    BY DEF RecordedAsOfItsTime, OneSwitcher
  <1>1. OneSwitcher
    BY SetupStays DEF OneSwitcher
  <1>2. logged.csv = AsOf(logged.qpc)
    BY <1>1 DEF RecordedAsOfItsTime, OneSwitcher
  <1>3. CASE UNCHANGED <<switches, logged>>
    BY <1>2, <1>3 DEF On, Session, Before
  <1>4. CASE Push(main)
    <2>1. /\ tpc[main] = "push" /\ DOMAIN switches' = 1..Len(switches) + 1
          /\ \A i \in 1..Len(switches) : switches'[i] = switches[i]
          /\ switches'[Len(switches) + 1] = treq[main] /\ logged' = logged
      BY <1>1, <1>4, OnePushes
    <2>2. /\ Len(switches) \in Nat /\ DOMAIN switches = 1..Len(switches)
          /\ treq[main].qpc \in Nat /\ logged.qpc \in Nat
      BY SwitchesTyped DEF Typed
    <2>3. logged.qpc < treq[main].qpc
      BY <1>1, <2>1 DEF Switches, Pushing
    <2>. DEFINE q == logged.qpc
                B == {i \in 1..Len(switches) : switches[i].qpc <= q}
    <2>4. Before(q) = B
      BY <2>2 DEF Before
    <2>5. Before(q)' = B
      <3>1. Before(q)' = {i \in 1..Len(switches) + 1 : switches'[i].qpc <= q}
        BY <2>1 DEF Before
      <3>2. ~(switches'[Len(switches) + 1].qpc <= q)
        BY <2>1, <2>2, <2>3
      <3>3. \A i \in 1..Len(switches) + 1 : i \in 1..Len(switches) \/ i = Len(switches) + 1
        BY <2>2
      <3>4. \A i \in 1..Len(switches) : i \in 1..Len(switches) + 1
        BY <2>2
      <3>. QED  BY <2>1, <3>1, <3>2, <3>3, <3>4
    <2>6. B # {} => Cardinality(B) \in 1..Len(switches)
      <3>1. IsFiniteSet(1..Len(switches)) /\ Cardinality(1..Len(switches)) = Len(switches)
        <4>1. 1 \in Int /\ Len(switches) \in Int
          BY <2>2
        <4>2. IsFiniteSet(1..Len(switches))
          BY <4>1, FS_Interval
        <4>3. Cardinality(1..Len(switches)) =
                IF 1 > Len(switches) THEN 0 ELSE Len(switches) - 1 + 1
          BY <4>1, FS_Interval
        <4>. QED  BY <2>2, <4>2, <4>3
      <3>2. B \in SUBSET (1..Len(switches))
        OBVIOUS
      <3>3. IsFiniteSet(B) /\ Cardinality(B) <= Len(switches) /\ Cardinality(B) \in Nat
        BY <3>1, <3>2, FS_Subset, FS_CardinalityType
      <3>4. B # {} => Cardinality(B) # 0
        BY <3>3, FS_EmptySet
      <3>. QED  BY <2>2, <3>3, <3>4
    <2>7. On(q)' = On(q)
      BY <2>1, <2>4, <2>5, <2>6 DEF On
    <2>8. Session(q)' = Session(q)
      <3>1. {i \in B : ~switches'[i].on} = {i \in B : ~switches[i].on}
        BY <2>1
      <3>. QED  BY <2>4, <2>5, <3>1 DEF Session
    <2>. QED  BY <1>2, <2>1, <2>7, <2>8
  <1>5. CASE AddPresent
    <2>. DEFINE q == batch[1].qpc
    <2>1. switches' = switches
      BY <1>5 DEF AddPresent, eventsUnchanged, outputUnchanged, switchVars
    <2>2. CASE logged' = logged
      BY <1>3, <2>1, <2>2
    <2>3. CASE logged' = [qpc |-> q, csv |-> IF recording THEN gRecordingCount ELSE NotRecorded]
      <3>1. /\ Before(q) = 1..Done /\ Done \in Nat /\ opc = "events"
            /\ Done <= Len(switches) /\ Len(switches) \in Nat /\ DOMAIN switches = 1..Len(switches)
        <4>1. Done \in Nat /\ Done + Len(history) <= Len(switches) /\ Len(history) \in Nat
          BY <1>1, Lengths DEF Handled
        <4>2. Before(q) = 1..Done
          BY <1>1, <1>5, HandledBefore
        <4>. QED  BY <1>5, <4>1, <4>2, SwitchesTyped DEF AddPresent
      <3>2. /\ recording = Odd(Done) /\ gRecordingCount = 1 + Cardinality(Stops(Done))
        BY <1>1, <3>1 DEF Handled, Stops
      <3>3. Cardinality(1..Done) = Done
        BY <3>1, FS_Interval
      <3>4. On(q) <=> Odd(Done)
        <4>1. CASE Done = 0
          BY <3>1, <4>1 DEF On, Odd
        <4>2. CASE Done # 0
          <5>1. Done \in DOMAIN switches /\ Before(q) # {}
            <6>1. Done \in 1..Done /\ Done \in 1..Len(switches)
              BY <3>1, <4>2
            <6>. QED  BY <3>1, <6>1
          <5>2. switches[Done].on = Odd(Done)
            BY <1>1, <5>1 DEF Switches, Alternate
          <5>. QED  BY <3>1, <3>3, <5>1, <5>2 DEF On
        <4>. QED  BY <4>1, <4>2
      <3>5. Session(q) = gRecordingCount
        BY <3>1, <3>2 DEF Session, Stops
      <3>6. logged'.csv = AsOf(q)
        BY <2>3, <3>2, <3>4, <3>5
      <3>7. AsOf(logged.qpc)' = AsOf(q)
        BY <2>1, <2>3 DEF On, Session, Before
      <3>. QED  BY <3>6, <3>7
    <2>. QED  BY <1>5, <2>2, <2>3, AddTyped
  <1>6. CASE Switching
    <2>1. logged' = logged
      BY <1>6, SwitchingLeaves
    <2>2. CASE Look(main)
      BY <1>3, <2>1, <2>2 DEF Look
    <2>. QED  BY <1>1, <1>3, <1>4, <1>6, <2>1, <2>2, OneSwitches
  <1>7. CASE Consumer
    BY <1>3, <1>7, ConsumerLeaves DEF switchVars
  <1>8. CASE Output
    <2>1. switches' = switches
      BY <1>8, OutputLeaves DEF switchVars
    <2>2. logged' = logged \/ AddPresent
      BY <1>8 DEF Output, ReadQuit, DequeueProcessEvents, DequeuePresentEvents, CopyToggles,
         HandleTerminatedProcess, ToggleRecording, FinishEvents,
         CheckForTerminatedRealtimeProcesses, Finish
    <2>. QED  BY <1>3, <1>5, <2>1, <2>2
  <1>. QED  BY <1>6, <1>7, <1>8, Steps

-----------------------------------------------------------------------------
(* The invariant.                                                          *)

LEMMA InitKeeps ==
    ASSUME Init
    PROVE  IInv
  <1>1. NoEvents \in SomeEvents /\ (\A S : <<>> \in Seq(S)) /\ Len(<<>>) = 0
    BY EmptyIsEmpty DEF SomeEvents, NoEvents
  <1>2. Typed
    <2>1. treq \in [{main, ctrl} -> Request]
      BY DEF Init, Request
    <2>2. tpc \in [{main, ctrl} -> {"idle", "assign", "look", "push", "asleep", "close", "join",
                                    "done"}]
      BY DEF Init
    <2>3. life \in [Pids -> {"new", "running", "exited"}]
      BY DEF Init
    <2>4. gProcesses \in [Pids -> ProcessInfo \cup {NoEntry}] /\ gone \subseteq Pids
      BY DEF Init
    <2>5. logged \in [qpc : Nat, csv : Nat]
      BY DEF Init, NotLogged, NotRecorded
    <2>6. /\ mPresentEvents \in Seq(Timed) /\ batch \in Seq(Timed) /\ terminated \in Seq(Timed)
          /\ mProcessEvents \in SomeEvents /\ newProcesses \in SomeEvents
          /\ toggles \in Seq(Nat) /\ history \in Seq(Nat) /\ switches \in Seq(Request)
      BY <1>1 DEF Init
    <2>7. setup \in Setups /\ now \in Nat /\ inflight \subseteq Timed
      BY DEF Init
    <2>8. /\ consumer \in {"running", "ended"}
          /\ opc \in {"top", "processes", "presents", "copy", "events", "bottom", "done"}
      BY DEF Init
    <2>9. isRecording \in BOOLEAN /\ gIsRecording \in BOOLEAN /\ recording \in BOOLEAN
      BY DEF Init
    <2>10. handled \in Nat /\ gRecordingCount \in Nat \ {0}
      BY DEF Init
    <2>. QED  BY <2>1, <2>2, <2>3, <2>4, <2>5, <2>6, <2>7, <2>8, <2>9, <2>10 DEF Typed
  <1>3. Quitting
    BY <1>1 DEF Init, Quitting
  <1>4. Pending = {} /\ Queued = {} /\ ExitQueued = {} /\ Targets = {} /\ Done = 0
    BY <1>1, EmptyIsEmpty DEF Init, Pending, Queued, ExitQueued, Targets, Done, NoEvents
  <1>5. Past
    BY <1>4, EmptyIsEmpty DEF Init, Past, NotLogged
  <1>6. ExitsOnce
    BY <1>4, EmptyIsEmpty DEF Init, ExitsOnce, NoEvents
  <1>7. Counted
    BY <1>2, <1>4, FS_EmptySet, TargetsFinite DEF Init, Counted
  <1>8. Order
    BY EmptyIsEmpty DEF Init, Order, NoLater
  <1>9. Leaving
    BY <1>4, EmptyIsEmpty DEF Init, Leaving, NoEvents
  <1>10. Switches
    <2>1. Odd(0) = FALSE
      BY DEF Odd
    <2>2. Alternate
      <3>1. DOMAIN switches = {} /\ Len(switches) = 0 /\ gIsRecording = FALSE
        BY <1>1 DEF Init
      <3>. QED  BY <2>1, <3>1 DEF Alternate
    <2>3. tpc[main] # "push"
      BY DEF Init
    <2>. QED  BY <2>2, <2>3 DEF Switches
  <1>11. Handled
    <2>1. 1..0 = {} /\ Stops(0) = {}
      BY DEF Stops
    <2>2. Cardinality({i \in 1..Done : ~switches[i].on}) = 0
      BY <1>4, <2>1, FS_EmptySet DEF Stops
    <2>. QED  BY <1>1, <1>4, <2>1, <2>2, EmptyIsEmpty DEF Init, Handled
  <1>12. RecordedAsOfItsTime
    <2>1. Before(logged.qpc) = {}
      BY <1>1 DEF Init, Before
    <2>. QED  BY <2>1 DEF Init, RecordedAsOfItsTime, On, NotLogged
  <1>. QED  BY <1>2, <1>3, <1>5, <1>6, <1>7, <1>8, <1>9, <1>10, <1>11, <1>12 DEF IInv

LEMMA StepKeeps ==
    ASSUME IInv, [Next]_vars
    PROVE  IInv'
  <1>1. CASE Next
    BY <1>1, TypedKeeps, QuittingKeeps, PastKeeps, ExitsOnceKeeps, CountedKeeps, OrderKeeps,
       LeavingKeeps, SwitchesKeeps, HandledKeeps, RecordedKeeps DEF IInv
  <1>2. CASE UNCHANGED vars
    <2>1. UNCHANGED <<setup, now, life, inflight, consumer, mPresentEvents, mProcessEvents, tpc, treq,
                      isRecording, gIsRecording, toggles, switches>>
      BY <1>2 DEF vars, consumerVars, switchVars
    <2>2. UNCHANGED <<gQuit, opc, quit, newProcesses, batch, history, handled, recording, terminated,
                      gProcesses, gTargetProcessCount, gRecordingCount, gone, logged>>
      BY <1>2 DEF vars, localVars, processVars
    <2>3. Typed' /\ Quitting' /\ Counted' /\ Order'
      BY <2>1, <2>2 DEF IInv, Typed, Quitting, Counted, Targets, Order
    <2>4. Pending' = Pending /\ Queued' = Queued /\ ExitQueued' = ExitQueued /\ Done' = Done
      BY <2>1, <2>2 DEF Pending, Queued, ExitQueued, Done
    <2>5. Past' /\ ExitsOnce' /\ Leaving'
      BY <2>1, <2>2, <2>4 DEF IInv, Past, ExitsOnce, Leaving
    <2>6. Switches'
      BY <2>1, <2>2 DEF IInv, Switches, OneSwitcher, Alternate, Pushing
    <2>7. Handled'
      BY <2>1, <2>2, <2>4 DEF IInv, Handled, OneSwitcher
    <2>8. RecordedAsOfItsTime'
      BY <2>1, <2>2 DEF IInv, RecordedAsOfItsTime, On, Session, Before
    <2>. QED  BY <2>3, <2>5, <2>6, <2>7, <2>8 DEF IInv
  <1>. QED  BY <1>1, <1>2

-----------------------------------------------------------------------------
\* What the output thread holds is consistent at every step, for any number of
\* processes, presents and switches (OutputThread.cpp, ConsumerThread.cpp).
THEOREM OutputInductive == Spec => []IInv
  <1>1. Init => IInv
    BY InitKeeps
  <1>2. IInv /\ [Next]_vars => IInv'
    BY StepKeeps
  <1>. QED  BY <1>1, <1>2, PTL DEF Spec

\* Every variable keeps its type: gTargetProcessCount stays between nought and the
\* number of processes, and no exit or toggle has a time that is yet to come.
THEOREM TypeCorrect == Spec => []TypeOK
  <1>1. IInv => TypeOK
    <2>. SUFFICES ASSUME IInv PROVE TypeOK
      OBVIOUS
    <2>1. Typed /\ Quitting /\ Past /\ Counted
      BY DEF IInv
    <2>2. \A r \in inflight : r.pid \in Pids /\ r.qpc \in 0..now
      BY <2>1, PendingTyped DEF Past, Typed
    <2>3. \A i \in DOMAIN mPresentEvents : mPresentEvents[i].pid \in Pids
      BY <2>1, PendingTyped DEF ToSet
    <2>4. \A i \in DOMAIN terminated : terminated[i].pid \in Pids /\ terminated[i].qpc \in 0..now
      BY <2>1, QueuedTyped DEF Past, Queued, ToSet, Timed, Typed
    <2>5. \A i \in DOMAIN toggles : toggles[i] \in 0..now
      <3>1. \A i \in DOMAIN toggles : toggles[i] \in Nat
        BY <2>1, LenProperties, ElementOfSeq DEF Typed
      <3>. QED  BY <2>1, <3>1 DEF Past, ToSet, Typed
    <2>6. handled \in 0..Len(toggles)
      BY <2>1, Lengths
    <2>. QED  BY <2>1, <2>2, <2>3, <2>4, <2>5, <2>6 DEF TypeOK, Typed, Counted, ProcessInfo
  <1>. QED  BY <1>1, OutputInductive, PTL

\* Whatever is queued before the trace ends is dealt with before the output thread
\* ends (OutputThread.cpp:576-590): gQuit is read before the queues are.
THEOREM QuitLeavesNothing == Spec => []NothingLeftBehind
  <1>1. IInv => NothingLeftBehind
    BY DEF IInv, Quitting, NothingLeftBehind
  <1>. QED  BY <1>1, OutputInductive, PTL

\* An erased process never comes back where presents come in order
\* (HandleTerminatedProcess, OutputThread.cpp:465-468).
THEOREM ErasedStaysErased == Spec => []GoneStaysGone
  <1>1. IInv => GoneStaysGone
    BY DEF IInv, Leaving, GoneStaysGone
  <1>. QED  BY <1>1, OutputInductive, PTL

\* The count that -terminate_on_proc_exit goes by is that of the targets in the
\* process table, and no exit is queued twice.
THEOREM CountIsOfTargets == Spec => []TargetsAreCounted
  <1>1. IInv => TargetsAreCounted
    BY DEF IInv, Counted, Targets, ExitsOnce, Once, TargetsAreCounted
  <1>. QED  BY <1>1, OutputInductive, PTL

\* Every present goes to the recording that ran at its own time, however late it
\* arrives (OutputThread.cpp:80-83): any number of switches, any delay.
THEOREM RecordsAsOfTheTime == Spec => []RecordedAsOfItsTime
  <1>1. IInv => RecordedAsOfItsTime
    BY DEF IInv
  <1>. QED  BY <1>1, OutputInductive, PTL
=============================================================================
