--------------------------- MODULE PresentTracking ---------------------------
(***************************************************************************)
(* The bookkeeping of PMTraceConsumer (PresentData/                        *)
(* PresentMonTraceConsumer.{hpp,cpp}): the in-progress presents, the nine  *)
(* collections that find one from an ETW event, and the helpers every      *)
(* event handler is written with.  The handlers are in PMTraceConsumer.tla.*)
(*                                                                         *)
(* All events are handled by one thread, so a handler is one step.  The    *)
(* consumer is a record and a helper maps a consumer to the consumer it    *)
(* leaves behind, in the order of its statements.                          *)
(*                                                                         *)
(* A present is its index in the order of creation, which is also the      *)
(* order of QpcTime.  ScreenTime is kept as "is set": no branch looks at  *)
(* more.  Data no branch reads (ReadyTime, sizes, SyncInterval,            *)
(* SupportsTearing, DwmNotified, TimeTaken) is left out.                   *)
(***************************************************************************)
EXTENDS Naturals, Sequences, FiniteSets, SequencesExt

CONSTANTS
  Threads, Processes,   \* of the event headers
  ProcessOf(_),         \* the process of a thread
  TrackedProcesses,     \* mTrackedProcessFilter; Processes when filtering is off
  SwapChains, SubmitSeqs, Contexts, Hwnds, Tokens,
  None,                 \* a zero key: no swap chain, no hwnd, no token, ...
  RingSize              \* PRESENTEVENT_CIRCULAR_BUFFER_SIZE

ASSUME TrackingAssumption ==
  /\ \A t \in Threads : ProcessOf(t) \in Processes
  /\ TrackedProcesses \subseteq Processes
  /\ None \notin UNION {Threads, Processes, SwapChains, SubmitSeqs, Contexts, Hwnds, Tokens}
  /\ IsFiniteSet(Hwnds)
  /\ RingSize \in Nat \ {0}

NoPresent == 0   \* nullptr, and "not in the map"

Modes == {"Unknown", "Legacy_Flip", "Legacy_Copy", "Independent_Flip",
          "Composed_Flip", "Composed_Copy_GPU_GDI", "Composed_Copy_CPU_GDI",
          "Composition_Atlas", "Composed_Independent_Flip"}
Results == {"Unknown", "Presented", "Discarded", "Error"}
Runtimes == {"DXGI", "D3D9", "Other"}

\* PresentEvent::PresentEvent, with the fields a runtime's start event adds.
NewPresent(thread, runtime, swap, doNotSequence) ==
  [process |-> ProcessOf(thread), thread |-> thread, runtime |-> runtime,
   swap |-> swap, doNotSequence |-> doNotSequence,
   mode |-> "Unknown", final |-> "Unknown", screen |-> FALSE,
   hwnd |-> None, token |-> None, win32k |-> None, blitToken |-> None,
   submit |-> None, context |-> None, batchThread |-> None,
   mmio |-> FALSE, seenDxgk |-> FALSE, seenWin32K |-> FALSE,
   completed |-> FALSE, lost |-> FALSE, slot |-> 0, deps |-> <<>>,
   inDwmWaiting |-> FALSE]

EmptyMap(keys) == [k \in keys |-> NoPresent]

\* PMTraceConsumer::PMTraceConsumer and its member initialisers.
NewConsumer ==
  [presents |-> <<>>,                        \* every present ever created
   ring |-> EmptyMap(0..RingSize - 1),       \* mAllPresents
   next |-> 0,                               \* mAllPresentsNextIndex
   byThread |-> EmptyMap(Threads),           \* mPresentByThreadId
   byProcess |-> {},                         \* mPresentsByProcess
   bySwapChain |-> [k \in Processes \X (SwapChains \cup {None}) |-> <<>>],
   bySubmit |-> EmptyMap(SubmitSeqs),        \* mPresentsBySubmitSequence
   win32k |-> EmptyMap(Tokens),              \* mWin32KPresentHistoryTokens
   dxgk |-> EmptyMap(Tokens),                \* mDxgKrnlPresentHistoryTokens
   blits |-> EmptyMap(Contexts),             \* mBltsByDxgContext
   window |-> EmptyMap(Hwnds),               \* mLastWindowPresent
   legacyBlit |-> EmptyMap(Tokens),          \* mPresentsByLegacyBlitToken
   waiting |-> <<>>,                         \* mPresentsWaitingForDWM
   dwmProcess |-> None, dwmThread |-> None,  \* DwmProcessId, DwmPresentThreadId
   delivered |-> <<>>,                       \* mPresentEvents, never dequeued here
   lost |-> {},                              \* mLostPresentEvents, likewise
   failed |-> {},                            \* lines of asserts that did not hold
   hung |-> FALSE]                           \* a handler that does not return

\* What the consumer can still reach: the targets of its collections and what
\* rides along with them.
Targets(map) == {map[k] : k \in DOMAIN map} \ {NoPresent}
LookedUp(c) ==
  Targets(c.byThread) \cup Targets(c.bySubmit) \cup Targets(c.win32k) \cup Targets(c.dxgk)
    \cup Targets(c.blits) \cup Targets(c.window) \cup Targets(c.legacyBlit)
    \cup c.byProcess \cup ToSet(c.waiting)
Reachable(c) ==
  LET held == LookedUp(c) \cup Targets(c.ring)
  IN held \cup UNION {ToSet(c.presents[p].deps) : p \in held}

\* Of a present the consumer cannot reach any more only the outcome is kept, and
\* of a blit whether the kernel's present had returned.
Forgotten(e) ==
  [NewPresent(CHOOSE t \in Threads : ProcessOf(t) = e.process, "Other", e.swap, FALSE)
     EXCEPT !.mode = e.mode, !.final = e.final, !.screen = e.screen,
            !.seenDxgk = e.seenDxgk /\ e.mode = "Legacy_Copy", !.completed = e.completed, !.lost = e.lost]
Forget(c) ==
  LET reachable == Reachable(c)
  IN [c EXCEPT !.presents = [p \in DOMAIN @ |->
                               IF p \in reachable THEN @[p] ELSE Forgotten(@[p])]]

Key(c, p) == <<c.presents[p].process, c.presents[p].swap>>
Deque(c, p) == c.bySwapChain[Key(c, p)]
Assert_(c, line, holds) == IF holds THEN c ELSE [c EXCEPT !.failed = @ \cup {line}]

\* map.find(key), then erase if the value found is p.
EraseIf(map, key, p) ==
  IF key # None /\ map[key] = p THEN [map EXCEPT ![key] = NoPresent] ELSE map

\* IsProcessTrackedForFiltering
Tracked(c, process) == process \in TrackedProcesses \/ process = c.dwmProcess

-----------------------------------------------------------------------------
(* Faults of the removal: one of the nine collections is forgotten.        *)
Untrack_KeepsSubmit(c, p) ==
  LET e == c.presents[p] IN
  [c EXCEPT !.byThread = EraseIf(EraseIf(@, e.thread, p), e.batchThread, p),
            !.win32k = EraseIf(@, e.win32k, p),
            !.dxgk = EraseIf(@, e.token, p),
            !.blits = EraseIf(@, e.context, p),
            !.window = EraseIf(@, e.hwnd, p),
            !.waiting = IF e.inDwmWaiting THEN RemoveFirst(@, p) ELSE @,
            !.presents[p].inDwmWaiting = FALSE,
            !.legacyBlit = EraseIf(@, e.blitToken, p)]
Untrack_KeepsWindow(c, p) ==
  [Untrack_KeepsSubmit(c, p) EXCEPT !.bySubmit = EraseIf(@, c.presents[p].submit, p),
                                    !.window = c.window]
Untrack_KeepsThread(c, p) ==
  [Untrack_KeepsSubmit(c, p) EXCEPT !.bySubmit = EraseIf(@, c.presents[p].submit, p),
                                    !.byThread = c.byThread]

-----------------------------------------------------------------------------
\* RemovePresentFromTemporaryTrackingCollections
Untrack(c, p) ==
  LET e == c.presents[p] IN
  [c EXCEPT !.byThread = EraseIf(EraseIf(@, e.thread, p), e.batchThread, p),
            !.bySubmit = EraseIf(@, e.submit, p),
            !.win32k = EraseIf(@, e.win32k, p),
            !.dxgk = EraseIf(@, e.token, p),
            !.blits = EraseIf(@, e.context, p),
            !.window = EraseIf(@, e.hwnd, p),
            !.waiting = IF e.inDwmWaiting THEN RemoveFirst(@, p) ELSE @,
            !.presents[p].inDwmWaiting = @ /\ ~Contains(c.waiting, p),
            !.legacyBlit = EraseIf(@, e.blitToken, p)]

(***************************************************************************)
(* RemoveLostPresent.  The loop over the dependent presents tests the      *)
(* IsLost flag of p itself, just set, and so does nothing.  What is        *)
(* published as lost is whatever the ring holds in p's slot.               *)
(***************************************************************************)
GiveUp(c, p) ==
  LET slot == c.presents[p].slot
  IN [Assert_(c, 1395, Contains(Deque(c, p), p))
        EXCEPT !.byProcess = @ \ {p},
               !.bySwapChain[Key(c, p)] = RemoveFirst(@, p),
               !.lost = @ \cup {c.ring[slot]},
               !.ring[slot] = NoPresent]

RemoveLost(c, p) ==
  LET e == c.presents[p]
      marked == [c EXCEPT !.presents[p].lost = TRUE]
      shown  == e.completed /\ e.final = "Presented"
  IN GiveUp(Untrack(Assert_(marked, 1371, ~shown), p), p)

\* Faults of the delivery: a present overtakes the older ones of its swap chain;
\* it keeps its slot in the ring.
DeliverReady_Now(c, p) ==
  [c EXCEPT !.bySwapChain[Key(c, p)] = RemoveFirst(@, p),
            !.delivered = Append(@, p),
            !.ring[c.presents[p].slot] = NoPresent]
DeliverReady_KeepsSlot(c, p) ==
  LET d == Deque(c, p)
      n == Cardinality({i \in DOMAIN d : \A j \in 1..i : c.presents[d[j]].completed})
  IN [c EXCEPT !.bySwapChain[Key(c, p)] = SubSeq(@, n + 1, Len(@)),
               !.delivered = @ \o SubSeq(d, 1, n)]

\* The ready prefix of p's swap chain moves to mPresentEvents.
DeliverReady(c, p) ==
  LET d == Deque(c, p)
      n == Cardinality({i \in DOMAIN d : \A j \in 1..i : c.presents[d[j]].completed})
      ready == SubSeq(d, 1, n)
  IN [c EXCEPT !.bySwapChain[Key(c, p)] = SubSeq(@, n + 1, Len(@)),
               !.delivered = @ \o ready,
               !.ring = [s \in DOMAIN @ |->
                           IF \E i \in DOMAIN ready : c.presents[ready[i]].slot = s
                           THEN NoPresent ELSE @[s]]]

(***************************************************************************)
(* CompletePresent calls itself for the presents that ride along and, in a *)
(* loop, for the older ones of the swap chain.  A completion under way is  *)
(* the consumer c and the stack of what is left to do.  A "call" leaves a  *)
(* "ride" for each dependent and an "untrack", that leaves "older", if the *)
(* present was displayed, and "deliver".                                   *)
(***************************************************************************)
Job(do, p) == [do |-> do, p |-> p, of |-> p]
State(c, todo) == [c |-> c, todo |-> todo]

\* A fault of CompletePresent: a dependent gets no time on screen.
Ride_NoTime(c, q, p) ==
  IF c.presents[q].lost THEN State(c, <<>>)
  ELSE State([c EXCEPT !.presents[q].final = c.presents[p].final], <<Job("call", q)>>)

\* A present that rides along with p takes its outcome, unless it was lost.
Ride(c, q, p) ==
  IF c.presents[q].lost THEN State(c, <<>>)
  ELSE State([c EXCEPT !.presents[q].screen = c.presents[p].screen,
                       !.presents[q].final = c.presents[p].final], <<Job("call", q)>>)

Call(c, p) ==
  LET deps  == c.presents[p].deps
      rides == [i \in DOMAIN deps |-> [do |-> "ride", p |-> deps[i], of |-> p]]
  IN IF c.presents[p].completed
     THEN State([c EXCEPT !.presents[p].final = "Error"], <<>>)
     ELSE State(c, Append(rides, Job("untrack", p)))

\* The front of an empty deque is undefined; the assert of line 1441 counts as
\* failed then, and a release build does not look.
CompleteUntracked(c, p) ==
  LET c1 == [Untrack([c EXCEPT !.presents[p].deps = <<>>], p) EXCEPT !.byProcess = @ \ {p}]
      d  == Deque(c1, p)
  IN State(Assert_(c1, 1441, d # <<>> /\ ~c1.presents[Head(d)].completed),
           IF c1.presents[p].final = "Presented"
           THEN <<Job("older", p), Job("deliver", p)>> ELSE <<Job("deliver", p)>>)

\* The loop over the older presents.  Completing one again does not take it off the
\* deque, and the loop looks at the same front for ever.
CompleteOlder(c, p) ==
  LET d == Deque(c, p) IN
  State(c, IF d = <<>> \/ Head(d) = p THEN <<>> ELSE <<Job("call", Head(d)), Job("older", p)>>)

Deliver(c, p) == State(DeliverReady([c EXCEPT !.presents[p].completed = TRUE], p), <<>>)

Do(c, job) ==
  CASE job.do = "call"    -> Call(c, job.p)
    [] job.do = "ride"    -> Ride(c, job.p, job.of)
    [] job.do = "untrack" -> CompleteUntracked(c, job.p)
    [] job.do = "older"   -> CompleteOlder(c, job.p)
    [] job.do = "deliver" -> Deliver(c, job.p)

Continue(s) ==
  IF s.todo = <<>> THEN s
  ELSE LET done == Do(s.c, Head(s.todo)) IN State(done.c, done.todo \o Tail(s.todo))

Completing(c, p) ==
  LET run[n \in Nat] == IF n = 0 THEN State(c, <<Job("call", p)>>) ELSE Continue(run[n - 1])
  IN run

\* More jobs than there are in a completion that ends: at most four for each present
\* and one for each turn of a loop, when no present waits for DWM twice.
Jobs(c) == LET n == Len(c.presents) IN n * (2 * n + 5)

Complete(c, p) ==
  LET end == Completing(c, p)[Jobs(c)]
  IN IF end.todo = <<>> THEN end.c ELSE [end.c EXCEPT !.hung = TRUE]

-----------------------------------------------------------------------------
\* The ring of presents wraps onto a present that never completed.
Evict(c) == IF c.ring[c.next] = NoPresent THEN c ELSE RemoveLost(c, c.ring[c.next])

\* Fault: the index of the ring does not wrap.
File_NoWrap(c, present) ==
  LET id == Len(c.presents) + 1
  IN [c EXCEPT !.presents = Append(@, [present EXCEPT !.slot = c.next]),
               !.ring[c.next] = id,
               !.next = @ + 1,
               !.byProcess = @ \cup {id},
               !.bySwapChain[<<present.process, present.swap>>] = Append(@, id),
               !.byThread[present.thread] = id]

\* TrackPresent; map::emplace leaves an entry that exists alone.
File(c, present) ==
  LET id == Len(c.presents) + 1
  IN [c EXCEPT !.presents = Append(@, [present EXCEPT !.slot = c.next]),
               !.ring[c.next] = id,
               !.next = (@ + 1) % RingSize,
               !.byProcess = @ \cup {id},
               !.bySwapChain[<<present.process, present.swap>>] = Append(@, id),
               !.byThread[present.thread] = IF @ = NoPresent THEN id ELSE @]
Track(c, present) == File(Evict(c), present)

\* TrackPresentOnThread
TrackOnThread(c, present) ==
  LET q == c.byThread[present.thread] IN
  Track(IF q = NoPresent THEN c ELSE RemoveLost(c, q), present)

\* Presents of the process that a kernel event may pick up.
Unclaimed(c, process) ==
  {p \in c.byProcess : c.presents[p].process = process /\ c.presents[p].mode = "Unknown"}

Newest(c) == [c |-> c, p |-> Len(c.presents)]

\* FindOrCreatePresent: the consumer it leaves and the present it returns.
FindOrCreate(c, thread) ==
  LET process == ProcessOf(thread)
      oldest  == CHOOSE p \in Unclaimed(c, process) :
                   \A q \in Unclaimed(c, process) : p <= q
  IN IF c.byThread[thread] # NoPresent
     THEN [c |-> c, p |-> c.byThread[thread]]
     ELSE IF ~Tracked(c, process)
     THEN [c |-> c, p |-> NoPresent]
     ELSE IF Unclaimed(c, process) # {}
     THEN [c |-> [c EXCEPT !.byProcess = @ \ {oldest}, !.byThread[thread] = oldest],
           p |-> oldest]
     ELSE Newest(Track(c, NewPresent(thread, "Other", None, FALSE)))

(***************************************************************************)
(* The beginning of four handlers: a present that the event cannot belong  *)
(* to is "stuck"; it is given up as lost and the lookup repeated, after    *)
(* which the handler's assert expects one that is not stuck.               *)
(***************************************************************************)
Stuck(handler, e) ==
  CASE handler = "Blt"     -> e.mode # "Unknown"
    [] handler = "Flip"    -> e.submit # None \/ e.seenDxgk
    [] handler = "History" -> e.token # None
    [] handler = "Win32K"  -> e.seenWin32K
FreshAssert == [Blt |-> 258, Flip |-> 313, History |-> 544, Win32K |-> 1051]

CheckFresh(found, handler) ==
  LET fresh == found.p = NoPresent \/ ~Stuck(handler, found.c.presents[found.p])
  IN [found EXCEPT !.c = Assert_(@, FreshAssert[handler], fresh)]

UnlessStuck(found, thread, handler) ==
  IF found.p # NoPresent /\ Stuck(handler, found.c.presents[found.p])
  THEN CheckFresh(FindOrCreate(RemoveLost(found.c, found.p), thread), handler)
  ELSE found

FindFresh(c, thread, handler) == UnlessStuck(FindOrCreate(c, thread), thread, handler)
=============================================================================
