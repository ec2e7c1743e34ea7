--------------------------- MODULE PMTraceConsumer ---------------------------
(***************************************************************************)
(* The ETW event handlers of PMTraceConsumer: one action per event that    *)
(* moves a present along.  The events of different threads, processes and  *)
(* providers arrive in any order, may be missing because the trace was     *)
(* started late or dropped buffers, and may concern presents that are      *)
(* already finished; every handler is written to cope with that.           *)
(*                                                                         *)
(* What is assumed of the operating system: a history token, composition   *)
(* token or blit token is not issued again while the consumer still holds  *)
(* a present under it.                                                     *)
(***************************************************************************)
EXTENDS PresentTracking

CONSTANT Traces   \* the kinds of trace a run feeds in

Families == {"runtime", "test", "flip", "sync", "mpo", "blt", "cancel", "queue",
             "present", "history", "win32k", "dwm"}

\* FlipEntryStatusAfterFlip; "none" is an event version without it.
FlipStatuses == {"none", "FlipWaitVSync", "FlipWaitHSync", "FlipWaitComplete", "other"}

ASSUME ConsumerAssumption ==
  \A tr \in Traces :
    /\ tr.feeds \in [Threads -> SUBSET Families]   \* groups of events, by thread
    /\ tr.runtimes \subseteq Runtimes \ {"Other"}  \* whose Present calls are traced
    /\ tr.keys \subseteq SubmitSeqs \cup Tokens     \* those that occur
    /\ tr.statuses \subseteq FlipStatuses          \* of the flips of an overlay
    /\ tr.supportsDxgkPresentEvent \in BOOLEAN     \* FALSE for the Windows 7 providers
    /\ tr.simpleMode \in BOOLEAN                   \* mSimpleMode: no kernel providers
    /\ tr.simpleMode => \A t \in Threads : tr.feeds[t] \subseteq {"runtime", "test"}
    /\ tr.maxPresents \in Nat                      \* bound on the presents created

VARIABLES
  consumer,
  trace       \* what is traced and how, fixed before the first event
vars == <<consumer, trace>>

Init == consumer = NewConsumer /\ trace \in Traces

On(family) == \E t \in Threads : family \in trace.feeds[t]

\* The handler leaves c behind.  One that hangs stops the consumer for good; what
\* it changed before is left out.
Becomes(c) ==
  /\ Len(c.presents) <= trace.maxPresents /\ ~consumer.hung
  /\ consumer' = IF c.hung THEN [consumer EXCEPT !.hung = TRUE] ELSE Forget(c)
  /\ UNCHANGED trace

-----------------------------------------------------------------------------
(* DXGI and D3D9 runtime events.  Only TokenConfirmed looks at DO_NOT_SEQUENCE. *)
PresentStart(t) ==
  /\ "runtime" \in trace.feeds[t] /\ Tracked(consumer, ProcessOf(t))
  /\ \E runtime \in trace.runtimes, swap \in SwapChains,
        doNotSequence \in IF On("win32k") THEN BOOLEAN ELSE {FALSE} :
       Becomes(TrackOnThread(consumer, NewPresent(t, runtime, swap, doNotSequence)))

\* DXGI_PRESENT_TEST only detaches the thread from whatever it was working on.
PresentTest(t) ==
  /\ "test" \in trace.feeds[t] /\ Tracked(consumer, ProcessOf(t))
  /\ Becomes([consumer EXCEPT !.byThread[t] = NoPresent])

\* RuntimePresentStop
RuntimePresentStop(t, allowBatching, runtime) ==
  LET p  == consumer.byThread[t]
      c1 == Assert_(consumer, 1577, consumer.presents[p].runtime \in {"Other", runtime})
      c2 == [c1 EXCEPT !.presents[p].runtime = runtime]
      c3 == [c2 EXCEPT !.presents[p].final =
                          IF allowBatching THEN "Presented" ELSE "Discarded"]
  IN /\ p # NoPresent
     /\ Becomes(IF ~allowBatching \/ trace.simpleMode THEN Complete(c3, p)
                ELSE [c2 EXCEPT !.byThread[t] = NoPresent])

PresentStop(t) ==
  /\ "runtime" \in trace.feeds[t] /\ Tracked(consumer, ProcessOf(t))
  /\ \E allowBatching \in BOOLEAN, runtime \in trace.runtimes :
       RuntimePresentStop(t, allowBatching, runtime)

-----------------------------------------------------------------------------
(* Graphics kernel events. *)

\* HandleDxgkBlt
DxgkBlt(t, hwnd, redirected) ==
  LET found == FindFresh(consumer, t, "Blt")
      mode  == IF redirected THEN "Composed_Copy_CPU_GDI" ELSE "Legacy_Copy"
  IN Becomes(IF found.p = NoPresent THEN found.c
             ELSE [found.c EXCEPT !.presents[found.p].hwnd = hwnd,
                                  !.presents[found.p].mode = mode])

\* HandleDxgkBltCancel
DxgkBltCancel(t) ==
  LET p == consumer.byThread[t] IN
  /\ p # NoPresent
  /\ Becomes(Complete([consumer EXCEPT !.presents[p].final = "Discarded"], p))

(***************************************************************************)
(* HandleDxgkFlip.  Only the first flip of a present counts.  A flip from  *)
(* the thread DWM is about to present with takes along the presents that   *)
(* wait for DWM.                                                           *)
(***************************************************************************)
DxgkFlip(t, mmio) ==
  LET found == FindFresh(consumer, t, "Flip")
      p  == found.p
      c1 == [found.c EXCEPT !.presents[p].mmio = mmio,
                            !.presents[p].mode = "Legacy_Flip"]
      unflagged == [i \in DOMAIN c1.presents |->
                      IF Contains(c1.waiting, i)
                      THEN [c1.presents[i] EXCEPT !.inDwmWaiting = FALSE]
                      ELSE c1.presents[i]]
      c2 == [c1 EXCEPT !.presents = [unflagged EXCEPT ![p].deps = c1.waiting],
                       !.waiting = c1.presents[p].deps,
                       !.dwmThread = None]
  IN Becomes(IF p = NoPresent \/ found.c.presents[p].mode # "Unknown" THEN found.c
             ELSE IF t = c1.dwmThread THEN c2 ELSE c1)

\* First half of HandleDxgkQueueSubmit, for Windows 7 only: the next packet of
\* the context shows that a blit was not redirected to DWM.
SettleBlt(c, context) ==
  LET p  == c.blits[context]
      c1 == IF c.presents[p].mode = "Legacy_Copy"
            THEN [c EXCEPT !.presents[p].seenDxgk = TRUE] ELSE c
  IN IF trace.supportsDxgkPresentEvent \/ p = NoPresent THEN c
     ELSE IF c.presents[p].mode = "Legacy_Copy" /\ c.presents[p].screen
     THEN Complete(c1, p)
     ELSE [c1 EXCEPT !.blits[context] = NoPresent]

\* HandleDxgkQueueSubmit; "present" stands for a present, MMIO-flip or software
\* command packet.
DxgkQueueSubmit(t, sequence, context, present) ==
  LET c1 == SettleBlt(consumer, context)
      p  == c1.byThread[t]
      c2 == [c1 EXCEPT !.presents[p].submit = sequence,
                       !.bySubmit[sequence] = IF @ = NoPresent THEN p ELSE @]
      c3 == [c2 EXCEPT !.blits[context] = p, !.presents[p].context = context]
  IN Becomes(IF ~present \/ p = NoPresent \/ c1.presents[p].submit # None THEN c1
             ELSE IF c2.presents[p].mode = "Legacy_Copy" /\ ~trace.supportsDxgkPresentEvent
             THEN c3 ELSE c2)

\* Fault: a blit counts as displayed as soon as its packet is done.
DxgkQueueComplete_NotDeferred(sequence) ==
  LET p  == consumer.bySubmit[sequence]
      e  == consumer.presents[p]
      c1 == [consumer EXCEPT !.presents[p].screen = TRUE,
                             !.presents[p].final = "Presented"]
  IN /\ p # NoPresent
     /\ e.mode = "Legacy_Copy" \/ (e.mode = "Legacy_Flip" /\ ~e.mmio)
     /\ Becomes(Complete(c1, p))

\* HandleDxgkQueueComplete
DxgkQueueComplete(sequence) ==
  LET p  == consumer.bySubmit[sequence]
      e  == consumer.presents[p]
      c1 == [consumer EXCEPT !.presents[p].screen = TRUE,
                             !.presents[p].final = "Presented"]
  IN /\ p # NoPresent
     /\ e.mode = "Legacy_Copy" \/ (e.mode = "Legacy_Flip" /\ ~e.mmio)
     /\ Becomes(IF e.seenDxgk \/ e.mode # "Legacy_Copy" THEN Complete(c1, p) ELSE c1)

\* HandleDxgkMMIOFlip
DxgkMMIOFlip(sequence, immediate) ==
  LET p  == consumer.bySubmit[sequence]
      c1 == [consumer EXCEPT !.presents[p].mode = IF @ = "Composed_Flip"
                                                  THEN "Independent_Flip" ELSE @]
      c2 == [c1 EXCEPT !.presents[p].final = "Presented", !.presents[p].screen = TRUE]
  IN /\ p # NoPresent
     /\ Becomes(IF ~immediate THEN c1
                ELSE IF c2.presents[p].mode = "Legacy_Flip" THEN Complete(c2, p) ELSE c2)

\* HandleDxgkMMIOFlipMPO
DxgkMMIOFlipMPO(sequence, status) ==
  LET p  == consumer.bySubmit[sequence]
      c1 == [consumer EXCEPT !.presents[p].mode =
                                IF @ \in {"Independent_Flip", "Composed_Flip"}
                                THEN "Composed_Independent_Flip" ELSE @]
      c2 == [c1 EXCEPT !.presents[p].final = "Presented",
                       !.presents[p].screen = @ \/ status = "FlipWaitComplete"]
  IN /\ p # NoPresent
     /\ Becomes(IF status \in {"none", "FlipWaitVSync", "FlipWaitHSync"} THEN c1
                ELSE IF c2.presents[p].mode = "Legacy_Flip" THEN Complete(c2, p) ELSE c2)

\* HandleDxgkSyncDPC
DxgkSyncDPC(sequence) ==
  LET p  == consumer.bySubmit[sequence]
      c1 == [consumer EXCEPT !.presents[p].screen = TRUE, !.presents[p].final = "Presented"]
  IN /\ p # NoPresent
     /\ Becomes(IF c1.presents[p].mode = "Legacy_Flip" THEN Complete(c1, p) ELSE c1)

(***************************************************************************)
(* HandleDxgkSubmitPresentHistoryEventArgs.  What is waited for next       *)
(* depends on the mode so far; the event's model matters only when it says *)
(* that the token is a composition atlas.                                  *)
(***************************************************************************)
Classify(c, p, tokenData, atlas) ==
  LET mode == c.presents[p].mode IN
  CASE mode = "Legacy_Copy" ->
         [c EXCEPT !.presents[p].mode = "Composed_Copy_GPU_GDI"]
    [] mode = "Unknown" ->
         [c EXCEPT !.presents[p].mode = IF atlas THEN "Composition_Atlas" ELSE "Composed_Flip"]
    [] mode = "Composed_Copy_CPU_GDI" /\ tokenData = None ->
         [c EXCEPT !.waiting = Append(@, p), !.presents[p].inDwmWaiting = TRUE]
    [] mode = "Composed_Copy_CPU_GDI" /\ tokenData # None ->
         [c EXCEPT !.legacyBlit[tokenData] = p, !.presents[p].blitToken = tokenData]
    [] OTHER -> c

DxgkSubmitPresentHistory(t, token, tokenData, atlas) ==
  LET found == FindFresh(consumer, t, "History")
      p  == found.p
      e  == found.c.presents[p]
      c1 == Assert_(found.c, 570, e.mode # "Unknown" \/ atlas \/ ~e.seenWin32K)
      c2 == [c1 EXCEPT !.presents[p].screen = FALSE, !.presents[p].final = "Unknown",
                       !.presents[p].token = token, !.dxgk[token] = p]
  IN Becomes(IF p = NoPresent THEN found.c ELSE Classify(c2, p, tokenData, atlas))

\* HandleDxgkPropagatePresentHistoryEventArgs
DxgkPropagatePresentHistory(token) ==
  LET p  == consumer.dxgk[token]
      e  == consumer.presents[p]
      c1 == [consumer EXCEPT !.dxgk[token] = NoPresent]
      waits == \/ e.mode = "Composition_Atlas"
               \/ e.mode = "Composed_Flip" /\ ~e.seenWin32K
  IN /\ p # NoPresent
     /\ Becomes(IF waits
                THEN [c1 EXCEPT !.waiting = Append(@, p), !.presents[p].inDwmWaiting = TRUE]
                ELSE IF e.mode = "Composed_Copy_GPU_GDI"
                THEN [c1 EXCEPT !.window[e.hwnd] = p]
                ELSE c1)

\* Present_Info: the kernel's present returns.
DxgkPresentInfo(t, hWindow) ==
  LET p  == consumer.byThread[t]
      e  == consumer.presents[p]
      c1 == [consumer EXCEPT !.presents[p].seenDxgk = TRUE,
                             !.presents[p].hwnd = IF @ = None THEN hWindow ELSE @]
      c2 == IF e.thread = t THEN c1
            ELSE [c1 EXCEPT !.presents[p].batchThread = t, !.byThread[t] = NoPresent]
      c3 == IF e.runtime = "Other" THEN [c2 EXCEPT !.byThread[e.thread] = NoPresent] ELSE c2
  IN /\ p # NoPresent
     /\ Becomes(IF e.mode = "Legacy_Copy" /\ e.screen THEN Complete(c3, p) ELSE c3)

-----------------------------------------------------------------------------
(* Win32K events. *)
TokenCompositionSurfaceObject(t, token) ==
  LET found == FindFresh(consumer, t, "Win32K")
      p == found.p
  IN Becomes(IF p = NoPresent THEN found.c
             ELSE [found.c EXCEPT !.presents[p].mode = "Composed_Flip",
                                  !.presents[p].seenWin32K = TRUE,
                                  !.presents[p].win32k = token,
                                  !.win32k[token] = p])

\* Composition is starting: the window's previous present was not shown.
TokenInFrame(token, independentFlip) ==
  LET p  == consumer.win32k[token]
      h  == consumer.presents[p].hwnd
      q  == consumer.window[h]
      c1 == IF h = None THEN consumer
            ELSE IF q = NoPresent THEN [consumer EXCEPT !.window[h] = p]
            ELSE IF q = p THEN consumer
            ELSE [consumer EXCEPT !.presents[q].final = "Discarded", !.window[h] = p]
  IN /\ p # NoPresent
     /\ Becomes([c1 EXCEPT !.presents[p].mode =
                   IF independentFlip /\ @ = "Composed_Flip" THEN "Independent_Flip" ELSE @])

TokenConfirmed(token) ==
  LET p == consumer.win32k[token]
      e == consumer.presents[p]
      c1 == [consumer EXCEPT !.presents[p].final =
                IF @ = "Unknown" /\ e.doNotSequence THEN "Discarded" ELSE @]
  IN /\ p # NoPresent
     /\ Becomes(IF e.hwnd = None THEN c1 ELSE [c1 EXCEPT !.window[e.hwnd] = NoPresent])

TokenRetired(token) ==
  LET p == consumer.win32k[token] IN
  /\ p # NoPresent
  /\ consumer.presents[p].final = "Unknown"
  /\ Becomes([consumer EXCEPT !.presents[p].screen = TRUE,
                              !.presents[p].final = "Presented"])

TokenDiscarded(token) ==
  LET p == consumer.win32k[token]
      e == consumer.presents[p]
      final == IF e.final = "Unknown" \/ ~e.screen THEN "Discarded" ELSE e.final
  IN /\ p # NoPresent
     /\ Becomes(Complete([consumer EXCEPT !.win32k[token] = NoPresent,
                                          !.presents[p].final = final], p))

TokenStateChanged(token) ==
  \/ \E independentFlip \in BOOLEAN : TokenInFrame(token, independentFlip)
  \/ TokenConfirmed(token) \/ TokenRetired(token) \/ TokenDiscarded(token)

-----------------------------------------------------------------------------
(* Desktop window manager events. *)

\* GetPresentHistory: DWM picks up the latest copy of each window.
DwmGetPresentHistory ==
  LET Copied(h) == /\ consumer.window[h] # NoPresent
                   /\ consumer.presents[consumer.window[h]].mode
                        \in {"Composed_Copy_GPU_GDI", "Composed_Copy_CPU_GDI"}
      picked == SetToSeq({h \in Hwnds : Copied(h)})
      taken  == [i \in DOMAIN picked |-> consumer.window[picked[i]]]
  IN /\ \E h \in Hwnds : consumer.window[h] # NoPresent
     /\ Becomes([consumer EXCEPT
          !.waiting = @ \o taken,
          !.presents = [i \in DOMAIN @ |->
                          IF Contains(taken, i)
                          THEN [@[i] EXCEPT !.inDwmWaiting = TRUE] ELSE @[i]],
          !.window = EmptyMap(Hwnds)])

\* SCHEDULE_PRESENT_Start
DwmSchedulePresent(t) ==
  Becomes([consumer EXCEPT !.dwmProcess = ProcessOf(t), !.dwmThread = t])

\* FlipChain_Pending, _Complete and _Dirty
DwmFlipChain(tokenData, hwnd) ==
  LET p == consumer.legacyBlit[tokenData] IN
  /\ p # NoPresent
  /\ Becomes([consumer EXCEPT !.window[hwnd] = p, !.legacyBlit[tokenData] = NoPresent])

-----------------------------------------------------------------------------
Runtime_(t) == PresentStart(t) \/ PresentStop(t) \/ PresentTest(t)

\* The keys that occur in the trace.
Sequences_ == SubmitSeqs \cap trace.keys
Tokens_    == Tokens \cap trace.keys
Feeds(t, family) == family \in trace.feeds[t]

Kernel(t) ==
  \/ Feeds(t, "flip") /\ \E mmio \in BOOLEAN : DxgkFlip(t, mmio)
  \/ Feeds(t, "blt") /\ \E hwnd \in Hwnds, redirected \in BOOLEAN :
                          DxgkBlt(t, hwnd, redirected)
  \/ Feeds(t, "cancel") /\ DxgkBltCancel(t)
  \/ Feeds(t, "queue") /\ \E s \in Sequences_, x \in Contexts, present \in BOOLEAN :
                            DxgkQueueSubmit(t, s, x, present)
  \/ Feeds(t, "history") /\ \E token \in Tokens_, data \in Tokens_ \cup {None}, atlas \in BOOLEAN :
                              /\ consumer.dxgk[token] = NoPresent
                              /\ data # None => consumer.legacyBlit[data] = NoPresent
                              /\ DxgkSubmitPresentHistory(t, token, data, atlas)
  \/ Feeds(t, "present") /\ \E h \in Hwnds \cup {None} : DxgkPresentInfo(t, h)
  \/ Feeds(t, "win32k") /\ \E token \in Tokens_ :
                             /\ consumer.win32k[token] = NoPresent
                             /\ TokenCompositionSurfaceObject(t, token)
  \/ Feeds(t, "dwm") /\ DwmSchedulePresent(t)

\* Events that name a present by a key and not by a thread.
Keyed ==
  \/ \E s \in Sequences_ :
       \/ On("queue") /\ DxgkQueueComplete(s)
       \/ On("sync") /\ DxgkSyncDPC(s)
       \/ On("sync") /\ \E immediate \in BOOLEAN : DxgkMMIOFlip(s, immediate)
       \/ On("mpo") /\ \E status \in trace.statuses : DxgkMMIOFlipMPO(s, status)
  \/ \E token \in Tokens_ :
       \/ On("history") /\ DxgkPropagatePresentHistory(token)
       \/ On("win32k") /\ TokenStateChanged(token)
       \/ On("dwm") /\ \E hwnd \in Hwnds : DwmFlipChain(token, hwnd)
  \/ On("dwm") /\ DwmGetPresentHistory

Next == (\E t \in Threads : Runtime_(t) \/ Kernel(t)) \/ Keyed

Spec == Init /\ [][Next]_vars

-----------------------------------------------------------------------------
(* Properties.  A published present is one that the output thread may have *)
(* taken already: it is in mPresentEvents or in mLostPresentEvents.        *)
Ids       == 1..Len(consumer.presents)
Delivered == ToSet(consumer.delivered)
Published == Delivered \cup consumer.lost
InFlight  == {p \in Ids : Contains(Deque(consumer, p), p)}

\* The present records and the keys of every collection are of the code's types.
TypeOK ==
  /\ \A p \in Ids :
       LET e == consumer.presents[p] IN
       /\ e.process \in Processes /\ e.thread \in Threads /\ e.runtime \in Runtimes
       /\ e.swap \in SwapChains \cup {None} /\ e.mode \in Modes /\ e.final \in Results
       /\ e.slot \in 0..RingSize - 1 /\ e.deps \in Seq(Ids)
       /\ {e.screen, e.completed, e.lost, e.inDwmWaiting} \subseteq BOOLEAN
  /\ consumer.next \in 0..RingSize - 1
  /\ UNION {ToSet(consumer.bySwapChain[k]) : k \in DOMAIN consumer.bySwapChain} \subseteq Ids
  /\ consumer.byProcess \cup ToSet(consumer.waiting) \cup Delivered \subseteq Ids

\* No present is forgotten and none is reported twice: every present that was
\* ever created waits in its swap chain, or was delivered, or was given up as
\* lost, exactly one of the three and once (mPresentsByProcessAndSwapChain,
\* mPresentEvents and mLostPresentEvents over all handlers).  One completed as
\* displayed does not wait: whatever is older is completed with it, and all of it is
\* delivered in the same step.  The ring mAllPresents knows exactly the presents in
\* flight, each in its own slot, so that wrapping around finds every present that got
\* stuck and nothing else.
EveryPresentAccountedFor ==
  /\ Ids = InFlight \cup Published
  /\ consumer.lost \subseteq Ids
  /\ InFlight \cap Published = {} /\ Delivered \cap consumer.lost = {}
  /\ IsInjective(consumer.delivered)
  /\ \A k \in DOMAIN consumer.bySwapChain : IsInjective(consumer.bySwapChain[k])
  /\ \A p \in InFlight :
       consumer.presents[p].completed => consumer.presents[p].final # "Presented"
  /\ {consumer.ring[s] : s \in DOMAIN consumer.ring} \ {NoPresent} = InFlight
  /\ \A p \in InFlight : consumer.ring[consumer.presents[p].slot] = p

\* The presents of one swap chain are delivered in the order they were made, each
\* once, whatever order the kernel finished them in and whatever it tells of them
\* afterwards: the output thread computes every frame time from the previous present
\* of the chain.
DeliveredInOrder ==
  \A i, j \in DOMAIN consumer.delivered :
    i < j /\ Key(consumer, consumer.delivered[i]) = Key(consumer, consumer.delivered[j])
      => consumer.delivered[i] < consumer.delivered[j]

\* No step changes a present that was published before it: the output thread
\* reads it from another thread without a lock.
PublishedIsFinal ==
  [][\A p \in Published :
       consumer'.presents[p] \in {consumer.presents[p], Forgotten(consumer.presents[p])}]_vars

\* The asserts of the bookkeeping hold, and so do those of the blit, history and
\* Win32K handlers after a stuck present was given up and looked up again (where a
\* present is looked up on the thread that makes it, see OwnThreads).  The
\* flip handler's (line 313), the completion's (1441) and the runtime's (1577) can
\* fail; HandlersReturn is about what the second leads to.
AssertsHold == consumer.failed \subseteq {313, 1441, 1577}

\* Every handler returns: the loop that completes the older presents of a swap
\* chain always finds one at the front that can still be completed.
HandlersReturn == ~consumer.hung

\* A delivered frame that is said to have been displayed has the time at which
\* it was, which the display statistics are computed from: its own, or that of the
\* present it rode along with.  Not so where only the runtime tells of presents, or
\* where a flip of an overlay has one of the statuses the code does not deal with.
TimesAreTold == ~trace.simpleMode /\ "other" \notin trace.statuses
DisplayedHasScreenTime ==
  TimesAreTold =>
    \A p \in Delivered : consumer.presents[p].final = "Presented" => consumer.presents[p].screen

\* A blit is not reported as displayed before the kernel said that no history
\* token follows, i.e. that DWM will not compose it; Windows 7 has no such event.
\* One of which the kernel's event was lost stays until a newer present of its swap
\* chain is displayed, and is reported together with it.
BlitIsSettled ==
  LET Displayed(p) == consumer.presents[p].final = "Presented"
      Settled(p)   == consumer.presents[p].mode = "Legacy_Copy" => consumer.presents[p].seenDxgk
  IN trace.supportsDxgkPresentEvent =>
       \A p \in Delivered : Displayed(p) /\ ~Settled(p) =>
         \E q \in Delivered : q > p /\ Key(consumer, q) = Key(consumer, p)
                               /\ Displayed(q) /\ Settled(q)

-----------------------------------------------------------------------------
(* The traces in which a present is looked up by the thread that made it.  *)

\* The events whose handlers look a present up by the process, and all that make one.
Finders  == {"flip", "blt", "history", "win32k"}
Creators == Finders \cup {"runtime"}

\* A thread with events that look a present up is the only one of its process that
\* makes presents.
OwnThreads(tr) ==
  \A t, u \in Threads :
    /\ ProcessOf(t) = ProcessOf(u)
    /\ tr.feeds[t] \cap Finders # {} /\ tr.feeds[u] \cap Creators # {}
    => t = u
=============================================================================
