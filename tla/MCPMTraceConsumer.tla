-------------------------- MODULE MCPMTraceConsumer --------------------------
(* Instances of the consumer for TLC. *)
EXTENDS PMTraceConsumer, TLC

CONSTANTS app, dwm, t1, t2, td, s1, s2, k1, k2

\* Threads t1 and t2 belong to the game, td to the desktop window manager.
OwnerOf(thread) == IF thread = td THEN dwm ELSE app

\* The traces with n sequences and m tokens, whichever they are: the set is
\* closed under Symmetries.  Flips have the statuses the code deals with,
Tracing(feeds, runtimes, n, m, supports, simple, bound) ==
  [feeds : {feeds}, runtimes : {runtimes},
   keys : {S \cup K : S \in kSubset(n, {s1, s2}), K \in kSubset(m, {k1, k2})},
   statuses : {FlipStatuses \ {"other"}},
   supportsDxgkPresentEvent : {supports}, simpleMode : {simple}, maxPresents : {bound}]

\* or any.
WithOther(traces) == {[tr EXCEPT !.statuses = FlipStatuses] : tr \in traces}

\* Thread t1 alone, both threads of the game, and t1 with DWM.
Alone(families)     == t1 :> families @@ t2 :> {} @@ td :> {}
Both(families)      == t1 :> families @@ t2 :> families @@ td :> {}
WithDwm(game, dwms) == t1 :> game @@ t2 :> {} @@ td :> dwms

Fullscreen == Tracing(Alone({"runtime", "flip", "sync", "queue"}),
                      {"DXGI"}, 2, 0, TRUE, FALSE, 3)
Overlay == WithOther(Tracing(Alone({"runtime", "test", "flip", "sync", "mpo", "queue", "present"}),
                             {"DXGI"}, 1, 0, TRUE, FALSE, 2))
Simple == Tracing(Both({"runtime"}), {"DXGI", "D3D9"}, 0, 0, TRUE, TRUE, 4)
BlitsOfWin7 == Tracing(Alone({"runtime", "blt", "queue"}), {"DXGI"}, 2, 0, FALSE, FALSE, 2)

Blits == Tracing(Alone({"runtime", "blt", "cancel", "queue", "present"}),
                 {"DXGI"}, 2, 0, TRUE, FALSE, 2)
Windowed == Tracing(Alone({"runtime", "win32k", "present"}), {"DXGI"}, 0, 2, TRUE, FALSE, 2)
Independent == Tracing(Alone({"win32k", "history", "queue", "sync", "mpo", "present"}),
                       {}, 1, 1, TRUE, FALSE, 2)
Composed == Tracing(WithDwm({"blt", "history"}, {"flip", "sync", "queue", "present", "dwm"}),
                    {}, 1, 1, TRUE, FALSE, 3)

AllTraces == Fullscreen \cup Overlay \cup Simple \cup BlitsOfWin7
               \cup Blits \cup Windowed \cup Independent \cup Composed

\* The theorems of PMTraceConsumerAccounting are about such traces.
ASSUME ThreadsAreOwn == \A tr \in AllTraces : OwnThreads(tr)

\* Not in AllTraces.  The game goes from windowed to fullscreen flips while DWM
\* still presents: with RingSize = 3, PublishedIsFinal does not hold.  The runtime is
\* called on t1 and the driver submits from its own thread t2: neither that nor
\* EveryPresentAccountedFor nor AssertsHold does.
ToFullscreen == Tracing(WithDwm({"history", "present", "flip", "sync", "queue"},
                                {"flip", "sync", "queue", "dwm"}), {}, 2, 1, TRUE, FALSE, 3)
DriverThread == Tracing(t1 :> {"runtime"} @@ t2 :> {"flip", "sync", "queue", "present"}
                          @@ td :> {}, {"DXGI"}, 1, 0, TRUE, FALSE, 3)

Symmetries == Permutations({s1, s2}) \cup Permutations({k1, k2})
=============================================================================
