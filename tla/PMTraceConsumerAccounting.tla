---------------------- MODULE PMTraceConsumerAccounting ----------------------
(***************************************************************************)
(* PMTraceConsumer for traces in which a present is looked up on the       *)
(* thread that makes it (OwnThreads): each present waits, was delivered or *)
(* is lost, once; the asserts hold; and what was published is left alone,  *)
(* unless DWM may still compose it (Rides).                                *)
(*                                                                         *)
(* None of these is inductive.  A present that was published is left alone *)
(* only because no collection finds it any more, or could: what finds a    *)
(* present finds it under that present's own keys, so that completing it   *)
(* erases it everywhere.  Only what rides with DWM outlasts that: the      *)
(* presents that wait for it, the last of each window and the dependents   *)
(* of other presents; and nothing comes to ride once it was published.     *)
(* This is Neat (PMTraceConsumerProofs).                                   *)
(*                                                                         *)
(* CompletePresent calls itself for the presents that ride along and for   *)
(* the older ones of the swap chain, and Neat does not hold in between.    *)
(* Busy says what does of the jobs that are still to be done; each job     *)
(* takes a busy completion to another, and one with no job left is Neat    *)
(* again (CompleteNeat).  Every handler is then taken from Neat to what a  *)
(* step leaves behind, and Forget to Neat again.                           *)
(*                                                                         *)
(* Without OwnThreads a thread of the driver still finds the presents that *)
(* another one made and that were published since: none of the three holds *)
(* (DriverThread in MCPMTraceConsumer).  A present that rides along with   *)
(* DWM's is completed again, by each present that takes it along           *)
(* (ToFullscreen): that is why PublishedStay leaves those that ride out.   *)
(***************************************************************************)
EXTENDS PMTraceConsumerProofs

Shown(e) == e.final = "Presented"

-----------------------------------------------------------------------------
(* CompletePresent, one job at a time.                                     *)

\* A completion changes of a present its outcome, its dependents and that it is completed.
Outcome(e, f) ==
  /\ f.process = e.process /\ f.swap = e.swap /\ f.thread = e.thread /\ f.slot = e.slot
  /\ f.mode = e.mode /\ f.submit = e.submit /\ f.token = e.token /\ f.context = e.context
  /\ f.blitToken = e.blitToken /\ f.win32k = e.win32k /\ f.seenWin32K = e.seenWin32K
  /\ f.hwnd = e.hwnd /\ f.seenDxgk = e.seenDxgk
  /\ f.deps \in {e.deps, <<>>}

\* What a job of a completion does to all but the records.
Works(c, d, n) ==
  /\ Steady(d, n) /\ \A q \in 1..n : Unlinked(c, q) => Unlinked(d, q)
  /\ \A q \in 1..n : Key(d, q) = Key(c, q)

SameStanding(c, d, n) == \A q \in 1..n : /\ Waits(d, q) <=> Waits(c, q)
                                         /\ Out(d, q) <=> Out(c, q)

\* The outcome of a present that is Mine may be changed, and that it is completed when
\* nothing finds it any more.
LEMMA OutcomeSteady ==
    ASSUME NEW n \in Nat, NEW c, Steady(c, n), NEW p \in 1..n, NEW f \in Presents(n),
           Outcome(c.presents[p], f), f.completed = c.presents[p].completed \/ Unlinked(c, p),
           Mine(p)
    PROVE  LET d == [c EXCEPT !.presents[p] = f] IN
           /\ Works(c, d, n) /\ SameStanding(c, d, n) /\ d.presents[p] = f
           /\ \A q \in 1..n : q # p => d.presents[q] = c.presents[q]
           /\ SameLinks(c, d) /\ SameRest(c, d)
           /\ d.bySwapChain = c.bySwapChain /\ d.delivered = c.delivered
  <1>1. PICK d : d = [c EXCEPT !.presents[p] = f]
    OBVIOUS
  <1>2. Good(c, n) /\ c \in Consumers(n)
    BY DEF Steady, Good
  <1>3. /\ SameLinks(c, d) /\ SameRest(c, d) /\ d.delivered = c.delivered
        /\ d.bySwapChain = c.bySwapChain
        /\ d.presents[p] = f /\ \A q \in 1..n : q # p => d.presents[q] = c.presents[q]
    <2>1. c \in Consumers(n)
      BY <1>2
    <2>2. LET z == [c EXCEPT !.presents[p] = f] IN
          /\ SameLinks(c, z) /\ SameRest(c, z) /\ z.delivered = c.delivered
          /\ z.bySwapChain = c.bySwapChain
          /\ z.presents[p] = f /\ \A q \in 1..n : q # p => z.presents[q] = c.presents[q]
      BY <2>1, EditFrame
    <2>. QED  BY <1>1, <2>2
  <1>4. Good(d, n)
    BY <1>1, <1>2, EditGood DEF Outcome
  <1>5. SameQueues(c, d, n)
    <2>1. /\ d.presents[p].process = c.presents[p].process
          /\ d.presents[p].swap = c.presents[p].swap
      BY <1>3 DEF Outcome
    <2>2. \A q \in 1..n : Key(d, q) = Key(c, q)
      BY <1>3, <2>1 DEF Key
    <2>. QED  BY <1>3, <2>2 DEF SameQueues
  <1>6. SameStanding(c, d, n)
    BY <1>5, SameWaits DEF SameStanding
  <1>7. \A q \in 1..n : d.presents[q].slot = c.presents[q].slot
    BY <1>3 DEF Outcome
  <1>8. Placed(d, n)
    BY <1>3, <1>6 DEF Steady, Placed, SameRest, SameStanding
  <1>9. Ringed(d, n)
    <2>1. \A s \in Slots : d.ring[s] = c.ring[s] /\ c.ring[s] \in 0..n
      BY <1>2, <1>3 DEF SameRest, Consumers
    <2>2. \A q \in 0..n : q # NoPresent => q \in 1..n
      BY DEF NoPresent
    <2>3. \A q \in 1..n : d.presents[q].slot \in Slots
      BY <1>4, PresentTyped DEF Presents, Records
    <2>. QED  BY <1>3, <1>6, <1>7, <2>1, <2>2, <2>3 DEF Steady, Ringed, SameStanding
  <1>10. ASSUME NEW q \in 1..n PROVE Named(d, q) /\ (Unlinked(d, q) \/ Open(d, q))
                /\ (Unlinked(c, q) => Unlinked(d, q))
    <2>1. Named(c, q) /\ (Unlinked(c, q) \/ Open(c, q))
      BY DEF Steady, Linked
    <2>2. Unlinked(d, q) <=> Unlinked(c, q)
      BY <1>3, SameNamed
    <2>3. CASE q = p
      <3>1. Named(d, q)
        BY <1>3, <2>1, <2>3 DEF Named, SameLinks, Outcome
      <3>. QED  BY <1>3, <1>6, <2>1, <2>2, <2>3, <3>1 DEF Open, SameStanding
    <2>4. CASE q # p
      <3>1. Named(d, q)
        BY <1>3, <2>1, <2>4, SameNamed
      <3>. QED  BY <1>3, <1>6, <2>1, <2>2, <2>4, <3>1 DEF Open, SameStanding
    <2>. QED  BY <2>3, <2>4
  <1>11. AllStaged(d, n)
    BY <1>3 DEF Steady, AllStaged, Staged, Outcome
  <1>12. Asserted(d)
    BY <1>3 DEF Steady, Asserted, SameRest
  <1>13. Lasting(d, n)
    <2>1. Lasting(c, n)
      BY DEF Steady
    <2>2. d.waiting = c.waiting /\ d.window = c.window /\ DOMAIN c.presents = 1..n
          /\ DOMAIN d.presents = 1..n
      BY <1>1, <1>2 DEF Consumers
    <2>3. \A q, r \in 1..n : q \in ToSet(d.presents[r].deps) => q \in ToSet(c.presents[r].deps)
      <3>1. \A r \in 1..n : d.presents[r].deps \in {c.presents[r].deps, <<>>}
        BY <1>3 DEF Outcome
      <3>. QED  BY <3>1 DEF ToSet
    <2>4. \A q \in 1..n : Rides(d, q) => Rides(c, q)
      BY <2>2, <2>3 DEF Rides
    <2>. QED  BY <1>3, <1>6, <2>1, <2>4, LastingKept DEF SameStanding
  <1>14. Works(c, d, n)
    BY <1>4, <1>5, <1>8, <1>9, <1>10, <1>11, <1>12, <1>13 DEF Works, Steady, Linked, SameQueues
  <1>. QED  BY <1>1, <1>3, <1>6, <1>14

\* An assert that may fail leaves its line.
LEMMA AssertSteady ==
    ASSUME NEW n \in Nat, NEW c, Steady(c, n), NEW holds
    PROVE  LET d == Assert_(c, 1441, holds) IN
           /\ Works(c, d, n) /\ SameStanding(c, d, n) /\ d.presents = c.presents
           /\ d.bySwapChain = c.bySwapChain /\ d.hung = c.hung
           /\ \A q \in 1..n : Unlinked(d, q) <=> Unlinked(c, q)
  <1>1. PICK line \in Nat : line = 1441
    OBVIOUS
  <1>2. PICK d : d = Assert_(c, line, holds)
    OBVIOUS
  <1>3. Good(c, n) /\ c \in Consumers(n)
    BY DEF Steady, Good
  <1>4. Good(d, n)
    BY <1>2, <1>3, AssertGood
  <1>5. /\ d.presents = c.presents /\ d.bySwapChain = c.bySwapChain /\ d.delivered = c.delivered
        /\ d.ring = c.ring /\ d.lost = c.lost /\ d.waiting = c.waiting /\ d.hung = c.hung
        /\ SameLinks(c, d) /\ d.failed \subseteq c.failed \cup {line}
    BY <1>2, <1>3 DEF Assert_, Consumers, SameLinks
  <1>6. SameQueues(c, d, n) /\ SameStanding(c, d, n) /\ \A q \in 1..n : Open(d, q) <=> Open(c, q)
    BY <1>5 DEF SameQueues, SameStanding, Key, Open, Waits, Deque, Out
  <1>7. \A q \in 1..n : /\ Named(d, q) <=> Named(c, q)
                        /\ Unlinked(d, q) <=> Unlinked(c, q)
    BY <1>5, SameNamed
  <1>8. Placed(d, n)
    BY <1>5, <1>6 DEF Steady, Placed, SameStanding
  <1>9. Ringed(d, n)
    <2>1. \A s \in Slots : c.ring[s] \in 0..n
      BY <1>3 DEF Consumers
    <2>2. \A q \in 0..n : q # NoPresent => q \in 1..n
      BY DEF NoPresent
    <2>. QED  BY <1>5, <1>6, <2>1, <2>2 DEF Steady, Ringed, SameStanding
  <1>10. Linked(d, n) /\ AllStaged(d, n) /\ Asserted(d)
    BY <1>1, <1>5, <1>6, <1>7 DEF Steady, Linked, AllStaged, Asserted
  <1>11. Lasting(d, n)
    <2>1. Lasting(c, n) /\ \A q \in 1..n : Rides(d, q) <=> Rides(c, q)
      BY <1>5, SameRides DEF Steady, SameLinks
    <2>. QED  BY <1>5, <1>6, <2>1, LastingKept DEF SameStanding
  <1>12. Works(c, d, n)
    BY <1>4, <1>6, <1>7, <1>8, <1>9, <1>10, <1>11 DEF Works, Steady, SameQueues
  <1>. QED  BY <1>1, <1>2, <1>5, <1>6, <1>7, <1>12

\* Only the outcome of q may have changed.
OnlyOutcome(c, d, n, q) ==
  /\ Works(c, d, n) /\ SameStanding(c, d, n)
  /\ \A x \in 1..n : d.presents[x].completed = c.presents[x].completed
  /\ \A x \in 1..n : x # q => d.presents[x].final = c.presents[x].final
  /\ \A x \in 1..n : /\ d.presents[x].mode = c.presents[x].mode
                     /\ d.presents[x].seenDxgk = c.presents[x].seenDxgk
  /\ d.bySwapChain = c.bySwapChain

\* A present that rides along takes its outcome and is completed.
LEMMA RideWorks ==
    ASSUME NEW n \in Nat, NEW c, Steady(c, n), NEW q \in 1..n, NEW p \in 1..n, Mine(q)
    PROVE  LET s == Ride(c, q, p) IN
           \/ s.c = c /\ s.todo = <<>>
           \/ OnlyOutcome(c, s.c, n, q) /\ s.todo = <<Job("call", q)>>
  <1>1. Good(c, n) /\ c \in Consumers(n)
    BY DEF Steady, Good
  <1>2. CASE c.presents[q].lost
    BY <1>2 DEF Ride, State
  <1>3. CASE ~c.presents[q].lost
    <2>1. PICK a, b : a = c.presents[q] /\ b = c.presents[p]
      OBVIOUS
    <2>2. PICK f : f = [a EXCEPT !.screen = b.screen, !.final = b.final]
      OBVIOUS
    <2>3. a \in Presents(n) /\ b \in Presents(n) /\ a \in Records(n) /\ b \in Records(n)
      BY <1>1, <2>1, PresentTyped, PresentIsRecord
    <2>4. f \in Presents(n) /\ Outcome(a, f) /\ f.completed = a.completed
      <3>1. b.screen \in BOOLEAN /\ b.final \in Results
        BY <2>3 DEF Records
      <3>2. PICK h : h = [a EXCEPT !.screen = b.screen]
        OBVIOUS
      <3>3. h \in Records(n) /\ Outcome(a, h) /\ h.completed = a.completed /\ h.screen = b.screen
        <4>1. h \in Records(n) /\ h.completed = a.completed /\ h.screen = b.screen
          BY <2>3, <3>1, <3>2 DEF Records
        <4>2. /\ h.process = a.process /\ h.swap = a.swap /\ h.thread = a.thread /\ h.slot = a.slot
              /\ h.mode = a.mode /\ h.submit = a.submit /\ h.token = a.token
          BY <2>3, <3>2 DEF Records
        <4>3. /\ h.context = a.context /\ h.blitToken = a.blitToken /\ h.win32k = a.win32k
              /\ h.seenWin32K = a.seenWin32K /\ h.hwnd = a.hwnd /\ h.seenDxgk = a.seenDxgk
              /\ h.deps = a.deps
          BY <2>3, <3>2 DEF Records
        <4>. QED  BY <4>1, <4>2, <4>3 DEF Outcome
      <3>4. f = [h EXCEPT !.final = b.final]
        BY <2>2, <3>2
      <3>5. /\ f \in Records(n) /\ f.completed = h.completed /\ f.screen = b.screen
            /\ f.final = b.final
        BY <3>1, <3>3, <3>4 DEF Records
      <3>6. Outcome(h, f)
        <4>1. /\ f.process = h.process /\ f.swap = h.swap /\ f.thread = h.thread /\ f.slot = h.slot
              /\ f.mode = h.mode /\ f.submit = h.submit /\ f.token = h.token
          BY <3>3, <3>4 DEF Records
        <4>2. /\ f.context = h.context /\ f.blitToken = h.blitToken /\ f.win32k = h.win32k
              /\ f.seenWin32K = h.seenWin32K /\ f.hwnd = h.hwnd /\ f.seenDxgk = h.seenDxgk
              /\ f.deps = h.deps
          BY <3>3, <3>4 DEF Records
        <4>. QED  BY <4>1, <4>2 DEF Outcome
      <3>7. f \in Presents(n)
        BY <2>3, <3>5, OutcomeKept
      <3>. QED  BY <3>3, <3>5, <3>6, <3>7 DEF Outcome
    <2>5. PICK d : d = [c EXCEPT !.presents[q] = f]
      OBVIOUS
    <2>6. /\ Works(c, d, n) /\ SameStanding(c, d, n) /\ d.presents[q] = f
          /\ \A x \in 1..n : x # q => d.presents[x] = c.presents[x]
          /\ d.bySwapChain = c.bySwapChain
      BY <2>1, <2>4, <2>5, OutcomeSteady
    <2>7. OnlyOutcome(c, d, n, q)
      BY <2>1, <2>4, <2>6 DEF OnlyOutcome, Outcome
    <2>8. Ride(c, q, p) = State(d, <<Job("call", q)>>)
      <3>1. [c EXCEPT !.presents[q].screen = c.presents[p].screen,
                      !.presents[q].final = c.presents[p].final] = [c EXCEPT !.presents[q] = f]
        BY <1>1, <2>1, <2>2 DEF Consumers
      <3>. QED  BY <1>3, <2>5, <3>1 DEF Ride
    <2>. QED  BY <2>7, <2>8 DEF State
  <1>. QED  BY <1>2, <1>3

\* A completion that finds its present completed says so in the outcome.
LEMMA CallAgainWorks ==
    ASSUME NEW n \in Nat, NEW c, Steady(c, n), NEW p \in 1..n, Mine(p),
           c.presents[p].completed
    PROVE  LET s == Call(c, p) IN
           /\ s.todo = <<>> /\ OnlyOutcome(c, s.c, n, p)
           /\ s.c.presents[p].final = "Error"
  <1>1. Good(c, n) /\ c \in Consumers(n)
    BY DEF Steady, Good
  <1>2. PICK a : a = c.presents[p]
    OBVIOUS
  <1>3. PICK f : f = [a EXCEPT !.final = "Error"]
    OBVIOUS
  <1>4. a \in Presents(n) /\ a \in Records(n)
    BY <1>1, <1>2, PresentTyped, PresentIsRecord
  <1>5. f \in Presents(n) /\ Outcome(a, f) /\ f.completed = a.completed /\ f.final = "Error"
    <2>1. f \in Records(n) /\ f.completed = a.completed /\ f.final = "Error" /\ f.deps = a.deps
      BY <1>3, <1>4 DEF Records, Results
    <2>2. f \in Presents(n)
      BY <2>1 DEF Presents, Records
    <2>3. /\ f.process = a.process /\ f.swap = a.swap /\ f.thread = a.thread /\ f.slot = a.slot
          /\ f.mode = a.mode /\ f.submit = a.submit /\ f.token = a.token
      BY <1>3, <1>4 DEF Records
    <2>4. /\ f.context = a.context /\ f.blitToken = a.blitToken /\ f.win32k = a.win32k
          /\ f.seenWin32K = a.seenWin32K /\ f.hwnd = a.hwnd /\ f.seenDxgk = a.seenDxgk
      BY <1>3, <1>4 DEF Records
    <2>. QED  BY <2>1, <2>2, <2>3, <2>4 DEF Outcome
  <1>6. PICK d : d = [c EXCEPT !.presents[p] = f]
    OBVIOUS
  <1>7. /\ Works(c, d, n) /\ SameStanding(c, d, n) /\ d.presents[p] = f
        /\ \A x \in 1..n : x # p => d.presents[x] = c.presents[x]
        /\ d.bySwapChain = c.bySwapChain
    BY <1>2, <1>5, <1>6, OutcomeSteady
  <1>8. OnlyOutcome(c, d, n, p)
    BY <1>2, <1>5, <1>7 DEF OnlyOutcome, Outcome
  <1>9. Call(c, p) = State(d, <<>>)
    <2>1. [c EXCEPT !.presents[p].final = "Error"] = [c EXCEPT !.presents[p] = f]
      BY <1>1, <1>2, <1>3 DEF Consumers
    <2>. QED  BY <1>6, <2>1 DEF Call
  <1>. QED  BY <1>5, <1>7, <1>8, <1>9 DEF State

\* A present that was not published may leave the collections.
LEMMA ErasedSteady ==
    ASSUME NEW n \in Nat, NEW c, Steady(c, n), NEW p \in 1..n, NEW d, Good(d, n),
           SameQueues(c, d, n), SameRest(c, d), Erases(c, d, p), d.byProcess = c.byProcess \ {p},
           SameKeys(c.presents[p], d.presents[p]),
           \A q \in 1..n : q # p => d.presents[q] = c.presents[q],
           Mine(p)
    PROVE  /\ Works(c, d, n) /\ SameStanding(c, d, n) /\ Unlinked(d, p)
           /\ \A q \in 1..n : SameKeys(c.presents[q], d.presents[q])
  <1>1. /\ Unlinked(d, p)
        /\ \A q \in 1..n : (Named(c, q) => Named(d, q)) /\ (Unlinked(c, q) => Unlinked(d, q))
    BY ErasesLinks
  <1>2. \A q \in 1..n : SameKeys(c.presents[q], d.presents[q])
    BY DEF SameKeys
  <1>3. SameStanding(c, d, n)
    BY SameWaits DEF SameStanding
  <1>4. Good(c, n) /\ c \in Consumers(n)
    BY DEF Steady, Good
  <1>5. \A q \in 1..n : Open(d, q) <=> Open(c, q)
    BY <1>2, <1>3 DEF Open, SameKeys, SameStanding
  <1>6. Placed(d, n)
    BY <1>3 DEF Steady, Placed, SameRest, SameStanding
  <1>7. Ringed(d, n)
    <2>1. \A s \in Slots : d.ring[s] = c.ring[s] /\ c.ring[s] \in 0..n
      BY <1>4 DEF SameRest, Consumers
    <2>2. \A q \in 0..n : q # NoPresent => q \in 1..n
      BY DEF NoPresent
    <2>3. \A q \in 1..n : d.presents[q].slot = c.presents[q].slot /\ c.presents[q].slot \in Slots
      <3>1. \A q \in 1..n : c.presents[q] \in Records(n)
        BY <1>4, PresentTyped, PresentIsRecord
      <3>. QED  BY <1>2, <3>1 DEF SameKeys, Records
    <2>. QED  BY <1>3, <2>1, <2>2, <2>3 DEF Steady, Ringed, SameStanding
  <1>8. Linked(d, n)
    BY <1>1, <1>5 DEF Steady, Linked
  <1>9. AllStaged(d, n)
    BY <1>2 DEF Steady, AllStaged, Staged, SameKeys
  <1>10. Asserted(d)
    BY DEF Steady, Asserted, SameRest
  <1>11. Lasting(d, n)
    <2>1. Lasting(c, n) /\ DOMAIN c.presents = 1..n /\ DOMAIN d.presents = 1..n
      BY <1>4 DEF Steady, Good, Consumers
    <2>2. ASSUME NEW q \in 1..n, Rides(d, q) PROVE Rides(c, q)
      <3>1. q \in ToSet(d.waiting) => q \in ToSet(c.waiting)
        BY DEF Erases
      <3>2. \A h \in Hwnds : d.window[h] = q => c.window[h] = q
        BY DEF Erases, NoPresent
      <3>3. \A r \in 1..n : d.presents[r].deps = c.presents[r].deps
        BY <1>2 DEF SameKeys
      <3>. QED  BY <2>1, <2>2, <3>1, <3>2, <3>3 DEF Rides
    <2>. QED  BY <1>3, <2>1, <2>2, LastingKept DEF SameStanding
  <1>12. Works(c, d, n)
    BY <1>1, <1>6, <1>7, <1>8, <1>9, <1>10, <1>11 DEF Works, Steady, SameQueues
  <1>. QED  BY <1>1, <1>2, <1>3, <1>12

\* What a job leaves of the records that it does not change.
SameFates(c, d, n) ==
  \A q \in 1..n : LET e == c.presents[q]
                      f == d.presents[q]
                  IN /\ f.completed = e.completed /\ f.final = e.final
                     /\ f.mode = e.mode /\ f.seenDxgk = e.seenDxgk

\* The present leaves the collections, and the older ones are next if it was displayed.
LEMMA UntrackWorks ==
    ASSUME NEW n \in Nat, NEW c, Steady(c, n), NEW p \in 1..n, Mine(p)
    PROVE  LET s == CompleteUntracked(c, p) IN
           /\ Works(c, s.c, n) /\ SameStanding(c, s.c, n) /\ SameFates(c, s.c, n)
           /\ Unlinked(s.c, p) /\ s.c.bySwapChain = c.bySwapChain
           /\ s.todo = IF Shown(c.presents[p])
                       THEN <<Job("older", p), Job("deliver", p)>> ELSE <<Job("deliver", p)>>
  <1>1. Good(c, n) /\ c \in Consumers(n)
    BY DEF Steady, Good
  <1>2. PICK e : e = c.presents[p]
    OBVIOUS
  <1>3. PICK f : f = [e EXCEPT !.deps = <<>>]
    OBVIOUS
  <1>4. e \in Presents(n) /\ e \in Records(n)
    BY <1>1, <1>2, PresentTyped, PresentIsRecord
  <1>5. /\ f \in Presents(n) /\ Outcome(e, f) /\ f.completed = e.completed
        /\ f.final = e.final
    <2>1. <<>> \in Seq(1..n)
      OBVIOUS
    <2>2. f \in Records(n) /\ f.completed = e.completed /\ f.final = e.final
          /\ f.screen = e.screen /\ f.deps = <<>>
      BY <1>3, <1>4, <2>1 DEF Records
    <2>3. f \in Presents(n)
      BY <1>4, <2>2, OutcomeKept
    <2>4. /\ f.process = e.process /\ f.swap = e.swap /\ f.thread = e.thread /\ f.slot = e.slot
          /\ f.mode = e.mode /\ f.submit = e.submit /\ f.token = e.token
      BY <1>3, <1>4 DEF Records
    <2>5. /\ f.context = e.context /\ f.blitToken = e.blitToken /\ f.win32k = e.win32k
          /\ f.seenWin32K = e.seenWin32K /\ f.hwnd = e.hwnd /\ f.seenDxgk = e.seenDxgk
      BY <1>3, <1>4 DEF Records
    <2>. QED  BY <2>2, <2>3, <2>4, <2>5 DEF Outcome
  <1>6. PICK b : b = [c EXCEPT !.presents[p].deps = <<>>]
    OBVIOUS
  <1>7. b = [c EXCEPT !.presents[p] = f]
    BY <1>1, <1>2, <1>3, <1>6 DEF Consumers
  <1>8. /\ Works(c, b, n) /\ SameStanding(c, b, n) /\ b.presents[p] = f
        /\ \A x \in 1..n : x # p => b.presents[x] = c.presents[x]
        /\ b.bySwapChain = c.bySwapChain
    <2>1. /\ Works(c, [c EXCEPT !.presents[p] = f], n)
          /\ SameStanding(c, [c EXCEPT !.presents[p] = f], n)
          /\ [c EXCEPT !.presents[p] = f].presents[p] = f
          /\ \A x \in 1..n : x # p => [c EXCEPT !.presents[p] = f].presents[x] = c.presents[x]
          /\ [c EXCEPT !.presents[p] = f].bySwapChain = c.bySwapChain
      BY <1>2, <1>5, OutcomeSteady
    <2>. QED  BY <1>7, <2>1
  <1>9. SameFates(c, b, n)
    BY <1>2, <1>5, <1>8 DEF SameFates, Outcome
  <1>10. PICK u : u = Untrack(b, p)
    OBVIOUS
  <1>11. /\ Good(u, n) /\ SameQueues(b, u, n) /\ SameRest(b, u) /\ Erases(b, u, p)
         /\ u.byProcess = b.byProcess
         /\ SameKeys(b.presents[p], u.presents[p])
         /\ \A q \in 1..n : q # p => u.presents[q] = b.presents[q]
    <2>1. Good(b, n) /\ Named(b, p)
      BY <1>8 DEF Works, Steady, Linked
    <2>. QED  BY <1>10, <2>1, UntrackErases
  <1>12. PICK w : w = [u EXCEPT !.byProcess = @ \ {p}]
    OBVIOUS
  <1>13. /\ w.presents = u.presents /\ w.bySwapChain = u.bySwapChain /\ w.delivered = u.delivered
         /\ SameRest(u, w) /\ w.byProcess = u.byProcess \ {p}
         /\ w.byThread = u.byThread /\ w.bySubmit = u.bySubmit
         /\ w.win32k = u.win32k /\ w.dxgk = u.dxgk /\ w.blits = u.blits
         /\ w.window = u.window /\ w.legacyBlit = u.legacyBlit /\ w.waiting = u.waiting
         /\ w \in Consumers(n)
    BY <1>11, <1>12 DEF Good, Consumers, SameRest
  <1>14. Good(w, n) /\ SameQueues(b, w, n)
    <2>1. SameQueues(u, w, n)
      BY <1>13 DEF SameQueues, Key
    <2>2. Good(w, n)
      BY <1>11, <1>13, <2>1, OrderKept
    <2>. QED  BY <1>11, <2>1, <2>2 DEF SameQueues
  <1>15. SameRest(b, w) /\ Erases(b, w, p) /\ w.byProcess = b.byProcess \ {p}
    BY <1>11, <1>13 DEF SameRest, Erases
  <1>16. /\ Works(b, w, n) /\ SameStanding(b, w, n) /\ Unlinked(w, p)
         /\ \A q \in 1..n : SameKeys(b.presents[q], w.presents[q])
    <2>1. Steady(b, n)
      BY <1>8 DEF Works
    <2>. QED  BY <1>11, <1>13, <1>14, <1>15, <2>1, ErasedSteady
  <1>17. PICK holds : holds = (Deque(w, p) # <<>> /\ ~w.presents[Head(Deque(w, p))].completed)
    OBVIOUS
  <1>18. PICK a : a = Assert_(w, 1441, Deque(w, p) # <<>> /\ ~w.presents[Head(Deque(w,
         p))].completed)
    OBVIOUS
  <1>19. /\ Works(w, a, n) /\ SameStanding(w, a, n) /\ a.presents = w.presents
         /\ a.bySwapChain = w.bySwapChain /\ Unlinked(a, p)
    <2>1. Steady(w, n)
      BY <1>16 DEF Works
    <2>2. a = Assert_(w, 1441, holds)
      BY <1>17, <1>18
    <2>. QED  BY <1>16, <2>1, <2>2, AssertSteady
  <1>20. SameFates(b, a, n)
    BY <1>16, <1>19 DEF SameFates, SameKeys
  <1>21. Works(c, a, n) /\ SameStanding(c, a, n) /\ SameFates(c, a, n)
    <2>1. Works(c, a, n)
      BY <1>8, <1>16, <1>19 DEF Works
    <2>2. SameStanding(c, a, n)
      BY <1>8, <1>16, <1>19 DEF SameStanding
    <2>3. SameFates(c, a, n)
      BY <1>9, <1>20 DEF SameFates
    <2>. QED  BY <2>1, <2>2, <2>3
  <1>22. a.bySwapChain = c.bySwapChain
    BY <1>8, <1>11, <1>13, <1>19 DEF SameQueues
  <1>23. CompleteUntracked(c, p) =
           State(a, IF Shown(w.presents[p])
                    THEN <<Job("older", p), Job("deliver", p)>> ELSE <<Job("deliver", p)>>)
    BY <1>6, <1>10, <1>12, <1>18 DEF CompleteUntracked, Shown
  <1>24. Shown(w.presents[p]) <=> Shown(c.presents[p])
    BY <1>19, <1>21 DEF SameFates, Shown
  <1>. QED  BY <1>19, <1>21, <1>22, <1>23, <1>24 DEF State

\* What is completed and moves keeps the invariant.
LEMMA MovesSteady ==
    ASSUME NEW n \in Nat, NEW c, Steady(c, n), NEW p \in 1..n, NEW z, Good(z, n),
           NEW M, Moves(c, z, n, p, M)
    PROVE  Works(c, z, n)
  <1>1. Good(c, n) /\ c \in Consumers(n) /\ z.presents = c.presents /\ SameLinks(c, z)
    BY DEF Steady, Good, Moves
  <1>2. Placed(z, n)
    <2>1. Placed(c, n) /\ z.lost = c.lost
      BY DEF Steady, Moves
    <2>2. ASSUME NEW q \in 1..n PROVE q \in z.lost \/ Waits(z, q) \/ Out(z, q)
      BY <2>1 DEF Placed, Moves
    <2>3. ASSUME NEW q \in z.lost PROVE ~Waits(z, q) /\ ~Out(z, q)
      BY <2>1 DEF Placed, Moves
    <2>. QED  BY <2>1, <2>2, <2>3 DEF Placed
  <1>3. Ringed(z, n)
    <2>1. Ringed(c, n) /\ \A s \in Slots : c.ring[s] \in 0..n
      BY <1>1 DEF Steady, Consumers
    <2>2. \A q \in 1..n : c.presents[q].slot \in Slots
      <3>1. \A q \in 1..n : c.presents[q] \in Records(n)
        BY <1>1, PresentTyped, PresentIsRecord
      <3>. QED  BY <3>1 DEF Records
    <2>3. ASSUME NEW s \in Slots, z.ring[s] # NoPresent
          PROVE  Waits(z, z.ring[s]) /\ z.presents[z.ring[s]].slot = s
      <3>1. ~(\E q \in M : c.presents[q].slot = s) /\ z.ring[s] = c.ring[s]
        BY <2>3 DEF Moves
      <3>2. Waits(c, c.ring[s]) /\ c.presents[c.ring[s]].slot = s /\ c.ring[s] \in 1..n
        BY <2>1, <2>3, <3>1 DEF Ringed, NoPresent
      <3>3. c.ring[s] \notin M
        BY <3>1, <3>2
      <3>. QED  BY <1>1, <3>1, <3>2, <3>3 DEF Moves
    <2>4. ASSUME NEW q \in 1..n, Waits(z, q) PROVE z.ring[z.presents[q].slot] = q
      <3>1. Waits(c, q) /\ q \notin M
        BY <2>4 DEF Moves
      <3>2. c.ring[c.presents[q].slot] = q
        BY <2>1, <3>1 DEF Ringed
      <3>3. ASSUME NEW x \in M, c.presents[x].slot = c.presents[q].slot PROVE FALSE
        <4>1. x \in 1..n /\ Waits(c, x)
          BY DEF Moves
        <4>2. c.ring[c.presents[x].slot] = x
          BY <2>1, <4>1 DEF Ringed
        <4>. QED  BY <3>1, <3>2, <3>3, <4>2
      <3>. QED  BY <1>1, <2>2, <3>2, <3>3 DEF Moves
    <2>. QED  BY <2>3, <2>4 DEF Ringed
  <1>4. ASSUME NEW q \in 1..n
        PROVE  Named(z, q) /\ (Unlinked(z, q) \/ Open(z, q)) /\ (Unlinked(c, q) => Unlinked(z, q))
    <2>1. Named(c, q) /\ (Unlinked(c, q) \/ Open(c, q))
      BY DEF Steady, Linked
    <2>2. (Unlinked(z, q) <=> Unlinked(c, q)) /\ (Named(z, q) <=> Named(c, q))
      BY <1>1, SameNamed
    <2>3. Open(c, q) => Open(z, q)
      BY <1>1 DEF Open, Moves
    <2>. QED  BY <2>1, <2>2, <2>3
  <1>5. AllStaged(z, n) /\ Asserted(z)
    BY DEF Steady, AllStaged, Asserted, Moves
  <1>6. Lasting(z, n)
    <2>1. Lasting(c, n)
      BY DEF Steady
    <2>2. \A q \in 1..n : Rides(z, q) <=> Rides(c, q)
      BY <1>1, SameRides DEF Moves, SameLinks
    <2>3. \A q \in 1..n : Waits(z, q) => Waits(c, q)
      BY DEF Moves
    <2>. QED  BY <1>1, <2>1, <2>2, <2>3, LastingKept
  <1>7. \A q : Key(z, q) = Key(c, q)
    BY <1>1 DEF Key
  <1>. QED  BY <1>2, <1>3, <1>4, <1>5, <1>6, <1>7 DEF Works, Steady, Linked

\* What a delivery after the completion of p does: the presents M are delivered.
Outcomes(c, z, n, p, M) ==
  /\ M \in SUBSET (1..n)
  /\ \A q \in M : Waits(c, q) /\ (q = p \/ c.presents[q].completed) /\ Key(c, q) = Key(c, p)
  /\ \A q \in 1..n : /\ Waits(z, q) <=> Waits(c, q) /\ q \notin M
                     /\ Out(z, q) <=> Out(c, q) \/ q \in M
  /\ \A q \in M, x \in 1..n : Waits(z, x) /\ Key(c, x) = Key(c, p) => q < x
  /\ Waits(c, p) /\ Head(Deque(c, p)) = p => p \in M
  /\ \A q \in 1..n : /\ z.presents[q].final = c.presents[q].final
                     /\ z.presents[q].mode = c.presents[q].mode
                     /\ z.presents[q].seenDxgk = c.presents[q].seenDxgk
                     /\ q # p => z.presents[q].completed = c.presents[q].completed

\* A present that left the collections is completed, and what is ready is delivered.
LEMMA DeliverWorks ==
    ASSUME NEW n \in Nat, NEW c, Steady(c, n), NEW p \in 1..n, Mine(p),
           Unlinked(c, p)
    PROVE  LET s == Deliver(c, p) IN
           s.todo = <<>> /\ Works(c, s.c, n) /\ \E M : Outcomes(c, s.c, n, p, M)
  <1>1. Good(c, n) /\ c \in Consumers(n)
    BY DEF Steady, Good
  <1>2. PICK e : e = c.presents[p]
    OBVIOUS
  <1>3. PICK f : f = [e EXCEPT !.completed = TRUE]
    OBVIOUS
  <1>4. e \in Presents(n) /\ e \in Records(n)
    BY <1>1, <1>2, PresentTyped, PresentIsRecord
  <1>5. f \in Presents(n) /\ Outcome(e, f) /\ f.final = e.final
    <2>1. f \in Records(n) /\ f.final = e.final /\ f.screen = e.screen /\ f.deps = e.deps
      BY <1>3, <1>4 DEF Records
    <2>2. f \in Presents(n)
      BY <1>4, <2>1, OutcomeKept
    <2>3. /\ f.process = e.process /\ f.swap = e.swap /\ f.thread = e.thread /\ f.slot = e.slot
          /\ f.mode = e.mode /\ f.submit = e.submit /\ f.token = e.token
      BY <1>3, <1>4 DEF Records
    <2>4. /\ f.context = e.context /\ f.blitToken = e.blitToken /\ f.win32k = e.win32k
          /\ f.seenWin32K = e.seenWin32K /\ f.hwnd = e.hwnd /\ f.seenDxgk = e.seenDxgk
      BY <1>3, <1>4 DEF Records
    <2>. QED  BY <2>1, <2>2, <2>3, <2>4 DEF Outcome
  <1>6. f.completed
    <2>1. f.completed = TRUE
      BY <1>3, <1>4 DEF Records
    <2>. QED  BY <2>1
  <1>7. PICK b : b = [c EXCEPT !.presents[p].completed = TRUE]
    OBVIOUS
  <1>8. b = [c EXCEPT !.presents[p] = f]
    BY <1>1, <1>2, <1>3, <1>7 DEF Consumers
  <1>9. /\ Works(c, b, n) /\ SameStanding(c, b, n) /\ b.presents[p] = f
        /\ \A x \in 1..n : x # p => b.presents[x] = c.presents[x]
        /\ b.bySwapChain = c.bySwapChain
    <2>1. /\ Works(c, [c EXCEPT !.presents[p] = f], n)
          /\ SameStanding(c, [c EXCEPT !.presents[p] = f], n)
          /\ [c EXCEPT !.presents[p] = f].presents[p] = f
          /\ \A x \in 1..n : x # p => [c EXCEPT !.presents[p] = f].presents[x] = c.presents[x]
          /\ [c EXCEPT !.presents[p] = f].bySwapChain = c.bySwapChain
      BY <1>2, <1>5, OutcomeSteady
    <2>. QED  BY <1>8, <2>1
  <1>10. PICK z : z = DeliverReady(b, p)
    OBVIOUS
  <1>11. Steady(b, n) /\ Good(b, n) /\ Good(z, n)
    <2>1. Steady(b, n) /\ Good(b, n)
      BY <1>9 DEF Works, Steady
    <2>. QED  BY <1>10, <2>1, DeliverReadyGood
  <1>12. PICK M : Moves(b, z, n, p, M)
    BY <1>10, <1>11, DeliveryMoves
  <1>13. Works(b, z, n)
    BY <1>11, <1>12, MovesSteady
  <1>14. Works(c, z, n)
    BY <1>9, <1>13 DEF Works
  <1>15. z.presents = b.presents /\ M \in SUBSET (1..n)
    BY <1>12 DEF Moves
  <1>16. \A q \in 1..n : /\ Key(b, q) = Key(c, q)
                         /\ Waits(b, q) <=> Waits(c, q)
                         /\ Out(b, q) <=> Out(c, q)
    BY <1>9 DEF Works, SameStanding
  <1>17. \A q \in M : Waits(c, q) /\ (q = p \/ c.presents[q].completed) /\ Key(c, q) = Key(c, p)
    BY <1>9, <1>12, <1>15, <1>16 DEF Moves
  <1>18. /\ \A q \in 1..n : /\ Waits(z, q) <=> Waits(c, q) /\ q \notin M
                            /\ Out(z, q) <=> Out(c, q) \/ q \in M
         /\ \A q \in M, x \in 1..n : Waits(z, x) /\ Key(c, x) = Key(c, p) => q < x
    BY <1>12, <1>16 DEF Moves
  <1>19. Waits(c, p) /\ Head(Deque(c, p)) = p => p \in M
    <2>1. Deque(b, p) = Deque(c, p)
      BY <1>9, <1>16 DEF Deque
    <2>. QED  BY <1>6, <1>9, <1>12, <1>16, <2>1 DEF Moves
  <1>20. \A q \in 1..n : /\ z.presents[q].final = c.presents[q].final
                         /\ z.presents[q].mode = c.presents[q].mode
                         /\ z.presents[q].seenDxgk = c.presents[q].seenDxgk
                         /\ q # p => z.presents[q].completed = c.presents[q].completed
    BY <1>2, <1>5, <1>9, <1>15 DEF Outcome
  <1>21. Outcomes(c, z, n, p, M)
    BY <1>15, <1>17, <1>18, <1>19, <1>20 DEF Outcomes
  <1>22. Deliver(c, p) = State(z, <<>>)
    BY <1>7, <1>10 DEF Deliver
  <1>. QED  BY <1>14, <1>21, <1>22 DEF State

\* What is delivered next is at the front if it was displayed.
Ready(c, p) == Shown(c.presents[p]) => Deque(c, p) = <<>> \/ Head(Deque(c, p)) = p

\* What is still to be delivered left the collections, and is delivered at once or
\* when the older ones are completed.
Pending(c, todo) ==
  \A i \in 1..Len(todo) : todo[i].do = "deliver" =>
    /\ Unlinked(c, todo[i].p)
    /\ IF i = 1 THEN Ready(c, todo[i].p)
       ELSE todo[i - 1].do = "older" /\ todo[i - 1].p = todo[i].p

\* One that is completed, waits and is said to be displayed is corrected next.
Corrects(c, todo, n) ==
  \A q \in 1..n : Waits(c, q) /\ c.presents[q].completed /\ Shown(c.presents[q]) =>
    todo # <<>> /\ todo[1].do = "call" /\ todo[1].p = q

\* What is still to be done is done to presents that may change.
Private(todo) == \A i \in 1..Len(todo) : Mine(todo[i].p)

\* A completion under way.
Busy(s, n) ==
  /\ Underway(s, n) /\ Steady(s.c, n)
  /\ Pending(s.c, s.todo) /\ Corrects(s.c, s.todo, n) /\ Private(s.todo)

\* The jobs that one leaves go before the others.
LEMMA StackBusy ==
    ASSUME NEW n \in Nat, NEW s, Busy(s, n), s.todo # <<>>, NEW d, NEW now \in Seq(JobsFor(n)),
           Works(s.c, d, n), Pending(d, now), Corrects(d, now, n), Private(now),
           s.todo[1].do = "older" =>
             IF now = <<>> THEN Ready(d, s.todo[1].p)
             ELSE now[Len(now)].do = "older" /\ now[Len(now)].p = s.todo[1].p
    PROVE  Busy(State(d, now \o Tail(s.todo)), n)
  <1>1. PICK L \in Nat, T \in Nat : L = Len(now) /\ T = Len(s.todo) /\ T # 0
    <2>1. s.todo \in Seq(JobsFor(n)) /\ s.todo # <<>>
      BY DEF Busy, Underway
    <2>. QED  BY <2>1, LenProperties, EmptySeq
  <1>2. PICK t : t = Tail(s.todo)
    OBVIOUS
  <1>3. /\ t \in Seq(JobsFor(n)) /\ Len(t) = T - 1
        /\ \A i \in 1..T - 1 : t[i] = s.todo[i + 1]
    <2>1. s.todo \in Seq(JobsFor(n)) /\ s.todo # <<>>
      BY DEF Busy, Underway
    <2>. QED  BY <1>1, <1>2, <2>1, HeadTailProperties
  <1>4. PICK r : r = now \o t
    OBVIOUS
  <1>5. /\ r \in Seq(JobsFor(n)) /\ Len(r) = L + T - 1
        /\ \A i \in 1..L + T - 1 : r[i] = IF i <= L THEN now[i] ELSE t[i - L]
    <2>1. /\ r \in Seq(JobsFor(n)) /\ Len(r) = L + (T - 1)
          /\ \A i \in 1..L + (T - 1) : r[i] = IF i <= L THEN now[i] ELSE t[i - L]
      <3>1. /\ now \o t \in Seq(JobsFor(n)) /\ Len(now \o t) = Len(now) + Len(t)
            /\ \A i \in 1..Len(now) + Len(t) :
                 (now \o t)[i] = IF i <= Len(now) THEN now[i] ELSE t[i - Len(now)]
        BY <1>3, ConcatProperties
      <3>2. Len(now) = L /\ Len(t) = T - 1
        BY <1>1, <1>3
      <3>. QED  BY <1>4, <3>1, <3>2
    <2>2. L + (T - 1) = L + T - 1
      BY <1>1
    <2>. QED  BY <2>1, <2>2
  <1>6. \A i \in 1..L : r[i] = now[i] /\ i \in 1..L + T - 1
    BY <1>1, <1>5
  <1>7. \A i \in 2..T : r[L + i - 1] = s.todo[i]
    <2>1. \A i \in 2..T : i - 1 \in 1..T - 1 /\ t[i - 1] = s.todo[i]
      BY <1>1, <1>3
    <2>2. \A i \in 2..T : L + i - 1 \in 1..L + T - 1 /\ ~(L + i - 1 <= L) /\ L + i - 1 - L = i - 1
      BY <1>1
    <2>. QED  BY <1>5, <2>1, <2>2
  <1>8. \A i \in 1..L + T - 1 : i \in 1..L \/ \E j \in 2..T : L + j - 1 = i
    <2>. SUFFICES ASSUME NEW i \in 1..L + T - 1, i \notin 1..L PROVE \E j \in 2..T : L + j - 1 = i
      OBVIOUS
    <2>1. i - L + 1 \in 2..T /\ L + (i - L + 1) - 1 = i
      OBVIOUS
    <2>. QED  BY <2>1
  <1>9. Underway(State(d, r), n) /\ Steady(d, n)
    BY <1>5 DEF Works, Steady, Underway, State
  <1>10. Corrects(d, r, n)
    <2>. SUFFICES ASSUME NEW q \in 1..n, Waits(d, q), d.presents[q].completed, Shown(d.presents[q])
                  PROVE  r # <<>> /\ r[1].do = "call" /\ r[1].p = q
      BY DEF Corrects
    <2>1. now # <<>> /\ now[1].do = "call" /\ now[1].p = q
      BY DEF Corrects
    <2>2. L # 0
      BY <1>1, <2>1, EmptySeq
    <2>3. 1 \in 1..L
      BY <1>1, <2>2
    <2>4. r # <<>>
      BY <1>1, <1>5, <2>2, EmptySeq
    <2>. QED  BY <1>6, <2>1, <2>3, <2>4
  <1>11. Private(r)
    <2>. SUFFICES ASSUME NEW i \in 1..L + T - 1 PROVE Mine(r[i].p)
      BY <1>5 DEF Private
    <2>1. CASE i \in 1..L
      BY <1>1, <1>6, <2>1 DEF Private
    <2>2. CASE \E j \in 2..T : L + j - 1 = i
      <3>1. PICK j \in 2..T : L + j - 1 = i
        BY <2>2
      <3>2. r[i] = s.todo[j] /\ j \in 1..T
        BY <1>7, <3>1
      <3>3. Private(s.todo)
        BY DEF Busy
      <3>. QED  BY <1>1, <3>2, <3>3 DEF Private
    <2>. QED  BY <1>8, <2>1, <2>2
  <1>12. Pending(d, r)
    <2>. SUFFICES ASSUME NEW i \in 1..L + T - 1, r[i].do = "deliver"
                  PROVE  /\ Unlinked(d, r[i].p)
                         /\ IF i = 1 THEN Ready(d, r[i].p)
                            ELSE r[i - 1].do = "older" /\ r[i - 1].p = r[i].p
      BY <1>5 DEF Pending
    <2>1. CASE i \in 1..L
      <3>1. /\ Unlinked(d, now[i].p)
            /\ IF i = 1 THEN Ready(d, now[i].p)
               ELSE now[i - 1].do = "older" /\ now[i - 1].p = now[i].p
        BY <1>1, <1>6, <2>1 DEF Pending
      <3>2. i # 1 => r[i - 1] = now[i - 1]
        <4>1. i # 1 => i - 1 \in 1..L
          BY <1>1, <2>1
        <4>. QED  BY <1>6, <4>1
      <3>. QED  BY <1>6, <2>1, <3>1, <3>2
    <2>2. CASE \E j \in 2..T : L + j - 1 = i
      <3>1. PICK j \in 2..T : L + j - 1 = i
        BY <2>2
      <3>2. r[i] = s.todo[j] /\ j \in 1..T /\ j # 1
        BY <1>7, <3>1
      <3>3. /\ Unlinked(s.c, s.todo[j].p)
            /\ s.todo[j - 1].do = "older" /\ s.todo[j - 1].p = s.todo[j].p
        <4>1. Pending(s.c, s.todo)
          BY DEF Busy
        <4>. QED  BY <1>1, <3>2, <4>1 DEF Pending
      <3>4. Unlinked(d, r[i].p)
        <4>1. s.todo[j].p \in 1..n
          <5>1. s.todo[j] \in JobsFor(n)
            <6>1. s.todo \in Seq(JobsFor(n))
              BY DEF Busy, Underway
            <6>. QED  BY <1>1, <3>2, <6>1, ElementOfSeq
          <5>. QED  BY <5>1 DEF JobsFor
        <4>. QED  BY <3>2, <3>3, <4>1 DEF Works
      <3>5. CASE j = 2
        <4>1. s.todo[1].do = "older" /\ s.todo[1].p = r[i].p /\ i = L + 1
          BY <3>1, <3>2, <3>3, <3>5
        <4>2. CASE L = 0
          <5>1. now = <<>>
            BY <1>1, <4>2, EmptySeq
          <5>2. i = 1
            BY <4>1, <4>2
          <5>. QED  BY <3>4, <4>1, <5>1, <5>2
        <4>3. CASE L # 0
          <5>1. now # <<>>
            BY <1>1, <4>3, EmptySeq
          <5>2. L \in 1..L /\ i - 1 = L /\ i # 1
            <6>1. L \in Nat /\ i = L + 1 /\ L # 0
              BY <4>1, <4>3
            <6>. QED  BY <6>1
          <5>3. r[i - 1] = now[L]
            BY <1>6, <5>2
          <5>. QED  BY <1>1, <3>4, <4>1, <5>1, <5>3, <5>2
        <4>. QED  BY <4>2, <4>3
      <3>6. CASE j # 2
        <4>1. j - 1 \in 2..T /\ L + (j - 1) - 1 = i - 1 /\ i # 1
          <5>1. j \in Nat /\ 2 <= j /\ j <= T /\ j # 2 /\ L + j - 1 = i
            BY <3>1, <3>6
          <5>2. L \in Nat /\ T \in Nat
            BY <1>1
          <5>. QED  BY <5>1, <5>2
        <4>2. r[i - 1] = s.todo[j - 1]
          BY <1>7, <4>1
        <4>. QED  BY <3>2, <3>3, <3>4, <4>1, <4>2
      <3>. QED  BY <3>5, <3>6
    <2>. QED  BY <1>8, <2>1, <2>2
  <1>. QED  BY <1>2, <1>4, <1>9, <1>10, <1>11, <1>12 DEF Busy, State

\* The front of a deque waits in it, and is of its swap chain.
LEMMA FrontWaits ==
    ASSUME NEW n \in Nat, NEW c, Good(c, n), NEW p \in 1..n, Deque(c, p) # <<>>
    PROVE  LET h == Head(Deque(c, p)) IN
           /\ h \in 1..n /\ Key(c, h) = Key(c, p) /\ Deque(c, h) = Deque(c, p) /\ Waits(c, h)
           /\ \A x \in 1..n : Waits(c, x) /\ Key(c, x) = Key(c, p) => h <= x
  <1>1. Key(c, p) \in Chains /\ Deque(c, p) = c.bySwapChain[Key(c, p)]
    BY KeyTyped DEF Good
  <1>2. PICK d \in Seq(1..n) : d = Deque(c, p)
    BY KeyTyped DEF Good
  <1>3. Len(d) \in Nat /\ Len(d) # 0 /\ 1 \in 1..Len(d) /\ Head(d) = d[1] /\ d[1] \in 1..n
    <2>1. Len(d) \in Nat /\ Len(d) # 0
      BY <1>2, LenProperties, EmptySeq
    <2>2. 1 \in 1..Len(d)
      BY <2>1
    <2>. QED  BY <1>2, <2>1, <2>2, ElementOfSeq
  <1>4. \A i \in 1..Len(d) : Key(c, d[i]) = Key(c, p)
    BY <1>1, <1>2 DEF Good, Order
  <1>5. PICK h \in 1..n : h = Head(d)
    BY <1>3
  <1>6. Key(c, h) = Key(c, p)
    BY <1>3, <1>4, <1>5
  <1>7. Deque(c, h) = d
    BY <1>2, <1>6 DEF Deque
  <1>8. Waits(c, h)
    BY <1>3, <1>5, <1>7 DEF Waits, Contains
  <1>9. ASSUME NEW x \in 1..n, Waits(c, x), Key(c, x) = Key(c, p) PROVE h <= x
    <2>1. Deque(c, x) = d
      BY <1>2, <1>9 DEF Deque
    <2>2. PICK i \in 1..Len(d) : d[i] = x
      BY <1>9, <2>1 DEF Waits, Contains
    <2>3. CASE i = 1
      BY <1>3, <1>5, <2>2, <2>3
    <2>4. CASE i # 1
      <3>1. 1 < i
        BY <1>3, <2>2, <2>4
      <3>2. d[1] < d[i]
        BY <1>1, <1>2, <1>3, <2>2, <3>1 DEF Good, Order, Increasing
      <3>. QED  BY <1>3, <1>5, <2>2, <3>2
    <2>. QED  BY <2>3, <2>4
  <1>. QED  BY <1>2, <1>5, <1>6, <1>7, <1>8, <1>9

\* Nothing changes nothing.
LEMMA IdleWorks == ASSUME NEW n \in Nat, NEW c, Steady(c, n) PROVE Works(c, c, n)
  BY DEF Works

\* With no job nothing is pending,
LEMMA NoJobs == ASSUME NEW c PROVE Pending(c, <<>>) /\ Private(<<>>)
  <1>1. \A i \in 1..Len(<<>>) : FALSE
    OBVIOUS
  <1>. QED  BY <1>1 DEF Pending, Private

\* nor with one or two that deliver nothing.
LEMMA FewJobs ==
    ASSUME NEW c, NEW j, NEW k
    PROVE  /\ j.do # "deliver" => Pending(c, <<j>>)
           /\ j.do # "deliver" /\ k.do # "deliver" => Pending(c, <<j, k>>)
           /\ Mine(j.p) => Private(<<j>>)
           /\ Mine(j.p) /\ Mine(k.p) => Private(<<j, k>>)
           /\ j.do = "deliver" /\ Unlinked(c, j.p) /\ Ready(c, j.p) => Pending(c, <<j>>)
           /\ /\ j.do = "older" /\ k.do = "deliver" /\ j.p = k.p /\ Unlinked(c, k.p)
              => Pending(c, <<j, k>>)
  <1>1. Len(<<j>>) = 1 /\ <<j>>[1] = j /\ \A i \in 1..1 : i = 1
    OBVIOUS
  <1>2. Len(<<j, k>>) = 2 /\ <<j, k>>[1] = j /\ <<j, k>>[2] = k
        /\ \A i \in 1..2 : i = 1 \/ (i = 2 /\ i # 1 /\ i - 1 = 1)
    OBVIOUS
  <1>. QED  BY <1>1, <1>2 DEF Pending, Private

\* A call that finds its present completed corrects its outcome,
LEMMA CallAgainBusy ==
    ASSUME NEW n \in Nat, NEW s, Busy(s, n), s.todo # <<>>, s.todo[1].do = "call",
           s.c.presents[s.todo[1].p].completed, s.todo[1].p \in 1..n,
           Mine(s.todo[1].p)
    PROVE  LET done == Call(s.c, s.todo[1].p) IN Busy(State(done.c, done.todo \o Tail(s.todo)), n)
  <1>1. PICK p \in 1..n : p = s.todo[1].p
    OBVIOUS
  <1>2. PICK done : done = Call(s.c, p)
    OBVIOUS
  <1>3. p = s.todo[1].p /\ done = Call(s.c, p)
    BY <1>1, <1>2
  <1>4. Steady(s.c, n) /\ Corrects(s.c, s.todo, n)
    BY DEF Busy
  <1>5. done.todo = <<>> /\ OnlyOutcome(s.c, done.c, n, p) /\ done.c.presents[p].final = "Error"
    BY <1>3, <1>4, CallAgainWorks
  <1>6. Corrects(done.c, done.todo, n)
    BY <1>3, <1>4, <1>5 DEF Corrects, OnlyOutcome, SameStanding, Shown
  <1>7. Works(s.c, done.c, n) /\ done.todo \in Seq(JobsFor(n))
        /\ Pending(done.c, done.todo) /\ Private(done.todo)
    <2>1. <<>> \in Seq(JobsFor(n)) /\ Pending(done.c, <<>>) /\ Private(<<>>)
      BY NoJobs
    <2>. QED  BY <1>5, <2>1 DEF OnlyOutcome
  <1>8. s.todo[1].do # "older"
    OBVIOUS
  <1>. QED  BY <1>3, <1>6, <1>7, <1>8, StackBusy

\* and one that does not goes on with what rides along.
LEMMA CallBusy ==
    ASSUME NEW n \in Nat, NEW s, Busy(s, n), s.todo # <<>>, s.todo[1].do = "call",
           ~s.c.presents[s.todo[1].p].completed, s.todo[1].p \in 1..n,
           Mine(s.todo[1].p)
    PROVE  LET done == Call(s.c, s.todo[1].p) IN Busy(State(done.c, done.todo \o Tail(s.todo)), n)
  <1>1. PICK p \in 1..n : p = s.todo[1].p
    OBVIOUS
  <1>2. PICK done : done = Call(s.c, p)
    OBVIOUS
  <1>3. p = s.todo[1].p /\ done = Call(s.c, p)
    BY <1>1, <1>2
  <1>4. Steady(s.c, n) /\ Corrects(s.c, s.todo, n) /\ Good(s.c, n)
    BY DEF Busy, Steady
  <1>5. PICK deps \in Seq(1..n) : deps = s.c.presents[p].deps
    <2>1. s.c.presents[p] \in Records(n)
      BY <1>4, PresentTyped, PresentIsRecord DEF Good
    <2>. QED  BY <2>1 DEF Records
  <1>6. PICK rides : rides = [i \in DOMAIN deps |-> [do |-> "ride", p |-> deps[i], of |-> p]]
    OBVIOUS
  <1>7. done.c = s.c /\ done.todo = Append(rides, Job("untrack", p))
    BY <1>3, <1>5, <1>6 DEF Call, State
  <1>8. done.todo \in Seq(JobsFor(n))
    BY <1>3, <1>4, CallGood DEF Underway
  <1>9. DOMAIN rides = 1..Len(deps) /\ Len(deps) \in Nat
        /\ \A i \in 1..Len(deps) : rides[i].do = "ride" /\ rides[i] \in JobsFor(n)
    <2>1. DOMAIN deps = 1..Len(deps) /\ Len(deps) \in Nat
      BY <1>5, LenProperties
    <2>2. DOMAIN rides = 1..Len(deps)
      BY <1>6, <2>1
    <2>3. ASSUME NEW i \in 1..Len(deps)
          PROVE  rides[i].do = "ride" /\ rides[i] \in JobsFor(n)
      <3>1. PICK q \in 1..n : q = deps[i]
        BY <1>5
      <3>2. PICK j : j = [do |-> "ride", p |-> q, of |-> p]
        OBVIOUS
      <3>3. j \in JobsFor(n) /\ j.do = "ride"
        BY <3>2 DEF JobsFor
      <3>4. rides[i] = j
        BY <1>6, <2>1, <3>1, <3>2
      <3>. QED  BY <3>3, <3>4
    <2>. QED  BY <2>1, <2>2, <2>3
  <1>10. rides \in Seq(JobsFor(n)) /\ Len(rides) = Len(deps)
    <2>1. rides \in [1..Len(deps) -> JobsFor(n)]
      <3>1. rides = [i \in 1..Len(deps) |-> rides[i]]
        BY <1>6, <1>9
      <3>. QED  BY <1>9, <3>1
    <2>. QED  BY <1>9, <2>1, NumberedIsSeq
  <1>11. Len(done.todo) = Len(deps) + 1
         /\ \A i \in 1..Len(deps) + 1 :
              done.todo[i].do = IF i <= Len(deps) THEN "ride" ELSE "untrack"
    <2>1. PICK j \in JobsFor(n) : j = Job("untrack", p) /\ j.do = "untrack"
      BY JobTyped DEF Job
    <2>2. /\ Len(Append(rides, j)) = Len(rides) + 1
          /\ \A i \in 1..Len(rides) : Append(rides, j)[i] = rides[i]
          /\ Append(rides, j)[Len(rides) + 1] = j
      BY <1>10, AppendProperties
    <2>3. \A i \in 1..Len(deps) + 1 : (i <= Len(deps) /\ i \in 1..Len(deps)) \/ i = Len(deps) + 1
      BY <1>9
    <2>4. ~(Len(deps) + 1 <= Len(deps))
      BY <1>9
    <2>5. done.todo = Append(rides, j)
      BY <1>7, <2>1
    <2>6. Len(done.todo) = Len(deps) + 1
      BY <1>10, <2>2, <2>5
    <2>7. \A i \in 1..Len(deps) : done.todo[i].do = "ride"
      BY <1>9, <1>10, <2>2, <2>5
    <2>8. done.todo[Len(deps) + 1].do = "untrack"
      BY <1>10, <2>1, <2>2, <2>5
    <2>. QED  BY <2>3, <2>4, <2>6, <2>7, <2>8
  <1>12. Pending(done.c, done.todo)
    BY <1>11 DEF Pending
  <1>13. Corrects(done.c, done.todo, n)
    BY <1>3, <1>4, <1>7 DEF Corrects
  <1>14. Private(done.todo)
    <2>1. \A i \in 1..Len(deps) : Mine(rides[i].p)
      <3>1. Lasting(s.c, n) /\ DOMAIN s.c.presents = 1..n
        BY <1>4 DEF Steady, Lasting, Good, Consumers
      <3>2. \A i \in 1..Len(deps) : rides[i].p = deps[i] /\ deps[i] \in 1..n
        BY <1>5, <1>6, <1>9, LenProperties, ElementOfSeq
      <3>3. \A i \in 1..Len(deps) : Rides(s.c, deps[i])
        BY <1>5, <3>1, LenProperties DEF Rides, ToSet
      <3>. QED  BY <3>1, <3>2, <3>3 DEF Lasting
    <2>2. PICK j \in JobsFor(n) : j = Job("untrack", p) /\ j.p = p
      BY JobTyped DEF Job
    <2>3. /\ \A i \in 1..Len(rides) : done.todo[i] = rides[i]
          /\ done.todo[Len(rides) + 1] = j
      BY <1>7, <1>10, <2>2, AppendProperties
    <2>4. \A i \in 1..Len(deps) + 1 : i \in 1..Len(deps) \/ i = Len(deps) + 1
      BY <1>9
    <2>5. \A i \in 1..Len(deps) + 1 : Mine(done.todo[i].p)
      BY <1>3, <1>10, <2>1, <2>2, <2>3, <2>4
    <2>. QED  BY <1>11, <2>5 DEF Private
  <1>15. Works(s.c, done.c, n) /\ s.todo[1].do # "older"
    BY <1>4, <1>7, IdleWorks
  <1>. QED  BY <1>3, <1>8, <1>12, <1>13, <1>14, <1>15, StackBusy

\* When the next job is not a call, no present that waits is said to be displayed.
LEMMA NothingToCorrect ==
    ASSUME NEW n \in Nat, NEW s, Busy(s, n), s.todo = <<>> \/ s.todo[1].do # "call"
    PROVE  Told(s.c, n)
  BY DEF Busy, Corrects, Told, Shown

\* A present that rides along is called next.
LEMMA RideBusy ==
    ASSUME NEW n \in Nat, NEW s, Busy(s, n), s.todo # <<>>, s.todo[1].do = "ride",
           s.todo[1].p \in 1..n, s.todo[1].of \in 1..n, Mine(s.todo[1].p)
    PROVE  LET done == Ride(s.c, s.todo[1].p, s.todo[1].of)
           IN Busy(State(done.c, done.todo \o Tail(s.todo)), n)
  <1>1. PICK q \in 1..n : q = s.todo[1].p
    OBVIOUS
  <1>2. PICK done : done = Ride(s.c, q, s.todo[1].of)
    OBVIOUS
  <1>3. Steady(s.c, n) /\ Told(s.c, n)
    BY NothingToCorrect DEF Busy
  <1>4. \/ done.c = s.c /\ done.todo = <<>>
        \/ OnlyOutcome(s.c, done.c, n, q) /\ done.todo = <<Job("call", q)>>
    BY <1>1, <1>2, <1>3, RideWorks
  <1>5. Private(done.todo)
    <2>1. PICK j \in JobsFor(n) : j = Job("call", q) /\ j.p = q
      BY JobTyped DEF Job
    <2>2. Private(<<j>>) /\ Private(<<>>)
      BY <1>1, <2>1, FewJobs, NoJobs
    <2>. QED  BY <1>4, <2>1, <2>2
  <1>6. /\ Works(s.c, done.c, n) /\ done.todo \in Seq(JobsFor(n))
        /\ Pending(done.c, done.todo) /\ Corrects(done.c, done.todo, n)
    <2>1. CASE done.c = s.c /\ done.todo = <<>>
      <3>1. Corrects(done.c, done.todo, n)
        BY <1>3, <2>1 DEF Corrects, Told, Shown
      <3>2. <<>> \in Seq(JobsFor(n)) /\ Pending(done.c, <<>>)
        BY NoJobs
      <3>. QED  BY <1>3, <2>1, <3>1, <3>2, IdleWorks
    <2>2. CASE OnlyOutcome(s.c, done.c, n, q) /\ done.todo = <<Job("call", q)>>
      <3>1. PICK j \in JobsFor(n) : j = Job("call", q) /\ j.do = "call" /\ j.p = q
        BY JobTyped DEF Job
      <3>2. done.todo = <<j>> /\ <<j>> # <<>> /\ <<j>>[1] = j /\ <<j>> \in Seq(JobsFor(n))
        BY <2>2, <3>1
      <3>3. Corrects(done.c, done.todo, n)
        BY <1>3, <2>2, <3>1, <3>2 DEF Corrects, Told, Shown, OnlyOutcome, SameStanding
      <3>4. Pending(done.c, <<j>>)
        BY <3>1, FewJobs
      <3>. QED  BY <2>2, <3>2, <3>3, <3>4 DEF OnlyOutcome
    <2>. QED  BY <1>4, <2>1, <2>2
  <1>7. s.todo[1].do # "older"
    OBVIOUS
  <1>. QED  BY <1>1, <1>2, <1>5, <1>6, <1>7, StackBusy

\* A present that left the collections is delivered, after the older ones if displayed.
LEMMA UntrackBusy ==
    ASSUME NEW n \in Nat, NEW s, Busy(s, n), s.todo # <<>>, s.todo[1].do = "untrack",
           s.todo[1].p \in 1..n, Mine(s.todo[1].p)
    PROVE  LET done == CompleteUntracked(s.c, s.todo[1].p)
           IN Busy(State(done.c, done.todo \o Tail(s.todo)), n)
  <1>1. PICK p \in 1..n : p = s.todo[1].p
    OBVIOUS
  <1>2. PICK done : done = CompleteUntracked(s.c, p)
    OBVIOUS
  <1>3. Steady(s.c, n) /\ Told(s.c, n)
    BY NothingToCorrect DEF Busy
  <1>4. /\ Works(s.c, done.c, n) /\ SameStanding(s.c, done.c, n) /\ SameFates(s.c, done.c, n)
        /\ Unlinked(done.c, p)
        /\ done.todo = IF Shown(s.c.presents[p])
                       THEN <<Job("older", p), Job("deliver", p)>> ELSE <<Job("deliver", p)>>
    BY <1>1, <1>2, <1>3, UntrackWorks
  <1>5. Corrects(done.c, done.todo, n)
    BY <1>3, <1>4 DEF Corrects, Told, Shown, SameStanding, SameFates
  <1>6. PICK j \in JobsFor(n) : j = Job("older", p) /\ j.do = "older" /\ j.p = p
    BY JobTyped DEF Job
  <1>7. PICK k \in JobsFor(n) : k = Job("deliver", p) /\ k.do = "deliver" /\ k.p = p
    BY JobTyped DEF Job
  <1>8. Private(<<j, k>>) /\ Private(<<k>>) /\ Pending(done.c, <<j, k>>)
        /\ <<j, k>> \in Seq(JobsFor(n)) /\ <<k>> \in Seq(JobsFor(n))
    <2>1. Private(<<j, k>>) /\ Private(<<k>>)
      BY <1>1, <1>6, <1>7, FewJobs
    <2>2. Pending(done.c, <<j, k>>)
      BY <1>4, <1>6, <1>7, FewJobs
    <2>. QED  BY <2>1, <2>2
  <1>9. Pending(done.c, done.todo) /\ Private(done.todo) /\ done.todo \in Seq(JobsFor(n))
    <2>1. CASE Shown(s.c.presents[p])
      BY <1>4, <1>6, <1>7, <1>8, <2>1
    <2>2. CASE ~Shown(s.c.presents[p])
      <3>1. ~Shown(done.c.presents[p])
        BY <1>4, <2>2 DEF SameFates, Shown
      <3>2. Pending(done.c, <<k>>)
        BY <1>4, <1>7, <3>1, FewJobs DEF Ready
      <3>. QED  BY <1>4, <1>7, <1>8, <2>2, <3>2
    <2>. QED  BY <2>1, <2>2
  <1>10. s.todo[1].do # "older"
    OBVIOUS
  <1>. QED  BY <1>1, <1>2, <1>4, <1>5, <1>9, <1>10, StackBusy

\* The older presents of a swap chain are called one by one.
LEMMA OlderBusy ==
    ASSUME NEW n \in Nat, NEW s, Busy(s, n), s.todo # <<>>, s.todo[1].do = "older",
           s.todo[1].p \in 1..n, Mine(s.todo[1].p)
    PROVE  LET done == CompleteOlder(s.c, s.todo[1].p)
           IN Busy(State(done.c, done.todo \o Tail(s.todo)), n)
  <1>1. PICK p \in 1..n : p = s.todo[1].p
    OBVIOUS
  <1>2. PICK done : done = CompleteOlder(s.c, p)
    OBVIOUS
  <1>3. Steady(s.c, n) /\ Told(s.c, n) /\ Good(s.c, n)
    BY NothingToCorrect DEF Busy, Steady
  <1>4. done.c = s.c /\ Works(s.c, done.c, n)
    BY <1>2, <1>3, IdleWorks DEF CompleteOlder, State
  <1>5. Corrects(done.c, done.todo, n)
    BY <1>3, <1>4 DEF Corrects, Told, Shown
  <1>6. PICK d \in Seq(1..n) : d = Deque(s.c, p)
    BY <1>3, KeyTyped DEF Good
  <1>7. CASE d = <<>> \/ Head(d) = p
    <2>1. done.todo = <<>>
      BY <1>2, <1>6, <1>7 DEF CompleteOlder, State
    <2>2. Ready(done.c, p)
      BY <1>4, <1>6, <1>7 DEF Ready
    <2>3. <<>> \in Seq(JobsFor(n)) /\ Pending(done.c, <<>>) /\ Private(<<>>)
      BY NoJobs
    <2>. QED  BY <1>1, <1>2, <1>4, <1>5, <2>1, <2>2, <2>3, StackBusy
  <1>8. CASE ~(d = <<>> \/ Head(d) = p)
    <2>1. PICK h \in 1..n : h = Head(d) /\ Waits(s.c, h)
      BY <1>3, <1>6, <1>8, FrontWaits
    <2>2. Mine(h)
      BY <1>3, <2>1, WaitsMine DEF Steady
    <2>3. PICK j \in JobsFor(n) : j = Job("call", h) /\ j.do = "call" /\ j.p = h
      BY JobTyped DEF Job
    <2>4. PICK k \in JobsFor(n) : k = Job("older", p) /\ k.do = "older" /\ k.p = p
      BY JobTyped DEF Job
    <2>5. done.todo = <<j, k>>
      <3>1. done.todo = <<Job("call", Head(d)), Job("older", p)>>
        BY <1>2, <1>6, <1>8 DEF CompleteOlder, State
      <3>. QED  BY <2>1, <2>3, <2>4, <3>1
    <2>6. Pending(done.c, <<j, k>>) /\ Private(<<j, k>>)
      BY <1>1, <2>2, <2>3, <2>4, FewJobs
    <2>7. <<j, k>> \in Seq(JobsFor(n)) /\ Len(<<j, k>>) = 2 /\ <<j, k>>[2] = k /\ <<j, k>> # <<>>
      OBVIOUS
    <2>. QED  BY <1>1, <1>2, <1>4, <1>5, <2>4, <2>5, <2>6, <2>7, StackBusy
  <1>. QED  BY <1>7, <1>8

\* What is ready is delivered.
LEMMA DeliverBusy ==
    ASSUME NEW n \in Nat, NEW s, Busy(s, n), s.todo # <<>>, s.todo[1].do = "deliver",
           s.todo[1].p \in 1..n, Mine(s.todo[1].p)
    PROVE  LET done == Deliver(s.c, s.todo[1].p)
           IN Busy(State(done.c, done.todo \o Tail(s.todo)), n)
  <1>1. PICK p \in 1..n : p = s.todo[1].p
    OBVIOUS
  <1>2. PICK done : done = Deliver(s.c, p)
    OBVIOUS
  <1>3. Steady(s.c, n) /\ Told(s.c, n) /\ Pending(s.c, s.todo)
    BY NothingToCorrect DEF Busy
  <1>4. Unlinked(s.c, p) /\ Ready(s.c, p)
    <2>1. 1 \in 1..Len(s.todo)
      <3>1. Len(s.todo) \in Nat /\ Len(s.todo) # 0
        BY LenProperties, EmptySeq DEF Busy, Underway
      <3>. QED  BY <3>1
    <2>. QED  BY <1>1, <1>3, <2>1 DEF Pending
  <1>5. done.todo = <<>> /\ Works(s.c, done.c, n)
    BY <1>1, <1>2, <1>3, <1>4, DeliverWorks
  <1>6. PICK M : Outcomes(s.c, done.c, n, p, M)
    BY <1>1, <1>2, <1>3, <1>4, DeliverWorks
  <1>7. ASSUME NEW q \in 1..n, Waits(done.c, q), done.c.presents[q].completed,
               Shown(done.c.presents[q])
        PROVE  FALSE
    <2>1. Waits(s.c, q) /\ q \notin M /\ Shown(s.c.presents[q])
      BY <1>6, <1>7 DEF Outcomes, Shown
    <2>2. CASE q # p
      <3>1. s.c.presents[q].completed
        BY <1>6, <1>7, <2>2 DEF Outcomes
      <3>. QED  BY <1>3, <2>1, <3>1 DEF Told, Shown
    <2>3. CASE q = p
      <3>1. Deque(s.c, p) # <<>>
        BY <2>1, <2>3 DEF Waits, Contains
      <3>2. Head(Deque(s.c, p)) = p
        BY <1>4, <2>1, <2>3, <3>1 DEF Ready
      <3>. QED  BY <1>6, <2>1, <2>3, <3>2 DEF Outcomes
    <2>. QED  BY <2>2, <2>3
  <1>8. Corrects(done.c, done.todo, n)
    BY <1>7 DEF Corrects
  <1>9. <<>> \in Seq(JobsFor(n)) /\ Pending(done.c, <<>>) /\ Private(<<>>)
    BY NoJobs
  <1>10. s.todo[1].do # "older"
    OBVIOUS
  <1>. QED  BY <1>1, <1>2, <1>5, <1>8, <1>9, <1>10, StackBusy

\* Each job of a completion keeps the invariant,
LEMMA ContinueBusy ==
    ASSUME NEW n \in Nat, NEW s, Busy(s, n)
    PROVE  Busy(Continue(s), n)
  <1>1. CASE s.todo = <<>>
    BY <1>1 DEF Continue
  <1>2. CASE s.todo # <<>>
    <2>1. PICK job \in JobsFor(n) : job = Head(s.todo) /\ job = s.todo[1]
      BY <1>2, HeadTailProperties DEF Busy, Underway
    <2>2. job.p \in 1..n /\ job.of \in 1..n
          /\ job.do \in {"call", "ride", "untrack", "older", "deliver"}
      BY DEF JobsFor
    <2>3. Mine(job.p)
      <3>1. 1 \in 1..Len(s.todo)
        <4>1. Len(s.todo) \in Nat /\ Len(s.todo) # 0
          BY <1>2, LenProperties, EmptySeq DEF Busy, Underway
        <4>. QED  BY <4>1
      <3>. QED  BY <2>1, <3>1 DEF Busy, Private
    <2>4. PICK done : done = Do(s.c, job)
      OBVIOUS
    <2>5. Continue(s) = State(done.c, done.todo \o Tail(s.todo))
      BY <1>2, <2>1, <2>4 DEF Continue
    <2>6. CASE job.do = "call"
      <3>1. done = Call(s.c, job.p)
        BY <2>4, <2>6 DEF Do
      <3>2. CASE s.c.presents[job.p].completed
        BY <1>2, <2>1, <2>2, <2>3, <2>5, <2>6, <3>1, <3>2, CallAgainBusy
      <3>3. CASE ~s.c.presents[job.p].completed
        BY <1>2, <2>1, <2>2, <2>3, <2>5, <2>6, <3>1, <3>3, CallBusy
      <3>. QED  BY <3>2, <3>3
    <2>7. CASE job.do = "ride"
      <3>1. done = Ride(s.c, job.p, job.of)
        BY <2>4, <2>7 DEF Do
      <3>. QED  BY <1>2, <2>1, <2>2, <2>3, <2>5, <2>7, <3>1, RideBusy
    <2>8. CASE job.do = "untrack"
      <3>1. done = CompleteUntracked(s.c, job.p)
        BY <2>4, <2>8 DEF Do
      <3>. QED  BY <1>2, <2>1, <2>2, <2>3, <2>5, <2>8, <3>1, UntrackBusy
    <2>9. CASE job.do = "older"
      <3>1. done = CompleteOlder(s.c, job.p)
        BY <2>4, <2>9 DEF Do
      <3>. QED  BY <1>2, <2>1, <2>2, <2>3, <2>5, <2>9, <3>1, OlderBusy
    <2>10. CASE job.do = "deliver"
      <3>1. done = Deliver(s.c, job.p)
        BY <2>4, <2>10 DEF Do
      <3>. QED  BY <1>2, <2>1, <2>2, <2>3, <2>5, <2>10, <3>1, DeliverBusy
    <2>. QED  BY <2>2, <2>6, <2>7, <2>8, <2>9, <2>10
  <1>. QED  BY <1>1, <1>2

\* A completion of an open present starts within the invariant of its stack,
LEMMA StartingBusy ==
    ASSUME NEW n \in Nat, NEW c, Neat(c, n), NEW p \in 1..n, Open(c, p)
    PROVE  Busy(Starting(c, p), n)
  <1>1. PICK j \in JobsFor(n) : j = Job("call", p) /\ j.do = "call" /\ j.p = p
    BY JobTyped DEF Job
  <1>2. PICK s : s = Starting(c, p)
    OBVIOUS
  <1>3. s.c = c /\ s.todo = <<j>>
    BY <1>1, <1>2 DEF Starting, State
  <1>4. Steady(c, n) /\ Told(c, n) /\ Good(c, n)
    BY DEF Neat, Steady
  <1>5. Underway(s, n)
    BY <1>3, <1>4 DEF Underway
  <1>6. Pending(c, <<j>>)
    BY <1>1, FewJobs
  <1>7. Corrects(c, s.todo, n)
    BY <1>4 DEF Corrects, Told, Shown
  <1>8. Private(<<j>>)
    <2>1. Mine(p)
      BY <1>4, WaitsMine DEF Steady, Open
    <2>. QED  BY <1>1, <2>1, FewJobs
  <1>9. Busy(s, n)
    BY <1>3, <1>4, <1>5, <1>6, <1>7, <1>8 DEF Busy
  <1>. QED  BY <1>2, <1>9

\* every number of jobs keeps it,
LEMMA CompletingBusy ==
    ASSUME NEW n \in Nat, NEW c, Neat(c, n), NEW p \in 1..n, Open(c, p), NEW m \in Nat
    PROVE  Busy(Completing(c, p)[m], n)
  <1>. DEFINE T == {i \in Nat : ~Busy(Completing(c, p)[i], n)}
  <1>1. SUFFICES ASSUME T # {} PROVE FALSE
    OBVIOUS
  <1>2. PICK i \in T : \A j \in T : i <= j
    <2>1. T \in SUBSET Nat
      OBVIOUS
    <2>. HIDE DEF T
    <2>. QED  BY <1>1, <2>1, LeastOf
  <1>3. i # 0
    <2>1. Busy(Starting(c, p), n)
      BY StartingBusy
    <2>. QED  BY <2>1, CompletingRuns
  <1>4. i - 1 \in Nat /\ i - 1 \notin T /\ i = (i - 1) + 1
    BY <1>2, <1>3
  <1>5. Busy(Completing(c, p)[i - 1], n)
    BY <1>4
  <1>6. Busy(Continue(Completing(c, p)[i - 1]), n)
    BY <1>5, ContinueBusy
  <1>7. Completing(c, p)[i] = Continue(Completing(c, p)[i - 1])
    BY <1>4, CompletingRuns
  <1>. QED  BY <1>6, <1>7

\* and a completion that returns leaves all as it should be.
LEMMA CompleteNeat ==
    ASSUME NEW n \in Nat, NEW c, Neat(c, n), NEW p \in 1..n, Open(c, p)
    PROVE  Complete(c, p).hung \/ Neat(Complete(c, p), n)
  <1>1. Jobs(c) \in Nat
    <2>1. Len(c.presents) = n
      BY PresentsLength DEF Neat, Steady, Good
    <2>2. 2 * n + 5 \in Nat
      OBVIOUS
    <2>3. \A a, b \in Nat : a * b \in Nat
      OBVIOUS
    <2>. QED  BY <2>1, <2>2, <2>3 DEF Jobs
  <1>2. PICK end : end = Completing(c, p)[Jobs(c)]
    OBVIOUS
  <1>3. Busy(end, n)
    BY <1>1, <1>2, CompletingBusy
  <1>4. CASE end.todo = <<>>
    <2>1. Told(end.c, n) /\ Steady(end.c, n)
      BY <1>3, <1>4, NothingToCorrect DEF Busy
    <2>2. Complete(c, p) = end.c
      BY <1>2, <1>4 DEF Complete
    <2>. QED  BY <2>1, <2>2 DEF Neat
  <1>5. CASE end.todo # <<>>
    <2>1. Complete(c, p) = [end.c EXCEPT !.hung = TRUE]
      BY <1>2, <1>5 DEF Complete
    <2>2. end.c \in Consumers(n)
      BY <1>3 DEF Busy, Steady, Good
    <2>3. [end.c EXCEPT !.hung = TRUE].hung = TRUE
      BY <2>2 DEF Consumers
    <2>. QED  BY <2>1, <2>3
  <1>. QED  BY <1>4, <1>5

-----------------------------------------------------------------------------
(* What a handler leaves behind.                                           *)

Left(c, n) ==
  /\ Good(c, n) /\ Placed(c, n) /\ Ringed(c, n) /\ Linked(c, n) /\ AllStaged(c, n)
  /\ Asserted(c) /\ Told(c, n)

NInv ==
  /\ trace \in Traces /\ OwnThreads(trace)
  /\ \E n \in Nat : Neat(consumer, n)

\* Of a present that is forgotten the outcome stays, and none of its keys.
LEMMA ForgottenFields ==
    ASSUME NEW n \in Nat, NEW e \in Presents(n)
    PROVE  /\ Forgotten(e).final = e.final /\ Forgotten(e).mode = e.mode
           /\ Staged(e) => Staged(Forgotten(e))
           /\ Forgotten(e).deps = <<>>
  <1>1. e \in Records(n)
    BY PresentIsRecord
  <1>2. PICK t : t = CHOOSE i \in Threads : ProcessOf(i) = e.process
    OBVIOUS
  <1>3. PICK f : f = NewPresent(t, "Other", e.swap, FALSE)
    OBVIOUS
  <1>4. PICK seen \in BOOLEAN : seen = (e.seenDxgk /\ e.mode = "Legacy_Copy")
    <2>1. e.seenDxgk \in BOOLEAN
      BY <1>1 DEF Records
    <2>. QED  BY <2>1
  <1>5. PICK g : g = Forgotten(e)
    OBVIOUS
  <1>6. g = [f EXCEPT !.mode = e.mode, !.final = e.final, !.screen = e.screen,
                      !.seenDxgk = seen, !.completed = e.completed, !.lost = e.lost]
    BY <1>2, <1>3, <1>4, <1>5 DEF Forgotten
  <1>7. g.final = e.final /\ g.mode = e.mode
    BY <1>3, <1>6 DEF NewPresent
  <1>8. g.seenDxgk = seen
    BY <1>3, <1>6 DEF NewPresent
  <1>9. g.token = None /\ g.seenWin32K = FALSE
    BY <1>3, <1>6 DEF NewPresent
  <1>10. g.blitToken = None /\ g.submit = None
    BY <1>3, <1>6 DEF NewPresent
  <1>11. g.context = None /\ g.deps = <<>>
    BY <1>3, <1>6 DEF NewPresent
  <1>13. Staged(e) => Staged(g)
    BY <1>7, <1>9, <1>10, <1>11 DEF Staged
  <1>. QED  BY <1>5, <1>7, <1>11, <1>13

\* What any collection or the ring finds can be reached.
LEMMA FoundIsReachable ==
    ASSUME NEW n \in Nat, NEW c \in Consumers(n), NEW p \in 1..n, p \notin Reachable(c)
    PROVE  Unlinked(c, p) /\ \A s \in Slots : c.ring[s] # p
  <1>1. p \notin LookedUp(c) /\ p \notin Targets(c.ring)
    BY DEF Reachable
  <1>2. p # NoPresent
    BY DEF NoPresent
  <1>3. \A s \in Slots : c.ring[s] # p
    BY <1>1, <1>2 DEF Targets, Consumers
  <1>4. \A t \in Threads : c.byThread[t] # p
    BY <1>1, <1>2 DEF Targets, Consumers, LookedUp
  <1>5. \A s \in SubmitSeqs : c.bySubmit[s] # p
    BY <1>1, <1>2 DEF Targets, Consumers, LookedUp
  <1>6. \A k \in Tokens : c.win32k[k] # p
    BY <1>1, <1>2 DEF Targets, Consumers, LookedUp
  <1>7. \A k \in Tokens : c.dxgk[k] # p
    BY <1>1, <1>2 DEF Targets, Consumers, LookedUp
  <1>8. \A k \in Tokens : c.legacyBlit[k] # p
    BY <1>1, <1>2 DEF Targets, Consumers, LookedUp
  <1>9. \A x \in Contexts : c.blits[x] # p
    BY <1>1, <1>2 DEF Targets, Consumers, LookedUp
  <1>11. p \notin c.byProcess
    BY <1>1 DEF LookedUp
  <1>. QED  BY <1>3, <1>4, <1>5, <1>6, <1>7, <1>8, <1>9, <1>11 DEF Unlinked

\* Nothing finds a present under a key when nothing finds it.
LEMMA UnlinkedNamed == ASSUME NEW c, NEW p, Unlinked(c, p) PROVE Named(c, p)
  BY DEF Unlinked, Named

\* Neat says of a consumer what Left says.
LEMMA NeatLeft ==
    ASSUME NEW n \in Nat, NEW c, Neat(c, n)
    PROVE  Left(c, n)
  BY DEF Neat, Steady, Left

\* Forgetting keeps all of it.
LEMMA ForgetLeft ==
    ASSUME NEW n \in Nat, NEW c, Left(c, n)
    PROVE  /\ Left(Forget(c), n)
           /\ \A p \in 1..n : Forget(c).presents[p] \in {c.presents[p], Forgotten(c.presents[p])}
           /\ \A p : Rides(Forget(c), p) => Rides(c, p)
  <1>1. Good(c, n) /\ c \in Consumers(n) /\ Len(c.presents) = n
    BY PresentsLength DEF Left, Good
  <1>2. PICK R : R = Reachable(c)
    OBVIOUS
  <1>3. PICK ps : ps = [p \in 1..n |-> IF p \in R THEN c.presents[p] ELSE Forgotten(c.presents[p])]
    OBVIOUS
  <1>4. PICK d : d = Forget(c)
    OBVIOUS
  <1>5. d = [c EXCEPT !.presents = ps]
    <2>1. DOMAIN c.presents = 1..n
      BY <1>1 DEF Consumers
    <2>. QED  BY <1>2, <1>3, <1>4, <2>1 DEF Forget
  <1>6. /\ d.presents = ps /\ SameLinks(c, d) /\ SameRest(c, d)
        /\ d.delivered = c.delivered /\ d.bySwapChain = c.bySwapChain
    <2>1. d.presents = ps /\ SameRest(c, d) /\ d.delivered = c.delivered
          /\ d.bySwapChain = c.bySwapChain
      BY <1>1, <1>5 DEF Consumers, SameRest
    <2>2. SameLinks(c, d)
      BY <1>1, <1>5 DEF Consumers, SameLinks
    <2>. QED  BY <2>1, <2>2
  <1>7. \A p \in 1..n : d.presents[p] = IF p \in R THEN c.presents[p] ELSE Forgotten(c.presents[p])
    BY <1>3, <1>6
  <1>8. Good(d, n)
    BY <1>1, <1>4, ForgetGood
  <1>9. \A p \in 1..n : /\ c.presents[p] \in Presents(n)
                        /\ Forgotten(c.presents[p]).process = c.presents[p].process
                        /\ Forgotten(c.presents[p]).swap = c.presents[p].swap
    BY <1>1, PresentTyped, ForgottenTyped
  <1>10. \A p \in 1..n : /\ d.presents[p].final = c.presents[p].final
                         /\ Key(d, p) = Key(c, p)
    BY <1>7, <1>9, ForgottenFields DEF Key
  <1>11. SameQueues(c, d, n)
    BY <1>6, <1>10 DEF SameQueues
  <1>12. \A p \in 1..n : (Waits(d, p) <=> Waits(c, p)) /\ (Out(d, p) <=> Out(c, p))
    BY <1>11, SameWaits
  <1>13. \A p \in 1..n : p \notin R => Unlinked(c, p) /\ ~Waits(c, p)
    <2>. SUFFICES ASSUME NEW p \in 1..n, p \notin R PROVE Unlinked(c, p) /\ ~Waits(c, p)
      OBVIOUS
    <2>1. Unlinked(c, p) /\ \A s \in Slots : c.ring[s] # p
      BY <1>1, <1>2, FoundIsReachable
    <2>2. c.presents[p].slot \in Slots
      BY <1>9 DEF Presents, Records
    <2>3. Ringed(c, n)
      BY DEF Left
    <2>. QED  BY <2>1, <2>2, <2>3 DEF Ringed
  <1>14. \A p \in 1..n : Waits(c, p) => d.presents[p] = c.presents[p]
    BY <1>7, <1>13
  <1>15. Placed(d, n)
    BY <1>6, <1>12 DEF Left, Placed, SameRest
  <1>16. Ringed(d, n)
    <2>1. Ringed(c, n) /\ d.ring = c.ring /\ \A s \in Slots : c.ring[s] \in 0..n
      BY <1>1, <1>6 DEF Left, SameRest, Consumers
    <2>2. \A q \in 0..n : q # NoPresent => q \in 1..n
      BY DEF NoPresent
    <2>. QED  BY <1>12, <1>14, <2>1, <2>2 DEF Ringed
  <1>17. Linked(d, n)
    <2>. SUFFICES ASSUME NEW q \in 1..n PROVE Named(d, q) /\ (Unlinked(d, q) \/ Open(d, q))
      BY DEF Linked
    <2>1. Named(c, q) /\ (Unlinked(c, q) \/ Open(c, q))
      BY DEF Left, Linked
    <2>2. Unlinked(d, q) <=> Unlinked(c, q)
      BY <1>6, SameNamed
    <2>3. CASE q \in R
      <3>1. d.presents[q] = c.presents[q]
        BY <1>7, <2>3
      <3>. QED  BY <1>6, <1>12, <2>1, <2>2, <3>1, SameNamed DEF Open
    <2>4. CASE q \notin R
      BY <1>13, <2>2, <2>4, UnlinkedNamed
    <2>. QED  BY <2>3, <2>4
  <1>18. AllStaged(d, n)
    BY <1>7, <1>9, ForgottenFields DEF Left, AllStaged
  <1>19. Asserted(d)
    BY <1>6 DEF Left, Asserted, SameRest
  <1>20. Told(d, n)
    BY <1>12, <1>14 DEF Left, Told
  <1>21. ASSUME NEW p, Rides(d, p) PROVE Rides(c, p)
    <2>1. /\ d.waiting = c.waiting /\ d.window = c.window
          /\ DOMAIN c.presents = 1..n /\ DOMAIN d.presents = 1..n
      BY <1>1, <1>3, <1>5, <1>6 DEF Consumers, SameLinks
    <2>2. ASSUME NEW q \in 1..n, p \in ToSet(d.presents[q].deps)
          PROVE  p \in ToSet(c.presents[q].deps)
      <3>1. Forgotten(c.presents[q]).deps = <<>>
        BY <1>9, ForgottenFields
      <3>2. ToSet(<<>>) = {}
        BY DEF ToSet
      <3>. QED  BY <1>7, <2>2, <3>1, <3>2
    <2>. QED  BY <1>21, <2>1, <2>2 DEF Rides
  <1>. QED  BY <1>4, <1>7, <1>8, <1>15, <1>16, <1>17, <1>18, <1>19, <1>20, <1>21 DEF Left

\* What was published does not wait.
LEMMA OutOrLost ==
    ASSUME NEW n \in Nat, NEW c, Good(c, n), Placed(c, n), NEW p \in ToSet(c.delivered) \cup c.lost
    PROVE  p \in 1..n /\ ~Waits(c, p)
  <1>1. CASE p \in c.lost
    BY <1>1 DEF Placed
  <1>2. CASE p \in ToSet(c.delivered)
    <2>1. c.delivered \in Seq(1..n)
      BY DEF Good, Consumers
    <2>2. PICK i \in DOMAIN c.delivered : c.delivered[i] = p
      BY <1>2 DEF ToSet
    <2>3. DOMAIN c.delivered = 1..Len(c.delivered)
      BY <2>1, LenProperties
    <2>4. p \in 1..n /\ Out(c, p)
      BY <2>1, <2>2, <2>3, ElementOfSeq DEF Out, Contains
    <2>. QED  BY <2>4, WaitsOrOut
  <1>. QED  BY <1>1, <1>2

\* What is left is what the next step begins with.
LEMMA LeftNeat ==
    ASSUME NEW n \in Nat, NEW d, Left(d, n), consumer' = d, trace' = trace
    PROVE  Neat(consumer, n)'
  <1>1. Good(consumer, n)'
    BY StillGood DEF Left
  <1>2. Placed(consumer, n)'
    BY DEF Left, Placed, Waits, Deque, Key, Out
  <1>3. Ringed(consumer, n)'
    BY DEF Left, Ringed, Waits, Deque, Key
  <1>5. Linked(consumer, n)'
    <2>1. \A p \in 1..n : Named(d, p) => Named(consumer, p)'
      BY DEF Named
    <2>2. \A p \in 1..n : Unlinked(d, p) => Unlinked(consumer, p)'
      BY DEF Unlinked
    <2>3. \A p \in 1..n : Open(d, p) => Open(consumer, p)'
      BY DEF Open, Waits, Deque, Key
    <2>4. \A p \in 1..n : Named(d, p) /\ (Unlinked(d, p) \/ Open(d, p))
      BY DEF Left, Linked
    <2>. QED  BY <2>1, <2>2, <2>3, <2>4 DEF Linked
  <1>6. AllStaged(consumer, n)'
    BY DEF Left, AllStaged, Staged
  <1>7. Asserted(consumer)'
    BY DEF Left, Asserted
  <1>8. Told(consumer, n)'
    BY DEF Left, Told, Waits, Deque, Key
  <1>9. Lasting(consumer, n)'
    <2>1. Published' = ToSet(d.delivered) \cup d.lost
      BY DEF Published, Delivered
    <2>2. ASSUME NEW p \in ToSet(d.delivered) \cup d.lost PROVE p \in 1..n /\ ~Waits(d, p)
      BY <2>2, OutOrLost DEF Left
    <2>3. \A p \in Published' : p \in 1..n /\ ~Waits(consumer, p)'
      BY <2>1, <2>2 DEF Waits, Deque, Key
    <2>4. \A p \in 1..n : Rides(consumer, p)' => Mine(p)'
      BY DEF Mine
    <2>. QED  BY <2>3, <2>4 DEF Lasting
  <1>. QED  BY <1>1, <1>2, <1>3, <1>5, <1>6, <1>7, <1>8, <1>9 DEF Neat, Steady

\* No present that was published and does not ride changes in the step, or comes to ride.
PublishedStay ==
  \A p \in Published : \/ Rides(consumer, p)
                       \/ /\ ~Rides(consumer', p)
                          /\ consumer'.presents[p] \in
                               {consumer.presents[p], Forgotten(consumer.presents[p])}

\* What a step does to the invariant.
Onward == NInv' /\ UNCHANGED trace /\ PublishedStay

\* That a handler does not return changes nothing else.
LEMMA HungLeft ==
    ASSUME NEW n \in Nat, NEW c, Left(c, n)
    PROVE  /\ Left([c EXCEPT !.hung = TRUE], n)
           /\ [c EXCEPT !.hung = TRUE].presents = c.presents
           /\ \A p : Rides([c EXCEPT !.hung = TRUE], p) <=> Rides(c, p)
  <1>1. PICK d : d = [c EXCEPT !.hung = TRUE]
    OBVIOUS
  <1>2. Good(c, n) /\ c \in Consumers(n)
    BY DEF Left, Good
  <1>3. Good(d, n)
    BY <1>1, <1>2, SetOther
  <1>4. /\ d.presents = c.presents /\ d.bySwapChain = c.bySwapChain /\ d.delivered = c.delivered
        /\ d.ring = c.ring /\ d.lost = c.lost /\ d.failed = c.failed
    BY <1>1, <1>2 DEF Consumers
  <1>5. SameLinks(c, d)
    BY <1>1, <1>2 DEF Consumers, SameLinks
  <1>6. \A p : /\ Waits(d, p) <=> Waits(c, p)
               /\ Out(d, p) <=> Out(c, p)
               /\ Key(d, p) = Key(c, p)
    BY <1>4 DEF Waits, Deque, Key, Out
  <1>7. Placed(d, n)
    BY <1>4, <1>6 DEF Left, Placed
  <1>8. Ringed(d, n)
    BY <1>4, <1>6 DEF Left, Ringed
  <1>9. Linked(d, n)
    <2>. SUFFICES ASSUME NEW q \in 1..n PROVE Named(d, q) /\ (Unlinked(d, q) \/ Open(d, q))
      BY DEF Linked
    <2>1. Named(c, q) /\ (Unlinked(c, q) \/ Open(c, q))
      BY DEF Left, Linked
    <2>2. (Unlinked(d, q) <=> Unlinked(c, q)) /\ (Named(d, q) <=> Named(c, q))
      BY <1>4, <1>5, SameNamed
    <2>. QED  BY <1>4, <1>6, <2>1, <2>2 DEF Open
  <1>10. AllStaged(d, n) /\ Asserted(d)
    BY <1>4 DEF Left, AllStaged, Asserted
  <1>11. Told(d, n)
    BY <1>4, <1>6 DEF Left, Told
  <1>12. \A p : Rides(d, p) <=> Rides(c, p)
    <2>1. d.waiting = c.waiting /\ d.window = c.window
      BY <1>1, <1>2 DEF Consumers
    <2>. QED  BY <1>4, <2>1, SameRides
  <1>. QED  BY <1>1, <1>3, <1>4, <1>7, <1>8, <1>9, <1>10, <1>11, <1>12 DEF Left

\* A handler that hangs or leaves the invariant behind keeps it.
LEMMA BecomesNeat ==
    ASSUME NInv, NEW c, Becomes(c), NEW n \in Nat, c.hung \/ Neat(c, n)
    PROVE  Onward
  <1>1. trace' = trace /\ trace \in Traces /\ OwnThreads(trace)
    BY DEF Becomes, NInv
  <1>2. ASSUME NEW m \in Nat, NEW d, Left(d, m), consumer' = d PROVE NInv'
    <2>1. Neat(consumer, m)'
      BY <1>1, <1>2, LeftNeat
    <2>. QED  BY <1>1, <2>1 DEF NInv, OwnThreads
  <1>3. CASE c.hung
    <2>1. PICK m \in Nat : Neat(consumer, m)
      BY DEF NInv
    <2>2. PICK d : d = [consumer EXCEPT !.hung = TRUE]
      OBVIOUS
    <2>3. /\ Left(d, m) /\ d.presents = consumer.presents
          /\ \A p : Rides(d, p) <=> Rides(consumer, p)
      BY <2>1, <2>2, NeatLeft, HungLeft
    <2>4. consumer' = d
      BY <1>3, <2>2 DEF Becomes
    <2>5. NInv'
      BY <1>2, <2>3, <2>4
    <2>6. PublishedStay
      BY <2>3, <2>4 DEF PublishedStay
    <2>. QED  BY <1>1, <2>5, <2>6 DEF Onward
  <1>4. CASE ~c.hung
    <2>1. Neat(c, n)
      BY <1>4
    <2>2. PICK d : d = Forget(c)
      OBVIOUS
    <2>3. /\ Left(d, n)
          /\ \A p \in 1..n : d.presents[p] \in {c.presents[p], Forgotten(c.presents[p])}
          /\ \A p : Rides(d, p) => Rides(c, p)
      BY <2>1, <2>2, NeatLeft, ForgetLeft
    <2>4. consumer' = d
      BY <1>4, <2>2 DEF Becomes
    <2>5. NInv'
      BY <1>2, <2>3, <2>4
    <2>6. PublishedStay
      <3>. SUFFICES ASSUME NEW p \in Published, ~Rides(consumer, p)
                    PROVE  /\ ~Rides(d, p)
                           /\ d.presents[p] \in {consumer.presents[p],
                                                Forgotten(consumer.presents[p])}
        BY <2>4 DEF PublishedStay
      <3>1. p \in 1..n /\ c.presents[p] = consumer.presents[p] /\ ~Rides(c, p)
        BY <2>1 DEF Neat, Steady, Lasting, Mine
      <3>. QED  BY <2>3, <3>1
    <2>. QED  BY <1>1, <2>5, <2>6 DEF Onward
  <1>. QED  BY <1>3, <1>4

\* A consumer that nothing happened to keeps it.
LEMMA InitNeat == ASSUME Init, OwnThreads(trace) PROVE NInv
  <1>1. consumer = NewConsumer /\ trace \in Traces
    BY DEF Init
  <1>2. Good(consumer, 0)
    BY <1>1, NewConsumerGood
  <1>3. 1..0 = {}
    OBVIOUS
  <1>4. /\ consumer.lost = {} /\ consumer.failed = {} /\ consumer.delivered = <<>>
        /\ consumer.dwmThread = None /\ consumer.ring = EmptyMap(0..RingSize - 1)
    BY <1>1 DEF NewConsumer
  <1>5. Placed(consumer, 0) /\ Asserted(consumer)
    BY <1>3, <1>4 DEF Placed, Asserted
  <1>6. Ringed(consumer, 0)
    <2>1. \A s \in Slots : consumer.ring[s] = NoPresent
      BY <1>4 DEF EmptyMap, Slots
    <2>. QED  BY <1>3, <2>1 DEF Ringed
  <1>7. Linked(consumer, 0) /\ AllStaged(consumer, 0) /\ Told(consumer, 0)
    BY <1>3 DEF Linked, AllStaged, Told
  <1>8. Lasting(consumer, 0)
    <2>1. ToSet(consumer.delivered) = {}
      <3>1. DOMAIN <<>> = {}
        OBVIOUS
      <3>. QED  BY <1>4, <3>1 DEF ToSet
    <2>2. Published = {}
      BY <1>4, <2>1 DEF Published, Delivered
    <2>. QED  BY <1>3, <1>4, <2>2 DEF Lasting
  <1>9. Neat(consumer, 0)
    BY <1>2, <1>5, <1>6, <1>7, <1>8 DEF Neat, Steady
  <1>. QED  BY <1>1, <1>9 DEF NInv

\* What a collection finds is open, and has its key.
LEMMA FoundOpen ==
    ASSUME NEW n \in Nat, NEW c, Neat(c, n), NEW p
    PROVE  /\ \A t \in Threads : p = c.byThread[t] /\ p # NoPresent =>
                p \in 1..n /\ Open(c, p) /\ c.presents[p].thread = t
           /\ \A s \in SubmitSeqs : p = c.bySubmit[s] /\ p # NoPresent =>
                p \in 1..n /\ Open(c, p) /\ c.presents[p].submit = s
           /\ \A k \in Tokens :
                /\ p = c.win32k[k] /\ p # NoPresent =>
                     /\ p \in 1..n /\ Open(c, p)
                     /\ c.presents[p].win32k = k /\ c.presents[p].seenWin32K
                /\ p = c.dxgk[k] /\ p # NoPresent =>
                     p \in 1..n /\ Open(c, p) /\ c.presents[p].token = k
                /\ p = c.legacyBlit[k] /\ p # NoPresent =>
                     p \in 1..n /\ Open(c, p) /\ c.presents[p].blitToken = k
           /\ \A x \in Contexts : p = c.blits[x] /\ p # NoPresent =>
                p \in 1..n /\ Open(c, p) /\ c.presents[p].context = x
           /\ \A h \in Hwnds : p = c.window[h] /\ p # NoPresent => p \in 1..n /\ Mine(p)
  <1>1. Good(c, n) /\ Linked(c, n)
    BY DEF Neat, Steady
  <1>2. \A t \in Threads : p = c.byThread[t] /\ p # NoPresent =>
          p \in 1..n /\ Open(c, p) /\ c.presents[p].thread = t
    <2>. SUFFICES ASSUME NEW t \in Threads, p = c.byThread[t], p # NoPresent
                  PROVE  p \in 1..n /\ Open(c, p) /\ c.presents[p].thread = t
      OBVIOUS
    <2>1. p \in 1..n
      BY <1>1, PresentFound
    <2>. QED  BY <1>1, <2>1 DEF Linked, Unlinked, Named
  <1>3. \A s \in SubmitSeqs : p = c.bySubmit[s] /\ p # NoPresent =>
          p \in 1..n /\ Open(c, p) /\ c.presents[p].submit = s
    <2>. SUFFICES ASSUME NEW s \in SubmitSeqs, p = c.bySubmit[s], p # NoPresent
                  PROVE  p \in 1..n /\ Open(c, p) /\ c.presents[p].submit = s
      OBVIOUS
    <2>1. p \in 1..n
      BY <1>1, PresentFound
    <2>. QED  BY <1>1, <2>1 DEF Linked, Unlinked, Named
  <1>4. \A k \in Tokens :
          /\ p = c.win32k[k] /\ p # NoPresent =>
               p \in 1..n /\ Open(c, p) /\ c.presents[p].win32k = k /\ c.presents[p].seenWin32K
          /\ p = c.dxgk[k] /\ p # NoPresent =>
               p \in 1..n /\ Open(c, p) /\ c.presents[p].token = k
          /\ p = c.legacyBlit[k] /\ p # NoPresent =>
               p \in 1..n /\ Open(c, p) /\ c.presents[p].blitToken = k
    <2>. SUFFICES ASSUME NEW k \in Tokens, p # NoPresent,
                         p = c.win32k[k] \/ p = c.dxgk[k] \/ p = c.legacyBlit[k]
                  PROVE  /\ p \in 1..n /\ Open(c, p)
                         /\ p = c.win32k[k] => c.presents[p].win32k = k /\ c.presents[p].seenWin32K
                         /\ p = c.dxgk[k] => c.presents[p].token = k
                         /\ p = c.legacyBlit[k] => c.presents[p].blitToken = k
      OBVIOUS
    <2>1. p \in 1..n
      BY <1>1, PresentFound
    <2>2. Named(c, p) /\ (Unlinked(c, p) \/ Open(c, p))
      BY <1>1, <2>1 DEF Linked
    <2>3. Open(c, p)
      BY <2>2 DEF Unlinked
    <2>. QED  BY <2>1, <2>2, <2>3 DEF Named
  <1>5. \A x \in Contexts : p = c.blits[x] /\ p # NoPresent =>
          p \in 1..n /\ Open(c, p) /\ c.presents[p].context = x
    <2>. SUFFICES ASSUME NEW x \in Contexts, p = c.blits[x], p # NoPresent
                  PROVE  p \in 1..n /\ Open(c, p) /\ c.presents[p].context = x
      OBVIOUS
    <2>1. p \in 1..n
      BY <1>1, PresentFound
    <2>. QED  BY <1>1, <2>1 DEF Linked, Unlinked, Named
  <1>6. \A h \in Hwnds : p = c.window[h] /\ p # NoPresent => p \in 1..n /\ Mine(p)
    <2>. SUFFICES ASSUME NEW h \in Hwnds, p = c.window[h], p # NoPresent
                  PROVE  p \in 1..n /\ Mine(p)
      OBVIOUS
    <2>1. p \in 1..n
      BY <1>1, PresentFound
    <2>2. Rides(c, p)
      BY DEF Rides
    <2>. QED  BY <2>1, <2>2 DEF Neat, Steady, Lasting
  <1>. QED  BY <1>2, <1>3, <1>4, <1>5, <1>6

-----------------------------------------------------------------------------
(* The handlers, one by one.                                               *)

\* What the invariant says of one present.
LEMMA PresentFacts ==
    ASSUME NEW n \in Nat, NEW c, Neat(c, n), NEW p \in 1..n
    PROVE  /\ c.presents[p] \in Presents(n) /\ c.presents[p] \in Records(n)
           /\ Staged(c.presents[p]) /\ Good(c, n) /\ c \in Consumers(n)
           /\ Waits(c, p) /\ c.presents[p].completed => c.presents[p].final # "Presented"
  <1>1. Good(c, n) /\ c \in Consumers(n)
    BY DEF Neat, Steady, Good
  <1>2. c.presents[p] \in Presents(n) /\ c.presents[p] \in Records(n)
    BY <1>1, PresentTyped, PresentIsRecord
  <1>. QED  BY <1>1, <1>2 DEF Neat, Steady, AllStaged, Told

\* What rides with DWM may be changed: it was not published, or rode before the step.
LEMMA RidersMine ==
    ASSUME NEW n \in Nat, NEW c, Neat(c, n)
    PROVE  /\ \A q \in ToSet(c.waiting) : Mine(q)
           /\ \A p \in 1..n : \A q \in ToSet(c.presents[p].deps) : Mine(q)
  <1>1. /\ c.waiting \in Seq(1..n) /\ DOMAIN c.presents = 1..n
        /\ \A q \in 1..n : Rides(c, q) => Mine(q)
    BY DEF Neat, Steady, Good, Consumers, Lasting
  <1>2. \A s \in Seq(1..n) : ToSet(s) \subseteq 1..n
    BY ElementOfSeq, LenProperties DEF ToSet
  <1>3. \A p \in 1..n : c.presents[p].deps \in Seq(1..n)
    BY PresentFacts DEF Records
  <1>. QED  BY <1>1, <1>2, <1>3 DEF Rides

\* A key may find no present any more.
LEMMA UnlinkNeat ==
    ASSUME NEW n \in Nat, NEW c, Neat(c, n)
    PROVE  /\ \A k \in Threads : Relinks(c, [c EXCEPT !.byThread[k] = NoPresent], n)
           /\ \A k \in Tokens : /\ Relinks(c, [c EXCEPT !.win32k[k] = NoPresent], n)
                               /\ Relinks(c, [c EXCEPT !.dxgk[k] = NoPresent], n)
                               /\ Relinks(c, [c EXCEPT !.legacyBlit[k] = NoPresent], n)
           /\ \A k \in Contexts : Relinks(c, [c EXCEPT !.blits[k] = NoPresent], n)
           /\ \A k \in Hwnds : Relinks(c, [c EXCEPT !.window[k] = NoPresent], n)
  <1>1. PICK v \in 0..n : v = NoPresent
    BY DEF NoPresent
  <1>2. /\ \A k \in Threads : Relinks(c, [c EXCEPT !.byThread[k] = v], n)
        /\ \A k \in Tokens : Relinks(c, [c EXCEPT !.win32k[k] = v], n)
        /\ \A k \in Tokens : Relinks(c, [c EXCEPT !.dxgk[k] = v], n)
        /\ \A k \in Tokens : Relinks(c, [c EXCEPT !.legacyBlit[k] = v], n)
        /\ \A k \in Contexts : Relinks(c, [c EXCEPT !.blits[k] = v], n)
        /\ \A k \in Hwnds : Relinks(c, [c EXCEPT !.window[k] = v], n)
    BY <1>1, LinkNeat
  <1>. QED  BY <1>1, <1>2

\* An edited present that was open is.
LEMMA EditsOpen ==
    ASSUME NEW n \in Nat, NEW c, NEW d, NEW p \in 1..n, NEW f, Edits(c, d, n, p, f), Open(c, p)
    PROVE  Neat(d, n) /\ Open(d, p) /\ Waits(d, p) /\ d.presents[p] = f
  BY DEF Edits, Open

\* The present is said to be displayed, with or without its time.
Shows(c, d, n, p) ==
  /\ Neat(d, n) /\ Open(d, p)
  /\ d.presents[p].mode = c.presents[p].mode /\ d.presents[p].seenDxgk = c.presents[p].seenDxgk

\* An open present may be said to be displayed when its time is known.
LEMMA ShowsNeat ==
    ASSUME NEW n \in Nat, NEW c, Neat(c, n), NEW p \in 1..n, Open(c, p),
           NEW b \in BOOLEAN, b \/ ~TimesAreTold
    PROVE  /\ Shows(c, [c EXCEPT !.presents[p].screen = b,
                                 !.presents[p].final = "Presented"], n, p)
           /\ Shows(c, [c EXCEPT !.presents[p].final = "Presented",
                                 !.presents[p].screen = b], n, p)
  <1>1. PICK e : e = c.presents[p]
    OBVIOUS
  <1>2. /\ e \in Records(n) /\ c \in Consumers(n) /\ ~e.completed /\ Waits(c, p)
    BY <1>1, PresentFacts DEF Open
  <1>3. PICK x : x = [c EXCEPT !.presents[p].screen = b]
    OBVIOUS
  <1>4. PICK f : f = [e EXCEPT !.screen = b]
    OBVIOUS
  <1>5. Edits(c, x, n, p, f)
    <2>1. Edits(c, [c EXCEPT !.presents[p].screen = b], n, p, [e EXCEPT !.screen = b])
      BY <1>1, <1>2, SetNeat
    <2>. QED  BY <1>3, <1>4, <2>1
  <1>6. /\ Neat(x, n) /\ Open(x, p) /\ x.presents[p] = f /\ Waits(x, p)
    BY <1>5 DEF Edits, Open
  <1>7. f \in Records(n) /\ f.screen = b /\ f.mode = e.mode /\ f.seenDxgk = e.seenDxgk
    BY <1>2, <1>4 DEF Records
  <1>8. PICK v \in Results : v = "Presented"
    BY DEF Results
  <1>9. PICK y : y = [x EXCEPT !.presents[p].final = v]
    OBVIOUS
  <1>10. PICK g : g = [f EXCEPT !.final = v]
    OBVIOUS
  <1>11. Edits(x, y, n, p, g)
    <2>1. ~f.completed
      BY <1>6 DEF Open
    <2>2. Edits(x, [x EXCEPT !.presents[p].final = v], n, p, [f EXCEPT !.final = v])
      BY <1>6, <1>7, <2>1, SetNeat
    <2>. QED  BY <1>9, <1>10, <2>2
  <1>12. g.mode = e.mode /\ g.seenDxgk = e.seenDxgk
    BY <1>7, <1>10 DEF Records
  <1>13. Shows(c, y, n, p)
    BY <1>1, <1>6, <1>11, <1>12 DEF Edits, Shows
  <1>14. y = [c EXCEPT !.presents[p].screen = b, !.presents[p].final = "Presented"]
    BY <1>3, <1>8, <1>9
  <1>15. [e EXCEPT !.final = "Presented", !.screen = b]
          = [e EXCEPT !.screen = b, !.final = "Presented"]
    BY <1>2 DEF Records
  <1>16. [c EXCEPT !.presents[p].screen = b, !.presents[p].final = "Presented"]
          = [c EXCEPT !.presents[p] = [e EXCEPT !.screen = b, !.final = "Presented"]]
    BY <1>1, <1>2 DEF Consumers
  <1>17. [c EXCEPT !.presents[p].final = "Presented", !.presents[p].screen = b]
           = [c EXCEPT !.presents[p] = [e EXCEPT !.final = "Presented", !.screen = b]]
    BY <1>1, <1>2 DEF Consumers
  <1>. QED  BY <1>13, <1>14, <1>15, <1>16, <1>17

\* The runtime's Present starts a present.
LEMMA PresentStartNeat ==
    ASSUME NInv, NEW t \in Threads, PresentStart(t)
    PROVE  Onward
  <1>1. PICK n \in Nat : Neat(consumer, n)
    BY DEF NInv
  <1>2. PICK runtime \in trace.runtimes, swap \in SwapChains, doNotSequence \in BOOLEAN :
          Becomes(TrackOnThread(consumer, NewPresent(t, runtime, swap, doNotSequence)))
    BY DEF PresentStart
  <1>3. runtime \in Runtimes
    BY <1>2, ConsumerAssumption DEF NInv
  <1>4. PICK e : e = NewPresent(t, runtime, swap, doNotSequence)
    OBVIOUS
  <1>5. e \in Presents(n) /\ Newborn(e)
    <2>1. e \in Presents(n)
      BY <1>3, <1>4, NewPresentTyped
    <2>2. Newborn(e)
      <3>1. trace.feeds[t] \cap Creators # {}
        BY DEF PresentStart, Creators
      <3>. QED  BY <1>4, <3>1, NewPresentIsNewborn
    <2>. QED  BY <2>1, <2>2
  <1>6. Neat(TrackOnThread(consumer, e), n + 1)
    BY <1>1, <1>5, TrackOnThreadNeat
  <1>7. n + 1 \in Nat
    OBVIOUS
  <1>. QED  BY <1>2, <1>4, <1>6, <1>7, BecomesNeat

\* DXGI_PRESENT_TEST detaches the thread.
LEMMA PresentTestNeat ==
    ASSUME NInv, NEW t \in Threads, PresentTest(t)
    PROVE  Onward
  <1>1. PICK n \in Nat : Neat(consumer, n)
    BY DEF NInv
  <1>2. PICK d : d = [consumer EXCEPT !.byThread[t] = NoPresent]
    OBVIOUS
  <1>3. Neat(d, n)
    <2>1. Relinks(consumer, [consumer EXCEPT !.byThread[t] = NoPresent], n)
      BY <1>1, UnlinkNeat
    <2>. QED  BY <1>2, <2>1 DEF Relinks
  <1>. QED  BY <1>2, <1>3, BecomesNeat DEF PresentTest

\* RuntimePresentStop completes a present or lets go of it.
LEMMA PresentStopNeat ==
    ASSUME NInv, NEW t \in Threads, PresentStop(t)
    PROVE  Onward
  <1>1. PICK n \in Nat : Neat(consumer, n)
    BY DEF NInv
  <1>2. PICK allowBatching \in BOOLEAN, runtime \in trace.runtimes :
          RuntimePresentStop(t, allowBatching, runtime)
    BY DEF PresentStop
  <1>3. runtime \in Runtimes
    BY <1>2, ConsumerAssumption DEF NInv
  <1>. DEFINE p == consumer.byThread[t]
              c1 == Assert_(consumer, 1577, consumer.presents[p].runtime \in {"Other", runtime})
              c2 == [c1 EXCEPT !.presents[p].runtime = runtime]
              c3 == [c2 EXCEPT !.presents[p].final =
                                 IF allowBatching THEN "Presented" ELSE "Discarded"]
              c4 == [c2 EXCEPT !.byThread[t] = NoPresent]
  <1>4. p # NoPresent /\ Becomes(IF ~allowBatching \/ trace.simpleMode THEN Complete(c3, p) ELSE c4)
    BY <1>2 DEF RuntimePresentStop
  <1>5. p = consumer.byThread[t]
    OBVIOUS
  <1>. HIDE DEF p, c1, c2, c3, c4
  <1>6. p \in 1..n /\ Open(consumer, p)
    BY <1>1, <1>4, <1>5, FoundOpen
  <1>. USE DEF c1
  <1>7. Neat(c1, n) /\ Open(c1, p)
    <2>1. Neat(c1, n)
      <3>1. 1577 \in Nat
        OBVIOUS
      <3>. QED  BY <1>1, <3>1, AssertNeat
    <2>2. c1.presents = consumer.presents /\ c1.bySwapChain = consumer.bySwapChain
      BY <1>1, <1>6, PresentFacts DEF Assert_, Consumers
    <2>. HIDE DEF c1
    <2>. QED  BY <1>6, <2>1, <2>2 DEF Open, Waits, Deque, Key
  <1>. HIDE DEF c1
  <1>. USE DEF c2
  <1>8. Neat(c2, n) /\ Open(c2, p) /\ Waits(c2, p)
    <2>1. PICK f : f = [c1.presents[p] EXCEPT !.runtime = runtime]
      OBVIOUS
    <2>2. Edits(c1, [c1 EXCEPT !.presents[p].runtime = runtime], n, p,
                [c1.presents[p] EXCEPT !.runtime = runtime])
      BY <1>3, <1>6, <1>7, SetNeat DEF Open
    <2>3. Edits(c1, c2, n, p, f)
      BY <2>1, <2>2
    <2>. QED  BY <1>6, <1>7, <2>3, EditsOpen
  <1>. HIDE DEF c2
  <1>. USE DEF c3
  <1>9. ASSUME ~allowBatching \/ trace.simpleMode PROVE Neat(c3, n) /\ Open(c3, p)
    <2>1. PICK e : e = c2.presents[p]
      OBVIOUS
    <2>2. ~e.completed /\ e \in Records(n)
      BY <1>6, <1>8, <2>1, PresentFacts DEF Open
    <2>3. PICK final \in Results : final = IF allowBatching THEN "Presented" ELSE "Discarded"
      BY DEF Results
    <2>4. final = "Presented" => trace.simpleMode /\ ~TimesAreTold
      BY <1>9, <2>3 DEF TimesAreTold
    <2>5. PICK d : d = [c2 EXCEPT !.presents[p].final = final]
      OBVIOUS
    <2>6. PICK f : f = [e EXCEPT !.final = final]
      OBVIOUS
    <2>7. Edits(c2, d, n, p, f)
      <3>1. Edits(c2, [c2 EXCEPT !.presents[p].final = final], n, p, [e EXCEPT !.final = final])
        BY <1>6, <1>8, <2>1, <2>2, <2>4, SetNeat
      <3>. QED  BY <2>5, <2>6, <3>1
    <2>8. Neat(d, n) /\ Open(d, p) /\ d.presents[p] = f
      BY <1>6, <1>8, <2>7, EditsOpen
    <2>9. c3 = d
      BY <2>3, <2>5
    <2>. QED  BY <2>8, <2>9
  <1>. HIDE DEF c3
  <1>. USE DEF c4
  <1>10. Neat(c4, n)
    <2>1. Relinks(c2, [c2 EXCEPT !.byThread[t] = NoPresent], n)
      BY <1>8, UnlinkNeat
    <2>. QED  BY <2>1 DEF Relinks
  <1>. HIDE DEF c4
  <1>11. CASE ~allowBatching \/ trace.simpleMode
    <2>1. Complete(c3, p).hung \/ Neat(Complete(c3, p), n)
      BY <1>6, <1>9, <1>11, CompleteNeat
    <2>. QED  BY <1>4, <1>11, <2>1, BecomesNeat
  <1>12. CASE ~(~allowBatching \/ trace.simpleMode)
    BY <1>4, <1>10, <1>12, BecomesNeat
  <1>. QED  BY <1>11, <1>12

\* Threads of events that look a present up.
LEMMA FeedsFind ==
    ASSUME NInv, NEW t \in Threads, NEW family \in Finders, Feeds(t, family)
    PROVE  LooksUp(t) /\ ~trace.simpleMode
  <1>1. trace.feeds[t] \cap Finders # {}
    BY DEF Feeds
  <1>2. trace.simpleMode => trace.feeds[t] \subseteq {"runtime", "test"}
    BY ConsumerAssumption DEF NInv
  <1>3. family \notin {"runtime", "test"}
    BY DEF Finders
  <1>. QED  BY <1>1, <1>2, <1>3 DEF LooksUp, NInv, Feeds

\* HandleDxgkBlt finds a present and says where it is shown.
LEMMA DxgkBltNeat ==
    ASSUME NInv, NEW t \in Threads, NEW hwnd \in Hwnds, NEW redirected \in BOOLEAN,
           Feeds(t, "blt"), DxgkBlt(t, hwnd, redirected)
    PROVE  Onward
  <1>1. LooksUp(t) /\ ~trace.simpleMode
    BY FeedsFind DEF Finders
  <1>2. PICK n0 \in Nat : Neat(consumer, n0)
    BY DEF NInv
  <1>3. PICK c, p : c = FindFresh(consumer, t, "Blt").c /\ p = FindFresh(consumer, t, "Blt").p
    OBVIOUS
  <1>4. PICK n \in Nat : /\ Neat(c, n) /\ p \in 0..n
                         /\ p # NoPresent => Open(c, p) /\ ~Stuck("Blt", c.presents[p])
    BY <1>1, <1>2, <1>3, FindFreshFinds DEF Finds
  <1>5. PICK mode \in Modes : mode = IF redirected THEN "Composed_Copy_CPU_GDI" ELSE "Legacy_Copy"
    BY DEF Modes
  <1>6. Becomes(IF p = NoPresent THEN c
                ELSE [[c EXCEPT !.presents[p].hwnd = hwnd] EXCEPT !.presents[p].mode = mode])
    BY <1>3, <1>5 DEF DxgkBlt
  <1>7. CASE p = NoPresent
    BY <1>4, <1>6, <1>7, BecomesNeat
  <1>8. CASE p # NoPresent
    <2>1. p \in 1..n /\ Open(c, p) /\ Waits(c, p)
      BY <1>4, <1>8 DEF NoPresent, Open
    <2>2. PICK e : e = c.presents[p]
      OBVIOUS
    <2>3. e \in Records(n) /\ Staged(e) /\ e.mode = "Unknown"
      BY <1>4, <1>8, <2>1, <2>2, PresentFacts DEF Stuck
    <2>4. PICK d, f : d = [c EXCEPT !.presents[p].hwnd = hwnd] /\ f = [e EXCEPT !.hwnd = hwnd]
      OBVIOUS
    <2>5. Edits(c, d, n, p, f)
      <3>1. Edits(c, [c EXCEPT !.presents[p].hwnd = hwnd], n, p, [e EXCEPT !.hwnd = hwnd])
        BY <1>4, <2>1, <2>2, <2>3, SetNeat
      <3>. QED  BY <2>4, <3>1
    <2>6. Neat(d, n) /\ d.presents[p] = f /\ Waits(d, p)
      BY <2>1, <2>5 DEF Edits
    <2>7. f.seenWin32K = e.seenWin32K
      BY <2>3, <2>4 DEF Records
    <2>8. mode # "Unknown" /\ (f.seenWin32K => mode # "Legacy_Copy")
          /\ (mode = "Legacy_Copy" => ~trace.simpleMode)
      BY <1>1, <1>5, <2>3, <2>7 DEF Staged
    <2>9. Edits(d, [d EXCEPT !.presents[p].mode = mode], n, p, [f EXCEPT !.mode = mode])
      BY <2>1, <2>6, <2>8, SetNeat
    <2>10. Neat([d EXCEPT !.presents[p].mode = mode], n)
      BY <2>9 DEF Edits
    <2>. QED  BY <1>6, <1>8, <2>4, <2>10, BecomesNeat
  <1>. QED  BY <1>7, <1>8

\* HandleDxgkBltCancel discards a present.
LEMMA DxgkBltCancelNeat ==
    ASSUME NInv, NEW t \in Threads, DxgkBltCancel(t)
    PROVE  Onward
  <1>1. PICK n \in Nat : Neat(consumer, n)
    BY DEF NInv
  <1>2. PICK p : p = consumer.byThread[t]
    OBVIOUS
  <1>3. PICK v \in Results : v = "Discarded"
    BY DEF Results
  <1>4. PICK d : d = [consumer EXCEPT !.presents[p].final = v]
    OBVIOUS
  <1>5. p # NoPresent /\ Becomes(Complete(d, p))
    BY <1>2, <1>3, <1>4 DEF DxgkBltCancel
  <1>6. p \in 1..n /\ Open(consumer, p) /\ Waits(consumer, p)
    BY <1>1, <1>2, <1>5, FoundOpen DEF Open
  <1>7. PICK e \in Records(n) : e = consumer.presents[p]
    BY <1>1, <1>6, PresentFacts
  <1>8. Edits(consumer, [consumer EXCEPT !.presents[p].final = v], n, p, [e EXCEPT !.final = v])
    BY <1>1, <1>3, <1>6, <1>7, SetNeat DEF Open
  <1>9. Neat(d, n) /\ Open(d, p)
    BY <1>4, <1>6, <1>8 DEF Edits
  <1>10. Complete(d, p).hung \/ Neat(Complete(d, p), n)
    BY <1>6, <1>9, CompleteNeat
  <1>. QED  BY <1>5, <1>10, BecomesNeat

\* The mode of an open present changes to another that is no blit, or stays.
Moded(c, d, n, p, v) ==
  /\ Neat(d, n) /\ Open(d, p) /\ Waits(d, p)
  /\ d.presents[p].mode = v /\ d.presents[p].seenDxgk = c.presents[p].seenDxgk
  /\ d.presents[p].screen = c.presents[p].screen
  /\ d.presents[p] = [c.presents[p] EXCEPT !.mode = v]

\* The kernel tells more of how an open present is shown.
LEMMA ModedNeat ==
    ASSUME NEW n \in Nat, NEW c, Neat(c, n), NEW p \in 1..n, Open(c, p), NEW v \in Modes,
           v = c.presents[p].mode \/ v \notin {"Unknown", "Legacy_Copy"}
    PROVE  Moded(c, [c EXCEPT !.presents[p].mode = v], n, p, v)
  <1>1. PICK e \in Records(n) : e = c.presents[p]
    BY PresentFacts
  <1>2. c \in Consumers(n) /\ Waits(c, p)
    BY PresentFacts DEF Open
  <1>3. PICK d : d = [c EXCEPT !.presents[p].mode = v]
    OBVIOUS
  <1>4. CASE v = e.mode
    <2>1. [e EXCEPT !.mode = v] = e
      BY <1>4 DEF Records
    <2>2. d = [c EXCEPT !.presents[p] = e]
      BY <1>1, <1>3, <2>1
    <2>3. [c EXCEPT !.presents[p] = e] = c
      BY <1>1, <1>2 DEF Consumers
    <2>4. d = c
      BY <2>2, <2>3
    <2>. QED  BY <1>1, <1>2, <1>3, <1>4, <2>1, <2>4 DEF Moded
  <1>5. CASE v \notin {"Unknown", "Legacy_Copy"}
    <2>1. PICK f : f = [e EXCEPT !.mode = v]
      OBVIOUS
    <2>2. Edits(c, [c EXCEPT !.presents[p].mode = v], n, p, [e EXCEPT !.mode = v])
      BY <1>1, <1>2, <1>5, SetNeat
    <2>3. Edits(c, d, n, p, f)
      BY <1>3, <2>1, <2>2
    <2>4. Neat(d, n) /\ Open(d, p) /\ Waits(d, p) /\ d.presents[p] = f
      BY <2>3, EditsOpen
    <2>5. f.mode = v /\ f.seenDxgk = e.seenDxgk /\ f.screen = e.screen
      BY <2>1 DEF Records
    <2>. QED  BY <1>1, <1>3, <2>1, <2>4, <2>5 DEF Moded
  <1>. QED  BY <1>1, <1>4, <1>5

\* A present that is said to be displayed may be completed or not.
LEMMA ShownNeat ==
    ASSUME NInv, NEW n \in Nat, NEW c, Neat(c, n), NEW p \in 1..n, NEW d, Shows(c, d, n, p),
           Becomes(d) \/ Becomes(Complete(d, p))
    PROVE  Onward
  <1>1. CASE Becomes(d)
    BY <1>1, BecomesNeat DEF Shows
  <1>2. CASE Becomes(Complete(d, p))
    <2>1. Complete(d, p).hung \/ Neat(Complete(d, p), n)
      BY CompleteNeat DEF Shows
    <2>. QED  BY <1>2, <2>1, BecomesNeat
  <1>. QED  BY <1>1, <1>2

\* HandleDxgkQueueComplete: the packet of a blit or of a flip is done.
LEMMA DxgkQueueCompleteNeat ==
    ASSUME NInv, NEW s \in SubmitSeqs, DxgkQueueComplete(s)
    PROVE  Onward
  <1>1. PICK n \in Nat : Neat(consumer, n)
    BY DEF NInv
  <1>2. PICK p, d : /\ p = consumer.bySubmit[s]
                    /\ d = [consumer EXCEPT !.presents[p].screen = TRUE,
                                            !.presents[p].final = "Presented"]
    OBVIOUS
  <1>3. PICK e : e = consumer.presents[p]
    OBVIOUS
  <1>4. p # NoPresent /\ Becomes(IF e.seenDxgk \/ e.mode # "Legacy_Copy" THEN Complete(d, p) ELSE d)
    BY <1>2, <1>3 DEF DxgkQueueComplete
  <1>5. p \in 1..n /\ Open(consumer, p)
    BY <1>1, <1>2, <1>4, FoundOpen
  <1>6. PICK b \in BOOLEAN : b = TRUE
    OBVIOUS
  <1>7. Shows(consumer, [consumer EXCEPT !.presents[p].screen = b,
                                         !.presents[p].final = "Presented"], n, p)
    BY <1>1, <1>5, <1>6, ShowsNeat
  <1>8. Shows(consumer, d, n, p)
    BY <1>2, <1>6, <1>7
  <1>9. CASE e.seenDxgk \/ e.mode # "Legacy_Copy"
    <2>1. Becomes(Complete(d, p))
      BY <1>4, <1>9
    <2>. QED  BY <1>1, <1>5, <1>8, <2>1, ShownNeat
  <1>10. CASE ~(e.seenDxgk \/ e.mode # "Legacy_Copy")
    BY <1>1, <1>4, <1>5, <1>8, <1>10, ShownNeat
  <1>. QED  BY <1>9, <1>10

\* HandleDxgkSyncDPC: the flip is on the screen.
LEMMA DxgkSyncDPCNeat ==
    ASSUME NInv, NEW s \in SubmitSeqs, DxgkSyncDPC(s)
    PROVE  Onward
  <1>1. PICK n \in Nat : Neat(consumer, n)
    BY DEF NInv
  <1>2. PICK p, d : /\ p = consumer.bySubmit[s]
                    /\ d = [consumer EXCEPT !.presents[p].screen = TRUE,
                                            !.presents[p].final = "Presented"]
    OBVIOUS
  <1>3. p # NoPresent /\ Becomes(IF d.presents[p].mode = "Legacy_Flip" THEN Complete(d, p) ELSE d)
    BY <1>2 DEF DxgkSyncDPC
  <1>4. p \in 1..n /\ Open(consumer, p)
    BY <1>1, <1>2, <1>3, FoundOpen
  <1>5. PICK b \in BOOLEAN : b = TRUE
    OBVIOUS
  <1>6. Shows(consumer, [consumer EXCEPT !.presents[p].screen = b,
                                         !.presents[p].final = "Presented"], n, p)
    BY <1>1, <1>4, <1>5, ShowsNeat
  <1>7. Shows(consumer, d, n, p)
    BY <1>2, <1>5, <1>6
  <1>8. CASE d.presents[p].mode = "Legacy_Flip"
    <2>1. Becomes(Complete(d, p))
      BY <1>3, <1>8
    <2>. QED  BY <1>1, <1>4, <1>7, <2>1, ShownNeat
  <1>9. CASE d.presents[p].mode # "Legacy_Flip"
    BY <1>1, <1>3, <1>4, <1>7, <1>9, ShownNeat
  <1>. QED  BY <1>8, <1>9

\* HandleDxgkMMIOFlip: an immediate flip is on the screen.
LEMMA DxgkMMIOFlipNeat ==
    ASSUME NInv, NEW s \in SubmitSeqs, NEW immediate \in BOOLEAN, DxgkMMIOFlip(s, immediate)
    PROVE  Onward
  <1>1. PICK n \in Nat : Neat(consumer, n)
    BY DEF NInv
  <1>2. PICK p, mode : /\ p = consumer.bySubmit[s]
                       /\ mode = IF consumer.presents[p].mode = "Composed_Flip"
                                 THEN "Independent_Flip" ELSE consumer.presents[p].mode
    OBVIOUS
  <1>3. PICK c : c = [consumer EXCEPT !.presents[p].mode = mode]
    OBVIOUS
  <1>4. PICK d : d = [c EXCEPT !.presents[p].final = "Presented", !.presents[p].screen = TRUE]
    OBVIOUS
  <1>5. p # NoPresent /\ Becomes(IF ~immediate THEN c
                                 ELSE IF d.presents[p].mode = "Legacy_Flip" THEN Complete(d, p)
                                 ELSE d)
    BY <1>2, <1>3, <1>4 DEF DxgkMMIOFlip
  <1>6. p \in 1..n /\ Open(consumer, p)
    BY <1>1, <1>2, <1>5, FoundOpen
  <1>7. /\ mode \in Modes
        /\ mode = consumer.presents[p].mode \/ mode \notin {"Unknown", "Legacy_Copy"}
    <2>1. consumer.presents[p] \in Records(n)
      BY <1>1, <1>6, PresentFacts
    <2>. QED  BY <1>2, <2>1 DEF Records, Modes
  <1>8. Moded(consumer, c, n, p, mode)
    BY <1>1, <1>3, <1>6, <1>7, ModedNeat
  <1>9. PICK b \in BOOLEAN : b = TRUE
    OBVIOUS
  <1>10. Shows(c, [c EXCEPT !.presents[p].final = "Presented", !.presents[p].screen = b], n, p)
    BY <1>6, <1>8, <1>9, ShowsNeat DEF Moded
  <1>11. Shows(c, d, n, p)
    BY <1>4, <1>9, <1>10
  <1>12. CASE ~immediate
    BY <1>5, <1>8, <1>12, BecomesNeat DEF Moded
  <1>13. CASE immediate /\ d.presents[p].mode = "Legacy_Flip"
    <2>1. Becomes(Complete(d, p))
      BY <1>5, <1>13
    <2>. QED  BY <1>6, <1>8, <1>11, <2>1, ShownNeat DEF Moded
  <1>14. CASE immediate /\ d.presents[p].mode # "Legacy_Flip"
    <2>1. Becomes(d)
      BY <1>5, <1>14
    <2>. QED  BY <2>1, <1>11, BecomesNeat DEF Shows
  <1>. QED  BY <1>12, <1>13, <1>14

\* HandleDxgkMMIOFlipMPO: a flip of an overlay is, when its status says so.
LEMMA DxgkMMIOFlipMPONeat ==
    ASSUME NInv, NEW s \in SubmitSeqs, NEW status \in trace.statuses, DxgkMMIOFlipMPO(s, status)
    PROVE  Onward
  <1>1. PICK n \in Nat : Neat(consumer, n)
    BY DEF NInv
  <1>2. PICK p, mode : /\ p = consumer.bySubmit[s]
                       /\ mode = IF consumer.presents[p].mode \in {"Independent_Flip",
                            "Composed_Flip"}
                                 THEN "Composed_Independent_Flip" ELSE consumer.presents[p].mode
    OBVIOUS
  <1>3. PICK c : c = [consumer EXCEPT !.presents[p].mode = mode]
    OBVIOUS
  <1>4. PICK b \in BOOLEAN : b = (c.presents[p].screen \/ status = "FlipWaitComplete")
    OBVIOUS
  <1>5. PICK d : d = [c EXCEPT !.presents[p].final = "Presented", !.presents[p].screen = b]
    OBVIOUS
  <1>6. p # NoPresent
    BY <1>2 DEF DxgkMMIOFlipMPO
  <1>7. p \in 1..n /\ Open(consumer, p)
    BY <1>1, <1>2, <1>6, FoundOpen
  <1>8. /\ mode \in Modes
        /\ mode = consumer.presents[p].mode \/ mode \notin {"Unknown", "Legacy_Copy"}
    <2>1. consumer.presents[p] \in Records(n)
      BY <1>1, <1>7, PresentFacts
    <2>. QED  BY <1>2, <2>1 DEF Records, Modes
  <1>9. Moded(consumer, c, n, p, mode)
    BY <1>1, <1>3, <1>7, <1>8, ModedNeat
  <1>10. d = [c EXCEPT !.presents[p].final = "Presented",
                       !.presents[p].screen = @ \/ status = "FlipWaitComplete"]
    <2>1. c.presents[p] \in Records(n) /\ c \in Consumers(n)
      BY <1>7, <1>9, PresentFacts DEF Moded
    <2>2. PICK f : f = [c EXCEPT !.presents[p].final = "Presented"]
      OBVIOUS
    <2>3. f.presents[p].screen = c.presents[p].screen
      BY <1>7, <2>1, <2>2 DEF Consumers, Records
    <2>. QED  BY <1>4, <1>5, <2>2, <2>3
  <1>11. Becomes(IF status \in {"none", "FlipWaitVSync", "FlipWaitHSync"} THEN c
                 ELSE IF d.presents[p].mode = "Legacy_Flip" THEN Complete(d, p) ELSE d)
    BY <1>2, <1>3, <1>10 DEF DxgkMMIOFlipMPO
  <1>12. CASE status \in {"none", "FlipWaitVSync", "FlipWaitHSync"}
    BY <1>9, <1>11, <1>12, BecomesNeat DEF Moded
  <1>13. CASE status \notin {"none", "FlipWaitVSync", "FlipWaitHSync"}
    <2>1. trace.statuses \subseteq FlipStatuses
      BY ConsumerAssumption DEF NInv
    <2>2. b \/ ~TimesAreTold
      BY <1>4, <1>13, <2>1 DEF FlipStatuses, TimesAreTold
    <2>3. Shows(c, [c EXCEPT !.presents[p].final = "Presented", !.presents[p].screen = b], n, p)
      BY <1>7, <1>9, <2>2, ShowsNeat DEF Moded
    <2>4. Shows(c, d, n, p)
      BY <1>5, <2>3
    <2>5. CASE d.presents[p].mode = "Legacy_Flip"
      <3>1. Becomes(Complete(d, p))
        BY <1>11, <1>13, <2>5
      <3>. QED  BY <1>7, <1>9, <2>4, <3>1, ShownNeat DEF Moded
    <2>6. CASE d.presents[p].mode # "Legacy_Flip"
      <3>1. Becomes(d)
        BY <1>11, <1>13, <2>6
      <3>. QED  BY <3>1, <2>4, BecomesNeat DEF Shows
    <2>. QED  BY <2>5, <2>6
  <1>. QED  BY <1>12, <1>13

\* The first half of HandleDxgkQueueSubmit, where no event tells that a present returned.
LEMMA SettleBltNeat ==
    ASSUME NEW n \in Nat, NEW c, Neat(c, n), NEW x \in Contexts
    PROVE  SettleBlt(c, x).hung \/ Neat(SettleBlt(c, x), n)
  <1>1. PICK p : p = c.blits[x]
    OBVIOUS
  <1>2. PICK d : d = IF c.presents[p].mode = "Legacy_Copy"
                     THEN [c EXCEPT !.presents[p].seenDxgk = TRUE] ELSE c
    OBVIOUS
  <1>3. CASE trace.supportsDxgkPresentEvent \/ p = NoPresent
    BY <1>1, <1>3 DEF SettleBlt
  <1>4. CASE ~(trace.supportsDxgkPresentEvent \/ p = NoPresent)
    <2>1. p \in 1..n /\ Open(c, p)
      BY <1>1, <1>4, FoundOpen
    <2>2. Neat(d, n) /\ Open(d, p)
      <3>1. CASE c.presents[p].mode # "Legacy_Copy"
        BY <1>2, <2>1, <3>1
      <3>2. CASE c.presents[p].mode = "Legacy_Copy"
        <4>1. PICK v \in BOOLEAN : v = TRUE
          OBVIOUS
        <4>2. PICK f : f = [c.presents[p] EXCEPT !.seenDxgk = v]
          OBVIOUS
        <4>3. Edits(c, [c EXCEPT !.presents[p].seenDxgk = v], n, p,
                    [c.presents[p] EXCEPT !.seenDxgk = v])
          BY <2>1, SetNeat DEF Open
        <4>4. Edits(c, d, n, p, f)
          BY <1>2, <3>2, <4>1, <4>2, <4>3
        <4>. QED  BY <2>1, <4>4, EditsOpen
      <3>. QED  BY <3>1, <3>2
    <2>3. Complete(d, p).hung \/ Neat(Complete(d, p), n)
      BY <2>1, <2>2, CompleteNeat
    <2>4. Neat([d EXCEPT !.blits[x] = NoPresent], n)
      <3>1. Relinks(d, [d EXCEPT !.blits[x] = NoPresent], n)
        BY <2>2, UnlinkNeat
      <3>. QED  BY <3>1 DEF Relinks
    <2>5. SettleBlt(c, x) \in {Complete(d, p), [d EXCEPT !.blits[x] = NoPresent]}
      BY <1>1, <1>2, <1>4 DEF SettleBlt
    <2>. QED  BY <2>3, <2>4, <2>5
  <1>. QED  BY <1>3, <1>4

\* HandleDxgkQueueSubmit files a present under its packet.
LEMMA DxgkQueueSubmitNeat ==
    ASSUME NInv, NEW t \in Threads, NEW s \in SubmitSeqs, NEW x \in Contexts,
           NEW present \in BOOLEAN, DxgkQueueSubmit(t, s, x, present)
    PROVE  Onward
  <1>1. PICK n \in Nat : Neat(consumer, n)
    BY DEF NInv
  <1>2. PICK c, p : c = SettleBlt(consumer, x) /\ p = c.byThread[t]
    OBVIOUS
  <1>3. (c.hung \/ Neat(c, n)) /\ Good(c, n) /\ c \in Consumers(n)
    <2>1. Good(consumer, n)
      BY <1>1 DEF Neat, Steady
    <2>. QED  BY <1>1, <1>2, <2>1, SettleBltNeat, SettleBltGood DEF Good
  <1>4. PICK d : d = [c EXCEPT !.presents[p].submit = s]
    OBVIOUS
  <1>5. PICK q : q = IF d.bySubmit[s] = NoPresent THEN p ELSE d.bySubmit[s]
    OBVIOUS
  <1>6. PICK e : e = [d EXCEPT !.bySubmit[s] = q]
    OBVIOUS
  <1>7. PICK f : f = [e EXCEPT !.blits[x] = p]
    OBVIOUS
  <1>8. PICK g : g = [f EXCEPT !.presents[p].context = x]
    OBVIOUS
  <1>9. \/ Becomes(c)
        \/ p # NoPresent /\ c.presents[p].submit = None /\ (Becomes(g) \/ Becomes(e))
    <2>1. d.bySubmit = c.bySubmit
      BY <1>3, <1>4 DEF Consumers
    <2>2. e = [c EXCEPT !.presents[p].submit = s,
                        !.bySubmit[s] = IF c.bySubmit[s] = NoPresent THEN p ELSE c.bySubmit[s]]
      BY <1>4, <1>5, <1>6, <2>1
    <2>3. g = [e EXCEPT !.blits[x] = p, !.presents[p].context = x]
      BY <1>7, <1>8
    <2>4. Becomes(IF ~present \/ p = NoPresent \/ c.presents[p].submit # None THEN c
                  ELSE IF e.presents[p].mode = "Legacy_Copy" /\ ~trace.supportsDxgkPresentEvent
                       THEN g ELSE e)
      BY <1>2, <2>2, <2>3 DEF DxgkQueueSubmit
    <2>. QED  BY <2>4
  <1>10. CASE Becomes(c)
    BY <1>3, <1>10, BecomesNeat
  <1>11. CASE /\ p # NoPresent /\ c.presents[p].submit = None
              /\ (Becomes(g) \/ Becomes(e)) /\ c.hung
    <2>1. d.hung = c.hung /\ e.hung = d.hung
      BY <1>3, <1>4, <1>6 DEF Consumers
    <2>2. g.hung = f.hung /\ f.hung = e.hung
      <3>1. e.hung = c.hung /\ DOMAIN e = DOMAIN c
        BY <1>3, <1>4, <1>6 DEF Consumers
      <3>. QED  BY <1>3, <1>7, <1>8, <3>1 DEF Consumers
    <2>3. e.hung /\ g.hung
      BY <1>11, <2>1, <2>2
    <2>. QED  BY <1>1, <1>11, <2>3, BecomesNeat
  <1>12. CASE /\ p # NoPresent /\ c.presents[p].submit = None
              /\ (Becomes(g) \/ Becomes(e)) /\ ~c.hung
    <2>1. Neat(c, n) /\ p \in 1..n /\ p \in 0..n /\ Open(c, p) /\ Waits(c, p)
      <3>1. Neat(c, n)
        BY <1>3, <1>12
      <3>2. p \in 1..n /\ Open(c, p)
        BY <1>2, <1>12, <3>1, FoundOpen
      <3>. QED  BY <3>1, <3>2 DEF Open
    <2>2. PICK r \in Records(n) : r = c.presents[p]
      BY <2>1, PresentFacts
    <2>3. Staged(r) /\ r.submit = None /\ r.context = None
      BY <1>12, <2>1, <2>2, PresentFacts DEF Staged
    <2>4. s # None
      BY TrackingAssumption
    <2>5. PICK r1 : r1 = [r EXCEPT !.submit = s]
      OBVIOUS
    <2>6. Edits(c, d, n, p, r1)
      <3>1. Edits(c, [c EXCEPT !.presents[p].submit = s], n, p, [r EXCEPT !.submit = s])
        BY <2>1, <2>2, <2>3, <2>4, SetNeat
      <3>. QED  BY <1>4, <2>5, <3>1
    <2>7. Neat(d, n) /\ Open(d, p) /\ d.presents[p] = r1
      BY <2>1, <2>6, EditsOpen
    <2>8. r1.submit = s /\ r1.context = None
      BY <2>2, <2>3, <2>5 DEF Records
    <2>9. Neat(e, n) /\ Open(e, p) /\ Waits(e, p) /\ e.presents[p] = r1
      <3>1. CASE d.bySubmit[s] # NoPresent
        <4>1. d \in Consumers(n)
          BY <2>1, <2>7, PresentFacts
        <4>2. [d EXCEPT !.bySubmit[s] = d.bySubmit[s]] = d
          BY <4>1 DEF Consumers
        <4>. QED  BY <1>5, <1>6, <2>7, <3>1, <4>2 DEF Open
      <3>2. CASE d.bySubmit[s] = NoPresent
        <4>1. Relinks(d, [d EXCEPT !.bySubmit[s] = p], n)
          BY <2>1, <2>7, <2>8, LinkNeat
        <4>2. Relinks(d, e, n)
          BY <1>5, <1>6, <3>2, <4>1
        <4>. QED  BY <2>1, <2>7, <4>2 DEF Relinks, Open
      <3>. QED  BY <3>1, <3>2
    <2>10. PICK h : h = [e EXCEPT !.presents[p].context = x]
      OBVIOUS
    <2>11. PICK r2 : r2 = [r1 EXCEPT !.context = x]
      OBVIOUS
    <2>12. Edits(e, h, n, p, r2)
      <3>1. Edits(e, [e EXCEPT !.presents[p].context = x], n, p, [r1 EXCEPT !.context = x])
        BY <2>1, <2>4, <2>8, <2>9, SetNeat
      <3>. QED  BY <2>10, <2>11, <3>1
    <2>13. Neat(h, n) /\ Open(h, p) /\ h.presents[p] = r2
      BY <2>1, <2>9, <2>12, EditsOpen
    <2>14. r2.context = x
      <3>1. r1 \in Records(n)
        BY <2>1, <2>9, PresentFacts
      <3>. QED  BY <2>11, <3>1 DEF Records
    <2>15. Relinks(h, [h EXCEPT !.blits[x] = p], n)
      BY <2>1, <2>13, <2>14, LinkNeat
    <2>16. g = [h EXCEPT !.blits[x] = p]
      <3>1. e \in Consumers(n)
        BY <2>1, <2>9, PresentFacts
      <3>. QED  BY <1>7, <1>8, <2>10, <3>1 DEF Consumers
    <2>17. Neat(g, n)
      BY <2>15, <2>16 DEF Relinks
    <2>. QED  BY <1>12, <2>9, <2>17, BecomesNeat
  <1>. QED  BY <1>9, <1>10, <1>11, <1>12

\* A present joins those that wait for DWM.
LEMMA WaitingNeat ==
    ASSUME NEW n \in Nat, NEW c, Neat(c, n), NEW p \in 1..n, Open(c, p)
    PROVE  Neat([c EXCEPT !.waiting = Append(@, p), !.presents[p].inDwmWaiting = TRUE], n)
  <1>1. PICK w : w = Append(c.waiting, p)
    OBVIOUS
  <1>2. w \in Seq(1..n)
    BY <1>1, PresentFacts DEF Consumers
  <1>3. PICK d : d = [c EXCEPT !.waiting = w]
    OBVIOUS
  <1>4. Neat(d, n) /\ Waits(d, p)
    <2>1. \A q \in ToSet(w) : Mine(q)
      <3>1. c.waiting \in Seq(1..n) /\ Lasting(c, n)
        BY PresentFacts DEF Consumers, Neat, Steady
      <3>2. Mine(p) /\ \A q \in ToSet(c.waiting) : Mine(q)
        BY <3>1, WaitsMine, RidersMine DEF Open
      <3>3. \A q \in ToSet(w) : q \in ToSet(c.waiting) \/ q = p
        <4>1. w \in Seq(1..n) /\ Len(w) = Len(c.waiting) + 1 /\ Len(c.waiting) \in Nat
              /\ \A i \in 1..Len(w) : w[i] = IF i <= Len(c.waiting) THEN c.waiting[i] ELSE p
          BY <1>1, <1>2, <3>1
        <4>2. DOMAIN w = 1..Len(w) /\ DOMAIN c.waiting = 1..Len(c.waiting)
          BY <3>1, <4>1, LenProperties
        <4>. QED  BY <4>1, <4>2 DEF ToSet
      <3>. QED  BY <3>2, <3>3
    <2>2. Relinks(c, [c EXCEPT !.waiting = w], n)
      BY <1>2, <2>1, OtherNeat
    <2>3. Relinks(c, d, n)
      BY <1>3, <2>2
    <2>. QED  BY <2>3 DEF Relinks, Open
  <1>5. PICK v \in BOOLEAN : v = TRUE
    OBVIOUS
  <1>6. Edits(d, [d EXCEPT !.presents[p].inDwmWaiting = v], n, p,
              [d.presents[p] EXCEPT !.inDwmWaiting = v])
    BY <1>4, SetNeat
  <1>7. Neat([d EXCEPT !.presents[p].inDwmWaiting = v], n)
    BY <1>6 DEF Edits
  <1>. QED  BY <1>1, <1>3, <1>5, <1>7

\* The mode a present gets with its history token, if any.
HistoryMode(mode, atlas) ==
  IF mode = "Legacy_Copy" THEN "Composed_Copy_GPU_GDI"
  ELSE IF mode = "Unknown" THEN IF atlas THEN "Composition_Atlas" ELSE "Composed_Flip"
  ELSE mode

\* The present is found under a token that it knows of.
Tokened(c, d, n, p, token) ==
  /\ Neat(d, n) /\ Open(d, p)
  /\ d.presents[p].token = token /\ d.presents[p].mode = c.presents[p].mode
  /\ d.presents[p].blitToken = None

\* The present is filed under a history token once its mode is known.
LEMMA TokenNeat ==
    ASSUME NEW n \in Nat, NEW c, Neat(c, n), NEW p \in 1..n, Open(c, p),
           c.presents[p].token = None, c.presents[p].mode # "Unknown", NEW token \in Tokens
    PROVE  Tokened(c, [c EXCEPT !.presents[p].token = token, !.dxgk[token] = p], n, p, token)
  <1>1. PICK e \in Records(n) : e = c.presents[p]
    BY PresentFacts
  <1>2. Staged(e) /\ Waits(c, p) /\ token # None /\ p \in 0..n
    BY <1>1, PresentFacts, TrackingAssumption DEF Open
  <1>3. PICK f : f = [e EXCEPT !.token = token]
    OBVIOUS
  <1>4. PICK x : x = [c EXCEPT !.presents[p].token = token]
    OBVIOUS
  <1>5. Edits(c, x, n, p, f)
    <2>1. Edits(c, [c EXCEPT !.presents[p].token = token], n, p, [e EXCEPT !.token = token])
      BY <1>1, <1>2, SetNeat
    <2>. QED  BY <1>3, <1>4, <2>1
  <1>6. Neat(x, n) /\ Open(x, p) /\ x.presents[p] = f
    BY <1>5, EditsOpen
  <1>7. f.token = token /\ f.mode = e.mode /\ f.blitToken = None
    BY <1>1, <1>2, <1>3 DEF Records, Staged
  <1>8. PICK y : y = [x EXCEPT !.dxgk[token] = p]
    OBVIOUS
  <1>9. Relinks(x, y, n)
    <2>1. Relinks(x, [x EXCEPT !.dxgk[token] = p], n)
      BY <1>2, <1>6, <1>7, LinkNeat
    <2>. QED  BY <1>8, <2>1
  <1>10. Neat(y, n) /\ Open(y, p) /\ y.presents[p] = f
    BY <1>6, <1>9 DEF Relinks
  <1>11. y = [c EXCEPT !.presents[p].token = token, !.dxgk[token] = p]
    BY <1>4, <1>8
  <1>12. Tokened(c, y, n, p, token)
    BY <1>1, <1>7, <1>10 DEF Tokened
  <1>. QED  BY <1>11, <1>12

\* The present is filed under the token of a blit.
LEMMA BlitTokenNeat ==
    ASSUME NEW n \in Nat, NEW c, Neat(c, n), NEW p \in 1..n, Open(c, p),
           c.presents[p].token # None, c.presents[p].blitToken = None, NEW data \in Tokens
    PROVE  Neat([c EXCEPT !.legacyBlit[data] = p, !.presents[p].blitToken = data], n)
  <1>1. PICK e \in Records(n) : e = c.presents[p]
    BY PresentFacts
  <1>2. Waits(c, p) /\ p \in 0..n /\ c \in Consumers(n)
    BY PresentFacts DEF Open
  <1>3. PICK f : f = [e EXCEPT !.blitToken = data]
    OBVIOUS
  <1>4. PICK x : x = [c EXCEPT !.presents[p].blitToken = data]
    OBVIOUS
  <1>5. Edits(c, x, n, p, f)
    <2>1. Edits(c, [c EXCEPT !.presents[p].blitToken = data], n, p, [e EXCEPT !.blitToken = data])
      BY <1>1, <1>2, SetNeat
    <2>. QED  BY <1>3, <1>4, <2>1
  <1>6. Neat(x, n) /\ Open(x, p) /\ x.presents[p] = f
    BY <1>5, EditsOpen
  <1>7. f.blitToken = data
    BY <1>3 DEF Records
  <1>8. Relinks(x, [x EXCEPT !.legacyBlit[data] = p], n)
    BY <1>2, <1>6, <1>7, LinkNeat
  <1>9. PICK y : y = [c EXCEPT !.legacyBlit[data] = p]
    OBVIOUS
  <1>10. [x EXCEPT !.legacyBlit[data] = p] = [y EXCEPT !.presents[p].blitToken = data]
    BY <1>2, <1>4, <1>9 DEF Consumers
  <1>11. [y EXCEPT !.presents[p].blitToken = data]
           = [c EXCEPT !.legacyBlit[data] = p, !.presents[p].blitToken = data]
    BY <1>9
  <1>. QED  BY <1>8, <1>10, <1>11 DEF Relinks

\* The present is not known to be displayed any more.
Untold(c, d, n, p) ==
  /\ Neat(d, n) /\ Open(d, p)
  /\ d.presents[p].token = c.presents[p].token /\ d.presents[p].mode = c.presents[p].mode

\* An event may take back that a present was displayed.
LEMMA UntoldNeat ==
    ASSUME NEW n \in Nat, NEW c, Neat(c, n), NEW p \in 1..n, Open(c, p)
    PROVE  Untold(c, [c EXCEPT !.presents[p].screen = FALSE, !.presents[p].final = "Unknown"], n, p)
  <1>1. PICK e \in Records(n) : e = c.presents[p]
    BY PresentFacts
  <1>2. Waits(c, p) /\ c \in Consumers(n) /\ ~e.completed
    BY <1>1, PresentFacts DEF Open
  <1>3. PICK v \in Results : v = "Unknown"
    BY DEF Results
  <1>4. PICK b \in BOOLEAN : b = FALSE
    OBVIOUS
  <1>5. PICK x : x = [c EXCEPT !.presents[p].final = v]
    OBVIOUS
  <1>6. PICK f : f = [e EXCEPT !.final = v]
    OBVIOUS
  <1>7. Edits(c, x, n, p, f)
    <2>1. Edits(c, [c EXCEPT !.presents[p].final = v], n, p, [e EXCEPT !.final = v])
      BY <1>1, <1>2, <1>3, SetNeat
    <2>. QED  BY <1>5, <1>6, <2>1
  <1>8. Neat(x, n) /\ Open(x, p) /\ Waits(x, p) /\ x.presents[p] = f
    BY <1>2, <1>7, EditsOpen
  <1>9. f \in Records(n) /\ f.final = v
    <2>1. f \in Records(n)
      BY <1>8, PresentFacts
    <2>2. f.final = v
      BY <1>6 DEF Records
    <2>. QED  BY <2>1, <2>2
  <1>10. PICK y : y = [x EXCEPT !.presents[p].screen = b]
    OBVIOUS
  <1>11. PICK g : g = [f EXCEPT !.screen = b]
    OBVIOUS
  <1>12. Edits(x, y, n, p, g)
    <2>1. Edits(x, [x EXCEPT !.presents[p].screen = b], n, p, [f EXCEPT !.screen = b])
      BY <1>3, <1>8, <1>9, SetNeat
    <2>. QED  BY <1>10, <1>11, <2>1
  <1>13. Neat(y, n) /\ Open(y, p) /\ y.presents[p] = g
    BY <1>8, <1>12, EditsOpen
  <1>14. f.token = e.token /\ f.mode = e.mode
    BY <1>6 DEF Records
  <1>15. g.token = e.token /\ g.mode = e.mode
    BY <1>9, <1>11, <1>14 DEF Records
  <1>16. y = [c EXCEPT !.presents[p] = [e EXCEPT !.final = v, !.screen = b]]
    BY <1>1, <1>2, <1>5, <1>10 DEF Consumers
  <1>17. [e EXCEPT !.final = v, !.screen = b] = [e EXCEPT !.screen = b, !.final = v]
    BY DEF Records
  <1>18. [c EXCEPT !.presents[p] = [e EXCEPT !.screen = b, !.final = v]]
           = [c EXCEPT !.presents[p].screen = b, !.presents[p].final = v]
    BY <1>1, <1>2 DEF Consumers
  <1>19. y = [c EXCEPT !.presents[p].screen = FALSE, !.presents[p].final = "Unknown"]
    BY <1>3, <1>4, <1>16, <1>17, <1>18
  <1>20. Untold(c, y, n, p)
    BY <1>1, <1>13, <1>15 DEF Untold
  <1>. QED  BY <1>19, <1>20

\* A record that is given a token keeps its mode, and the order of the two
\* edits does not matter.
LEMMA TokenEdits ==
    ASSUME NEW n, NEW r \in Records(n), NEW v \in Tokens, NEW m
    PROVE  /\ [r EXCEPT !.token = v] \in Records(n)
           /\ [r EXCEPT !.token = v].mode = r.mode
           /\ [r EXCEPT !.mode = m, !.token = v] = [[r EXCEPT !.token = v] EXCEPT !.mode = m]
  <1>1. v \in Tokens \cup {None}
    OBVIOUS
  <1>2. [r EXCEPT !.token = v] \in Records(n)
    BY <1>1 DEF Records
  <1>3. [r EXCEPT !.token = v].mode = r.mode
    BY DEF Records
  <1>4. [r EXCEPT !.mode = m, !.token = v] = [[r EXCEPT !.token = v] EXCEPT !.mode = m]
    BY DEF Records
  <1>. QED  BY <1>2, <1>3, <1>4

\* HandleDxgkSubmitPresentHistoryEventArgs.
LEMMA DxgkSubmitPresentHistoryNeat ==
    ASSUME NInv, NEW t \in Threads, NEW token \in Tokens, NEW data \in Tokens \cup {None},
           NEW atlas \in BOOLEAN, Feeds(t, "history"),
           DxgkSubmitPresentHistory(t, token, data, atlas)
    PROVE  Onward
  <1>1. LooksUp(t) /\ ~trace.simpleMode
    BY FeedsFind DEF Finders
  <1>2. PICK n0 \in Nat : Neat(consumer, n0)
    BY DEF NInv
  <1>. DEFINE c == FindFresh(consumer, t, "History").c
              p == FindFresh(consumer, t, "History").p
              e == c.presents[p]
              c1 == Assert_(c, 570, e.mode # "Unknown" \/ atlas \/ ~e.seenWin32K)
              c2 == [c1 EXCEPT !.presents[p].screen = FALSE, !.presents[p].final = "Unknown",
                               !.presents[p].token = token, !.dxgk[token] = p]
  <1>3. Becomes(IF p = NoPresent THEN c ELSE Classify(c2, p, data, atlas))
    BY DEF DxgkSubmitPresentHistory
  <1>4. PICK n \in Nat : /\ Neat(c, n) /\ p \in 0..n
                         /\ p # NoPresent => Open(c, p) /\ ~Stuck("History", c.presents[p])
    BY <1>1, <1>2, FindFreshFinds DEF Finds
  <1>. HIDE DEF c, p
  <1>5. CASE p = NoPresent
    BY <1>3, <1>4, <1>5, BecomesNeat
  <1>6. CASE p # NoPresent
    <2>1. p \in 1..n /\ Open(c, p) /\ e.token = None
      BY <1>4, <1>6 DEF NoPresent, Stuck
    <2>2. e \in Records(n) /\ Staged(e) /\ c \in Consumers(n)
      BY <1>4, <2>1, PresentFacts
    <2>3. e.mode # "Unknown" \/ atlas \/ ~e.seenWin32K
      BY <2>2 DEF Staged
    <2>4. c1 = c
      BY <2>3 DEF Assert_
    <2>. HIDE DEF e, c1
    <2>5. PICK x : x = [c EXCEPT !.presents[p].screen = FALSE, !.presents[p].final = "Unknown"]
      OBVIOUS
    <2>6. Neat(x, n) /\ Open(x, p) /\ x.presents[p].token = None /\ x.presents[p].mode = e.mode
      <3>1. Untold(c, [c EXCEPT !.presents[p].screen = FALSE, !.presents[p].final = "Unknown"],
            n, p)
        BY <1>4, <2>1, UntoldNeat
      <3>2. Untold(c, x, n, p)
        BY <2>5, <3>1
      <3>3. e.token = c.presents[p].token /\ e.mode = c.presents[p].mode
        BY DEF e
      <3>. QED  BY <2>1, <3>2, <3>3 DEF Untold
    <2>7. PICK r \in Records(n) : r = x.presents[p]
      BY <2>1, <2>6, PresentFacts
    <2>8. PICK m \in Modes : m = HistoryMode(e.mode, atlas)
      BY <2>2 DEF HistoryMode, Modes, Records
    <2>9. /\ m # "Unknown" /\ (m = r.mode \/ m \notin {"Unknown", "Legacy_Copy"})
      BY <2>6, <2>7, <2>8 DEF HistoryMode
    <2>10. PICK y : y = [x EXCEPT !.presents[p].mode = m]
      OBVIOUS
    <2>11. Moded(x, y, n, p, m)
      BY <2>1, <2>6, <2>7, <2>9, <2>10, ModedNeat
    <2>12. PICK z : z = [y EXCEPT !.presents[p].token = token, !.dxgk[token] = p]
      OBVIOUS
    <2>13. /\ Neat(z, n) /\ Open(z, p) /\ z.presents[p].token = token
           /\ z.presents[p].mode = m /\ z.presents[p].blitToken = None
      <3>1. y.presents[p].token = None /\ y.presents[p].mode = m
        BY <2>6, <2>7, <2>11 DEF Moded, Records
      <3>2. Neat(y, n) /\ Open(y, p)
        BY <2>11 DEF Moded
      <3>3. Tokened(y, [y EXCEPT !.presents[p].token = token, !.dxgk[token] = p], n, p, token)
        BY <2>1, <2>9, <3>1, <3>2, TokenNeat
      <3>4. Tokened(y, z, n, p, token)
        BY <2>12, <3>3
      <3>. QED  BY <3>1, <3>4 DEF Tokened
    <2>14. c2 = [x EXCEPT !.presents[p].token = token, !.dxgk[token] = p]
      BY <2>4, <2>5
    <2>15. x \in Consumers(n)
      BY <2>1, <2>6, PresentFacts
    <2>. HIDE DEF c2
    <2>16. c2 = [x EXCEPT !.presents[p] = [r EXCEPT !.token = token], !.dxgk[token] = p]
      BY <2>7, <2>14, <2>15
    <2>17. PICK f : f = [r EXCEPT !.token = token]
      OBVIOUS
    <2>18. /\ [r EXCEPT !.token = token] \in Records(n)
           /\ [r EXCEPT !.token = token].mode = r.mode
           /\ [r EXCEPT !.mode = m, !.token = token]
                = [[r EXCEPT !.token = token] EXCEPT !.mode = m]
      BY TokenEdits
    <2>19. c2.presents[p] = f /\ f.mode = e.mode /\ f \in Records(n)
      <3>1. c2.presents[p] = f
        BY <2>1, <2>15, <2>16, <2>17 DEF Consumers
      <3>2. f.mode = r.mode /\ f \in Records(n)
        BY <2>17, <2>18
      <3>. QED  BY <2>6, <2>7, <3>1, <3>2
    <2>20. z = [c2 EXCEPT !.presents[p].mode = m]
      <3>1. z = [x EXCEPT !.presents[p] = [r EXCEPT !.mode = m, !.token = token], !.dxgk[token] = p]
        BY <2>1, <2>7, <2>10, <2>12, <2>15, ZenonT(60) DEF Consumers
      <3>2. [r EXCEPT !.mode = m, !.token = token] = [f EXCEPT !.mode = m]
        BY <2>17, <2>18
      <3>3. [c2 EXCEPT !.presents[p].mode = m]
              = [x EXCEPT !.presents[p] = [f EXCEPT !.mode = m], !.dxgk[token] = p]
        BY <2>1, <2>15, <2>16, <2>17, <2>19, ZenonT(60) DEF Consumers
      <3>. QED  BY <3>1, <3>2, <3>3
    <2>21. Becomes(Classify(c2, p, data, atlas))
      BY <1>3, <1>6
    <2>22. CASE e.mode = "Legacy_Copy"
      <3>1. Classify(c2, p, data, atlas) = z
        BY <2>8, <2>19, <2>20, <2>22 DEF Classify, HistoryMode
      <3>. QED  BY <2>13, <2>21, <3>1, BecomesNeat
    <2>23. CASE e.mode = "Unknown"
      <3>1. Classify(c2, p, data, atlas) = z
        BY <2>8, <2>19, <2>20, <2>23 DEF Classify, HistoryMode
      <3>. QED  BY <2>13, <2>21, <3>1, BecomesNeat
    <2>24. CASE e.mode \notin {"Legacy_Copy", "Unknown"}
      <3>1. m = e.mode /\ [f EXCEPT !.mode = m] = f
        BY <2>8, <2>19, <2>24 DEF HistoryMode, Records
      <3>2. z = c2
        <4>1. z = [c2 EXCEPT !.presents[p] = f]
          BY <2>19, <2>20, <3>1
        <4>2. c2 \in Consumers(n)
          <5>1. z \in Consumers(n)
            BY <2>1, <2>13, PresentFacts
          <5>2. c2.presents = [x.presents EXCEPT ![p] = f]
            BY <2>15, <2>16, <2>17 DEF Consumers
          <5>3. z.presents = [x.presents EXCEPT ![p] = f]
            BY <2>15, <2>16, <2>17, <4>1 DEF Consumers
          <5>. QED  BY <2>15, <2>16, <4>1, <5>1, <5>2, <5>3 DEF Consumers
        <4>. QED  BY <2>19, <4>1, <4>2 DEF Consumers
      <3>3. CASE e.mode = "Composed_Copy_CPU_GDI" /\ data = None
        <4>1. Classify(c2, p, data, atlas)
                = [z EXCEPT !.waiting = Append(@, p), !.presents[p].inDwmWaiting = TRUE]
          BY <2>19, <3>2, <3>3 DEF Classify
        <4>2. Neat([z EXCEPT !.waiting = Append(@, p), !.presents[p].inDwmWaiting = TRUE], n)
          BY <2>1, <2>13, WaitingNeat
        <4>. QED  BY <2>21, <4>1, <4>2, BecomesNeat
      <3>4. CASE e.mode = "Composed_Copy_CPU_GDI" /\ data # None
        <4>1. Classify(c2, p, data, atlas)
                = [z EXCEPT !.legacyBlit[data] = p, !.presents[p].blitToken = data]
          BY <2>19, <3>2, <3>4 DEF Classify
        <4>2. token # None
          BY TrackingAssumption
        <4>3. Neat([z EXCEPT !.legacyBlit[data] = p, !.presents[p].blitToken = data], n)
          BY <2>1, <2>13, <3>4, <4>2, BlitTokenNeat
        <4>. QED  BY <2>21, <4>1, <4>3, BecomesNeat
      <3>5. CASE e.mode # "Composed_Copy_CPU_GDI"
        <4>1. Classify(c2, p, data, atlas) = z
          BY <2>19, <2>24, <3>2, <3>5 DEF Classify
        <4>. QED  BY <2>13, <2>21, <4>1, BecomesNeat
      <3>. QED  BY <3>3, <3>4, <3>5
    <2>. QED  BY <2>22, <2>23, <2>24
  <1>. QED  BY <1>5, <1>6

\* HandleDxgkPropagatePresentHistoryEventArgs passes a present on to DWM.
LEMMA DxgkPropagatePresentHistoryNeat ==
    ASSUME NInv, NEW token \in Tokens, DxgkPropagatePresentHistory(token)
    PROVE  Onward
  <1>1. PICK n \in Nat : Neat(consumer, n)
    BY DEF NInv
  <1>2. PICK p, h : p = consumer.dxgk[token] /\ h = consumer.presents[p].hwnd
    OBVIOUS
  <1>3. PICK c : c = [consumer EXCEPT !.dxgk[token] = NoPresent]
    OBVIOUS
  <1>4. /\ p # NoPresent
        /\ \/ Becomes([c EXCEPT !.waiting = Append(@, p), !.presents[p].inDwmWaiting = TRUE])
           \/ /\ Becomes([c EXCEPT !.window[h] = p])
              /\ consumer.presents[p].mode = "Composed_Copy_GPU_GDI"
           \/ Becomes(c)
    BY <1>2, <1>3 DEF DxgkPropagatePresentHistory
  <1>5. p \in 1..n /\ p \in 0..n /\ Open(consumer, p)
    BY <1>1, <1>2, <1>4, FoundOpen
  <1>6. Relinks(consumer, c, n)
    <2>1. Relinks(consumer, [consumer EXCEPT !.dxgk[token] = NoPresent], n)
      BY <1>1, UnlinkNeat
    <2>. QED  BY <1>3, <2>1
  <1>7. Neat(c, n) /\ Open(c, p) /\ c.presents = consumer.presents
    BY <1>5, <1>6 DEF Relinks
  <1>8. CASE Becomes([c EXCEPT !.waiting = Append(@, p), !.presents[p].inDwmWaiting = TRUE])
    <2>1. Neat([c EXCEPT !.waiting = Append(@, p), !.presents[p].inDwmWaiting = TRUE], n)
      BY <1>5, <1>7, WaitingNeat
    <2>. QED  BY <1>8, <2>1, BecomesNeat
  <1>9. CASE Becomes([c EXCEPT !.window[h] = p])
             /\ consumer.presents[p].mode = "Composed_Copy_GPU_GDI"
    <2>1. CASE h \in Hwnds
      <3>1. c.presents[p].hwnd = h /\ c.presents[p].mode # "Unknown"
        BY <1>2, <1>7, <1>9
      <3>2. Relinks(c, [c EXCEPT !.window[h] = p], n)
        BY <1>5, <1>7, <2>1, <3>1, LinkNeat
      <3>. QED  BY <1>9, <3>2, BecomesNeat DEF Relinks
    <2>2. CASE h \notin Hwnds
      <3>1. c \in Consumers(n)
        BY <1>5, <1>7, PresentFacts
      <3>2. [c.window EXCEPT ![h] = p] = c.window
        BY <2>2, <3>1 DEF Consumers
      <3>3. [c EXCEPT !.window[h] = p] = [c EXCEPT !.window = [c.window EXCEPT ![h] = p]]
        OBVIOUS
      <3>4. [c EXCEPT !.window = c.window] = c
        BY <3>1 DEF Consumers
      <3>5. [c EXCEPT !.window[h] = p] = c
        BY <3>2, <3>3, <3>4
      <3>. QED  BY <1>7, <1>9, <3>5, BecomesNeat
    <2>. QED  BY <2>1, <2>2
  <1>10. CASE Becomes(c)
    BY <1>7, <1>10, BecomesNeat
  <1>. QED  BY <1>4, <1>8, <1>9, <1>10

\* Present_Info: the runtime's call has reached the kernel, which may complete its present.
LEMMA DxgkPresentInfoNeat ==
    ASSUME NInv, NEW t \in Threads, NEW hWindow \in Hwnds \cup {None},
           DxgkPresentInfo(t, hWindow)
    PROVE  Onward
  <1>1. PICK n \in Nat : Neat(consumer, n)
    BY DEF NInv
  <1>. DEFINE p == consumer.byThread[t]
              e == consumer.presents[p]
              c1 == [consumer EXCEPT !.presents[p].seenDxgk = TRUE,
                                     !.presents[p].hwnd = IF @ = None THEN hWindow ELSE @]
              c2 == IF e.thread = t THEN c1
                    ELSE [c1 EXCEPT !.presents[p].batchThread = t, !.byThread[t] = NoPresent]
              c3 == IF e.runtime = "Other"
                    THEN [c2 EXCEPT !.byThread[e.thread] = NoPresent] ELSE c2
  <1>2. Becomes(Complete(c3, p)) \/ Becomes(c3)
    BY DEF DxgkPresentInfo
  <1>3. p # NoPresent /\ p = consumer.byThread[t] /\ e = consumer.presents[p]
    BY DEF DxgkPresentInfo
  <1>4. PICK h : h = IF e.hwnd = None THEN hWindow ELSE e.hwnd
    OBVIOUS
  <1>5. PICK a : a = [consumer EXCEPT !.presents[p].seenDxgk = TRUE]
    OBVIOUS
  <1>6. PICK b : b = [a EXCEPT !.presents[p].hwnd = h]
    OBVIOUS
  <1>. HIDE DEF p, e, c1, c2, c3
  <1>7. p \in 1..n /\ Open(consumer, p) /\ e.thread = t
    BY <1>1, <1>3, FoundOpen
  <1>8. e \in Records(n) /\ consumer \in Consumers(n) /\ Waits(consumer, p)
    BY <1>1, <1>3, <1>7, PresentFacts DEF Open
  <1>9. PICK f : f = [e EXCEPT !.seenDxgk = TRUE]
    OBVIOUS
  <1>10. Edits(consumer, a, n, p, f)
    <2>1. PICK v \in BOOLEAN : v = TRUE
      OBVIOUS
    <2>2. Edits(consumer, [consumer EXCEPT !.presents[p].seenDxgk = v], n, p,
          [e EXCEPT !.seenDxgk = v])
      BY <1>1, <1>3, <1>7, <1>8, SetNeat
    <2>. QED  BY <1>5, <1>9, <2>1, <2>2
  <1>11. Neat(a, n) /\ Open(a, p) /\ Waits(a, p) /\ a.presents[p] = f
    BY <1>7, <1>10 DEF Edits, Open
  <1>12. f.hwnd = e.hwnd /\ f.seenDxgk = TRUE /\ f \in Records(n)
    BY <1>8, <1>9 DEF Records
  <1>13. b = c1
    BY <1>3, <1>4, <1>5, <1>6, <1>11, <1>12 DEF c1
  <1>14. PICK g : g = [f EXCEPT !.hwnd = h]
    OBVIOUS
  <1>15. Edits(a, b, n, p, g)
    <2>1. h \in Hwnds \cup {None} /\ (f.hwnd = None \/ h = f.hwnd)
      <3>1. e.hwnd \in Hwnds \cup {None}
        BY <1>8 DEF Records
      <3>. QED  BY <1>4, <1>12, <3>1
    <2>2. Edits(a, [a EXCEPT !.presents[p].hwnd = h], n, p, [f EXCEPT !.hwnd = h])
      BY <1>7, <1>11, <2>1, SetNeat
    <2>. QED  BY <1>6, <1>14, <2>2
  <1>16. Neat(b, n) /\ Open(b, p) /\ b.presents[p] = g
    BY <1>7, <1>11, <1>15, EditsOpen
  <1>18. c2 = b
    BY <1>7, <1>13 DEF c2
  <1>19. Neat(c3, n) /\ Open(c3, p) /\ c3.presents[p] = g
    <2>1. CASE e.runtime # "Other"
      BY <1>16, <1>18, <2>1 DEF c3
    <2>2. CASE e.runtime = "Other"
      <3>1. c3 = [b EXCEPT !.byThread[t] = NoPresent]
        BY <1>7, <1>18, <2>2 DEF c3
      <3>2. Relinks(b, [b EXCEPT !.byThread[t] = NoPresent], n)
        BY <1>16, UnlinkNeat
      <3>3. Relinks(b, c3, n)
        BY <3>1, <3>2
      <3>. QED  BY <1>7, <1>16, <3>3 DEF Relinks
    <2>. QED  BY <2>1, <2>2
  <1>20. Complete(c3, p).hung \/ Neat(Complete(c3, p), n)
    BY <1>7, <1>19, CompleteNeat
  <1>. QED  BY <1>2, <1>19, <1>20, BecomesNeat

-----------------------------------------------------------------------------
(* The handlers of Win32K's events.                                        *)

\* A present gets a composition token.
LEMMA TokenCompositionSurfaceObjectNeat ==
    ASSUME NInv, NEW t \in Threads, NEW token \in Tokens, Feeds(t, "win32k"),
           TokenCompositionSurfaceObject(t, token)
    PROVE  Onward
  <1>1. LooksUp(t) /\ ~trace.simpleMode
    BY FeedsFind DEF Finders
  <1>2. PICK n0 \in Nat : Neat(consumer, n0)
    BY DEF NInv
  <1>. DEFINE c == FindFresh(consumer, t, "Win32K").c
              p == FindFresh(consumer, t, "Win32K").p
              c1 == [c EXCEPT !.presents[p].mode = "Composed_Flip",
                              !.presents[p].seenWin32K = TRUE,
                              !.presents[p].win32k = token,
                              !.win32k[token] = p]
  <1>3. Becomes(IF p = NoPresent THEN c ELSE c1)
    BY DEF TokenCompositionSurfaceObject
  <1>4. PICK n \in Nat : /\ Neat(c, n) /\ p \in 0..n
                         /\ p # NoPresent => Open(c, p) /\ ~Stuck("Win32K", c.presents[p])
    BY <1>1, <1>2, FindFreshFinds DEF Finds
  <1>. HIDE DEF c, p, c1
  <1>5. CASE p = NoPresent
    BY <1>3, <1>4, <1>5, BecomesNeat
  <1>6. CASE p # NoPresent
    <2>1. p \in 1..n /\ Open(c, p)
      BY <1>4, <1>6 DEF NoPresent
    <2>2. PICK e : e = c.presents[p]
      OBVIOUS
    <2>3. e \in Records(n) /\ c \in Consumers(n) /\ ~e.seenWin32K
      BY <1>4, <1>6, <2>1, <2>2, PresentFacts DEF Stuck
    <2>4. PICK m \in Modes : m = "Composed_Flip"
      BY DEF Modes
    <2>5. PICK x : x = [c EXCEPT !.presents[p].mode = m]
      OBVIOUS
    <2>6. PICK f : f = [e EXCEPT !.mode = m]
      OBVIOUS
    <2>7. Neat(x, n) /\ Open(x, p) /\ Waits(x, p) /\ x.presents[p] = f
      <3>1. Moded(c, x, n, p, m)
        BY <1>4, <2>1, <2>4, <2>5, ModedNeat
      <3>. QED  BY <2>2, <2>6, <3>1 DEF Moded
    <2>8. ~f.seenWin32K /\ f.mode = m /\ f \in Records(n)
      BY <2>3, <2>6 DEF Records
    <2>9. PICK y : y = [x EXCEPT !.presents[p].win32k = token]
      OBVIOUS
    <2>10. PICK g : g = [f EXCEPT !.win32k = token]
      OBVIOUS
    <2>11. Edits(x, y, n, p, g)
      <3>1. Edits(x, [x EXCEPT !.presents[p].win32k = token], n, p, [f EXCEPT !.win32k = token])
        BY <2>1, <2>7, <2>8, SetNeat
      <3>. QED  BY <2>9, <2>10, <3>1
    <2>12. Neat(y, n) /\ Open(y, p) /\ Waits(y, p) /\ y.presents[p] = g
      BY <2>1, <2>7, <2>11, EditsOpen
    <2>13. g.win32k = token /\ g.mode = m /\ g \in Records(n)
      BY <2>8, <2>10 DEF Records
    <2>14. PICK v \in BOOLEAN : v = TRUE
      OBVIOUS
    <2>15. PICK z : z = [y EXCEPT !.presents[p].seenWin32K = v]
      OBVIOUS
    <2>16. PICK r : r = [g EXCEPT !.seenWin32K = v]
      OBVIOUS
    <2>17. Edits(y, z, n, p, r)
      <3>1. v /\ g.mode \notin {"Unknown", "Legacy_Copy"}
        BY <2>4, <2>13, <2>14
      <3>2. Edits(y, [y EXCEPT !.presents[p].seenWin32K = v], n, p, [g EXCEPT !.seenWin32K = v])
        BY <2>1, <2>12, <3>1, SetNeat
      <3>. QED  BY <2>15, <2>16, <3>2
    <2>18. Neat(z, n) /\ Open(z, p) /\ z.presents[p] = r
      BY <2>1, <2>12, <2>17, EditsOpen
    <2>19. r.win32k = token /\ r.seenWin32K
      BY <2>13, <2>14, <2>16 DEF Records
    <2>20. Relinks(z, [z EXCEPT !.win32k[token] = p], n)
      BY <1>4, <2>18, <2>19, LinkNeat
    <2>21. c1 = [z EXCEPT !.win32k[token] = p]
      <3>1. z = [c EXCEPT !.presents[p] = r]
        BY <2>1, <2>2, <2>3, <2>5, <2>6, <2>7, <2>9, <2>10, <2>12, <2>15, <2>16 DEF Consumers
      <3>2. r = [e EXCEPT !.mode = "Composed_Flip", !.seenWin32K = TRUE, !.win32k = token]
        BY <2>3, <2>4, <2>6, <2>10, <2>14, <2>16 DEF Records
      <3>3. PICK d1 : d1 = [c EXCEPT !.presents[p].mode = "Composed_Flip"]
        OBVIOUS
      <3>4. PICK d2 : d2 = [d1 EXCEPT !.presents[p].seenWin32K = TRUE]
        OBVIOUS
      <3>5. PICK d3 : d3 = [d2 EXCEPT !.presents[p].win32k = token]
        OBVIOUS
      <3>6. c1 = [d3 EXCEPT !.win32k[token] = p]
        BY <3>3, <3>4, <3>5 DEF c1
      <3>7. d3 = [c EXCEPT !.presents[p] = [e EXCEPT !.mode = "Composed_Flip", !.seenWin32K = TRUE,
                                                     !.win32k = token]]
        BY <2>1, <2>2, <2>3, <3>3, <3>4, <3>5 DEF Consumers
      <3>. QED  BY <3>1, <3>2, <3>6, <3>7
    <2>22. Neat(c1, n)
      BY <2>20, <2>21 DEF Relinks
    <2>. QED  BY <1>3, <1>6, <2>22, BecomesNeat
  <1>. QED  BY <1>5, <1>6

\* A present is said not to have been shown.
Discards(c, d, n, q) ==
  /\ Neat(d, n) /\ \A r \in 1..n : r # q => d.presents[r] = c.presents[r]
  /\ \A r \in 1..n : Open(d, r) <=> Open(c, r)

\* A present that a window finds may be discarded, one that was published too.
LEMMA DiscardNeat ==
    ASSUME NEW n \in Nat, NEW c, Neat(c, n), NEW q \in 1..n, Mine(q)
    PROVE  Discards(c, [c EXCEPT !.presents[q].final = "Discarded"], n, q)
  <1>1. PICK e \in Presents(n) : e = c.presents[q]
    BY PresentFacts
  <1>2. e \in Records(n) /\ c \in Consumers(n)
    BY <1>1, PresentFacts
  <1>3. PICK v \in Results : v = "Discarded"
    BY DEF Results
  <1>4. PICK d : d = [c EXCEPT !.presents[q].final = v]
    OBVIOUS
  <1>5. PICK f : f = [e EXCEPT !.final = v]
    OBVIOUS
  <1>6. f \in Presents(n)
    <2>1. f \in Records(n)
      BY <1>2, <1>5 DEF Records
    <2>. QED  BY <1>1, <1>2, <1>3, <1>5, <2>1 DEF Presents, Records
  <1>7. Outcome(e, f) /\ f.completed = e.completed /\ f.final = v
    BY <1>2, <1>5 DEF Outcome, Records
  <1>8. d = [c EXCEPT !.presents[q] = f]
    BY <1>1, <1>4, <1>5
  <1>9. /\ Works(c, d, n) /\ SameStanding(c, d, n) /\ d.presents[q] = f
        /\ \A r \in 1..n : r # q => d.presents[r] = c.presents[r]
    <2>1. Steady(c, n)
      BY DEF Neat
    <2>2. LET z == [c EXCEPT !.presents[q] = f] IN
          /\ Works(c, z, n) /\ SameStanding(c, z, n) /\ z.presents[q] = f
          /\ \A r \in 1..n : r # q => z.presents[r] = c.presents[r]
          /\ SameLinks(c, z) /\ SameRest(c, z)
          /\ z.bySwapChain = c.bySwapChain /\ z.delivered = c.delivered
      BY <1>1, <1>6, <1>7, <2>1, OutcomeSteady
    <2>. QED  BY <1>8, <2>2
  <1>10. Told(d, n)
    BY <1>3, <1>7, <1>9 DEF Neat, Told, SameStanding
  <1>11. Neat(d, n)
    BY <1>9, <1>10 DEF Neat, Works
  <1>12. \A r \in 1..n : Open(d, r) <=> Open(c, r)
    BY <1>1, <1>7, <1>9 DEF Open, SameStanding
  <1>13. Discards(c, d, n, q)
    BY <1>9, <1>11, <1>12 DEF Discards
  <1>. QED  BY <1>3, <1>4, <1>13

\* A window gets the present that is composed into it.
LEMMA WindowNeat ==
    ASSUME NEW n \in Nat, NEW c, Neat(c, n), NEW p \in 1..n, Open(c, p),
           NEW h \in Hwnds, c.presents[p].hwnd = h, c.presents[p].mode # "Unknown"
    PROVE  Relinks(c, [c EXCEPT !.window[h] = p], n)
  <1>1. p \in 0..n
    OBVIOUS
  <1>. QED  BY <1>1, LinkNeat

\* Composition of a present starts: the one before it was not shown.
LEMMA TokenInFrameNeat ==
    ASSUME NInv, NEW token \in Tokens, NEW independentFlip \in BOOLEAN,
           TokenInFrame(token, independentFlip)
    PROVE  Onward
  <1>1. PICK n \in Nat : Neat(consumer, n)
    BY DEF NInv
  <1>. DEFINE p == consumer.win32k[token]
              h == consumer.presents[p].hwnd
              q == consumer.window[h]
              c1 == IF h = None THEN consumer
                    ELSE IF q = NoPresent THEN [consumer EXCEPT !.window[h] = p]
                    ELSE IF q = p THEN consumer
                    ELSE [consumer EXCEPT !.presents[q].final = "Discarded", !.window[h] = p]
              mode == IF independentFlip /\ c1.presents[p].mode = "Composed_Flip"
                      THEN "Independent_Flip" ELSE c1.presents[p].mode
  <1>2. p # NoPresent /\ Becomes([c1 EXCEPT !.presents[p].mode = mode])
    BY DEF TokenInFrame
  <1>3. p = consumer.win32k[token]
    OBVIOUS
  <1>4. h = consumer.presents[p].hwnd
    OBVIOUS
  <1>. HIDE DEF p, h, c1, mode
  <1>5. p \in 1..n /\ Open(consumer, p) /\ consumer.presents[p].seenWin32K
    BY <1>1, <1>2, <1>3, FoundOpen
  <1>6. /\ h \in Hwnds \cup {None} /\ consumer.presents[p].mode # "Unknown"
        /\ consumer \in Consumers(n)
    <2>1. consumer.presents[p] \in Records(n) /\ Staged(consumer.presents[p])
      BY <1>1, <1>5, PresentFacts
    <2>. QED  BY <1>1, <1>4, <1>5, <2>1, PresentFacts DEF Records, Staged
  <1>7. Neat(c1, n) /\ Open(c1, p)
    <2>1. CASE h = None
      BY <1>1, <1>5, <2>1 DEF c1
    <2>2. CASE h # None /\ q = NoPresent
      <3>1. c1 = [consumer EXCEPT !.window[h] = p]
        BY <2>2 DEF c1
      <3>2. Relinks(consumer, [consumer EXCEPT !.window[h] = p], n)
        BY <1>1, <1>4, <1>5, <1>6, <2>2, WindowNeat
      <3>3. Relinks(consumer, c1, n)
        BY <3>1, <3>2
      <3>. QED  BY <1>5, <3>3 DEF Relinks
    <2>3. CASE h # None /\ q # NoPresent /\ q = p
      BY <1>1, <1>5, <2>3 DEF c1
    <2>4. CASE h # None /\ q # NoPresent /\ q # p
      <3>. HIDE DEF q
      <3>1. q \in 1..n /\ Mine(q)
        BY <1>1, <1>6, <2>4, FoundOpen DEF q
      <3>2. PICK d : d = [consumer EXCEPT !.presents[q].final = "Discarded"]
        OBVIOUS
      <3>3. Discards(consumer, d, n, q)
        BY <1>1, <3>1, <3>2, DiscardNeat
      <3>4. Neat(d, n) /\ Open(d, p) /\ d.presents[p] = consumer.presents[p]
        BY <1>5, <2>4, <3>3 DEF Discards
      <3>5. c1 = [d EXCEPT !.window[h] = p]
        BY <2>4, <3>2 DEF c1
      <3>6. Relinks(d, [d EXCEPT !.window[h] = p], n)
        BY <1>4, <1>5, <1>6, <2>4, <3>4, WindowNeat
      <3>7. Relinks(d, c1, n)
        BY <3>5, <3>6
      <3>. QED  BY <1>5, <3>4, <3>7 DEF Relinks
    <2>. QED  BY <2>1, <2>2, <2>3, <2>4
  <1>8. mode \in Modes /\ (mode = c1.presents[p].mode \/ mode \notin {"Unknown", "Legacy_Copy"})
    <2>1. c1.presents[p] \in Records(n)
      BY <1>5, <1>7, PresentFacts
    <2>. QED  BY <2>1 DEF mode, Records, Modes
  <1>9. PICK d : d = [c1 EXCEPT !.presents[p].mode = mode]
    OBVIOUS
  <1>10. Moded(c1, d, n, p, mode)
    BY <1>5, <1>7, <1>8, <1>9, ModedNeat
  <1>. QED  BY <1>2, <1>9, <1>10, BecomesNeat DEF Moded

\* A confirmed one leaves its window.
LEMMA TokenConfirmedNeat ==
    ASSUME NInv, NEW token \in Tokens, TokenConfirmed(token)
    PROVE  Onward
  <1>1. PICK n \in Nat : Neat(consumer, n)
    BY DEF NInv
  <1>2. PICK p : p = consumer.win32k[token]
    OBVIOUS
  <1>3. PICK e : e = consumer.presents[p]
    OBVIOUS
  <1>4. PICK final : final = IF e.final = "Unknown" /\ e.doNotSequence THEN "Discarded" ELSE e.final
    OBVIOUS
  <1>5. PICK c : c = [consumer EXCEPT !.presents[p].final = final]
    OBVIOUS
  <1>6. p # NoPresent
        /\ Becomes(IF e.hwnd = None THEN c ELSE [c EXCEPT !.window[e.hwnd] = NoPresent])
    BY <1>2, <1>3, <1>4, <1>5 DEF TokenConfirmed
  <1>7. p \in 1..n /\ Open(consumer, p)
    BY <1>1, <1>2, <1>6, FoundOpen
  <1>8. e \in Records(n) /\ Waits(consumer, p) /\ ~e.completed
        /\ (TimesAreTold /\ e.final = "Presented" => e.screen)
    <2>1. e \in Presents(n)
      BY <1>1, <1>3, <1>7, PresentFacts
    <2>. QED  BY <1>3, <1>7, <2>1, PresentIsRecord DEF Open
  <1>9. final \in Results /\ e.hwnd \in Hwnds \cup {None}
        /\ (final = "Presented" /\ TimesAreTold => e.screen)
    BY <1>4, <1>8 DEF Records, Results
  <1>10. Edits(consumer, [consumer EXCEPT !.presents[p].final = final], n, p,
         [e EXCEPT !.final = final])
    BY <1>1, <1>3, <1>7, <1>8, <1>9, SetNeat
  <1>11. Neat(c, n)
    BY <1>5, <1>10 DEF Edits
  <1>12. CASE e.hwnd = None
    BY <1>6, <1>11, <1>12, BecomesNeat
  <1>13. CASE e.hwnd # None
    <2>1. Relinks(c, [c EXCEPT !.window[e.hwnd] = NoPresent], n)
      BY <1>9, <1>11, <1>13, UnlinkNeat
    <2>. QED  BY <1>6, <1>13, <2>1, BecomesNeat DEF Relinks
  <1>. QED  BY <1>12, <1>13

\* A retired one was shown.
LEMMA TokenRetiredNeat ==
    ASSUME NInv, NEW token \in Tokens, TokenRetired(token)
    PROVE  Onward
  <1>1. PICK n \in Nat : Neat(consumer, n)
    BY DEF NInv
  <1>2. PICK p, d : /\ p = consumer.win32k[token]
                    /\ d = [consumer EXCEPT !.presents[p].screen = TRUE,
                                            !.presents[p].final = "Presented"]
    OBVIOUS
  <1>3. p # NoPresent /\ Becomes(d)
    BY <1>2 DEF TokenRetired
  <1>4. p \in 1..n /\ Open(consumer, p)
    BY <1>1, <1>2, <1>3, FoundOpen
  <1>5. PICK b \in BOOLEAN : b = TRUE
    OBVIOUS
  <1>6. Shows(consumer, [consumer EXCEPT !.presents[p].screen = b,
                                         !.presents[p].final = "Presented"], n, p)
    BY <1>1, <1>4, <1>5, ShowsNeat
  <1>7. Shows(consumer, d, n, p)
    BY <1>2, <1>5, <1>6
  <1>. QED  BY <1>3, <1>7, BecomesNeat DEF Shows

\* A discarded one is completed, as displayed when it was before.
LEMMA TokenDiscardedNeat ==
    ASSUME NInv, NEW token \in Tokens, TokenDiscarded(token)
    PROVE  Onward
  <1>1. PICK n \in Nat : Neat(consumer, n)
    BY DEF NInv
  <1>2. PICK p : p = consumer.win32k[token]
    OBVIOUS
  <1>3. PICK e : e = consumer.presents[p]
    OBVIOUS
  <1>4. PICK final : final = IF e.final = "Unknown" \/ ~e.screen THEN "Discarded" ELSE e.final
    OBVIOUS
  <1>5. PICK c : c = [consumer EXCEPT !.win32k[token] = NoPresent]
    OBVIOUS
  <1>6. PICK d : d = [c EXCEPT !.presents[p].final = final]
    OBVIOUS
  <1>7. p # NoPresent /\ Becomes(Complete(d, p))
    BY <1>2, <1>3, <1>4, <1>5, <1>6 DEF TokenDiscarded
  <1>8. p \in 1..n /\ Open(consumer, p) /\ e.seenWin32K
    BY <1>1, <1>2, <1>3, <1>7, FoundOpen
  <1>9. e \in Records(n) /\ Staged(e)
    BY <1>1, <1>3, <1>8, PresentFacts
  <1>10. Neat(c, n) /\ Open(c, p) /\ Waits(c, p) /\ c.presents[p] = e
    <2>1. Relinks(consumer, [consumer EXCEPT !.win32k[token] = NoPresent], n)
      BY <1>1, UnlinkNeat
    <2>2. Relinks(consumer, c, n)
      BY <1>5, <2>1
    <2>. QED  BY <1>3, <1>8, <2>2 DEF Relinks, Open
  <1>11. final \in Results /\ (final = "Presented" => e.screen) /\ ~e.completed
    BY <1>4, <1>9, <1>10 DEF Records, Results, Open
  <1>12. PICK f : f = [e EXCEPT !.final = final]
    OBVIOUS
  <1>13. Edits(c, d, n, p, f)
    <2>1. Edits(c, [c EXCEPT !.presents[p].final = final], n, p, [e EXCEPT !.final = final])
      BY <1>8, <1>10, <1>11, SetNeat
    <2>. QED  BY <1>6, <1>12, <2>1
  <1>14. Neat(d, n) /\ Open(d, p) /\ d.presents[p] = f
    BY <1>8, <1>10, <1>13, EditsOpen
  <1>15. Complete(d, p).hung \/ Neat(Complete(d, p), n)
    BY <1>8, <1>14, CompleteNeat
  <1>. QED  BY <1>7, <1>15, BecomesNeat

-----------------------------------------------------------------------------
(* The handlers of DWM's events.                                           *)

\* Several presents start or stop waiting for DWM at once.
Flagged(c, s, b) ==
  [c EXCEPT !.presents = [i \in DOMAIN @ |-> IF Contains(s, i)
                                             THEN [@[i] EXCEPT !.inDwmWaiting = b] ELSE @[i]]]

\* Only that they wait for DWM changes of them.
LEMMA FlagRecords ==
    ASSUME NEW n \in Nat, NEW c, Good(c, n), NEW s, NEW b \in BOOLEAN,
           NEW d, d = Flagged(c, s, b)
    PROVE  /\ Good(d, n) /\ SameLinks(c, d) /\ SameRest(c, d)
           /\ d.bySwapChain = c.bySwapChain /\ d.delivered = c.delivered
           /\ d.waiting = c.waiting
           /\ \A q \in 1..n : /\ Outcome(c.presents[q], d.presents[q])
                              /\ d.presents[q].completed = c.presents[q].completed
                              /\ d.presents[q].final = c.presents[q].final
                              /\ d.presents[q].deps = c.presents[q].deps
                              /\ ~Contains(s, q) => d.presents[q] = c.presents[q]
  <1>1. c \in Consumers(n)
    BY DEF Good
  <1>2. Good(d, n)
    BY FlagGood DEF Flagged
  <1>3. PICK ps : ps = [i \in 1..n |-> IF Contains(s,
        i) THEN [c.presents[i] EXCEPT !.inDwmWaiting = b]
                                       ELSE c.presents[i]]
    OBVIOUS
  <1>4. d = [c EXCEPT !.presents = ps]
    BY <1>1, <1>3 DEF Flagged, Consumers
  <1>5. /\ SameLinks(c, d) /\ SameRest(c, d) /\ d.presents = ps
        /\ d.bySwapChain = c.bySwapChain /\ d.delivered = c.delivered /\ d.waiting = c.waiting
    BY <1>1, <1>4 DEF Consumers, SameLinks, SameRest
  <1>6. ASSUME NEW q \in 1..n
        PROVE  /\ Outcome(c.presents[q], ps[q]) /\ ps[q].completed = c.presents[q].completed
               /\ ps[q].final = c.presents[q].final /\ ps[q].deps = c.presents[q].deps
               /\ ~Contains(s, q) => ps[q] = c.presents[q]
    <2>1. PICK e \in Records(n) : e = c.presents[q]
      <3>1. c.presents[q] \in Presents(n)
        BY PresentTyped
      <3>. QED  BY <3>1, PresentIsRecord
    <2>2. PICK f : f = [e EXCEPT !.inDwmWaiting = b]
      OBVIOUS
    <2>3. Outcome(e, f) /\ f.completed = e.completed /\ f.final = e.final /\ f.deps = e.deps
      BY <2>2 DEF Outcome, Records
    <2>4. Outcome(e, e)
      BY DEF Outcome
    <2>5. ps[q] = IF Contains(s, q) THEN f ELSE e
      BY <1>3, <2>1, <2>2
    <2>. QED  BY <2>1, <2>3, <2>4, <2>5
  <1>. QED  BY <1>2, <1>5, <1>6

\* They may, those that were published and ride too.
LEMMA FlagNeat ==
    ASSUME NEW n \in Nat, NEW c, Neat(c, n), NEW s, NEW b \in BOOLEAN,
           \A q \in 1..n : Contains(s, q) => Mine(q),
           NEW d, d = Flagged(c, s, b)
    PROVE  /\ Neat(d, n) /\ d.waiting = c.waiting /\ SameLinks(c, d)
           /\ \A q \in 1..n : Waits(d, q) <=> Waits(c, q)
  <1>1. Good(c, n) /\ c \in Consumers(n)
    BY DEF Neat, Steady, Good
  <1>2. /\ Good(d, n) /\ SameLinks(c, d) /\ SameRest(c, d)
        /\ d.bySwapChain = c.bySwapChain /\ d.delivered = c.delivered
        /\ d.waiting = c.waiting
        /\ \A q \in 1..n : /\ Outcome(c.presents[q], d.presents[q])
                           /\ d.presents[q].completed = c.presents[q].completed
                           /\ d.presents[q].final = c.presents[q].final
                           /\ d.presents[q].deps = c.presents[q].deps
                           /\ ~Contains(s, q) => d.presents[q] = c.presents[q]
    BY <1>1, FlagRecords
  <1>3. SameQueues(c, d, n)
    BY <1>2 DEF SameQueues, Key, Outcome
  <1>4. \A q \in 1..n : /\ Waits(d, q) <=> Waits(c, q)
                        /\ Out(d, q) <=> Out(c, q)
                        /\ Open(d, q) <=> Open(c, q)
    BY <1>2, <1>3, SameWaits DEF Open
  <1>5. Placed(d, n)
    BY <1>2, <1>4 DEF Neat, Steady, Placed, SameRest
  <1>6. Ringed(d, n)
    <2>1. \A t \in Slots : d.ring[t] = c.ring[t] /\ c.ring[t] \in 0..n
      BY <1>1, <1>2 DEF SameRest, Consumers
    <2>2. \A q \in 0..n : q # NoPresent => q \in 1..n
      BY DEF NoPresent
    <2>3. \A q \in 1..n : d.presents[q].slot \in Slots /\ d.presents[q].slot = c.presents[q].slot
      BY <1>2, PresentTyped DEF Presents, Records, Outcome
    <2>. QED  BY <1>2, <1>4, <2>1, <2>2, <2>3 DEF Neat, Steady, Ringed
  <1>7. Linked(d, n)
    <2>. SUFFICES ASSUME NEW q \in 1..n PROVE Named(d, q) /\ (Unlinked(d, q) \/ Open(d, q))
      BY DEF Linked
    <2>1. Named(c, q) /\ (Unlinked(c, q) \/ Open(c, q))
      BY DEF Neat, Steady, Linked
    <2>2. Unlinked(d, q) <=> Unlinked(c, q)
      BY <1>2, SameNamed
    <2>3. Named(d, q)
      BY <1>2, <2>1 DEF Named, SameLinks, Outcome
    <2>. QED  BY <1>4, <2>1, <2>2, <2>3
  <1>8. AllStaged(d, n)
    BY <1>2 DEF Neat, Steady, AllStaged, Staged, Outcome
  <1>9. Asserted(d)
    BY <1>2 DEF Neat, Steady, Asserted, SameRest
  <1>10. Told(d, n)
    BY <1>2, <1>4 DEF Neat, Told
  <1>11. Lasting(d, n)
    <2>1. Lasting(c, n) /\ DOMAIN c.presents = 1..n /\ DOMAIN d.presents = 1..n
      BY <1>1, <1>2 DEF Neat, Steady, Good, Consumers
    <2>2. \A q \in 1..n : Rides(d, q) => Rides(c, q)
      BY <1>2, <2>1 DEF Rides, SameLinks
    <2>. QED  BY <1>2, <1>4, <2>1, <2>2, LastingKept
  <1>. QED  BY <1>2, <1>4, <1>5, <1>6, <1>7, <1>8, <1>9, <1>10, <1>11 DEF Neat, Steady

\* SCHEDULE_PRESENT_Start: DWM is about to present.
LEMMA DwmSchedulePresentNeat ==
    ASSUME NInv, NEW t \in Threads, Feeds(t, "dwm"), DwmSchedulePresent(t)
    PROVE  Onward
  <1>1. PICK n \in Nat : Neat(consumer, n)
    BY DEF NInv
  <1>2. ProcessOf(t) \in Processes
    BY TrackingAssumption
  <1>3. PICK c : c = [consumer EXCEPT !.dwmProcess = ProcessOf(t)]
    OBVIOUS
  <1>4. Neat(c, n)
    BY <1>1, <1>2, <1>3, OtherNeat
  <1>5. Neat([c EXCEPT !.dwmThread = t], n)
    BY <1>2, <1>4, OtherNeat
  <1>6. Becomes([c EXCEPT !.dwmThread = t])
    BY <1>3 DEF DwmSchedulePresent
  <1>. QED  BY <1>5, <1>6, BecomesNeat

\* FlipChain_Pending, _Complete and _Dirty: DWM picks a blit up.
LEMMA DwmFlipChainNeat ==
    ASSUME NInv, NEW data \in Tokens, NEW hwnd \in Hwnds, On("dwm"), DwmFlipChain(data, hwnd)
    PROVE  Onward
  <1>1. PICK n \in Nat : Neat(consumer, n)
    BY DEF NInv
  <1>2. PICK p : p = consumer.legacyBlit[data]
    OBVIOUS
  <1>3. PICK c : c = [consumer EXCEPT !.window[hwnd] = p]
    OBVIOUS
  <1>4. p # NoPresent /\ Becomes([c EXCEPT !.legacyBlit[data] = NoPresent])
    BY <1>2, <1>3 DEF DwmFlipChain
  <1>5. p \in 1..n /\ p \in 0..n /\ Open(consumer, p)
    BY <1>1, <1>2, <1>4, FoundOpen
  <1>6. Relinks(consumer, [consumer EXCEPT !.window[hwnd] = p], n)
    BY <1>1, <1>5, LinkNeat
  <1>7. Neat(c, n)
    BY <1>3, <1>6 DEF Relinks
  <1>8. Relinks(c, [c EXCEPT !.legacyBlit[data] = NoPresent], n)
    BY <1>7, UnlinkNeat
  <1>. QED  BY <1>4, <1>8, BecomesNeat DEF Relinks

\* GetPresentHistory: DWM picks up the windows' latest copies.
LEMMA DwmGetPresentHistoryNeat ==
    ASSUME NInv, On("dwm"), DwmGetPresentHistory
    PROVE  Onward
  <1>1. PICK n \in Nat : Neat(consumer, n)
    BY DEF NInv
  <1>. DEFINE Copied(h) == /\ consumer.window[h] # NoPresent
                           /\ consumer.presents[consumer.window[h]].mode
                                \in {"Composed_Copy_GPU_GDI", "Composed_Copy_CPU_GDI"}
              S == {h \in Hwnds : Copied(h)}
              picked == SetToSeq(S)
              taken == [i \in DOMAIN picked |-> consumer.window[picked[i]]]
              c1 == [consumer EXCEPT
                       !.waiting = @ \o taken,
                       !.presents = [i \in DOMAIN @ |->
                                       IF Contains(taken, i)
                                       THEN [@[i] EXCEPT !.inDwmWaiting = TRUE] ELSE @[i]],
                       !.window = EmptyMap(Hwnds)]
  <1>2. Becomes(c1)
    BY DEF DwmGetPresentHistory
  <1>3. IsFiniteSet(S)
    <2>1. S \subseteq Hwnds
      OBVIOUS
    <2>. HIDE DEF S
    <2>. QED  BY <2>1, FS_Subset, TrackingAssumption
  <1>4. \A h \in S : consumer.window[h] \in 1..n /\ Mine(consumer.window[h])
    BY <1>1, FoundOpen
  <1>. HIDE DEF S
  <1>5. picked \in Seq(S) /\ DOMAIN picked = 1..Len(picked)
    BY <1>3, PickedTyped
  <1>. HIDE DEF picked
  <1>6. /\ taken \in Seq(1..n) /\ DOMAIN taken = 1..Len(taken)
        /\ \A i \in DOMAIN taken : Mine(taken[i])
    <2>1. Len(picked) \in Nat /\ \A i \in 1..Len(picked) : picked[i] \in S
      BY <1>5, ElementOfSeq
    <2>2. taken \in [1..Len(picked) -> 1..n] /\ \A i \in DOMAIN taken : Mine(taken[i])
      BY <1>4, <1>5, <2>1
    <2>. HIDE DEF taken
    <2>3. taken \in Seq(1..n)
      BY <2>1, <2>2, SeqDef
    <2>. QED  BY <2>2, <2>3, LenProperties
  <1>. HIDE DEF taken
  <1>7. PICK w : w = consumer.waiting \o taken
    OBVIOUS
  <1>8. w \in Seq(1..n) /\ \A q \in ToSet(w) : Mine(q)
    <2>1. consumer.waiting \in Seq(1..n)
      BY <1>1 DEF Neat, Steady, Good, Consumers
    <2>2. \A q \in ToSet(consumer.waiting) : Mine(q)
      BY <1>1, RidersMine
    <2>3. /\ w \in Seq(1..n)
          /\ \A q \in ToSet(w) : q \in ToSet(consumer.waiting) \/ q \in ToSet(taken)
      <3>1. /\ DOMAIN taken = 1..Len(taken) /\ Len(taken) \in Nat
            /\ DOMAIN consumer.waiting = 1..Len(consumer.waiting) /\ Len(consumer.waiting) \in Nat
        BY <1>6, <2>1, LenProperties
      <3>2. w \in Seq(1..n) /\ Len(w) = Len(consumer.waiting) + Len(taken)
            /\ \A i \in 1..Len(w) : w[i] = IF i <= Len(consumer.waiting) THEN consumer.waiting[i]
                                          ELSE taken[i - Len(consumer.waiting)]
        BY <1>6, <1>7, <2>1
      <3>3. DOMAIN w = 1..Len(w)
        BY <3>2, LenProperties
      <3>4. ASSUME NEW i \in 1..Len(w)
            PROVE  w[i] \in ToSet(consumer.waiting) \/ w[i] \in ToSet(taken)
        <4>1. CASE i <= Len(consumer.waiting)
          <5>1. i \in DOMAIN consumer.waiting
            BY <3>1, <3>2, <4>1
          <5>2. w[i] = consumer.waiting[i]
            BY <3>2, <4>1
          <5>. QED  BY <5>1, <5>2 DEF ToSet
        <4>2. CASE ~(i <= Len(consumer.waiting))
          <5>1. i - Len(consumer.waiting) \in 1..Len(taken)
            BY <3>1, <3>2, <4>2
          <5>. QED  BY <3>1, <3>2, <4>2, <5>1 DEF ToSet
        <4>. QED  BY <4>1, <4>2
      <3>. QED  BY <3>2, <3>3, <3>4 DEF ToSet
    <2>4. \A q \in ToSet(taken) : Mine(q)
      BY <1>6 DEF ToSet
    <2>. QED  BY <2>2, <2>3, <2>4
  <1>10. PICK d : d = [consumer EXCEPT !.waiting = w]
    OBVIOUS
  <1>11. Neat(d, n) /\ d.presents = consumer.presents
    <2>1. Relinks(consumer, [consumer EXCEPT !.waiting = w], n)
      BY <1>1, <1>8, OtherNeat
    <2>. QED  BY <1>10, <2>1 DEF Relinks
  <1>12. PICK b \in BOOLEAN : b = TRUE
    OBVIOUS
  <1>13. PICK f : f = Flagged(d, taken, b)
    OBVIOUS
  <1>14. Neat(f, n)
    <2>1. \A q \in 1..n : Contains(taken, q) => Mine(q)
      BY <1>6 DEF Contains
    <2>. QED  BY <1>11, <1>13, <2>1, FlagNeat
  <1>16. Relinks(f, [f EXCEPT !.window = EmptyMap(Hwnds)], n)
    BY <1>14, OtherNeat
  <1>17. c1 = [f EXCEPT !.window = EmptyMap(Hwnds)]
    BY <1>7, <1>10, <1>11, <1>12, <1>13 DEF Flagged
  <1>. HIDE DEF c1
  <1>. QED  BY <1>2, <1>16, <1>17, BecomesNeat DEF Relinks

\* The flip of DWM's own present takes along what waits for DWM.
LEMMA TakeAlongNeat ==
    ASSUME NEW n \in Nat, NEW c, Neat(c, n), NEW p \in 1..n, Waits(c, p),
           NEW b \in BOOLEAN, NEW d, d = Flagged(c, c.waiting, b)
    PROVE  Neat([d EXCEPT !.presents[p].deps = c.waiting, !.waiting = c.presents[p].deps,
                          !.dwmThread = None], n)
  <1>2. PICK w, v : w = c.waiting /\ v = c.presents[p].deps
    OBVIOUS
  <1>3. /\ w \in Seq(1..n) /\ v \in Seq(1..n)
        /\ \A q \in ToSet(w) : Mine(q)
        /\ \A q \in ToSet(v) : Mine(q)
    <2>1. w \in Seq(1..n) /\ v \in Seq(1..n)
      BY <1>2, PresentFacts DEF Consumers, Records
    <2>. QED  BY <1>2, <2>1, RidersMine
  <1>1. Neat(d, n) /\ Waits(d, p)
    <2>1. \A q \in 1..n : Contains(c.waiting, q) => Mine(q)
      <3>1. DOMAIN w = 1..Len(w)
        BY <1>3, LenProperties
      <3>. QED  BY <1>2, <1>3, <3>1 DEF Contains, ToSet
    <2>. QED  BY <2>1, FlagNeat
  <1>4. PICK f : f = [d EXCEPT !.presents[p].deps = w]
    OBVIOUS
  <1>5. Edits(d, [d EXCEPT !.presents[p].deps = w], n, p, [d.presents[p] EXCEPT !.deps = w])
    BY <1>1, <1>3, SetNeat
  <1>6. Neat(f, n)
    BY <1>4, <1>5 DEF Edits
  <1>7. PICK g : g = [f EXCEPT !.waiting = v]
    OBVIOUS
  <1>8. Neat(g, n)
    <2>1. Relinks(f, [f EXCEPT !.waiting = v], n)
      BY <1>3, <1>6, OtherNeat
    <2>. QED  BY <1>7, <2>1 DEF Relinks
  <1>9. Neat([g EXCEPT !.dwmThread = None], n)
    BY <1>8, OtherNeat
  <1>10. [g EXCEPT !.dwmThread = None]
           = [d EXCEPT !.presents[p].deps = w, !.waiting = v, !.dwmThread = None]
    BY <1>4, <1>7
  <1>. QED  BY <1>2, <1>9, <1>10

\* HandleDxgkFlip: a flip that is the first of its present.
LEMMA DxgkFlipNeat ==
    ASSUME NInv, NEW t \in Threads, NEW mmio \in BOOLEAN, Feeds(t, "flip"), DxgkFlip(t, mmio)
    PROVE  Onward
  <1>1. LooksUp(t)
    BY FeedsFind DEF Finders
  <1>2. PICK n0 \in Nat : Neat(consumer, n0)
    BY DEF NInv
  <1>. DEFINE c == FindFresh(consumer, t, "Flip").c
              p == FindFresh(consumer, t, "Flip").p
              c1 == [c EXCEPT !.presents[p].mmio = mmio, !.presents[p].mode = "Legacy_Flip"]
              unflagged == [i \in DOMAIN c1.presents |->
                              IF Contains(c1.waiting, i)
                              THEN [c1.presents[i] EXCEPT !.inDwmWaiting = FALSE]
                              ELSE c1.presents[i]]
              c2 == [c1 EXCEPT !.presents = [unflagged EXCEPT ![p].deps = c1.waiting],
                               !.waiting = c1.presents[p].deps,
                               !.dwmThread = None]
  <1>3. Becomes(IF p = NoPresent \/ c.presents[p].mode # "Unknown" THEN c
                ELSE IF t = c1.dwmThread THEN c2 ELSE c1)
    BY DEF DxgkFlip
  <1>4. PICK n \in Nat : Neat(c, n) /\ p \in 0..n /\ (p # NoPresent => Open(c, p))
    BY <1>1, <1>2, FindFreshFinds DEF Finds
  <1>. HIDE DEF c, p
  <1>5. CASE p = NoPresent
    BY <1>3, <1>4, <1>5, BecomesNeat
  <1>6. CASE p # NoPresent
    <2>1. p \in 1..n /\ Open(c, p) /\ Waits(c, p)
      BY <1>4, <1>6 DEF NoPresent, Open
    <2>2. PICK x : x = [c EXCEPT !.presents[p].mmio = mmio]
      OBVIOUS
    <2>3. Neat(x, n) /\ Open(x, p)
      <3>1. PICK f : f = [c.presents[p] EXCEPT !.mmio = mmio]
        OBVIOUS
      <3>2. Edits(c, [c EXCEPT !.presents[p].mmio = mmio], n, p,
            [c.presents[p] EXCEPT !.mmio = mmio])
        BY <1>4, <2>1, SetNeat
      <3>3. Edits(c, x, n, p, f)
        BY <2>2, <3>1, <3>2
      <3>. QED  BY <2>1, <3>3, EditsOpen
    <2>4. PICK m \in Modes : m = "Legacy_Flip"
      BY DEF Modes
    <2>5. Moded(x, [x EXCEPT !.presents[p].mode = m], n, p, m)
      BY <2>1, <2>3, <2>4, ModedNeat
    <2>6. c1 = [x EXCEPT !.presents[p].mode = m]
      BY <2>2, <2>4
    <2>. HIDE DEF c1
    <2>7. Neat(c1, n) /\ Waits(c1, p)
      BY <2>5, <2>6 DEF Moded
    <2>8. CASE t = c1.dwmThread
      <3>2. PICK b \in BOOLEAN : b = FALSE
        OBVIOUS
      <3>3. PICK d : d = Flagged(c1, c1.waiting, b)
        OBVIOUS
      <3>4. Neat([d EXCEPT !.presents[p].deps = c1.waiting, !.waiting = c1.presents[p].deps,
                           !.dwmThread = None], n)
        BY <2>1, <2>7, <3>3, TakeAlongNeat
      <3>5. d = [c1 EXCEPT !.presents = unflagged]
        BY <3>2, <3>3 DEF Flagged
      <3>6. c2 = [d EXCEPT !.presents[p].deps = c1.waiting, !.waiting = c1.presents[p].deps,
                           !.dwmThread = None]
        <4>. HIDE DEF unflagged
        <4>1. c1 \in Consumers(n)
          BY <2>1, <2>7, PresentFacts
        <4>2. PICK f : f = [d EXCEPT !.presents[p].deps = c1.waiting]
          OBVIOUS
        <4>3. f = [c1 EXCEPT !.presents = [unflagged EXCEPT ![p].deps = c1.waiting]]
          BY <3>5, <4>1, <4>2 DEF Consumers
        <4>. QED  BY <4>2, <4>3
      <3>. HIDE DEF c2
      <3>. QED  BY <1>3, <1>4, <2>8, <3>4, <3>6, <2>7, BecomesNeat
    <2>9. CASE t # c1.dwmThread
      BY <1>3, <1>4, <2>7, <2>9, BecomesNeat
    <2>. QED  BY <2>8, <2>9
  <1>. QED  BY <1>5, <1>6

-----------------------------------------------------------------------------
(* The invariant, and what follows from it.                                *)

\* The events of the graphics kernel, of Win32K and of DWM that name a thread keep it,
LEMMA KernelNeat ==
    ASSUME NInv, NEW t \in Threads, Kernel(t)
    PROVE  Onward
  <1>1. CASE Feeds(t, "flip") /\ \E mmio \in BOOLEAN : DxgkFlip(t, mmio)
    BY <1>1, DxgkFlipNeat
  <1>2. CASE Feeds(t, "blt") /\ \E hwnd \in Hwnds, redirected \in BOOLEAN : DxgkBlt(t, hwnd,
             redirected)
    BY <1>2, DxgkBltNeat
  <1>3. CASE DxgkBltCancel(t)
    BY <1>3, DxgkBltCancelNeat
  <1>4. CASE \E s \in Sequences_, x \in Contexts, present \in BOOLEAN :
               DxgkQueueSubmit(t, s, x, present)
    BY <1>4, DxgkQueueSubmitNeat DEF Sequences_
  <1>5. CASE /\ Feeds(t, "history")
             /\ \E token \in Tokens_, data \in Tokens_ \cup {None}, atlas \in BOOLEAN :
                  DxgkSubmitPresentHistory(t, token, data, atlas)
    BY <1>5, DxgkSubmitPresentHistoryNeat DEF Tokens_
  <1>6. CASE \E h \in Hwnds \cup {None} : DxgkPresentInfo(t, h)
    BY <1>6, DxgkPresentInfoNeat
  <1>7. CASE Feeds(t, "win32k") /\ \E token \in Tokens_ : TokenCompositionSurfaceObject(t, token)
    BY <1>7, TokenCompositionSurfaceObjectNeat DEF Tokens_
  <1>8. CASE Feeds(t, "dwm") /\ DwmSchedulePresent(t)
    BY <1>8, DwmSchedulePresentNeat
  <1>. QED  BY <1>1, <1>2, <1>3, <1>4, <1>5, <1>6, <1>7, <1>8 DEF Kernel

\* those that name a present by a key,
LEMMA KeyedNeat ==
    ASSUME NInv, Keyed
    PROVE  Onward
  <1>1. ASSUME NEW s \in Sequences_,
               \/ DxgkQueueComplete(s) \/ DxgkSyncDPC(s)
               \/ \E immediate \in BOOLEAN : DxgkMMIOFlip(s, immediate)
               \/ \E status \in trace.statuses : DxgkMMIOFlipMPO(s, status)
        PROVE  Onward
    <2>1. s \in SubmitSeqs
      BY DEF Sequences_
    <2>. QED  BY <1>1, <2>1, DxgkQueueCompleteNeat, DxgkSyncDPCNeat, DxgkMMIOFlipNeat,
                 DxgkMMIOFlipMPONeat
  <1>2. ASSUME NEW token \in Tokens_,
               \/ DxgkPropagatePresentHistory(token) \/ TokenStateChanged(token)
               \/ On("dwm") /\ \E hwnd \in Hwnds : DwmFlipChain(token, hwnd)
        PROVE  Onward
    <2>1. token \in Tokens
      BY DEF Tokens_
    <2>2. CASE DxgkPropagatePresentHistory(token)
      BY <2>1, <2>2, DxgkPropagatePresentHistoryNeat
    <2>3. CASE TokenStateChanged(token)
      BY <2>1, <2>3, TokenInFrameNeat, TokenConfirmedNeat, TokenRetiredNeat, TokenDiscardedNeat
         DEF TokenStateChanged
    <2>4. CASE On("dwm") /\ \E hwnd \in Hwnds : DwmFlipChain(token, hwnd)
      BY <2>1, <2>4, DwmFlipChainNeat
    <2>. QED  BY <1>2, <2>2, <2>3, <2>4
  <1>3. CASE On("dwm") /\ DwmGetPresentHistory
    BY <1>3, DwmGetPresentHistoryNeat
  <1>. QED  BY <1>1, <1>2, <1>3 DEF Keyed

\* and so all of them keep it and leave what was published alone.
LEMMA NextNeat == NInv /\ [Next]_vars => Onward
  <1>. SUFFICES ASSUME NInv, [Next]_vars PROVE Onward
    OBVIOUS
  <1>1. CASE UNCHANGED vars
    <2>1. PICK n \in Nat : Neat(consumer, n)
      BY DEF NInv
    <2>2. consumer' = consumer /\ trace' = trace
      BY <1>1 DEF vars
    <2>3. Left(consumer, n)
      BY <2>1, NeatLeft
    <2>4. PICK d : d = consumer
      OBVIOUS
    <2>5. Neat(consumer, n)'
      BY <2>2, <2>3, <2>4, LeftNeat
    <2>6. PublishedStay
      BY <2>2 DEF PublishedStay
    <2>. QED  BY <2>2, <2>5, <2>6 DEF NInv, OwnThreads, Onward
  <1>2. ASSUME NEW t \in Threads, Runtime_(t) PROVE Onward
    BY <1>2, PresentStartNeat, PresentStopNeat, PresentTestNeat DEF Runtime_
  <1>3. ASSUME NEW t \in Threads, Kernel(t) PROVE Onward
    BY <1>3, KernelNeat
  <1>4. CASE Keyed
    BY <1>4, KeyedNeat
  <1>. QED  BY <1>1, <1>2, <1>3, <1>4 DEF Next

\* Where presents are looked up by the thread that makes them the invariant always holds.
LEMMA NeatAlways == Spec /\ OwnThreads(trace) => []NInv
  <1>1. Init /\ OwnThreads(trace) => NInv
    BY InitNeat
  <1>2. NInv /\ [Next]_vars => NInv'
    BY NextNeat DEF Onward
  <1>. QED  BY <1>1, <1>2, PTL DEF Spec

\* What was delivered is what a look into the vector of delivered presents finds.
LEMMA DeliveredIsOut ==
    ASSUME NEW n \in Nat, Neat(consumer, n)
    PROVE  /\ Ids = 1..n /\ Delivered = {p \in 1..n : Out(consumer, p)}
           /\ InFlight = {p \in 1..n : Waits(consumer, p)}
           /\ DOMAIN consumer.delivered = 1..Len(consumer.delivered)
  <1>1. consumer \in Consumers(n)
    BY DEF Neat, Steady, Good
  <1>2. Ids = 1..n
    BY <1>1, PresentsLength DEF Ids
  <1>3. consumer.delivered \in Seq(1..n)
    BY <1>1 DEF Consumers
  <1>4. /\ DOMAIN consumer.delivered = 1..Len(consumer.delivered)
        /\ \A i \in 1..Len(consumer.delivered) : consumer.delivered[i] \in 1..n
    BY <1>3, LenProperties, ElementOfSeq
  <1>5. Delivered = {p \in 1..n : Out(consumer, p)}
    BY <1>4 DEF Delivered, ToSet, Out, Contains
  <1>6. InFlight = {p \in 1..n : Waits(consumer, p)}
    BY <1>2 DEF InFlight, Waits
  <1>. QED  BY <1>2, <1>4, <1>5, <1>6

\* Whatever events come and in whatever order, every present that was ever made waits in
\* its swap chain, was delivered or is lost, exactly one of the three and once, and the
\* ring of all presents knows exactly those that wait.
THEOREM AllAccountedFor == Spec /\ OwnThreads(trace) => []EveryPresentAccountedFor
  <1>1. NInv => EveryPresentAccountedFor
    <2>. SUFFICES ASSUME NInv PROVE EveryPresentAccountedFor
      OBVIOUS
    <2>1. PICK n \in Nat : Neat(consumer, n)
      BY DEF NInv
    <2>2. /\ Ids = 1..n /\ Delivered = {p \in 1..n : Out(consumer, p)}
          /\ InFlight = {p \in 1..n : Waits(consumer, p)}
          /\ DOMAIN consumer.delivered = 1..Len(consumer.delivered)
      BY <2>1, DeliveredIsOut
    <2>3. /\ Good(consumer, n) /\ consumer \in Consumers(n) /\ Order(consumer)
          /\ Placed(consumer, n) /\ Ringed(consumer, n) /\ Told(consumer, n)
      BY <2>1 DEF Neat, Steady, Good
    <2>4. Ids = InFlight \cup Published /\ consumer.lost \subseteq Ids
      BY <2>2, <2>3 DEF Placed, Published
    <2>5. InFlight \cap Published = {} /\ Delivered \cap consumer.lost = {}
      <3>1. \A p \in 1..n : Waits(consumer, p) => ~Out(consumer, p)
        BY <2>3, WaitsOrOut
      <3>. QED  BY <2>2, <2>3, <3>1 DEF Placed, Published
    <2>6. IsInjective(consumer.delivered)
      <3>1. \A i \in 1..Len(consumer.delivered) : consumer.delivered[i] \in 1..n
        BY <2>3, ElementOfSeq DEF Consumers
      <3>2. ASSUME NEW i \in 1..Len(consumer.delivered), NEW j \in 1..Len(consumer.delivered),
                   consumer.delivered[i] = consumer.delivered[j], i < j
            PROVE  FALSE
        <4>1. consumer.delivered[i] < consumer.delivered[j]
          BY <2>3, <3>2 DEF Order
        <4>. QED  BY <3>1, <3>2, <4>1
      <3>3. Len(consumer.delivered) \in Nat
        BY <2>3, LenProperties DEF Consumers
      <3>. QED  BY <2>2, <3>2, <3>3 DEF IsInjective
    <2>7. ASSUME NEW k \in DOMAIN consumer.bySwapChain
          PROVE  IsInjective(consumer.bySwapChain[k])
      <3>1. PICK s \in Seq(1..n) : s = consumer.bySwapChain[k] /\ Increasing(s)
        BY <2>3 DEF Consumers, Order
      <3>2. DOMAIN s = 1..Len(s) /\ Len(s) \in Nat /\ \A i \in 1..Len(s) : s[i] \in 1..n
        BY LenProperties, ElementOfSeq
      <3>3. \A i, j \in 1..Len(s) : s[i] = s[j] => i = j
        BY <3>1, <3>2 DEF Increasing
      <3>. QED  BY <3>1, <3>2, <3>3 DEF IsInjective
    <2>8. \A p \in InFlight :
            consumer.presents[p].completed => consumer.presents[p].final # "Presented"
      BY <2>2, <2>3 DEF Told
    <2>9. /\ {consumer.ring[s] : s \in DOMAIN consumer.ring} \ {NoPresent} = InFlight
          /\ \A p \in InFlight : consumer.ring[consumer.presents[p].slot] = p
      <3>1. DOMAIN consumer.ring = Slots /\ \A s \in Slots : consumer.ring[s] \in 0..n
        BY <2>3 DEF Consumers
      <3>2. \A p \in 1..n : p # NoPresent /\ consumer.presents[p].slot \in Slots
        BY <2>3, PresentTyped DEF Presents, Records, NoPresent
      <3>3. \A p \in 0..n : p # NoPresent => p \in 1..n
        BY DEF NoPresent
      <3>. QED  BY <2>2, <2>3, <3>1, <3>2, <3>3 DEF Ringed
    <2>. QED  BY <2>4, <2>5, <2>6, <2>7, <2>8, <2>9 DEF EveryPresentAccountedFor
  <1>2. Spec /\ OwnThreads(trace) => []NInv
    BY NeatAlways
  <1>. QED  BY <1>1, <1>2, PTL

\* Whatever events come and in whatever order, of the asserts only those of the flip
\* handler, of the completion and of the runtime's can fail: a present that was stuck and
\* is looked up again has none of the marks its handler asserts are not set.
THEOREM AssertsKept == Spec /\ OwnThreads(trace) => []AssertsHold
  <1>1. NInv => AssertsHold
    BY DEF NInv, Neat, Steady, Asserted, AssertsHold
  <1>2. Spec /\ OwnThreads(trace) => []NInv
    BY NeatAlways
  <1>. QED  BY <1>1, <1>2, PTL

\* Whatever events come and in whatever order, DWM's among them: a present that was
\* delivered or given up is changed by no later event, except that the consumer takes
\* its keys back, unless it rides with DWM when the event comes (it waits for DWM, is the
\* last that was seen in a window, or is a dependent of another present); and one that
\* does not ride any more is never taken along again, so it is final from then on.
THEOREM PublishedIsLeftAlone == Spec /\ OwnThreads(trace) => [][PublishedStay]_vars
  <1>1. NInv /\ [Next]_vars => [PublishedStay]_vars
    BY NextNeat DEF Onward
  <1>2. Spec /\ OwnThreads(trace) => []NInv
    BY NeatAlways
  <1>. QED  BY <1>1, <1>2, PTL DEF Spec
=============================================================================
