-------------------------- MODULE SwapChainHistory --------------------------
(***************************************************************************)
(* SwapChainData (PresentMon.hpp): the ring of the last presents of one    *)
(* swap chain, as OutputThread.cpp's AddPresents fills it, CsvOutput.cpp's *)
(* UpdateCsv reads it for a row, and PruneHistory shortens it to two       *)
(* seconds when the console shows full statistics.                         *)
(*                                                                         *)
(* A present is its place in the swap chain's life, the QpcTime at which   *)
(* it started and whether it reached the screen (FinalState Presented).    *)
(* Presents of one swap chain arrive in the order they started, which is   *)
(* what DeliveredInOrder says of PMTraceConsumer; each is added at a time  *)
(* that is its QpcTime.  mVerbosity is above Simple.                       *)
(*                                                                         *)
(* One thread, the output thread, does all of it; what is hard is that     *)
(* mNextPresentIndex, mPresentHistoryCount and mLastDisplayedPresentIndex  *)
(* are three unbounded or capped numbers that must agree on which of the   *)
(* MaxCount slots mean what.                                               *)
(***************************************************************************)
EXTENDS Integers

CONSTANTS
    MaxCount,       \* PRESENT_HISTORY_MAX_COUNT, 120 in the code
    Window,         \* how much history PruneHistory keeps, 2 s in the code
    Full,           \* TRUE: ConsoleOutput::Full, so PruneHistory runs
    ExcludeDropped, \* TRUE: -exclude_dropped
    MaxPresents,    \* bound on the presents of one chain's life
    MaxTime         \* bound on the clock

ASSUME RingAssumption ==
    /\ MaxCount \in Nat \ {0}
    /\ Window \in Nat
    /\ Full \in BOOLEAN
    /\ ExcludeDropped \in BOOLEAN
    /\ MaxPresents \in Nat
    /\ MaxTime \in Nat

VARIABLES
    history,        \* mPresentHistory
    count,          \* mPresentHistoryCount
    next,           \* mNextPresentIndex
    lastDisplayed,  \* mLastDisplayedPresentIndex, 0 when invalid
    now,            \* the QPC time of the newest present of the trace
    newest,         \* observer: index of the newest displayed present, 0 if none
    row             \* observer: the last row UpdateCsv wrote

historyVars == <<history, count, next, lastDisplayed, now, newest, row>>

Slots == 0 .. MaxCount - 1
Present == [index : Nat, qpc : Nat, displayed : BOOLEAN]
NoPresent == [index |-> 0, qpc |-> 0, displayed |-> FALSE]
NoRow == [index |-> 0, previous |-> 0, reference |-> NoPresent, newest |-> 0]
Row == [index : Nat, previous : Nat, reference : Present, newest : Nat]

Slot(index) == index % MaxCount

\* The indices the history still covers.
Retained == (next - count) .. (next - 1)

\* AddPresents, on the first present of a swap chain.
HistoryInit ==
    /\ history = [s \in Slots |-> NoPresent]
    /\ count = 0
    /\ next = 1
    /\ lastDisplayed = 0
    /\ now = 0
    /\ newest = 0
    /\ row = NoRow

\* Fault: the row is written when the present is already in the ring.
UpdateCsv_Late(displayed) ==
    IF (ExcludeDropped /\ ~displayed) \/ count = 0
    THEN row' = row
    ELSE row' = [index |-> next, previous |-> next, newest |-> newest,
                 reference |-> NoPresent]

\* UpdateCsv, run before the chain takes the present in: the row compares
\* the present with the slot before mNextPresentIndex and, if it was
\* displayed, with the slot of mLastDisplayedPresentIndex.
UpdateCsv(displayed) ==
    IF (ExcludeDropped /\ ~displayed) \/ count = 0
    THEN row' = row
    ELSE row' = [index |-> next,
                 previous |-> history[Slot(next - 1)].index,
                 reference |-> IF displayed /\ lastDisplayed > 0
                               THEN history[Slot(lastDisplayed)]
                               ELSE NoPresent,
                 newest |-> newest]

\* Fault: mNextPresentIndex is counted up before it is used.
Store_After(displayed) ==
    history' = [history EXCEPT ![Slot(next + 1)] =
                  [index |-> next, qpc |-> now, displayed |-> displayed]]

\* AddPresents: the present takes the slot of mNextPresentIndex.
Store(displayed) ==
    history' = [history EXCEPT ![Slot(next)] =
                  [index |-> next, qpc |-> now, displayed |-> displayed]]

\* AddPresents: the index of the last displayed present.  The reset is there
\* as the code has it; it compares indices, which never repeat.
Mark(displayed) ==
    lastDisplayed' = IF displayed THEN next
                     ELSE IF lastDisplayed = next THEN 0
                     ELSE lastDisplayed

\* AddPresents: one present more, in a history of at most MaxCount.
Advance ==
    /\ next' = next + 1
    /\ count' = IF count < MaxCount THEN count + 1 ELSE count

\* AddPresents for one present.
AddToHistory(displayed, recording) ==
    /\ next <= MaxPresents
    /\ IF recording THEN UpdateCsv(displayed) ELSE row' = row
    /\ Store(displayed)
    /\ Mark(displayed)
    /\ Advance
    /\ newest' = IF displayed THEN next ELSE newest
    /\ UNCHANGED now

\* PruneHistory, at the end of a pass whose last event has QPC time latest:
\* presents leave from the oldest on until one is young enough.
TooOld(index, latest) == history[Slot(index)].qpc < latest - Window

Forgotten(kept) == (next - count) .. (next - kept - 1)

\* Fault: the index of a pruned present is left behind.
Unmark_Never(kept) == UNCHANGED lastDisplayed

\* The index of the last displayed present is reset when it is pruned.
Unmark(kept) ==
    lastDisplayed' = IF lastDisplayed \in Forgotten(kept) THEN 0
                     ELSE lastDisplayed

\* Fault: the loop drops one present more than it tested.
KeptBy_OneMore(kept, latest) ==
    /\ \A i \in Forgotten(kept + 1) : TooOld(i, latest)
    /\ kept > 0 => ~TooOld(next - kept, latest)

\* How many presents are left when the loop over the old ones ends.
KeptBy(kept, latest) ==
    /\ \A i \in Forgotten(kept) : TooOld(i, latest)
    /\ kept > 0 => ~TooOld(next - kept, latest)

Prune(latest) ==
    /\ Full
    /\ latest >= Window
    /\ \E kept \in 0 .. count :
         /\ KeptBy(kept, latest)
         /\ count' = kept
         /\ Unmark(kept)
    /\ UNCHANGED <<history, next, now, newest, row>>

\* HandleTerminatedProcess erases the process with its chains; a present
\* that comes later finds a new one.
Forget ==
    /\ history' = [s \in Slots |-> NoPresent]
    /\ count' = 0
    /\ next' = 1
    /\ lastDisplayed' = 0
    /\ newest' = 0
    /\ row' = NoRow
    /\ UNCHANGED now

\* The traced system runs on.
Elapse ==
    /\ now < MaxTime
    /\ now' = now + 1
    /\ UNCHANGED <<history, count, next, lastDisplayed, newest, row>>

HistoryNext ==
    \/ \E displayed, recording \in BOOLEAN : AddToHistory(displayed, recording)
    \/ \E latest \in 0 .. now : Prune(latest)
    \/ Forget
    \/ Elapse

HistorySpec == HistoryInit /\ [][HistoryNext]_historyVars

-----------------------------------------------------------------------------
\* Every variable has its type; the ring has never more presents than slots,
\* nor more than the chain has seen.
HistoryTypeOK ==
    /\ history \in [Slots -> Present]
    /\ count \in 0 .. MaxCount
    /\ next \in Nat \ {0}
    /\ count < next
    /\ lastDisplayed \in Nat
    /\ lastDisplayed < next
    /\ now \in Nat
    /\ newest \in Nat
    /\ row \in Row

\* The last mPresentHistoryCount slots before mNextPresentIndex hold exactly
\* the last presents of the chain in order, across the wrap of the ring and
\* whatever was pruned: what UpdateCsv takes for the previous present and
\* UpdateConsole averages over is what it means.
HistoryIsContiguous ==
    \A i \in Retained : history[Slot(i)].index = i

\* mLastDisplayedPresentIndex, while its slot cannot have been reused, names
\* a displayed present that is still in the history: PruneHistory leaves no
\* index behind for what it has dropped.
LastDisplayedIsRetained ==
    (lastDisplayed > 0 /\ next - lastDisplayed <= MaxCount) =>
        /\ lastDisplayed \in Retained
        /\ history[Slot(lastDisplayed)].displayed

\* No present in the history was displayed after the one
\* mLastDisplayedPresentIndex names.
LastDisplayedIsNewest ==
    \A i \in Retained : history[Slot(i)].displayed => i <= lastDisplayed

\* A pass of PruneHistory drops exactly the presents older than the window:
\* the loop stops at the first young one, which is right only as long as the
\* ring is in time order.
PruneIsExact ==
    [][\A latest \in 0 .. now : Prune(latest) =>
         \A i \in Retained : i \in Retained' <=> ~TooOld(i, latest)]_historyVars

\* A row's previous present is the one right before it in the swap chain,
\* and while fewer than MaxCount presents were dropped since the last
\* displayed one, its display change is measured from that one.
RowsAreGrounded ==
    row # NoRow =>
        /\ row.previous = row.index - 1
        /\ row.reference # NoPresent /\ row.index - row.newest <= MaxCount =>
               row.reference.displayed /\ row.reference.index = row.newest

\* What README.md says of MsBetweenDisplayChange, "How long the previous
\* frame was displayed before this Present() was displayed": it is measured
\* from a present that was displayed.
DisplayChangeIsFromDisplayed ==
    row.reference # NoPresent => row.reference.displayed
=============================================================================
