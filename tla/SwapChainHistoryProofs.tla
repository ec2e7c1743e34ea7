----------------------- MODULE SwapChainHistoryProofs -----------------------
(***************************************************************************)
(* SwapChainHistory for every ring size, window and trace: the ring holds  *)
(* what its three counters say, and a row of the CSV compares the presents *)
(* it means to compare.  The strengthening adds to the checked invariants  *)
(* that the ring is in time order (PruneHistory's loop stops at the first  *)
(* young present) and that mLastDisplayedPresentIndex, when it is set, is  *)
(* the newest displayed present's.                                         *)
(***************************************************************************)
EXTENDS SwapChainHistory, TLAPS

\* Presents are stored in the order they started, none later than now.
TimeOrdered ==
    /\ \A i, j \in Retained :
         i <= j => history[Slot(i)].qpc <= history[Slot(j)].qpc
    /\ \A i \in Retained : history[Slot(i)].qpc <= now

NewestAgrees == lastDisplayed \in {0, newest}

IInv ==
    /\ HistoryTypeOK
    /\ HistoryIsContiguous
    /\ LastDisplayedIsRetained
    /\ LastDisplayedIsNewest
    /\ TimeOrdered
    /\ NewestAgrees
    /\ RowsAreGrounded

-----------------------------------------------------------------------------
(* Slots of the ring.                                                      *)

\* Division with remainder.
LEMMA DivMod ==
    ASSUME NEW a \in Int, NEW m \in Nat \ {0}
    PROVE  /\ a \div m \in Int
           /\ a % m \in 0 .. (m - 1)
           /\ a = m * (a \div m) + (a % m)
  BY Z3

\* No multiple of m lies strictly between 0 and m.
LEMMA NoMultipleBetween ==
    ASSUME NEW q \in Int, NEW m \in Nat \ {0}, m * q > 0, m * q < m
    PROVE  FALSE
  <1>1. CASE q <= 0
    BY <1>1, Z3
  <1>2. CASE q >= 1
    BY <1>2, Z3
  <1>. QED  BY <1>1, <1>2

\* Every index has a slot, and two indices less than a ring apart have two.
LEMMA SlotsDiffer ==
    /\ \A i \in Int : Slot(i) \in Slots
    /\ \A i, j \in Int : i < j /\ j - i < MaxCount => Slot(i) # Slot(j)
  <1>. USE RingAssumption DEF Slot, Slots
  <1>1. \A i \in Int : Slot(i) \in Slots
    BY DivMod
  <1>2. ASSUME NEW i \in Int, NEW j \in Int, i < j, j - i < MaxCount,
               Slot(i) = Slot(j)
        PROVE  FALSE
    <2>. DEFINE q == j \div MaxCount
                p == i \div MaxCount
    <2>1. /\ q \in Int /\ p \in Int
          /\ j = MaxCount * q + (j % MaxCount)
          /\ i = MaxCount * p + (i % MaxCount)
          /\ j % MaxCount \in Int
      BY DivMod
    <2>2. i % MaxCount = j % MaxCount
      BY <1>2
    <2>. HIDE DEF q, p
    <2>3. j - i = MaxCount * (q - p)
      BY <2>1, <2>2, Z3
    <2>4. MaxCount * (q - p) > 0 /\ MaxCount * (q - p) < MaxCount
      BY <1>2, <2>3
    <2>. QED  BY <2>1, <2>4, NoMultipleBetween
  <1>. QED  BY <1>1, <1>2

\* AddToHistory leaves every other present that stays in the history alone.
LEMMA AddPresentKeeps ==
    ASSUME HistoryTypeOK, NEW displayed \in BOOLEAN, NEW recording \in BOOLEAN,
           AddToHistory(displayed, recording)
    PROVE  /\ history' \in [Slots -> Present]
           /\ next' = next + 1
           /\ count' \in 0 .. MaxCount /\ count' < next'
           /\ next \in Retained'
           /\ history'[Slot(next)] =
                [index |-> next, qpc |-> now, displayed |-> displayed]
           /\ \A i \in Retained' : i # next =>
                i \in Retained /\ history'[Slot(i)] = history[Slot(i)]
           /\ \A i \in Retained : next - i < MaxCount => i \in Retained'
  <1>. USE RingAssumption
  <1>1. /\ next \in Nat \ {0} /\ count \in 0 .. MaxCount /\ count < next
        /\ now \in Nat /\ history \in [Slots -> Present]
    BY DEF HistoryTypeOK
  <1>2. /\ next' = next + 1
        /\ count' = IF count < MaxCount THEN count + 1 ELSE count
        /\ history' = [history EXCEPT ![Slot(next)] =
                         [index |-> next, qpc |-> now, displayed |-> displayed]]
    BY DEF AddToHistory, Store, Mark, Advance
  <1>3. Slot(next) \in Slots
    BY <1>1, SlotsDiffer
  <1>4. [index |-> next, qpc |-> now, displayed |-> displayed] \in Present
    BY <1>1 DEF Present
  <1>5. history' \in [Slots -> Present]
    BY <1>1, <1>2, <1>3, <1>4
  <1>6. history'[Slot(next)] =
          [index |-> next, qpc |-> now, displayed |-> displayed]
    BY <1>1, <1>2, <1>3
  <1>7. ASSUME NEW i \in Retained', i # next
        PROVE  i \in Retained /\ history'[Slot(i)] = history[Slot(i)]
    <2>1. i \in Int /\ i \in Retained /\ i < next /\ next - i < MaxCount
      BY <1>1, <1>2, <1>7 DEF Retained
    <2>2. Slot(i) # Slot(next) /\ Slot(i) \in Slots
      BY <1>1, <2>1, SlotsDiffer
    <2>. QED  BY <1>1, <1>2, <2>1, <2>2
  <1>8. /\ next \in Retained'
        /\ count' \in 0 .. MaxCount /\ count' < next'
        /\ \A i \in Retained : next - i < MaxCount => i \in Retained'
    BY <1>1, <1>2 DEF Retained
  <1>. QED  BY <1>2, <1>5, <1>6, <1>7, <1>8

-----------------------------------------------------------------------------
(* One lemma per action.                                                   *)

\* A swap chain starts with nothing to be wrong about.
LEMMA InitIInv == HistoryInit => IInv
  <1>. SUFFICES ASSUME HistoryInit PROVE IInv
    OBVIOUS
  <1>. USE RingAssumption DEF HistoryInit
  <1>1. Retained = {}
    BY DEF Retained
  <1>2. HistoryTypeOK
    BY DEF HistoryTypeOK, Present, NoPresent, NoRow, Row
  <1>3. HistoryIsContiguous /\ LastDisplayedIsNewest /\ TimeOrdered
    BY <1>1 DEF HistoryIsContiguous, LastDisplayedIsNewest, TimeOrdered
  <1>4. LastDisplayedIsRetained /\ NewestAgrees /\ RowsAreGrounded
    BY DEF LastDisplayedIsRetained, NewestAgrees, RowsAreGrounded
  <1>. QED  BY <1>2, <1>3, <1>4 DEF IInv

\* The row UpdateCsv writes, from the history before the present joins it.
LEMMA RowStep ==
    ASSUME IInv, NEW displayed \in BOOLEAN, NEW recording \in BOOLEAN,
           AddToHistory(displayed, recording)
    PROVE  row' \in Row /\ RowsAreGrounded'
  <1>. USE RingAssumption
  <1>1. /\ next \in Nat \ {0} /\ count \in 0 .. MaxCount /\ count < next
        /\ lastDisplayed \in Nat /\ lastDisplayed < next /\ newest \in Nat
        /\ history \in [Slots -> Present] /\ row \in Row
    BY DEF IInv, HistoryTypeOK
  <1>2. CASE row' = row
    BY <1>1, <1>2 DEF IInv, RowsAreGrounded
  <1>3. CASE row' # row
    <2>. DEFINE ref == IF displayed /\ lastDisplayed > 0
                       THEN history[Slot(lastDisplayed)] ELSE NoPresent
    <2>1. /\ count > 0
          /\ row' = [index |-> next,
                     previous |-> history[Slot(next - 1)].index,
                     reference |-> ref,
                     newest |-> newest]
      BY <1>1, <1>3 DEF AddToHistory, UpdateCsv
    <2>2. Slot(next - 1) \in Slots /\ Slot(lastDisplayed) \in Slots
      BY <1>1, SlotsDiffer
    <2>3. ref \in Present
      BY <1>1, <2>2 DEF NoPresent, Present
    <2>4. next - 1 \in Retained /\ history[Slot(next - 1)].index = next - 1
      BY <1>1, <2>1 DEF Retained, IInv, HistoryIsContiguous
    <2>5. ASSUME ref # NoPresent, next - newest <= MaxCount
          PROVE  ref.displayed /\ ref.index = newest
      <3>1. lastDisplayed > 0 /\ ref = history[Slot(lastDisplayed)]
            /\ newest = lastDisplayed
        BY <2>5, <1>1 DEF IInv, NewestAgrees
      <3>2. lastDisplayed \in Retained /\ history[Slot(lastDisplayed)].displayed
        BY <2>5, <3>1 DEF IInv, LastDisplayedIsRetained
      <3>. QED  BY <3>1, <3>2 DEF IInv, HistoryIsContiguous
    <2>. HIDE DEF ref
    <2>6. row' \in Row
      BY <1>1, <2>1, <2>3, <2>4 DEF Row
    <2>. QED  BY <2>1, <2>4, <2>5, <2>6 DEF RowsAreGrounded
  <1>. QED  BY <1>2, <1>3

\* Taking a present in.
LEMMA AddPresentStep ==
    ASSUME IInv, NEW displayed \in BOOLEAN, NEW recording \in BOOLEAN,
           AddToHistory(displayed, recording)
    PROVE  IInv'
  <1>. USE RingAssumption
  <1>1. /\ next \in Nat \ {0} /\ count \in 0 .. MaxCount /\ count < next
        /\ lastDisplayed \in Nat /\ lastDisplayed < next
        /\ now \in Nat /\ newest \in Nat /\ HistoryTypeOK
    BY DEF IInv, HistoryTypeOK
  <1>2. /\ now' = now
        /\ lastDisplayed' = IF displayed THEN next ELSE lastDisplayed
        /\ newest' = IF displayed THEN next ELSE newest
    BY <1>1 DEF AddToHistory, Mark
  <1>3. /\ history' \in [Slots -> Present]
        /\ next' = next + 1
        /\ count' \in 0 .. MaxCount /\ count' < next'
        /\ next \in Retained'
        /\ history'[Slot(next)] =
             [index |-> next, qpc |-> now, displayed |-> displayed]
    BY <1>1, AddPresentKeeps
  <1>4. \A i \in Retained' : i # next =>
          i \in Retained /\ history'[Slot(i)] = history[Slot(i)]
    BY <1>1, AddPresentKeeps
  <1>5. \A i \in Retained : next - i < MaxCount => i \in Retained'
    BY <1>1, AddPresentKeeps
  <1>6. \A i \in Retained : i \in Int /\ i < next /\ Slot(i) \in Slots
    BY <1>1, SlotsDiffer DEF Retained
  <1>7. HistoryTypeOK'
    BY <1>1, <1>2, <1>3, RowStep DEF HistoryTypeOK
  <1>8. HistoryIsContiguous'
    BY <1>3, <1>4 DEF HistoryIsContiguous, IInv, Slot
  <1>9. LastDisplayedIsRetained'
    <2>1. CASE displayed
      BY <1>2, <1>3, <2>1 DEF LastDisplayedIsRetained, Slot
    <2>2. CASE ~displayed
      <3>1. SUFFICES ASSUME lastDisplayed > 0, next - lastDisplayed < MaxCount
                     PROVE  /\ lastDisplayed \in Retained'
                            /\ history'[Slot(lastDisplayed)].displayed
        BY <1>1, <1>2, <1>3, <2>2 DEF LastDisplayedIsRetained, Slot
      <3>2. lastDisplayed \in Retained /\ history[Slot(lastDisplayed)].displayed
        BY <1>1, <3>1 DEF IInv, LastDisplayedIsRetained
      <3>. QED  BY <1>1, <1>4, <1>5, <3>1, <3>2
    <2>. QED  BY <2>1, <2>2
  <1>10. LastDisplayedIsNewest'
    <2>1. SUFFICES ASSUME NEW i \in Retained', history'[Slot(i)].displayed
                   PROVE  i <= lastDisplayed'
      BY DEF LastDisplayedIsNewest, Slot
    <2>2. CASE i = next
      BY <1>1, <1>2, <1>3, <2>1, <2>2
    <2>3. CASE i # next
      <3>1. i \in Retained /\ i <= lastDisplayed /\ i < next /\ i \in Int
        BY <1>4, <1>6, <2>1, <2>3 DEF IInv, LastDisplayedIsNewest
      <3>. QED  BY <1>1, <1>2, <3>1
    <2>. QED  BY <2>2, <2>3
  <1>11. TimeOrdered'
    <2>1. \A i \in Retained : history[Slot(i)].qpc <= now
      BY DEF IInv, TimeOrdered
    <2>2. ASSUME NEW i \in Retained' PROVE history'[Slot(i)].qpc <= now'
      BY <1>1, <1>2, <1>3, <1>4, <2>1, <2>2
    <2>3. ASSUME NEW i \in Retained', NEW j \in Retained', i <= j
          PROVE  history'[Slot(i)].qpc <= history'[Slot(j)].qpc
      <3>1. CASE j = next
        BY <1>2, <1>3, <2>2, <3>1
      <3>2. CASE j # next
        <4>1. j \in Retained /\ j < next /\ j \in Int
          BY <1>4, <1>6, <3>2
        <4>2. i # next
          BY <1>1, <2>3, <4>1
        <4>. QED  BY <1>4, <2>3, <3>2, <4>1, <4>2 DEF IInv, TimeOrdered
      <3>. QED  BY <3>1, <3>2
    <2>. QED  BY <2>2, <2>3 DEF TimeOrdered, Slot
  <1>12. NewestAgrees'
    BY <1>2 DEF IInv, NewestAgrees
  <1>. QED
    BY <1>7, <1>8, <1>9, <1>10, <1>11, <1>12, RowStep DEF IInv

\* Pruning, from the number of presents it keeps.
LEMMA PruneStep ==
    ASSUME IInv, NEW latest \in 0 .. now, Prune(latest)
    PROVE  IInv'
  <1>. USE RingAssumption
  <1>1. /\ next \in Nat \ {0} /\ count \in 0 .. MaxCount /\ count < next
        /\ lastDisplayed \in Nat /\ lastDisplayed < next
    BY DEF IInv, HistoryTypeOK
  <1>2. PICK kept \in 0 .. count :
          /\ count' = kept
          /\ lastDisplayed' =
               IF lastDisplayed \in (next - count) .. (next - kept - 1)
               THEN 0 ELSE lastDisplayed
    BY DEF Prune, KeptBy, Unmark, Forgotten
  <1>3. history' = history /\ next' = next /\ now' = now /\ newest' = newest
        /\ row' = row
    BY DEF Prune, KeptBy, Unmark, Forgotten
  <1>4. Retained' \subseteq Retained
    BY <1>1, <1>2, <1>3 DEF Retained
  <1>5. HistoryTypeOK'
    BY <1>1, <1>2, <1>3 DEF IInv, HistoryTypeOK
  <1>6. HistoryIsContiguous'
    BY <1>3, <1>4 DEF IInv, HistoryIsContiguous, Slot
  <1>7. LastDisplayedIsRetained'
    <2>1. SUFFICES ASSUME lastDisplayed' > 0, next - lastDisplayed' <= MaxCount
                   PROVE  /\ lastDisplayed' \in Retained'
                          /\ history[Slot(lastDisplayed')].displayed
      BY <1>3 DEF LastDisplayedIsRetained, Slot
    <2>2. /\ lastDisplayed' = lastDisplayed
          /\ lastDisplayed \notin (next - count) .. (next - kept - 1)
      BY <1>2, <2>1
    <2>3. lastDisplayed \in Retained /\ history[Slot(lastDisplayed)].displayed
      BY <2>1, <2>2 DEF IInv, LastDisplayedIsRetained
    <2>. QED  BY <1>1, <1>2, <1>3, <2>2, <2>3 DEF Retained
  <1>8. LastDisplayedIsNewest'
    <2>1. SUFFICES ASSUME NEW i \in Retained', history[Slot(i)].displayed
                   PROVE  i <= lastDisplayed'
      BY <1>3 DEF LastDisplayedIsNewest, Slot
    <2>2. i <= lastDisplayed /\ i \in Int /\ i >= next - kept
      BY <1>1, <1>2, <1>3, <1>4, <2>1 DEF IInv, LastDisplayedIsNewest, Retained
    <2>. QED  BY <1>1, <1>2, <2>2
  <1>9. TimeOrdered'
    BY <1>3, <1>4 DEF IInv, TimeOrdered, Slot
  <1>10. NewestAgrees' /\ RowsAreGrounded'
    BY <1>2, <1>3 DEF IInv, NewestAgrees, RowsAreGrounded
  <1>. QED  BY <1>5, <1>6, <1>7, <1>8, <1>9, <1>10 DEF IInv

\* A chain forgotten is a chain at its start, at a later time.
LEMMA ForgetStep == IInv /\ Forget => IInv'
  <1>. SUFFICES ASSUME IInv, Forget PROVE IInv'
    OBVIOUS
  <1>. USE RingAssumption DEF Forget
  <1>1. Retained' = {}
    BY DEF Retained
  <1>2. HistoryTypeOK'
    BY DEF IInv, HistoryTypeOK, Present, NoPresent, NoRow, Row
  <1>3. HistoryIsContiguous' /\ LastDisplayedIsNewest' /\ TimeOrdered'
    BY <1>1 DEF HistoryIsContiguous, LastDisplayedIsNewest, TimeOrdered
  <1>4. LastDisplayedIsRetained' /\ NewestAgrees' /\ RowsAreGrounded'
    BY DEF LastDisplayedIsRetained, NewestAgrees, RowsAreGrounded
  <1>. QED  BY <1>2, <1>3, <1>4 DEF IInv

\* Time only has to leave what is stored in its past.
LEMMA ElapseStep == IInv /\ Elapse => IInv'
  <1>. SUFFICES ASSUME IInv, Elapse PROVE IInv'
    OBVIOUS
  <1>. USE RingAssumption
  <1>1. /\ now' = now + 1 /\ now \in Nat
        /\ UNCHANGED <<history, count, next, lastDisplayed, newest, row>>
    BY DEF Elapse, IInv, HistoryTypeOK
  <1>2. Retained' = Retained
    BY <1>1 DEF Retained
  <1>3. \A i \in Retained : history[Slot(i)].qpc \in Nat
    BY SlotsDiffer DEF IInv, HistoryTypeOK, Retained, Present
  <1>4. HistoryTypeOK'
    BY <1>1 DEF IInv, HistoryTypeOK
  <1>5. HistoryIsContiguous' /\ LastDisplayedIsNewest'
    BY <1>1, <1>2
    DEF IInv, HistoryIsContiguous, LastDisplayedIsNewest, Slot
  <1>6. TimeOrdered'
    BY <1>1, <1>2, <1>3 DEF IInv, TimeOrdered, Slot
  <1>7. LastDisplayedIsRetained' /\ NewestAgrees' /\ RowsAreGrounded'
    BY <1>1, <1>2
    DEF IInv, LastDisplayedIsRetained, NewestAgrees, RowsAreGrounded, Slot
  <1>. QED  BY <1>4, <1>5, <1>6, <1>7 DEF IInv

\* A step that changes nothing.
LEMMA StutterStep == IInv /\ UNCHANGED historyVars => IInv'
  BY DEF IInv, historyVars, HistoryTypeOK, HistoryIsContiguous, LastDisplayedIsRetained,
         LastDisplayedIsNewest, TimeOrdered, NewestAgrees, RowsAreGrounded,
         Retained, Slot

-----------------------------------------------------------------------------
\* The strengthened invariant is inductive.
THEOREM HistoryInductive == HistorySpec => []IInv
  <1>1. IInv /\ [HistoryNext]_historyVars => IInv'
    <2>. SUFFICES ASSUME IInv, [HistoryNext]_historyVars PROVE IInv'
      OBVIOUS
    <2>1. CASE \E displayed, recording \in BOOLEAN :
                 AddToHistory(displayed, recording)
      BY <2>1, AddPresentStep
    <2>2. CASE \E latest \in 0 .. now : Prune(latest)
      BY <2>2, PruneStep
    <2>3. CASE Forget
      BY <2>3, ForgetStep
    <2>4. CASE Elapse
      BY <2>4, ElapseStep
    <2>5. CASE UNCHANGED historyVars
      BY <2>5, StutterStep
    <2>. QED  BY <2>1, <2>2, <2>3, <2>4, <2>5 DEF HistoryNext
  <1>. QED  BY InitIInv, <1>1, PTL DEF HistorySpec

\* The ring is well formed in every state.
THEOREM HistoryTypeCorrect == HistorySpec => []HistoryTypeOK
  <1>1. IInv => HistoryTypeOK
    BY DEF IInv
  <1>. QED  BY HistoryInductive, <1>1, PTL

\* The slots before mNextPresentIndex hold the last presents in order.
THEOREM HistoryContiguous == HistorySpec => []HistoryIsContiguous
  <1>1. IInv => HistoryIsContiguous
    BY DEF IInv
  <1>. QED  BY HistoryInductive, <1>1, PTL

\* mLastDisplayedPresentIndex names a displayed present of the history for
\* as long as its slot cannot have been reused, and no newer one exists.
THEOREM LastDisplayedIsRight ==
    HistorySpec => [](LastDisplayedIsRetained /\ LastDisplayedIsNewest)
  <1>1. IInv => LastDisplayedIsRetained /\ LastDisplayedIsNewest
    BY DEF IInv
  <1>. QED  BY HistoryInductive, <1>1, PTL

\* UpdateCsv compares a present with its predecessor, and with the newest
\* displayed present unless a whole ring of dropped ones lies between.
THEOREM RowsGrounded == HistorySpec => []RowsAreGrounded
  <1>1. IInv => RowsAreGrounded
    BY DEF IInv
  <1>. QED  BY HistoryInductive, <1>1, PTL

\* PruneHistory drops exactly what is older than the window.
THEOREM PruneExact == HistorySpec => PruneIsExact
  <1>1. ASSUME IInv, NEW latest \in 0 .. now, Prune(latest), NEW i \in Retained
        PROVE  i \in Retained' <=> ~TooOld(i, latest)
    <2>. USE RingAssumption
    <2>1. /\ next \in Nat \ {0} /\ count \in 0 .. MaxCount /\ now \in Nat
          /\ i \in Int /\ latest - Window \in Int
      BY <1>1 DEF IInv, HistoryTypeOK, Retained
    <2>2. PICK kept \in 0 .. count :
            /\ \A j \in (next - count) .. (next - kept - 1) : TooOld(j, latest)
            /\ kept > 0 => ~TooOld(next - kept, latest)
            /\ count' = kept /\ next' = next
      BY <1>1 DEF Prune, KeptBy, Forgotten
    <2>3. \A j \in Retained : history[Slot(j)].qpc \in Int
      BY <1>1, SlotsDiffer DEF IInv, HistoryTypeOK, Retained, Present
    <2>4. CASE i \in (next - count) .. (next - kept - 1)
      <3>1. i \notin Retained'
        BY <2>1, <2>2, <2>4 DEF Retained
      <3>. QED  BY <2>2, <2>4, <3>1
    <2>5. CASE i \notin (next - count) .. (next - kept - 1)
      <3>1. /\ kept > 0 /\ i \in Retained' /\ next - kept <= i
            /\ next - kept \in Retained
        BY <1>1, <2>1, <2>2, <2>5 DEF Retained
      <3>2. history[Slot(next - kept)].qpc <= history[Slot(i)].qpc
        BY <1>1, <3>1 DEF IInv, TimeOrdered
      <3>. QED  BY <1>1, <2>1, <2>2, <2>3, <3>1, <3>2 DEF TooOld
    <2>. QED  BY <2>4, <2>5
  <1>2. IInv /\ [HistoryNext]_historyVars =>
          [\A latest \in 0 .. now : Prune(latest) =>
             \A i \in Retained : i \in Retained' <=> ~TooOld(i, latest)]_historyVars
    BY <1>1
  <1>. QED  BY HistoryInductive, <1>2, PTL DEF HistorySpec, PruneIsExact
=============================================================================
