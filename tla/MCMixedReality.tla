---------------------------- MODULE MCMixedReality ----------------------------
(***************************************************************************)
(* Instances, for TLC, of what the output thread writes: the CSV files,    *)
(* with and without mixed reality, and, in a set-up of its own in which    *)
(* nothing else moves, the history of a swap chain that a row is computed  *)
(* from.                                                                   *)
(***************************************************************************)
EXTENDS MixedReality, SwapChainHistory

Bound(presents, toggles, exits, frms, ls, misses) ==
  [presents |-> presents, toggles |-> toggles, exits |-> exits,
   frames |-> frms, presentIds |-> frms, lsrs |-> ls, misses |-> misses]
Setup(flags, name1, name2, mayFail, b) ==
  [flags |-> flags, name |-> <<name1, name2>>, mayFail |-> mayFail, bound |-> b]

\* Every mix of the flags that choose files; presents, two recordings, an exit.
Presenting == {Setup(f, "game", n, FALSE, Bound(4, 3, 1, 0, 0, 0)) :
                 f \in SUBSET {"output_stdout", "multi_csv", "no_csv", "hotkey"},
                 n \in {"game", "tool"}}
Excluding == {Setup(f \cup {"exclude_dropped", "hotkey"}, "game", "tool", FALSE,
                    Bound(5, 3, 1, 0, 0, 0)) : f \in SUBSET {"multi_csv"}}

\* Files that cannot be opened.
FailingToOpen == {Setup(f \cup {"hotkey"}, "game", "tool", TRUE, Bound(4, 2, 1, 0, 0, 0)) :
                    f \in SUBSET {"multi_csv", "include_mixed_reality"}}

\* Late-stage reprojections: all of their events, then all of their files.
Reprojecting == {Setup({"include_mixed_reality", "no_csv"}, "game", "tool", FALSE,
                       Bound(0, 0, 0, 2, 2, 2))}
WritingBoth == {Setup({"include_mixed_reality", "hotkey", "simple", "exclude_dropped"},
                      "game", "tool", m, Bound(1, 2, 0, 0, 3, 0)) : m \in BOOLEAN}
WritingEach == {Setup({"include_mixed_reality", "hotkey", "multi_csv"},
                      "game", "tool", FALSE, Bound(0, 1, 0, 1, 3, 0))}

HistoryAlone == Setup({}, "game", "tool", FALSE, Bound(0, 0, 0, 0, 0, 0))

AllSetups == Presenting \cup Excluding \cup FailingToOpen \cup Reprojecting
               \cup WritingBoth \cup WritingEach \cup {HistoryAlone}

RecordingsNext ==
  \/ setup # HistoryAlone /\ Next /\ UNCHANGED historyVars
  \/ setup = HistoryAlone /\ HistoryNext /\ UNCHANGED vars

RecordingsInit == Init /\ HistoryInit

RecordingsSpec == RecordingsInit /\ [][RecordingsNext]_<<vars, historyVars>>
=============================================================================
