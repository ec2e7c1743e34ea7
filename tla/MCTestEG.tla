------------------------------ MODULE MCTestEG ------------------------------
(***************************************************************************)
(* Instances of TestEG for TLC.  Only the world is bounded: with one game  *)
(* anything happens; from the start of the second on, on another GPU, the  *)
(* power source stays, that game does not exit and the user does not quit. *)
(***************************************************************************)
EXTENDS TestEG

Second == Games \ OnIgfx
AllStarted == \A p \in Games : proc[p] # "none"

Bound ==
  Second # {} =>
    /\ AllStarted' => IsDC /\ IsDC' /\ stage = "loop" /\ stage' = "loop"
    /\ \A p \in Second : proc'[p] # "exited" /\ (proc'[p] # "none" => AllStarted')

BoundedSpec == Init /\ [][Next /\ Bound]_vars /\ Fairness
=============================================================================
