------------------------------ MODULE MCPrograms ------------------------------
(* Instances of the two programs for TLC. *)
EXTENDS Programs

Plain == [host |-> "exe", etl |-> FALSE, stopExisting |-> FALSE, simple |-> TRUE,
          winMR |-> FALSE, taken |-> FALSE, mayFail |-> FALSE, interferes |-> FALSE,
          loses |-> FALSE, exits |-> FALSE, options |-> {}, terminateAfterTimed |-> FALSE,
          ctrl |-> FALSE, maxPresses |-> 0, maxUnsent |-> 0, stale |-> FALSE,
          inOrder |-> TRUE, maxStarts |-> 0, maxPresents |-> 0]

\* Every call may fail, with every set of providers.
Failing == {[Plain EXCEPT !.mayFail = TRUE, !.taken = t, !.stopExisting = TRUE,
                          !.winMR = TRUE, !.simple = s, !.etl = e, !.loses = TRUE] :
              t \in BOOLEAN, s \in BOOLEAN, e \in BOOLEAN}

\* Others start and stop sessions of the name at any time.
Contended == {[Plain EXCEPT !.interferes = TRUE, !.mayFail = TRUE, !.taken = t, !.stopExisting = x,
                            !.exits = TRUE, !.ctrl = TRUE] :
                t \in BOOLEAN, x \in BOOLEAN}
Terminator == {[Plain EXCEPT !.options = {"terminateExisting"}, !.taken = t,
                             !.mayFail = TRUE, !.interferes = TRUE] : t \in BOOLEAN}

\* Hotkeys, timers and Ctrl events.
Hotkeys ==
  {[Plain EXCEPT !.options = {"hotkey", "scroll", "lockKey"}, !.maxPresses = 4,
                 !.maxUnsent = u, !.exits = TRUE, !.ctrl = TRUE] : u \in {0, 1}}
    \cup {[Plain EXCEPT !.options = o, !.maxPresses = 3, !.maxUnsent = 1, !.stale = s,
                        !.ctrl = TRUE] :
            o \in {{"scroll"}, {"hotkey", "scroll"}, {"hotkey", "scroll", "lockKey"},
                   {"hotkey", "lockKey"}}, s \in BOOLEAN}
Timers == {[Plain EXCEPT !.options = o, !.terminateAfterTimed = x, !.ctrl = TRUE,
                         !.maxPresses = 3] :
             o \in {{"delay", "timed"}, {"hotkey", "timed"}, {"hotkey", "delay"},
                    {"hotkey", "delay", "timed"}}, x \in BOOLEAN}

\* The library, with presents in order or not.
Library == {[Plain EXCEPT !.host = "lib", !.stopExisting = TRUE, !.inOrder = o,
                          !.maxStarts = 1, !.maxPresents = 4] : o \in BOOLEAN}
Restarted == {[Plain EXCEPT !.host = "lib", !.stopExisting = TRUE, !.mayFail = TRUE,
                            !.interferes = TRUE, !.maxStarts = 2, !.maxPresents = 1]}

AllSetups == Failing \cup Contended \cup Terminator \cup Hotkeys \cup Timers
               \cup Library \cup Restarted
LossySetups == {[Plain EXCEPT !.loses = TRUE, !.exits = TRUE]}
=============================================================================
