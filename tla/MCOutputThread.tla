---------------------------- MODULE MCOutputThread ----------------------------
(* Instances of the output side for TLC. *)
EXTENDS OutputThread

CONSTANTS app, other

Plain == [targetPids |-> {}, named |-> {}, excluded |-> {}, etl |-> FALSE,
          terminateOnProcExit |-> FALSE, switchers |-> {main}, mortal |-> {},
          unsure |-> {}, inOrder |-> TRUE, maxToggles |-> 0, maxEvents |-> 2]

\* Two processes are recorded, stopped and recorded again.
Recording == [Plain EXCEPT !.maxToggles = 3]

\* A target and another process exit while their last presents are on the way.
Exits == [Plain EXCEPT !.named = {app}, !.terminateOnProcExit = TRUE,
                       !.mortal = {app, other}, !.maxToggles = 1]

\* The same, from an ETL file and without a hotkey.
EtlFile == [Exits EXCEPT !.etl = TRUE, !.mortal = {app}, !.maxToggles = 0]

\* Presents in any order, which bring back processes already erased; the excluded one
\* is recorded when its name cannot be looked up.
Unordered == [Plain EXCEPT !.excluded = {other}, !.mortal = {app, other},
                           !.unsure = {other}, !.inOrder = FALSE]

\* Hotkey, Ctrl event and end of trace in any order, with one present queued.
Stops == [Plain EXCEPT !.switchers = {main, ctrl}, !.maxToggles = 2, !.maxEvents = 1]

\* The only target exits, and another process goes on presenting.
LastTarget == [Plain EXCEPT !.named = {app}, !.terminateOnProcExit = TRUE,
                            !.mortal = {app}, !.maxEvents = 1]

\* The target is given by its id, so that nothing but it is traced.
TargetById == [LastTarget EXCEPT !.named = {}, !.targetPids = {app}]

SafetySetups   == {Recording, Exits, EtlFile, Unordered, Stops}
FilteredSetups == {TargetById}
=============================================================================
