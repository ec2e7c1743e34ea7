------------------------------- MODULE CsvOutput -------------------------------
(***************************************************************************)
(* The CSV files of PresentMon (PresentMon/CsvOutput.cpp), as the output   *)
(* thread opens, writes and closes them: one file, or one per process with *)
(* -multi_csv; new ones each time recording starts with -hotkey; and a     *)
(* second one beside each with -include_mixed_reality.  A FILE* is copied  *)
(* into every process that writes to it, so closing is a matter of who     *)
(* owns it.                                                                *)
(*                                                                         *)
(* Every process is a target and has one swap chain here; OutputThread     *)
(* models when a present is recorded and SwapChainHistory what its row     *)
(* measures.                                                               *)
(***************************************************************************)
EXTENDS Naturals, Sequences, FiniteSets

CONSTANTS
  Processes,  \* process ids
  NoName,     \* in place of a process's name when there is one file for all
  ErrorName,  \* "<error>", of a process that could not be queried
  Setups      \* the command lines and processes of a run

Flags == {"output_stdout", "output_file", "multi_csv", "no_csv", "hotkey", "simple",
          "verbose", "exclude_dropped", "include_mixed_reality"}

\* What the combinations are made of (ParseCommandLine).  Those that are
\* refused start no recording.
Refused(f) == {"output_stdout", "output_file"} \subseteq f /\ "no_csv" \notin f

ParseCommandLine(f) ==
  f \ ((IF "verbose" \in f THEN {"simple"} ELSE {})
       \cup (IF "no_csv" \in f THEN {"multi_csv", "output_file", "output_stdout"} ELSE {})
       \cup (IF "output_stdout" \in f /\ "no_csv" \notin f
             THEN {"multi_csv", "include_mixed_reality"} ELSE {}))

ASSUME SetupsAssumption ==
  \A s \in Setups : s.flags \subseteq Flags /\ s.mayFail \in BOOLEAN
ASSUME ProcessesAssumption == Processes \subseteq Nat \ {0}

NULL   == 0
STDOUT == 1
OutputCsv == [mFile : Nat, mWmrFile : Nat]
NoCsv     == [mFile |-> NULL, mWmrFile |-> NULL]

VARIABLES
  setup,      \* flags, the name of each process's program, and the bounds
  files,      \* every FILE ever opened: its path and whether it is still open
  disk,       \* the rows in the file of each path
  gSingleOutputCsv,
  gRecordingCount,
  gProcesses, \* of each process known: mModuleName, mOutputCsv, and whether
              \* there is a present in its swap chain
  recording,
  running,    \* the output thread is in its loop
  belongs,    \* history: the rows recorded, by the path they belong to
  recordings, \* history: how often recording has been stopped
  orphans,    \* history: mixed-reality files whose main file failed to open
  exited,     \* history: the names of processes that have exited
  bound       \* what the run still allows: presents, toggles, exits

handleVars == <<files, disk, gSingleOutputCsv, orphans>>
csvVars    == <<setup, handleVars, gRecordingCount, gProcesses, recording, running,
                belongs, recordings, exited, bound>>

args == ParseCommandLine(setup.flags)

CsvInit ==
  /\ setup \in {s \in Setups : ~Refused(s.flags)}
  /\ files = <<[path |-> <<NoName, 0, "stdout">>, open |-> TRUE]>>
  /\ disk = [x \in {<<NoName, 0, "stdout">>} |-> <<>>] /\ belongs = disk
  /\ gSingleOutputCsv = NoCsv /\ gRecordingCount = 1
  /\ gProcesses = [p \in {} |-> 0] /\ recording = FALSE /\ running = TRUE
  /\ recordings = 0 /\ orphans = {} /\ exited = {}
  /\ bound = setup.bound

\* The function f, and v for x.
With(f, x, v) == [y \in DOMAIN f \cup {x} |-> IF y = x THEN v ELSE f[y]]

-----------------------------------------------------------------------------
(***************************************************************************)
(* Opening and closing.                                                    *)
(***************************************************************************)
\* A faulty one that leaves out the number of the recording.
GenerateFilename_NoIndex(name, kind) == <<name, 0, kind>>

\* GenerateFilename, and "_WMR".  The base is that of -output_file; one made of
\* the time of creation can only tell more files apart.
GenerateFilename(name, kind) ==
  <<name, IF "hotkey" \in args THEN gRecordingCount ELSE 0, kind>>

\* What the name of a process's file has of that of the process.
FileName(name) == IF "multi_csv" \in args THEN name ELSE NoName

\* Which of the two files of a process can be opened; "<" is in no file's name.
Openable(name) ==
  {can \in [main : BOOLEAN, wmr : BOOLEAN] :
     IF FileName(name) = ErrorName THEN ~can.main /\ ~can.wmr
     ELSE setup.mayFail \/ (can.main /\ can.wmr)}

\* fopen_s for writing and the header: what was in the file is gone.
Opened(f, path)    == Append(f, [path |-> path, open |-> TRUE])
Truncated(d, path) == With(d, path, <<>>)

\* CreateOutputCsv: the new OutputCsv, and what becomes of the files.
CreateOutputCsv(name, can) ==
  LET main == GenerateFilename(name, "main")
      wmr  == GenerateFilename(name, "wmr")
      f1 == IF can.main THEN Opened(files, main) ELSE files
      d1 == IF can.main THEN Truncated(disk, main) ELSE disk
      second == "include_mixed_reality" \in args /\ can.wmr
      f2 == IF second THEN Opened(f1, wmr) ELSE f1
  IN  IF "output_stdout" \in args
      THEN [csv |-> [mFile |-> STDOUT, mWmrFile |-> NULL], files |-> files, disk |-> disk,
            orphan |-> {}]
      ELSE [csv |-> [mFile |-> IF can.main THEN Len(f1) ELSE NULL,
                     mWmrFile |-> IF second THEN Len(f2) ELSE NULL],
            files |-> f2,
            disk |-> IF second THEN Truncated(d1, wmr) ELSE d1,
            orphan |-> IF second /\ ~can.main THEN {Len(f2)} ELSE {}]

\* GetOutputCsv: a process keeps what it has (own), or takes a new OutputCsv of
\* its own or the single one, which is created if it is not there.
Same(csv) ==
  [csv |-> csv, single |-> gSingleOutputCsv, files |-> files, disk |-> disk, orphan |-> {}]

GetOutputCsv(own, name, can) ==
  LET new == CreateOutputCsv(FileName(name), can)
  IN  IF "no_csv" \in args \/ own.mFile # NULL THEN Same(own)
      ELSE IF "multi_csv" \notin args /\ gSingleOutputCsv.mFile # NULL
      THEN Same(gSingleOutputCsv)
      ELSE [csv |-> new.csv,
            single |-> IF "multi_csv" \in args THEN gSingleOutputCsv ELSE new.csv,
            files |-> new.files, disk |-> new.disk, orphan |-> new.orphan]

Handles(csv) == {csv.mFile, csv.mWmrFile} \ {NULL}

\* fclose.
Closed(f, handles) ==
  [h \in DOMAIN f |-> IF h \in handles THEN [f[h] EXCEPT !.open = FALSE] ELSE f[h]]

\* What CloseOutputCsv closes for a process and for the single file: each FILE
\* is closed by its owner alone, and stdout by nobody.
ClosedFor(p) ==
  IF "output_stdout" \notin args /\ "multi_csv" \in args
  THEN Handles(gProcesses[p].csv) ELSE {}
ClosedForAll ==
  IF "output_stdout" \notin args THEN Handles(gSingleOutputCsv) ELSE {}

-----------------------------------------------------------------------------
(***************************************************************************)
(* What the output thread does with them.                                  *)
(***************************************************************************)
\* GetProcessInfo: what is known of p, or else its name if it can be queried.
ProcessInfo(p) ==
  IF p \in DOMAIN gProcesses THEN {gProcesses[p]}
  ELSE {[name |-> n, csv |-> NoCsv, chain |-> FALSE] :
          n \in {ErrorName} \cup IF p \in Processes THEN {setup.name[p]} ELSE {}}

\* The path a row of p belongs to, whatever the code makes of it.
Belonging(name, kind) ==
  IF "output_stdout" \in args THEN <<NoName, 0, "stdout">>
  ELSE <<FileName(name), IF "hotkey" \in args THEN recordings + 1 ELSE 0, kind>>

\* fprintf of a row of p to the file h.
Wrote(d, f, h, p) == [d EXCEPT ![f[h].path] = Append(@, p)]

Recorded(path, p) ==
  With(belongs, path, IF path \in DOMAIN belongs THEN Append(belongs[path], p) ELSE <<p>>)

\* What got from GetOutputCsv is kept of it.
Keep(p, info, got, chain) ==
  /\ files' = got.files /\ gSingleOutputCsv' = got.single
  /\ orphans' = orphans \cup got.orphan
  /\ gProcesses' = With(gProcesses, p, [info EXCEPT !.csv = got.csv, !.chain = chain])

\* AddPresents for one present of p: UpdateCsv, then the history.  The first
\* present of a swap chain has no row, but opens the file.
AddPresent(p, presented) ==
  /\ running /\ bound.presents > 0
  /\ \E info \in ProcessInfo(p) : \E can \in Openable(info.name) :
       LET wanted == recording /\ ("exclude_dropped" \in args => presented)
           got == IF wanted THEN GetOutputCsv(info.csv, info.name, can) ELSE Same(info.csv)
           row == wanted /\ got.csv.mFile # NULL /\ info.chain
       IN  /\ Keep(p, info, got, TRUE)
           /\ disk' = IF row THEN Wrote(got.disk, got.files, got.csv.mFile, p) ELSE got.disk
           /\ belongs' = IF row THEN Recorded(Belonging(info.name, "main"), p) ELSE belongs
  /\ bound' = [bound EXCEPT !.presents = @ - 1]
  /\ UNCHANGED <<setup, gRecordingCount, recording, running, recordings, exited>>

\* CloseOutputCsv for the single file and every process.
CloseAll ==
  /\ files' = Closed(files, ClosedForAll \cup UNION {ClosedFor(p) : p \in DOMAIN gProcesses})
  /\ gSingleOutputCsv' = NoCsv

\* Without -hotkey, main starts one recording (MainThread.cpp:288-293).
MayToggle == recording \/ recordings = 0 \/ "hotkey" \in args

\* A faulty one that forgets the copies of the processes.
ToggleRecording_Single ==
  /\ running /\ bound.toggles > 0 /\ MayToggle
  /\ recording' = ~recording
  /\ gRecordingCount' = gRecordingCount + (IF recording THEN 1 ELSE 0)
  /\ recordings' = recordings + (IF recording THEN 1 ELSE 0)
  /\ files' = (IF recording THEN Closed(files, ClosedForAll) ELSE files)
  /\ gSingleOutputCsv' = (IF recording THEN NoCsv ELSE gSingleOutputCsv)
  /\ bound' = [bound EXCEPT !.toggles = @ - 1]
  /\ UNCHANGED <<setup, disk, running, gProcesses, belongs, orphans, exited>>

\* A toggle is reached among the presents: a recording that ends closes all its
\* files, and the next one counts on (IncrementRecordingCount).
ToggleRecording ==
  /\ running /\ bound.toggles > 0 /\ MayToggle
  /\ recording' = ~recording
  /\ gRecordingCount' = gRecordingCount + (IF recording THEN 1 ELSE 0)
  /\ recordings' = recordings + (IF recording THEN 1 ELSE 0)
  /\ IF recording
     THEN /\ CloseAll
          /\ gProcesses' = [p \in DOMAIN gProcesses |-> [gProcesses[p] EXCEPT !.csv = NoCsv]]
     ELSE UNCHANGED <<files, gSingleOutputCsv, gProcesses>>
  /\ bound' = [bound EXCEPT !.toggles = @ - 1]
  /\ UNCHANGED <<setup, disk, running, belongs, orphans, exited>>

\* A process that comes back later, with a late present or with its id used
\* again, is a new one.
HandleTerminatedProcess(p) ==
  /\ running /\ bound.exits > 0 /\ p \in DOMAIN gProcesses
  /\ files' = Closed(files, ClosedFor(p))
  /\ gProcesses' = [q \in DOMAIN gProcesses \ {p} |-> gProcesses[q]]
  /\ exited' = exited \cup {gProcesses[p].name}
  /\ bound' = [bound EXCEPT !.exits = @ - 1]
  /\ UNCHANGED <<setup, disk, gSingleOutputCsv, gRecordingCount, recording, running,
                 belongs, recordings, orphans>>

\* The end of Output.
EndOutput ==
  /\ running /\ running' = FALSE
  /\ CloseAll
  /\ gProcesses' = [p \in {} |-> 0]
  /\ UNCHANGED <<setup, disk, gRecordingCount, recording, belongs, recordings, orphans,
                 exited, bound>>

CsvNext ==
  \/ \E p \in Processes, presented \in BOOLEAN : AddPresent(p, presented)
  \/ ToggleRecording
  \/ \E p \in Processes : HandleTerminatedProcess(p)
  \/ EndOutput

-----------------------------------------------------------------------------
Held == Handles(gSingleOutputCsv)
          \cup UNION {Handles(gProcesses[p].csv) : p \in DOMAIN gProcesses}

\* CsvOutput.cpp:277-279 "We only actually close the FILE if we own it": whoever
\* holds a FILE* finds it open, also after others that had a copy of it have
\* closed theirs; and no FILE stays open that nobody holds, except a mixed-
\* reality file whose main file could not be opened (the TODO at :253).
OpenIsHeld ==
  /\ \A h \in Held : files[h].open
  /\ \A h \in DOMAIN files : files[h].open => h \in Held \cup orphans \cup {STDOUT}

\* Two processes of one name, or one that came back, share a path with
\* -multi_csv; and a mixed-reality file is opened again at every row when its
\* main file cannot be.
Reopened(path) ==
  \/ /\ "multi_csv" \in args
     /\ \/ path[1] \in exited
        \/ \E p, q \in Processes : p # q /\ setup.name[p] = path[1] /\ setup.name[q] = path[1]
  \/ \E h \in orphans : files[h].path = path

\* CsvOutput.cpp:166-177: every row recorded is, in its order, in the file of
\* its process and recording, and never overwritten by a later one.
RowsSurvive ==
  \A path \in DOMAIN belongs :
    ~Reopened(path) => path \in DOMAIN disk /\ disk[path] = belongs[path]

=============================================================================
