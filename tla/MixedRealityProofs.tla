--------------------------- MODULE MixedRealityProofs ---------------------------
(***************************************************************************)
(* The CSV files, with the LSRs of MixedReality writing to them too, for   *)
(* every command line and any processes: whoever holds a FILE* finds it    *)
(* open, no FILE stays open that nobody holds, and no row is lost.         *)
(* OpenIsHeld alone is not inductive: that closing one holder's files      *)
(* closes no other's rests on who may hold what, which is different with   *)
(* -output_stdout, with -multi_csv and with a single file.  RowsSurvive    *)
(* needs that too, and what the files of each holder are called.           *)
(*                                                                         *)
(* Then what the mixed-reality consumer hands to the output thread: it is  *)
(* complete and is not touched again, for any applications, sources, frame *)
(* ids and losses of events.  Both threads read the same LSRs and frames   *)
(* without a lock, so this is what the code relies on; it rests on where a *)
(* frame can still be found: by its frame id while it is rendered, by its  *)
(* present id while it waits to be latched, and by no event from then on.  *)
(***************************************************************************)
EXTENDS MixedReality, SequenceTheorems, TLAPS

-----------------------------------------------------------------------------
(* Who holds which files.                                                  *)

Names == {NoName, ErrorName} \cup {s.name[p] : s \in Setups, p \in Processes}
Paths == Names \X Nat \X {"stdout", "main", "wmr"}
File  == [path : Paths, open : BOOLEAN]
Info  == [name : Names, csv : OutputCsv, chain : BOOLEAN]

FilesTyped ==
  /\ setup \in Setups
  /\ files \in Seq(File) /\ STDOUT \in 1..Len(files)
  /\ gSingleOutputCsv \in OutputCsv
  /\ gRecordingCount \in Nat
  /\ \A p \in DOMAIN gProcesses : gProcesses[p] \in Info

\* The files of the handles, those of the processes and of the single OutputCsv.
Owned(p) == Handles(gProcesses[p].csv)

\* A mixed-reality file without a main file is one of the orphans.
Whole(csv) == csv.mFile = NULL => Handles(csv) \subseteq orphans

\* -output_stdout: nobody has any other file.
ToStdout == Held \subseteq {STDOUT}

\* -multi_csv: every process has files of its own.
ToEach ==
  /\ STDOUT \notin Held
  /\ Handles(gSingleOutputCsv) = {}
  /\ \A p, q \in DOMAIN gProcesses : p # q => Owned(p) \cap Owned(q) = {}

\* A single file, of which the processes have copies.
ToOne ==
  /\ STDOUT \notin Held
  /\ \A p \in DOMAIN gProcesses : Owned(p) \subseteq Handles(gSingleOutputCsv) \cup orphans

Ownership ==
  IF "output_stdout" \in args THEN ToStdout
  ELSE IF "multi_csv" \in args THEN ToEach ELSE ToOne

FilesInv ==
  /\ FilesTyped
  /\ Held \cup orphans \subseteq 1..Len(files)
  /\ files[STDOUT].open
  /\ Whole(gSingleOutputCsv) /\ \A p \in DOMAIN gProcesses : Whole(gProcesses[p].csv)
  /\ Ownership
  /\ OpenIsHeld

-----------------------------------------------------------------------------
(* What an opening, or a copy of a FILE*, may do.                           *)

\* The files of CreateOutputCsv: the old ones, and those the new OutputCsv holds.
LEMMA CreateOpens ==
    ASSUME FilesTyped, NEW name \in Names, NEW can \in [main : BOOLEAN, wmr : BOOLEAN],
           "output_stdout" \notin args
    PROVE  LET new == CreateOutputCsv(name, can) IN
           /\ new.csv \in OutputCsv
           /\ new.files \in Seq(File) /\ Len(new.files) >= Len(files)
           /\ \A h \in 1..Len(files) : new.files[h] = files[h]
           /\ \A h \in Len(files) + 1..Len(new.files) :
                new.files[h].open /\ h \in Handles(new.csv)
           /\ Handles(new.csv) \subseteq Len(files) + 1..Len(new.files)
           /\ new.orphan \subseteq Handles(new.csv)
           /\ new.csv.mFile = NULL => Handles(new.csv) \subseteq new.orphan
  <1>. DEFINE main == [path |-> GenerateFilename(name, "main"), open |-> TRUE]
              wmr  == [path |-> GenerateFilename(name, "wmr"), open |-> TRUE]
              f1 == IF can.main THEN Append(files, main) ELSE files
              second == "include_mixed_reality" \in args /\ can.wmr
              f2 == IF second THEN Append(f1, wmr) ELSE f1
              mFile == IF can.main THEN Len(f1) ELSE NULL
              mWmrFile == IF second THEN Len(f2) ELSE NULL
  <1>1. main \in File /\ wmr \in File
    BY DEF FilesTyped, GenerateFilename, File, Paths
  <1>2. files \in Seq(File) /\ Len(files) \in Nat /\ Len(files) >= 1
    BY DEF FilesTyped, STDOUT
  <1>3. /\ f1 \in Seq(File) /\ Len(f1) \in Nat
        /\ Len(f1) = IF can.main THEN Len(files) + 1 ELSE Len(files)
        /\ \A h \in 1..Len(files) : f1[h] = files[h]
        /\ can.main => f1[Len(files) + 1] = main
    <2>1. CASE can.main
      BY <1>1, <1>2, <2>1, AppendProperties
    <2>2. CASE ~can.main
      BY <1>2, <2>2
    <2>. QED  BY <2>1, <2>2
  <1>. HIDE DEF f1
  <1>4. /\ f2 \in Seq(File) /\ Len(f2) \in Nat
        /\ Len(f2) = IF second THEN Len(f1) + 1 ELSE Len(f1)
        /\ \A h \in 1..Len(f1) : f2[h] = f1[h]
        /\ second => f2[Len(f1) + 1] = wmr
    <2>1. CASE second
      BY <1>1, <1>3, <2>1, AppendProperties
    <2>2. CASE ~second
      BY <1>3, <2>2
    <2>. QED  BY <2>1, <2>2
  <1>5. /\ CreateOutputCsv(name, can).csv = [mFile |-> mFile, mWmrFile |-> mWmrFile]
        /\ CreateOutputCsv(name, can).files = f2
        /\ CreateOutputCsv(name, can).orphan = IF second /\ ~can.main THEN {Len(f2)} ELSE {}
    BY DEF CreateOutputCsv, Opened, f1
  <1>. HIDE DEF f2, second
  <1>6. \A h \in 1..Len(files) : f2[h] = files[h]
    BY <1>2, <1>3, <1>4
  <1>7. \A h \in Len(files) + 1..Len(f2) : f2[h].open /\ h \in {mFile, mWmrFile} \ {NULL}
    <2>. SUFFICES ASSUME NEW h \in Len(files) + 1..Len(f2)
                  PROVE  f2[h].open /\ h \in {mFile, mWmrFile} \ {NULL}
      OBVIOUS
    <2>1. CASE h <= Len(f1)
      <3>1. can.main /\ h = Len(f1) /\ f2[h] = main
        BY <1>2, <1>3, <1>4, <2>1
      <3>. QED  BY <1>2, <1>3, <3>1 DEF NULL
    <2>2. CASE h > Len(f1)
      <3>1. second /\ h = Len(f2) /\ f2[h] = wmr
        BY <1>2, <1>3, <1>4, <2>2
      <3>. QED  BY <1>2, <1>3, <1>4, <3>1 DEF NULL
    <2>. QED  BY <1>2, <1>3, <1>4, <2>1, <2>2
  <1>8. {mFile, mWmrFile} \ {NULL} \subseteq Len(files) + 1..Len(f2)
    BY <1>2, <1>3, <1>4 DEF NULL
  <1>. HIDE DEF main, wmr
  <1>. QED  BY <1>2, <1>3, <1>4, <1>5, <1>6, <1>7, <1>8 DEF Handles, OutputCsv, NULL

-----------------------------------------------------------------------------
(* GetOutputCsv, for a process that had the files mine (none, when it is a  *)
(* new one).                                                                *)

Mine(p) == IF p \in DOMAIN gProcesses THEN Owned(p) ELSE {}

\* What got leaves of the files, and who may hold what of them.
Sound(p, got) ==
  /\ got.csv \in OutputCsv /\ got.single \in OutputCsv
  /\ got.files \in Seq(File) /\ Len(got.files) >= Len(files)
  /\ \A h \in 1..Len(files) : got.files[h] = files[h]
  /\ \A h \in Len(files) + 1..Len(got.files) : got.files[h].open /\ h \in Handles(got.csv)
  /\ got.orphan \subseteq 1..Len(got.files)
  /\ Handles(got.csv) \cup Handles(got.single)
       \subseteq Held \cup (Len(files) + 1..Len(got.files))
                     \cup (IF "output_stdout" \in args THEN {STDOUT} ELSE {})
  /\ Mine(p) \subseteq Handles(got.csv) \cup orphans
  /\ Handles(gSingleOutputCsv) \subseteq Handles(got.single) \cup orphans
  /\ got.csv.mFile = NULL => Handles(got.csv) \subseteq orphans \cup got.orphan
  /\ got.single.mFile = NULL => Handles(got.single) \subseteq orphans \cup got.orphan
  /\ IF "output_stdout" \in args
     THEN Handles(got.csv) \cup Handles(got.single) \subseteq {STDOUT}
     ELSE IF "multi_csv" \in args
     THEN /\ Handles(got.single) = {}
          /\ Handles(got.csv) \subseteq Mine(p) \cup (Len(files) + 1..Len(got.files))
     ELSE Handles(got.csv) \subseteq Handles(got.single) \cup orphans \cup got.orphan

\* What GetProcessInfo returns.
LEMMA InfoTyped ==
    ASSUME FilesInv, NEW p, NEW info \in ProcessInfo(p)
    PROVE  /\ info \in Info /\ Handles(info.csv) = Mine(p) /\ Mine(p) \subseteq Held
           /\ Whole(info.csv)
  <1>1. CASE p \in DOMAIN gProcesses
    BY <1>1 DEF FilesInv, FilesTyped, ProcessInfo, Mine, Owned, Held
  <1>2. CASE p \notin DOMAIN gProcesses
    <2>1. /\ info.name \in Names /\ info.csv = NoCsv /\ info.chain = FALSE
          /\ info = [name |-> info.name, csv |-> NoCsv, chain |-> FALSE]
      BY <1>2 DEF FilesInv, FilesTyped, ProcessInfo, Names
    <2>2. NoCsv \in OutputCsv /\ Handles(NoCsv) = {}
      BY DEF NoCsv, OutputCsv, Handles, NULL
    <2>. QED  BY <1>2, <2>1, <2>2 DEF Info, Mine, Whole
  <1>. QED  BY <1>1, <1>2

\* Nothing is opened, and the process has what it had or the single OutputCsv.
LEMMA SameIsSound ==
    ASSUME FilesInv, NEW p, NEW csv \in OutputCsv, Whole(csv),
           \/ Handles(csv) = Mine(p)
           \/ /\ csv = gSingleOutputCsv /\ "multi_csv" \notin args
              /\ Mine(p) \subseteq orphans
    PROVE  Sound(p, Same(csv))
  <1>1. /\ Same(csv).csv = csv /\ Same(csv).single = gSingleOutputCsv
        /\ Same(csv).files = files /\ Same(csv).orphan = {}
    BY DEF Same
  <1>2. /\ files \in Seq(File) /\ Len(files) \in Nat /\ gSingleOutputCsv \in OutputCsv
        /\ Whole(gSingleOutputCsv)
    BY DEF FilesInv, FilesTyped
  <1>3. Mine(p) \subseteq Held /\ Handles(gSingleOutputCsv) \subseteq Held
    BY DEF Mine, Held, Owned
  <1>4. IF "output_stdout" \in args THEN Handles(csv) \cup Handles(gSingleOutputCsv) \subseteq {STDOUT}
        ELSE IF "multi_csv" \in args
        THEN Handles(gSingleOutputCsv) = {} /\ Handles(csv) \subseteq Mine(p)
        ELSE Handles(csv) \subseteq Handles(gSingleOutputCsv) \cup orphans
    BY <1>3 DEF FilesInv, Ownership, ToStdout, ToEach, ToOne, Mine, Owned
  <1>. QED  BY <1>1, <1>2, <1>3, <1>4 DEF Sound, Whole

\* A new OutputCsv, for the process alone or as the single one.
LEMMA NewIsSound ==
    ASSUME FilesInv, NEW p, NEW name \in Names, NEW can \in [main : BOOLEAN, wmr : BOOLEAN],
           Mine(p) \subseteq orphans,
           "multi_csv" \notin args => Handles(gSingleOutputCsv) \subseteq orphans
    PROVE  LET new == CreateOutputCsv(name, can) IN
           Sound(p, [csv |-> new.csv,
                     single |-> IF "multi_csv" \in args THEN gSingleOutputCsv ELSE new.csv,
                     files |-> new.files, disk |-> new.disk, orphan |-> new.orphan])
  <1>. DEFINE new == CreateOutputCsv(name, can)
              single == IF "multi_csv" \in args THEN gSingleOutputCsv ELSE new.csv
              got == [csv |-> new.csv, single |-> single,
                      files |-> new.files, disk |-> new.disk, orphan |-> new.orphan]
  <1>. SUFFICES Sound(p, got)
    OBVIOUS
  <1>0. /\ got.csv = new.csv /\ got.files = new.files /\ got.orphan = new.orphan
        /\ got.single = IF "multi_csv" \in args THEN gSingleOutputCsv ELSE new.csv
    OBVIOUS
  <1>. HIDE DEF got
  <1>1. FilesTyped /\ gSingleOutputCsv \in OutputCsv /\ Whole(gSingleOutputCsv)
        /\ Handles(gSingleOutputCsv) \subseteq Held
    BY DEF FilesInv, FilesTyped, Held
  <1>2. files \in Seq(File) /\ Len(files) \in Nat /\ STDOUT \in 1..Len(files)
    BY <1>1 DEF FilesTyped
  <1>3. CASE "output_stdout" \in args
    <2>1. /\ new.csv = [mFile |-> STDOUT, mWmrFile |-> NULL]
          /\ new.files = files /\ new.orphan = {}
      BY <1>3 DEF CreateOutputCsv
    <2>. HIDE DEF new
    <2>2. /\ new.csv \in OutputCsv /\ Handles(new.csv) = {STDOUT} /\ new.csv.mFile # NULL
      BY <2>1 DEF OutputCsv, Handles, STDOUT, NULL
    <2>3. Handles(gSingleOutputCsv) \subseteq {STDOUT}
      BY <1>1, <1>3 DEF FilesInv, Ownership, ToStdout
    <2>4. gSingleOutputCsv.mFile = NULL => Handles(gSingleOutputCsv) \subseteq orphans
      BY <1>1 DEF Whole
    <2>. QED  BY <1>0, <1>1, <1>2, <1>3, <2>1, <2>2, <2>3, <2>4 DEF Sound
  <1>4. CASE "output_stdout" \notin args
    <2>1. /\ new.csv \in OutputCsv
          /\ new.files \in Seq(File) /\ Len(new.files) >= Len(files)
          /\ \A h \in 1..Len(files) : new.files[h] = files[h]
          /\ \A h \in Len(files) + 1..Len(new.files) :
               new.files[h].open /\ h \in Handles(new.csv)
          /\ Handles(new.csv) \subseteq Len(files) + 1..Len(new.files)
          /\ new.orphan \subseteq Handles(new.csv)
          /\ new.csv.mFile = NULL => Handles(new.csv) \subseteq new.orphan
      BY <1>1, <1>4, CreateOpens
    <2>. HIDE DEF new
    <2>2. Len(new.files) \in Nat /\ new.orphan \subseteq 1..Len(new.files)
      BY <1>2, <2>1
    <2>3. CASE "multi_csv" \in args
      <3>1. Handles(gSingleOutputCsv) = {}
        BY <1>4, <2>3 DEF FilesInv, Ownership, ToEach
      <3>. QED  BY <1>0, <1>1, <1>4, <2>1, <2>2, <2>3, <3>1 DEF Sound
    <2>4. CASE "multi_csv" \notin args
      BY <1>0, <1>1, <1>4, <2>1, <2>2, <2>4 DEF Sound
    <2>. QED  BY <2>3, <2>4
  <1>. QED  BY <1>3, <1>4

LEMMA GetIsSound ==
    ASSUME FilesInv, NEW p, NEW info \in ProcessInfo(p), NEW wanted \in BOOLEAN,
           NEW can \in Openable(info.name)
    PROVE  Sound(p, IF wanted THEN GetOutputCsv(info.csv, info.name, can) ELSE Same(info.csv))
  <1>1. /\ info.csv \in OutputCsv /\ info.name \in Names /\ Whole(info.csv)
        /\ Handles(info.csv) = Mine(p)
    BY InfoTyped DEF Info
  <1>2. can \in [main : BOOLEAN, wmr : BOOLEAN]
    BY DEF Openable
  <1>3. Sound(p, Same(info.csv))
    BY <1>1, SameIsSound
  <1>4. CASE wanted /\ "no_csv" \notin args /\ info.csv.mFile = NULL
    <2>1. Mine(p) \subseteq orphans
      BY <1>1, <1>4 DEF Whole
    <2>2. gSingleOutputCsv \in OutputCsv /\ Whole(gSingleOutputCsv)
      BY DEF FilesInv, FilesTyped
    <2>3. CASE "multi_csv" \notin args /\ gSingleOutputCsv.mFile # NULL
      <3>1. GetOutputCsv(info.csv, info.name, can) = Same(gSingleOutputCsv)
        BY <1>4, <2>3 DEF GetOutputCsv
      <3>. QED  BY <1>4, <2>1, <2>2, <2>3, <3>1, SameIsSound
    <2>4. CASE ~("multi_csv" \notin args /\ gSingleOutputCsv.mFile # NULL)
      <3>. DEFINE name == FileName(info.name)
                  new == CreateOutputCsv(name, can)
      <3>1. GetOutputCsv(info.csv, info.name, can) =
              [csv |-> new.csv,
               single |-> IF "multi_csv" \in args THEN gSingleOutputCsv ELSE new.csv,
               files |-> new.files, disk |-> new.disk, orphan |-> new.orphan]
        BY <1>4, <2>4 DEF GetOutputCsv
      <3>2. name \in Names
        BY <1>1 DEF Names, FileName
      <3>3. "multi_csv" \notin args => Handles(gSingleOutputCsv) \subseteq orphans
        BY <2>2, <2>4 DEF Whole
      <3>. HIDE DEF name
      <3>. QED  BY <1>2, <1>4, <2>1, <3>1, <3>2, <3>3, NewIsSound
    <2>. QED  BY <2>3, <2>4
  <1>5. CASE ~(wanted /\ "no_csv" \notin args /\ info.csv.mFile = NULL)
    BY <1>3, <1>5 DEF GetOutputCsv
  <1>. QED  BY <1>4, <1>5

\* What is kept of it leaves every FILE with its holders.
LEMMA SoundKeeps ==
    ASSUME FilesInv, NEW p, NEW info \in Info, NEW got, Sound(p, got),
           NEW chain \in BOOLEAN, Keep(p, info, got, chain),
           UNCHANGED <<setup, gRecordingCount>>
    PROVE  FilesInv'
  <1>1. /\ files' = got.files /\ gSingleOutputCsv' = got.single
        /\ orphans' = orphans \cup got.orphan
        /\ DOMAIN gProcesses' = DOMAIN gProcesses \cup {p}
        /\ gProcesses'[p] = [info EXCEPT !.csv = got.csv, !.chain = chain]
        /\ \A q \in DOMAIN gProcesses \ {p} : gProcesses'[q] = gProcesses[q]
    BY DEF Keep, With
  <1>2. args' = args
    BY DEF args
  <1>3. files \in Seq(File) /\ Len(files) \in Nat /\ STDOUT \in 1..Len(files)
    BY DEF FilesInv, FilesTyped
  <1>4. gProcesses'[p] \in Info /\ gProcesses'[p].csv = got.csv
    BY <1>1 DEF Info, Sound
  <1>5. Len(got.files) \in Nat /\ 1..Len(files) \subseteq 1..Len(got.files)
    BY <1>3 DEF Sound
  <1>6. /\ Owned(p)' = Handles(got.csv)
        /\ \A q \in DOMAIN gProcesses \ {p} : Owned(q)' = Owned(q)
    BY <1>1, <1>4 DEF Owned
  <1>7. Held' = Handles(got.csv) \cup Handles(got.single)
                  \cup UNION {Owned(q) : q \in DOMAIN gProcesses \ {p}}
    <2>1. Held' = Handles(gSingleOutputCsv)' \cup UNION {Owned(q)' : q \in (DOMAIN gProcesses)'}
      BY DEF Held, Owned
    <2>2. Handles(gSingleOutputCsv)' = Handles(got.single)
      BY <1>1 DEF Handles
    <2>. QED  BY <1>1, <1>6, <2>1, <2>2
  <1>8. FilesTyped'
    BY <1>1, <1>3, <1>4, <1>5 DEF FilesInv, FilesTyped, Sound
  <1>9. (Held \cup orphans \subseteq 1..Len(files))' /\ (files[STDOUT].open)'
    <2>1. Held \cup orphans \subseteq 1..Len(files) /\ files[STDOUT].open
      BY DEF FilesInv
    <2>2. UNION {Owned(q) : q \in DOMAIN gProcesses \ {p}} \subseteq Held
      BY DEF Held, Owned
    <2>3. /\ Handles(got.csv) \cup Handles(got.single) \subseteq 1..Len(got.files)
          /\ orphans \cup got.orphan \subseteq 1..Len(got.files)
      BY <1>3, <1>5, <2>1 DEF Sound
    <2>4. got.files[STDOUT].open
      BY <1>3, <2>1 DEF Sound
    <2>. QED  BY <1>1, <1>5, <1>7, <2>1, <2>2, <2>3, <2>4
  <1>10. Whole(gSingleOutputCsv)' /\ \A q \in (DOMAIN gProcesses)' : Whole(gProcesses[q].csv)'
    <2>1. Whole(gSingleOutputCsv)' /\ Whole(gProcesses[p].csv)'
      BY <1>1, <1>4 DEF Sound, Whole
    <2>2. \A q \in DOMAIN gProcesses \ {p} : Whole(gProcesses[q].csv)'
      BY <1>1 DEF FilesInv, Whole
    <2>. QED  BY <1>1, <2>1, <2>2
  <1>11. Ownership'
    <2>1. CASE "output_stdout" \in args
      <3>1. UNION {Owned(q) : q \in DOMAIN gProcesses \ {p}} \subseteq {STDOUT}
        BY <2>1 DEF FilesInv, Ownership, ToStdout, Held, Owned
      <3>2. Held' \subseteq {STDOUT}
        BY <1>7, <2>1, <3>1 DEF Sound
      <3>. QED  BY <1>2, <2>1, <3>2 DEF Ownership, ToStdout
    <2>2. CASE "output_stdout" \notin args
      <3>1. STDOUT \notin Held /\ UNION {Owned(q) : q \in DOMAIN gProcesses \ {p}} \subseteq Held
        BY <2>2 DEF FilesInv, Ownership, ToEach, ToOne, Held, Owned
      <3>2. Handles(got.csv) \cup Handles(got.single)
              \subseteq Held \cup (Len(files) + 1..Len(got.files))
        BY <2>2 DEF Sound
      <3>3. STDOUT \notin Held'
        BY <1>3, <1>7, <3>1, <3>2
      <3>4. CASE "multi_csv" \in args
        <4>1. ToEach /\ Handles(got.single) = {}
          BY <2>2, <3>4 DEF FilesInv, Ownership, Sound
        <4>2. \A q \in DOMAIN gProcesses \ {p} : Handles(got.csv) \cap Owned(q) = {}
          <5>. SUFFICES ASSUME NEW q \in DOMAIN gProcesses \ {p}
                        PROVE  Handles(got.csv) \cap Owned(q) = {}
            OBVIOUS
          <5>1. Owned(q) \subseteq 1..Len(files)
            BY DEF FilesInv, Held, Owned
          <5>2. Mine(p) \cap Owned(q) = {}
            BY <4>1 DEF Mine, ToEach
          <5>. QED  BY <1>3, <2>2, <3>4, <5>1, <5>2 DEF Sound
        <4>. QED  BY <1>1, <1>2, <1>6, <2>2, <3>3, <3>4, <4>1, <4>2 DEF Ownership, ToEach
      <3>5. CASE "multi_csv" \notin args
        <4>1. ToOne /\ Handles(gSingleOutputCsv) \subseteq Handles(got.single) \cup orphans
              /\ Handles(got.csv) \subseteq Handles(got.single) \cup orphans \cup got.orphan
          BY <2>2, <3>5 DEF FilesInv, Ownership, Sound
        <4>. QED  BY <1>1, <1>2, <1>6, <2>2, <3>3, <3>5, <4>1 DEF Ownership, ToOne
      <3>. QED  BY <3>4, <3>5
    <2>. QED  BY <2>1, <2>2
  <1>12. OpenIsHeld'
    <2>1. UNION {Owned(q) : q \in DOMAIN gProcesses \ {p}} \subseteq Held
      BY DEF Held, Owned
    <2>2. \A h \in Held' : got.files[h].open
      <3>. SUFFICES ASSUME NEW h \in Held' PROVE got.files[h].open
        OBVIOUS
      <3>1. CASE h \in Held \cup {STDOUT}
        BY <1>3, <3>1 DEF FilesInv, OpenIsHeld, Sound
      <3>2. CASE h \in Len(files) + 1..Len(got.files)
        BY <3>2 DEF Sound
      <3>. QED  BY <1>7, <2>1, <3>1, <3>2 DEF Sound
    <2>3. Held \subseteq Held' \cup orphans
      <3>1. Held \subseteq Mine(p) \cup Handles(gSingleOutputCsv)
                       \cup UNION {Owned(q) : q \in DOMAIN gProcesses \ {p}}
        BY DEF Held, Owned, Mine
      <3>. QED  BY <1>7, <3>1 DEF Sound
    <2>4. \A h \in 1..Len(got.files) :
            got.files[h].open => h \in Held' \cup orphans' \cup {STDOUT}
      <3>. SUFFICES ASSUME NEW h \in 1..Len(got.files), got.files[h].open
                    PROVE  h \in Held' \cup orphans' \cup {STDOUT}
        OBVIOUS
      <3>1. CASE h \in 1..Len(files)
        <4>1. files[h].open /\ h \in DOMAIN files
          BY <1>3, <3>1 DEF Sound
        <4>2. h \in Held \cup orphans \cup {STDOUT}
          BY <4>1 DEF FilesInv, OpenIsHeld
        <4>. QED  BY <1>1, <2>3, <4>2
      <3>2. CASE h \in Len(files) + 1..Len(got.files)
        BY <1>7, <3>2 DEF Sound
      <3>. QED  BY <1>3, <3>1, <3>2
    <2>5. DOMAIN files' = 1..Len(got.files)
      BY <1>1 DEF Sound
    <2>. QED  BY <1>1, <2>2, <2>4, <2>5 DEF OpenIsHeld
  <1>. QED  BY <1>8, <1>9, <1>10, <1>11, <1>12 DEF FilesInv

-----------------------------------------------------------------------------
(* CloseOutputCsv.                                                         *)

LEMMA ClosedFiles ==
    ASSUME FilesTyped, NEW closing
    PROVE  LET f == Closed(files, closing) IN
           /\ f \in Seq(File) /\ Len(f) = Len(files)
           /\ \A h \in 1..Len(files) : f[h].open <=> files[h].open /\ h \notin closing
  <1>. DEFINE f == Closed(files, closing)
  <1>1. files \in Seq(File) /\ Len(files) \in Nat /\ DOMAIN files = 1..Len(files)
    BY DEF FilesTyped
  <1>2. \A h \in 1..Len(files) : files[h] \in File
    BY <1>1
  <1>3. \A h \in 1..Len(files) : f[h] = IF h \in closing THEN [files[h] EXCEPT !.open = FALSE]
                                        ELSE files[h]
    BY <1>1 DEF Closed
  <1>4. \A h \in 1..Len(files) :
          f[h] \in File /\ (f[h].open <=> files[h].open /\ h \notin closing)
    BY <1>2, <1>3 DEF File
  <1>5. f \in [1..Len(files) -> File]
    BY <1>1, <1>4 DEF Closed
  <1>6. f \in Seq(File) /\ Len(f) = Len(files)
    BY <1>1, <1>5
  <1>. QED  BY <1>4, <1>6

\* CloseAll, with which nobody holds anything any more.
LEMMA CloseAllKeeps ==
    ASSUME FilesInv, CloseAll, UNCHANGED <<setup, orphans>>, gRecordingCount' \in Nat,
           \A p \in (DOMAIN gProcesses)' : gProcesses'[p] \in Info /\ gProcesses'[p].csv = NoCsv
    PROVE  FilesInv'
  <1>. DEFINE closing == ClosedForAll \cup UNION {ClosedFor(p) : p \in DOMAIN gProcesses}
  <1>1. files' = Closed(files, closing) /\ gSingleOutputCsv' = NoCsv
    BY DEF CloseAll
  <1>2. /\ FilesTyped /\ files \in Seq(File) /\ Len(files) \in Nat /\ STDOUT \in 1..Len(files)
        /\ args' = args
    BY DEF FilesInv, FilesTyped, args
  <1>3. /\ files' \in Seq(File) /\ Len(files') = Len(files)
        /\ \A h \in 1..Len(files) : files'[h].open <=> files[h].open /\ h \notin closing
    BY <1>1, <1>2, ClosedFiles
  <1>4. NoCsv \in OutputCsv /\ Handles(NoCsv) = {}
    BY DEF NoCsv, OutputCsv, Handles, NULL
  <1>5. Held' = {} /\ \A p \in (DOMAIN gProcesses)' : Owned(p)' = {}
    BY <1>1, <1>4 DEF Held, Owned
  <1>6. IF "output_stdout" \in args THEN closing = {} /\ Held \subseteq {STDOUT}
        ELSE STDOUT \notin closing /\ Held \subseteq closing \cup orphans
    <2>1. CASE "output_stdout" \in args
      BY <2>1 DEF FilesInv, Ownership, ToStdout, ClosedFor, ClosedForAll
    <2>2. CASE "output_stdout" \notin args /\ "multi_csv" \in args
      BY <2>2 DEF FilesInv, Ownership, ToEach, ClosedFor, ClosedForAll, Held, Owned
    <2>3. CASE "output_stdout" \notin args /\ "multi_csv" \notin args
      BY <2>3 DEF FilesInv, Ownership, ToOne, ClosedFor, ClosedForAll, Held, Owned
    <2>. QED  BY <2>1, <2>2, <2>3
  <1>7. FilesTyped'
    BY <1>1, <1>2, <1>3, <1>4 DEF FilesTyped
  <1>8. (Held \cup orphans \subseteq 1..Len(files))' /\ (files[STDOUT].open)'
    BY <1>2, <1>3, <1>5, <1>6 DEF FilesInv
  <1>9. Whole(gSingleOutputCsv)' /\ \A p \in (DOMAIN gProcesses)' : Whole(gProcesses[p].csv)'
    BY <1>1, <1>4 DEF Whole
  <1>10. Ownership'
    BY <1>1, <1>2, <1>4, <1>5 DEF Ownership, ToStdout, ToEach, ToOne
  <1>11. OpenIsHeld'
    <2>1. DOMAIN files = 1..Len(files) /\ DOMAIN files' = 1..Len(files)
      BY <1>2, <1>3
    <2>. QED  BY <1>3, <1>5, <1>6, <2>1 DEF FilesInv, OpenIsHeld
  <1>. QED  BY <1>7, <1>8, <1>9, <1>10, <1>11 DEF FilesInv

\* The exit of a process takes its own files, and no one else's.
LEMMA TerminatedKeeps ==
    ASSUME FilesInv, NEW p, HandleTerminatedProcess(p)
    PROVE  FilesInv'
  <1>1. /\ p \in DOMAIN gProcesses /\ files' = Closed(files, ClosedFor(p))
        /\ DOMAIN gProcesses' = DOMAIN gProcesses \ {p}
        /\ \A q \in DOMAIN gProcesses \ {p} : gProcesses'[q] = gProcesses[q]
        /\ UNCHANGED <<setup, gSingleOutputCsv, gRecordingCount, orphans>>
    BY DEF HandleTerminatedProcess
  <1>2. /\ FilesTyped /\ files \in Seq(File) /\ Len(files) \in Nat /\ STDOUT \in 1..Len(files)
        /\ args' = args
    BY <1>1 DEF FilesInv, FilesTyped, args
  <1>3. /\ files' \in Seq(File) /\ Len(files') = Len(files)
        /\ \A h \in 1..Len(files) : files'[h].open <=> files[h].open /\ h \notin ClosedFor(p)
    BY <1>1, <1>2, ClosedFiles
  <1>4. \A q \in DOMAIN gProcesses \ {p} : Owned(q)' = Owned(q)
    BY <1>1 DEF Owned
  <1>5. /\ Held' = Handles(gSingleOutputCsv) \cup UNION {Owned(q) : q \in DOMAIN gProcesses \ {p}}
        /\ Held = Held' \cup Owned(p)
    BY <1>1 DEF Held, Owned
  <1>6. /\ ClosedFor(p) \cap Held' = {} /\ STDOUT \notin ClosedFor(p)
        /\ Owned(p) \subseteq ClosedFor(p) \cup Held' \cup orphans \cup {STDOUT}
    <2>1. CASE "output_stdout" \in args
      BY <1>5, <2>1 DEF FilesInv, Ownership, ToStdout, ClosedFor
    <2>2. CASE "output_stdout" \notin args /\ "multi_csv" \in args
      BY <1>1, <1>5, <2>2 DEF FilesInv, Ownership, ToEach, ClosedFor, Owned
    <2>3. CASE "output_stdout" \notin args /\ "multi_csv" \notin args
      BY <1>1, <1>5, <2>3 DEF FilesInv, Ownership, ToOne, ClosedFor
    <2>. QED  BY <2>1, <2>2, <2>3
  <1>7. FilesTyped'
    BY <1>1, <1>2, <1>3 DEF FilesTyped
  <1>8. (Held \cup orphans \subseteq 1..Len(files))' /\ (files[STDOUT].open)'
    BY <1>1, <1>2, <1>3, <1>5, <1>6 DEF FilesInv
  <1>9. Whole(gSingleOutputCsv)' /\ \A q \in (DOMAIN gProcesses)' : Whole(gProcesses[q].csv)'
    BY <1>1 DEF FilesInv, Whole
  <1>10. Ownership'
    BY <1>1, <1>2, <1>4, <1>5 DEF FilesInv, Ownership, ToStdout, ToEach, ToOne
  <1>11. OpenIsHeld'
    <2>1. DOMAIN files = 1..Len(files) /\ DOMAIN files' = 1..Len(files)
      BY <1>2, <1>3
    <2>2. Held \subseteq 1..Len(files)
      BY DEF FilesInv
    <2>. QED  BY <1>1, <1>3, <1>5, <1>6, <2>1, <2>2 DEF FilesInv, OpenIsHeld
  <1>. QED  BY <1>7, <1>8, <1>9, <1>10, <1>11 DEF FilesInv

-----------------------------------------------------------------------------
(* The program.                                                            *)

LEMMA FilesInit == Init => FilesInv
  <1>. SUFFICES ASSUME Init PROVE FilesInv
    OBVIOUS
  <1>. DEFINE stdout == [path |-> <<NoName, 0, "stdout">>, open |-> TRUE]
  <1>1. /\ setup \in Setups /\ files = <<stdout>> /\ gSingleOutputCsv = NoCsv
        /\ gRecordingCount = 1 /\ DOMAIN gProcesses = {} /\ orphans = {}
    BY DEF Init, CsvInit
  <1>2. stdout \in File
    BY DEF File, Paths, Names
  <1>3. files \in Seq(File) /\ Len(files) = 1 /\ files[1] = stdout /\ DOMAIN files = {1}
    BY <1>1, <1>2
  <1>4. NoCsv \in OutputCsv /\ Handles(NoCsv) = {}
    BY DEF NoCsv, OutputCsv, Handles, NULL
  <1>5. Held = {}
    BY <1>1, <1>4 DEF Held
  <1>6. FilesTyped
    BY <1>1, <1>3, <1>4 DEF FilesTyped, STDOUT
  <1>7. Ownership /\ Whole(gSingleOutputCsv)
    BY <1>1, <1>4, <1>5 DEF Ownership, ToStdout, ToEach, ToOne, Whole
  <1>8. OpenIsHeld
    BY <1>3, <1>5 DEF OpenIsHeld, STDOUT
  <1>. QED  BY <1>1, <1>3, <1>5, <1>6, <1>7, <1>8 DEF FilesInv, STDOUT

\* Of the state nothing else matters to FilesInv.
LEMMA FilesKept ==
    ASSUME FilesInv, UNCHANGED <<files, gSingleOutputCsv, gProcesses, setup, orphans>>,
           gRecordingCount' \in Nat
    PROVE  FilesInv'
  <1>1. args' = args /\ Held' = Held /\ \A p \in DOMAIN gProcesses : Owned(p)' = Owned(p)
    BY DEF args, Held, Owned
  <1>2. FilesTyped' /\ OpenIsHeld'
    BY <1>1 DEF FilesInv, FilesTyped, OpenIsHeld
  <1>3. Whole(gSingleOutputCsv)' /\ \A p \in (DOMAIN gProcesses)' : Whole(gProcesses[p].csv)'
    BY DEF FilesInv, Whole
  <1>4. Ownership'
    BY <1>1 DEF FilesInv, Ownership, ToStdout, ToEach, ToOne
  <1>. QED  BY <1>1, <1>2, <1>3, <1>4 DEF FilesInv

LEMMA FilesNext == FilesInv /\ [Next]_vars => FilesInv'
  <1>. SUFFICES ASSUME FilesInv, [Next]_vars PROVE FilesInv'
    OBVIOUS
  <1>1. ASSUME UNCHANGED csvVars PROVE FilesInv'
    BY <1>1, FilesKept DEF csvVars, handleVars, FilesInv, FilesTyped
  <1>2. ASSUME NEW p, NEW presented \in BOOLEAN, AddPresent(p, presented) PROVE FilesInv'
    <2>1. PICK info \in ProcessInfo(p) : \E can \in Openable(info.name) :
            LET wanted == recording /\ ("exclude_dropped" \in args => presented)
            IN  Keep(p, info, IF wanted THEN GetOutputCsv(info.csv, info.name, can)
                              ELSE Same(info.csv), TRUE)
      BY <1>2 DEF AddPresent
    <2>2. UNCHANGED <<setup, gRecordingCount>>
      BY <1>2 DEF AddPresent
    <2>. QED  BY <2>1, <2>2, InfoTyped, GetIsSound, SoundKeeps
  <1>3. ASSUME AddLSR PROVE FilesInv'
    <2>. DEFINE p == GetAppProcessId(Head(lsrEvents))
    <2>1. PICK info \in ProcessInfo(p) : \E can \in Openable(info.name), wanted \in BOOLEAN :
            Keep(p, info, IF wanted THEN GetOutputCsv(info.csv, info.name, can)
                          ELSE Same(info.csv), info.chain)
      BY <1>3 DEF AddLSR
    <2>2. UNCHANGED <<setup, gRecordingCount>> /\ info.chain \in BOOLEAN
      BY <1>3, InfoTyped DEF AddLSR, Info
    <2>. QED  BY <2>1, <2>2, InfoTyped, GetIsSound, SoundKeeps
  <1>4. ASSUME ToggleRecording PROVE FilesInv'
    <2>1. gRecordingCount' \in Nat /\ UNCHANGED <<setup, orphans>>
      BY <1>4 DEF ToggleRecording, FilesInv, FilesTyped
    <2>2. CASE recording
      <3>1. /\ CloseAll
            /\ gProcesses' = [p \in DOMAIN gProcesses |-> [gProcesses[p] EXCEPT !.csv = NoCsv]]
        BY <1>4, <2>2 DEF ToggleRecording
      <3>2. \A p \in (DOMAIN gProcesses)' :
              gProcesses'[p] \in Info /\ gProcesses'[p].csv = NoCsv
        BY <3>1 DEF FilesInv, FilesTyped, Info, NoCsv, OutputCsv, NULL
      <3>. QED  BY <2>1, <3>1, <3>2, CloseAllKeeps
    <2>3. CASE ~recording
      <3>1. UNCHANGED <<files, gSingleOutputCsv, gProcesses, setup, orphans>>
        BY <1>4, <2>3 DEF ToggleRecording
      <3>. QED  BY <2>1, <3>1, FilesKept
    <2>. QED  BY <2>2, <2>3
  <1>5. ASSUME EndOutput PROVE FilesInv'
    <2>1. /\ CloseAll /\ UNCHANGED <<setup, orphans, gRecordingCount>>
          /\ (DOMAIN gProcesses)' = {}
      BY <1>5 DEF EndOutput
    <2>. QED  BY <2>1, CloseAllKeeps DEF FilesInv, FilesTyped
  <1>6. ASSUME NEW p, HandleTerminatedProcess(p) PROVE FilesInv'
    BY <1>6, TerminatedKeeps
  <1>7. ASSUME HandleSpectrumContinuousEvent \/ HandleDHDEvent \/ DequeueLSRs
        PROVE  UNCHANGED csvVars
    BY <1>7 DEF HandleSpectrumContinuousEvent, HolographicFrameStart, HolographicFrame_Stop,
         GetNewPose, otherThanFrames, HandleDHDEvent, Stamp, ReleaseFromPresentation,
         Destruction, BeginLsr, LatchedInput, MissVsync, PresentationTiming, otherThanLSR,
         DequeueLSRs
  <1>. QED  BY <1>1, <1>2, <1>3, <1>4, <1>5, <1>6, <1>7 DEF Next, CsvNext, vars

THEOREM FilesInductive == Spec => []FilesInv
  BY FilesInit, FilesNext, PTL DEF Spec

\* CsvOutput.cpp:277-279: a FILE is closed once nobody needs it, and not before,
\* whatever the options, processes, exits, recordings and failing opens.
THEOREM OpenFilesAreHeld == Spec => []OpenIsHeld
  <1>1. FilesInv => OpenIsHeld
    BY DEF FilesInv
  <1>. QED  BY FilesInductive, <1>1, PTL

-----------------------------------------------------------------------------
(* The rows.  A path is opened, and what was in it lost, by whoever has no *)
(* file and wants one; that no rows of this recording are in it rests on   *)
(* who has the file when there are, and none of another recording, on the  *)
(* count in its name.                                                      *)

\* p is called name, if it could be queried.
Known(p, name) == name = ErrorName \/ (p \in Processes /\ name = setup.name[p])

\* The files of csv, in f, are those that the rows of a process called name belong to.
NamedIn(f, csv, name) ==
  /\ csv.mFile # NULL => f[csv.mFile].path = Belonging(name, "main")
  /\ csv.mWmrFile # NULL => f[csv.mWmrFile].path = Belonging(name, "wmr")
Named(csv, name) == NamedIn(files, csv, name)

Rows(path) == IF path \in DOMAIN belongs THEN belongs[path] ELSE <<>>

\* There may be more rows for this path.
Current(path) ==
  /\ running
  /\ IF "hotkey" \in args THEN path[2] = recordings + 1 ELSE recordings = 0

Survive ==
  /\ recordings \in Nat /\ gRecordingCount = recordings + 1
  /\ recording => "hotkey" \in args \/ recordings = 0
  /\ files[STDOUT].path = <<NoName, 0, "stdout">>
  /\ Named(gSingleOutputCsv, NoName)
  /\ \A p \in DOMAIN gProcesses :
       Known(p, gProcesses[p].name) /\ Named(gProcesses[p].csv, gProcesses[p].name)
  /\ \A h \in 1..Len(files) : files[h].path \in DOMAIN disk
  /\ \A path \in DOMAIN disk : ~Reopened(path) => disk[path] = Rows(path)
  /\ \A path \in DOMAIN belongs :
       /\ path \in DOMAIN disk /\ path[2] \in 0..recordings + 1
       /\ Current(path) => Reopened(path) \/ \E h \in Held \cup {STDOUT} : files[h].path = path

\* What got leaves of the rows.
Spares(name, got) ==
  /\ NamedIn(got.files, got.csv, name) /\ NamedIn(got.files, got.single, NoName)
  /\ \A h \in 1..Len(got.files) : got.files[h].path \in DOMAIN got.disk
  /\ DOMAIN disk \subseteq DOMAIN got.disk
  /\ \A path \in DOMAIN got.disk :
       \/ path \in DOMAIN disk /\ got.disk[path] = disk[path]
       \/ got.disk[path] = <<>> /\ (path \in DOMAIN belongs => Reopened(path))

\* What is shared stays shared.
LEMMA ReopenedStays ==
    ASSUME FilesInv, UNCHANGED setup, exited \subseteq exited', orphans \subseteq orphans',
           \A h \in 1..Len(files) : files'[h].path = files[h].path
    PROVE  \A path : Reopened(path) => Reopened(path)'
  <1>1. args' = args /\ orphans \subseteq 1..Len(files)
    BY DEF args, FilesInv
  <1>. SUFFICES ASSUME NEW path, Reopened(path) PROVE Reopened(path)'
    OBVIOUS
  <1>2. CASE \E h \in orphans : files[h].path = path
    BY <1>1, <1>2 DEF Reopened
  <1>3. CASE "multi_csv" \in args /\ (\/ path[1] \in exited
                                     \/ \E p, q \in Processes : p # q /\ setup.name[p] = path[1]
                                                                 /\ setup.name[q] = path[1])
    BY <1>1, <1>3 DEF Reopened
  <1>. QED  BY <1>2, <1>3 DEF Reopened

\* A file is created by who has none, so the rows that belong to its path, if
\* there are any, are from an exited process or from one with the same name.
LEMMA NewIsFresh ==
    ASSUME FilesInv, Survive, running, recording, "output_stdout" \notin args,
           NEW p, NEW info \in ProcessInfo(p), info.csv.mFile = NULL,
           "multi_csv" \notin args => gSingleOutputCsv.mFile = NULL,
           FileName(info.name) # ErrorName, NEW kind \in {"main", "wmr"},
           Belonging(info.name, kind) \in DOMAIN belongs
    PROVE  Reopened(Belonging(info.name, kind))
  <1>. DEFINE path == Belonging(info.name, kind)
  <1>1. /\ path[1] = FileName(info.name) /\ path[3] = kind
        /\ path[2] = IF "hotkey" \in args THEN recordings + 1 ELSE 0
    BY DEF Belonging
  <1>2. Current(path)
    BY <1>1 DEF Survive, Current
  <1>. HIDE DEF path
  <1>. SUFFICES ASSUME ~Reopened(path) PROVE FALSE
    BY DEF path
  <1>3. PICK h \in Held : files[h].path = path /\ h \notin orphans
    <2>1. PICK h \in Held \cup {STDOUT} : files[h].path = path
      BY <1>2 DEF Survive, path
    <2>2. h # STDOUT
      BY <1>1, <2>1 DEF Survive
    <2>3. h \notin orphans
      BY <2>1 DEF Reopened
    <2>. QED  BY <2>1, <2>2, <2>3
  <1>4. CASE "multi_csv" \notin args
    <2>1. Held \subseteq Handles(gSingleOutputCsv) \cup orphans
      BY <1>4 DEF FilesInv, Ownership, ToOne, Held, Owned
    <2>2. Handles(gSingleOutputCsv) \subseteq orphans
      BY <1>4 DEF FilesInv, Whole
    <2>. QED  BY <1>3, <2>1, <2>2
  <1>5. CASE "multi_csv" \in args
    <2>1. PICK q \in DOMAIN gProcesses : h \in Owned(q)
      BY <1>3, <1>5 DEF FilesInv, Ownership, ToEach, Held, Owned
    <2>2. gProcesses[q].name = info.name /\ info.name # ErrorName
      <3>1. \/ files[h].path = Belonging(gProcesses[q].name, "main")
            \/ files[h].path = Belonging(gProcesses[q].name, "wmr")
        BY <2>1 DEF Survive, Named, NamedIn, Owned, Handles
      <3>2. files[h].path[1] = FileName(gProcesses[q].name)
        BY <3>1 DEF Belonging
      <3>. QED  BY <1>1, <1>3, <1>5, <3>2 DEF FileName
    <2>3. q \in Processes /\ setup.name[q] = info.name
      BY <2>2 DEF Survive, Known
    <2>4. p \in Processes /\ setup.name[p] = info.name
      BY <2>2 DEF Survive, Known, ProcessInfo
    <2>5. path[1] = info.name
      BY <1>1, <1>5 DEF FileName
    <2>6. p = q
      BY <1>5, <2>3, <2>4, <2>5 DEF Reopened
    <2>7. info.csv = gProcesses[q].csv
      BY <2>1, <2>6 DEF ProcessInfo
    <2>8. Handles(gProcesses[q].csv) \subseteq orphans
      BY <2>7 DEF FilesInv, Whole
    <2>. QED  BY <1>3, <2>1, <2>8 DEF Owned
  <1>. QED  BY <1>4, <1>5

\* CreateOutputCsv: the paths it opens.
LEMMA CreateSpares ==
    ASSUME FilesInv, Survive, NEW name \in Names, NEW can \in [main : BOOLEAN, wmr : BOOLEAN],
           "output_stdout" \notin args
    PROVE  LET new == CreateOutputCsv(FileName(name), can) IN
           /\ NamedIn(new.files, new.csv, name)
           /\ \A h \in 1..Len(new.files) : new.files[h].path \in DOMAIN new.disk
           /\ DOMAIN disk \subseteq DOMAIN new.disk
           /\ \A path \in DOMAIN new.disk :
                \/ path \in DOMAIN disk /\ new.disk[path] = disk[path]
                \/ /\ new.disk[path] = <<>>
                   /\ \E kind \in {"main", "wmr"} : path = Belonging(name, kind)
                   /\ can.main \/ can.wmr
  <1>. DEFINE main == Belonging(name, "main")
              wmr  == Belonging(name, "wmr")
              first == [path |-> main, open |-> TRUE]
              other == [path |-> wmr, open |-> TRUE]
              f1 == IF can.main THEN Append(files, first) ELSE files
              d1 == IF can.main THEN Truncated(disk, main) ELSE disk
              second == "include_mixed_reality" \in args /\ can.wmr
              f2 == IF second THEN Append(f1, other) ELSE f1
              d2 == IF second THEN Truncated(d1, wmr) ELSE d1
              mFile == IF can.main THEN Len(f1) ELSE NULL
              mWmrFile == IF second THEN Len(f2) ELSE NULL
  <1>1. /\ main = GenerateFilename(FileName(name), "main")
        /\ wmr = GenerateFilename(FileName(name), "wmr")
    BY DEF Belonging, GenerateFilename, Survive
  <1>2. /\ CreateOutputCsv(FileName(name), can).csv = [mFile |-> mFile, mWmrFile |-> mWmrFile]
        /\ CreateOutputCsv(FileName(name), can).files = f2
        /\ CreateOutputCsv(FileName(name), can).disk = d2
    BY <1>1 DEF CreateOutputCsv, Opened
  <1>3. first \in File /\ other \in File
    <2>1. main \in Paths /\ wmr \in Paths
      BY DEF Belonging, FileName, Paths, Names, Survive
    <2>. QED  BY <2>1 DEF File
  <1>. HIDE DEF main, wmr
  <1>4. first.path = main /\ other.path = wmr
    OBVIOUS
  <1>. HIDE DEF first, other
  <1>5. files \in Seq(File) /\ Len(files) \in Nat
    BY DEF FilesInv, FilesTyped
  <1>6. /\ f1 \in Seq(File) /\ Len(f1) \in Nat
        /\ Len(f1) = IF can.main THEN Len(files) + 1 ELSE Len(files)
        /\ \A h \in 1..Len(files) : f1[h] = files[h]
        /\ can.main => f1[Len(files) + 1] = first
    <2>1. CASE can.main
      BY <1>3, <1>5, <2>1, AppendProperties
    <2>2. CASE ~can.main
      BY <1>5, <2>2
    <2>. QED  BY <2>1, <2>2
  <1>. HIDE DEF f1
  <1>7. /\ f2 \in Seq(File) /\ Len(f2) \in Nat
        /\ Len(f2) = IF second THEN Len(f1) + 1 ELSE Len(f1)
        /\ \A h \in 1..Len(f1) : f2[h] = f1[h]
        /\ second => f2[Len(f1) + 1] = other
    <2>1. CASE second
      BY <1>3, <1>6, <2>1, AppendProperties
    <2>2. CASE ~second
      BY <1>6, <2>2
    <2>. QED  BY <2>1, <2>2
  <1>8. /\ DOMAIN d1 = DOMAIN disk \cup (IF can.main THEN {main} ELSE {})
        /\ \A path \in DOMAIN d1 :
             \/ path \in DOMAIN disk /\ d1[path] = disk[path]
             \/ d1[path] = <<>> /\ path = main /\ can.main
    BY DEF Truncated, With
  <1>. HIDE DEF d1
  <1>9. /\ DOMAIN d2 = DOMAIN d1 \cup (IF second THEN {wmr} ELSE {})
        /\ \A path \in DOMAIN d2 :
             \/ path \in DOMAIN d1 /\ d2[path] = d1[path]
             \/ d2[path] = <<>> /\ path = wmr /\ can.wmr
    BY DEF Truncated, With
  <1>. HIDE DEF f2, d2
  <1>10. NamedIn(f2, [mFile |-> mFile, mWmrFile |-> mWmrFile], name)
    <2>1. can.main => mFile = Len(files) + 1 /\ f2[Len(files) + 1].path = main
      BY <1>4, <1>5, <1>6, <1>7
    <2>2. second => mWmrFile = Len(f1) + 1 /\ f2[Len(f1) + 1].path = wmr
      BY <1>4, <1>6, <1>7
    <2>. HIDE DEF second
    <2>. QED  BY <2>1, <2>2 DEF NamedIn, NULL, main, wmr
  <1>11. \A h \in 1..Len(f2) : f2[h].path \in DOMAIN d2
    <2>. SUFFICES ASSUME NEW h \in 1..Len(f2) PROVE f2[h].path \in DOMAIN d2
      OBVIOUS
    <2>1. CASE h <= Len(files)
      <3>1. f2[h] = files[h] /\ h \in 1..Len(files)
        BY <1>5, <1>6, <1>7, <2>1
      <3>. QED  BY <1>8, <1>9, <3>1 DEF Survive
    <2>2. CASE h > Len(files) /\ h <= Len(f1)
      <3>1. can.main /\ f2[h] = first
        BY <1>5, <1>6, <1>7, <2>2
      <3>. QED  BY <1>4, <1>8, <1>9, <3>1
    <2>3. CASE h > Len(f1)
      <3>1. second /\ f2[h] = other
        BY <1>5, <1>6, <1>7, <2>3
      <3>. QED  BY <1>4, <1>9, <3>1
    <2>. QED  BY <1>5, <1>6, <1>7, <2>1, <2>2, <2>3
  <1>12. \A path \in DOMAIN d2 :
           \/ path \in DOMAIN disk /\ d2[path] = disk[path]
           \/ /\ d2[path] = <<>> /\ path \in {main, wmr}
              /\ can.main \/ can.wmr
    BY <1>8, <1>9
  <1>. QED  BY <1>2, <1>8, <1>9, <1>10, <1>11, <1>12 DEF main, wmr

\* Whatever csv a process keeps or copies.
LEMMA SameSpares ==
    ASSUME FilesInv, Survive, NEW name, NEW csv, Named(csv, name)
    PROVE  Spares(name, Same(csv))
  BY DEF Survive, Named, Spares, Same

LEMMA GetSpares ==
    ASSUME FilesInv, Survive, running, NEW p, NEW info \in ProcessInfo(p), NEW wanted \in BOOLEAN,
           NEW can \in Openable(info.name), wanted => recording
    PROVE  Spares(info.name, IF wanted THEN GetOutputCsv(info.csv, info.name, can)
                             ELSE Same(info.csv))
  <1>1. info.name \in Names /\ Named(info.csv, info.name)
    <2>1. CASE p \in DOMAIN gProcesses
      BY <2>1, InfoTyped DEF ProcessInfo, Survive, Info
    <2>2. CASE p \notin DOMAIN gProcesses
      BY <2>2, InfoTyped DEF ProcessInfo, NoCsv, Named, NamedIn, Info
    <2>. QED  BY <2>1, <2>2
  <1>2. can \in [main : BOOLEAN, wmr : BOOLEAN]
        /\ (can.main \/ can.wmr => FileName(info.name) # ErrorName)
    BY DEF Openable
  <1>3. Spares(info.name, Same(info.csv))
    BY <1>1, SameSpares
  <1>4. CASE wanted /\ "no_csv" \notin args /\ info.csv.mFile = NULL
    <2>1. CASE "multi_csv" \notin args /\ gSingleOutputCsv.mFile # NULL
      <3>1. GetOutputCsv(info.csv, info.name, can) = Same(gSingleOutputCsv)
        BY <1>4, <2>1 DEF GetOutputCsv
      <3>2. \A kind : Belonging(info.name, kind) = Belonging(NoName, kind)
        BY <2>1 DEF Belonging, FileName
      <3>3. Named(gSingleOutputCsv, info.name)
        BY <3>2 DEF Survive, Named, NamedIn
      <3>. QED  BY <1>4, <3>1, <3>3, SameSpares
    <2>2. CASE ~("multi_csv" \notin args /\ gSingleOutputCsv.mFile # NULL)
      <3>. DEFINE new == CreateOutputCsv(FileName(info.name), can)
                  single == IF "multi_csv" \in args THEN gSingleOutputCsv ELSE new.csv
                  got == [csv |-> new.csv, single |-> single,
                          files |-> new.files, disk |-> new.disk, orphan |-> new.orphan]
      <3>1. GetOutputCsv(info.csv, info.name, can) = got
        BY <1>4, <2>2 DEF GetOutputCsv
      <3>2. /\ got.csv = new.csv /\ got.files = new.files /\ got.disk = new.disk
            /\ got.single = single
        OBVIOUS
      <3>. HIDE DEF got
      <3>3. CASE "output_stdout" \in args
        <4>1. /\ new.csv = [mFile |-> STDOUT, mWmrFile |-> NULL]
              /\ new.files = files /\ new.disk = disk
          BY <3>3 DEF CreateOutputCsv
        <4>2. \A n, kind : Belonging(n, kind) = <<NoName, 0, "stdout">>
          BY <3>3 DEF Belonging
        <4>. HIDE DEF new
        <4>3. NamedIn(files, new.csv, info.name) /\ NamedIn(files, single, NoName)
          BY <4>1, <4>2 DEF Survive, Named, NamedIn
        <4>. QED  BY <1>4, <3>1, <3>2, <4>1, <4>3 DEF Spares, Survive
      <3>4. CASE "output_stdout" \notin args
        <4>1. /\ NamedIn(new.files, new.csv, info.name)
              /\ \A h \in 1..Len(new.files) : new.files[h].path \in DOMAIN new.disk
              /\ DOMAIN disk \subseteq DOMAIN new.disk
              /\ \A path \in DOMAIN new.disk :
                   \/ path \in DOMAIN disk /\ new.disk[path] = disk[path]
                   \/ /\ new.disk[path] = <<>>
                      /\ \E kind \in {"main", "wmr"} : path = Belonging(info.name, kind)
                      /\ can.main \/ can.wmr
          BY <1>1, <1>2, <3>4, CreateSpares
        <4>. HIDE DEF new
        <4>2. \A kind \in {"main", "wmr"} :
                (can.main \/ can.wmr) /\ Belonging(info.name, kind) \in DOMAIN belongs =>
                Reopened(Belonging(info.name, kind))
          BY <1>2, <1>4, <2>2, <3>4, NewIsFresh
        <4>3. NamedIn(new.files, single, NoName)
          <5>1. CASE "multi_csv" \in args
            <6>1. Handles(gSingleOutputCsv) = {}
              BY <3>4, <5>1 DEF FilesInv, Ownership, ToEach
            <6>. QED  BY <5>1, <6>1 DEF NamedIn, Handles
          <5>2. CASE "multi_csv" \notin args
            <6>1. \A kind : Belonging(info.name, kind) = Belonging(NoName, kind)
              BY <5>2 DEF Belonging, FileName
            <6>. QED  BY <4>1, <5>2, <6>1 DEF NamedIn
          <5>. QED  BY <5>1, <5>2
        <4>. QED  BY <1>4, <3>1, <3>2, <4>1, <4>2, <4>3 DEF Spares
      <3>. QED  BY <3>3, <3>4
    <2>. QED  BY <2>1, <2>2
  <1>5. CASE ~(wanted /\ "no_csv" \notin args /\ info.csv.mFile = NULL)
    BY <1>3, <1>5 DEF GetOutputCsv
  <1>. QED  BY <1>4, <1>5

\* A present or an LSR of p, with or without a row.
LEMMA RowKeeps ==
    ASSUME FilesInv, Survive, NEW p, NEW info \in ProcessInfo(p), NEW got, Sound(p, got),
           Spares(info.name, got), NEW chain, Keep(p, info, got, chain),
           UNCHANGED <<setup, gRecordingCount, recording, running, recordings, exited>>,
           \/ disk' = got.disk /\ UNCHANGED belongs
           \/ \E kind \in {"main", "wmr"} :
                LET h == IF kind = "main" THEN got.csv.mFile ELSE got.csv.mWmrFile
                IN  /\ h # NULL /\ disk' = Wrote(got.disk, got.files, h, p)
                    /\ belongs' = Recorded(Belonging(info.name, kind), p)
    PROVE  Survive'
  <1>1. /\ files' = got.files /\ gSingleOutputCsv' = got.single
        /\ orphans' = orphans \cup got.orphan
        /\ DOMAIN gProcesses' = DOMAIN gProcesses \cup {p}
        /\ gProcesses'[p] = [info EXCEPT !.csv = got.csv, !.chain = chain]
        /\ \A q \in DOMAIN gProcesses \ {p} : gProcesses'[q] = gProcesses[q]
    BY DEF Keep, With
  <1>2. gProcesses'[p].csv = got.csv /\ gProcesses'[p].name = info.name
    BY <1>1, InfoTyped DEF Info
  <1>3. /\ Len(files) \in Nat /\ STDOUT \in 1..Len(files) /\ Len(got.files) \in Nat
        /\ Len(got.files) >= Len(files)
        /\ \A h \in 1..Len(files) : got.files[h] = files[h]
        /\ Held \subseteq 1..Len(files)
        /\ Handles(got.csv) \cup Handles(got.single) \subseteq 1..Len(got.files)
    BY DEF FilesInv, FilesTyped, Sound
  <1>4. args' = args /\ \A name, kind : Belonging(name, kind)' = Belonging(name, kind)
    BY DEF args, Belonging, FileName
  <1>5. \A path : Reopened(path) => Reopened(path)'
    BY <1>1, <1>3, ReopenedStays
  <1>6. \A path : Current(path)' <=> Current(path)
    BY <1>4 DEF Current
  <1>7. Named(gSingleOutputCsv, NoName)'
    BY <1>1, <1>4 DEF Spares, Named, NamedIn
  <1>8. \A q \in DOMAIN gProcesses' :
          Known(q, gProcesses[q].name)' /\ Named(gProcesses[q].csv, gProcesses[q].name)'
    <2>. SUFFICES ASSUME NEW q \in DOMAIN gProcesses'
                  PROVE  Known(q, gProcesses[q].name)' /\ Named(gProcesses[q].csv, gProcesses[q].name)'
      OBVIOUS
    <2>1. CASE q = p
      <3>1. Known(p, info.name)
        BY DEF Survive, ProcessInfo, Known
      <3>2. Named(gProcesses[p].csv, gProcesses[p].name)'
        BY <1>1, <1>2, <1>4 DEF Spares, Named, NamedIn
      <3>. QED  BY <1>2, <2>1, <3>1, <3>2 DEF Known
    <2>2. CASE q # p
      <3>1. q \in DOMAIN gProcesses /\ gProcesses'[q] = gProcesses[q]
        BY <1>1, <2>2
      <3>2. Handles(gProcesses[q].csv) \subseteq 1..Len(files)
        BY <1>3, <3>1 DEF Held
      <3>3. Known(q, gProcesses[q].name) /\ Named(gProcesses[q].csv, gProcesses[q].name)
        BY <3>1 DEF Survive
      <3>. QED  BY <1>1, <1>3, <1>4, <3>1, <3>2, <3>3 DEF Known, Named, NamedIn, Handles
    <2>. QED  BY <2>1, <2>2
  <1>9. \A path \in DOMAIN got.disk : ~Reopened(path)' => got.disk[path] = Rows(path)
    <2>. SUFFICES ASSUME NEW path \in DOMAIN got.disk, ~Reopened(path)
                  PROVE  got.disk[path] = Rows(path)
      BY <1>5
    <2>. QED  BY DEF Spares, Survive, Rows
  <1>10. \A path \in DOMAIN belongs :
           /\ path \in DOMAIN got.disk /\ path[2] \in 0..recordings + 1
           /\ Current(path)' => \/ Reopened(path)'
                                \/ \E h \in Held' \cup {STDOUT} : files'[h].path = path
    <2>. SUFFICES ASSUME NEW path \in DOMAIN belongs, Current(path), ~Reopened(path)'
                  PROVE  \E h \in Held' \cup {STDOUT} : files'[h].path = path
      BY <1>6 DEF Survive, Spares
    <2>1. PICK h \in Held \cup {STDOUT} : files[h].path = path
      BY <1>5 DEF Survive
    <2>2. files'[h].path = path
      BY <1>1, <1>3, <2>1
    <2>3. h \notin orphans'
      BY <2>2 DEF Reopened
    <2>4. CASE h \in Held
      <3>1. Held \subseteq Handles(gSingleOutputCsv) \cup Mine(p)
                       \cup UNION {Owned(q) : q \in DOMAIN gProcesses \ {p}}
        BY DEF Held, Owned, Mine
      <3>2. Handles(gSingleOutputCsv) \cup Mine(p)
              \subseteq Handles(got.single) \cup Handles(got.csv) \cup orphans
        BY DEF Sound
      <3>3. Handles(got.single) \subseteq Held'
        BY <1>1 DEF Held, Handles
      <3>4. Handles(got.csv) \subseteq Held'
        <4>1. Handles(gProcesses'[p].csv) \subseteq Held'
          BY <1>1 DEF Held, Handles
        <4>. QED  BY <1>2, <4>1
      <3>5. \A q \in DOMAIN gProcesses \ {p} : Owned(q) \subseteq Held'
        BY <1>1 DEF Held, Owned, Handles
      <3>. QED  BY <1>1, <2>2, <2>3, <2>4, <3>1, <3>2, <3>3, <3>4, <3>5
    <2>. QED  BY <2>1, <2>2, <2>4
  <1>11. /\ recordings' \in Nat /\ gRecordingCount' = recordings' + 1
         /\ recording' => "hotkey" \in args' \/ recordings' = 0
         /\ files'[STDOUT].path = <<NoName, 0, "stdout">>
    BY <1>1, <1>3, <1>4 DEF Survive
  <1>12. DOMAIN files' = 1..Len(files') /\ Len(files') = Len(got.files)
    BY <1>1 DEF Sound
  <1>13. CASE disk' = got.disk /\ UNCHANGED belongs
    <2>1. \A path : Rows(path)' = Rows(path)
      BY <1>13 DEF Rows
    <2>2. \A h \in 1..Len(files') : files'[h].path \in DOMAIN disk'
      BY <1>1, <1>13 DEF Spares
    <2>. QED  BY <1>7, <1>8, <1>9, <1>10, <1>11, <1>13, <2>1, <2>2 DEF Survive
  <1>14. ASSUME NEW kind \in {"main", "wmr"},
                LET h == IF kind = "main" THEN got.csv.mFile ELSE got.csv.mWmrFile
                IN  /\ h # NULL /\ disk' = Wrote(got.disk, got.files, h, p)
                    /\ belongs' = Recorded(Belonging(info.name, kind), p)
         PROVE  Survive'
    <2>. DEFINE h == IF kind = "main" THEN got.csv.mFile ELSE got.csv.mWmrFile
    <2>0. PICK P : P = Belonging(info.name, kind)
      OBVIOUS
    <2>1. h \in Handles(got.csv) /\ got.files[h].path = P
      BY <1>14, <2>0 DEF Handles, Spares, NamedIn
    <2>2. disk' = [got.disk EXCEPT ![P] = Append(got.disk[P], p)]
      BY <1>14, <2>1 DEF Wrote
    <2>3. P \in DOMAIN got.disk
      BY <1>3, <2>1 DEF Spares
    <2>4. P[2] \in 0..recordings + 1
      BY <2>0 DEF Belonging, Survive
    <2>5. h \in Held' /\ files'[h].path = P
      <3>1. Handles(gProcesses'[p].csv) \subseteq Held'
        BY <1>1 DEF Held, Handles
      <3>. QED  BY <1>1, <1>2, <2>1, <3>1
    <2>6. /\ belongs' = With(belongs, P, IF P \in DOMAIN belongs THEN Append(belongs[P], p)
                                         ELSE <<p>>)
      BY <1>14, <2>0 DEF Recorded
    <2>. HIDE DEF h
    <2>7. /\ DOMAIN belongs' = DOMAIN belongs \cup {P}
          /\ Rows(P)' = Append(Rows(P), p)
          /\ \A path : path # P => Rows(path)' = Rows(path)
      <3>1. /\ DOMAIN belongs' = DOMAIN belongs \cup {P}
            /\ belongs'[P] = IF P \in DOMAIN belongs THEN Append(belongs[P], p) ELSE <<p>>
            /\ \A path \in DOMAIN belongs : path # P => belongs'[path] = belongs[path]
        BY <2>6 DEF With
      <3>2. Append(<<>>, p) = <<p>>
        OBVIOUS
      <3>. QED  BY <3>1, <3>2 DEF Rows
    <2>8. /\ DOMAIN disk' = DOMAIN got.disk /\ disk'[P] = Append(got.disk[P], p)
          /\ \A path \in DOMAIN got.disk : path # P => disk'[path] = got.disk[path]
      BY <2>2, <2>3
    <2>9. \A path \in DOMAIN disk' : ~Reopened(path)' => disk'[path] = Rows(path)'
      <3>. SUFFICES ASSUME NEW path \in DOMAIN disk', ~Reopened(path)'
                    PROVE  disk'[path] = Rows(path)'
        OBVIOUS
      <3>1. path \in DOMAIN got.disk /\ got.disk[path] = Rows(path)
        BY <1>9, <2>8
      <3>2. CASE path = P
        <4>1. disk'[P] = Append(Rows(P), p)
          BY <2>8, <3>1, <3>2
        <4>. QED  BY <2>7, <3>2, <4>1
      <3>3. CASE path # P
        BY <2>7, <2>8, <3>1, <3>3
      <3>. QED  BY <3>2, <3>3
    <2>10. \A i \in 1..Len(files') : files'[i].path \in DOMAIN disk'
      BY <1>1, <2>8 DEF Spares
    <2>11. \A path \in DOMAIN belongs' :
             /\ path \in DOMAIN disk' /\ path[2] \in 0..recordings' + 1
             /\ Current(path)' => \/ Reopened(path)'
                                  \/ \E i \in Held' \cup {STDOUT} : files'[i].path = path
      BY <1>10, <2>3, <2>4, <2>5, <2>7, <2>8
    <2>. QED  BY <1>7, <1>8, <1>11, <2>9, <2>10, <2>11 DEF Survive
  <1>. QED  BY <1>13, <1>14

\* GetOutputCsv, if a row is wanted, and then the row.
LEMMA AddKeeps ==
    ASSUME FilesInv, Survive, running, NEW p, NEW info \in ProcessInfo(p),
           NEW can \in Openable(info.name), NEW wanted, wanted => recording,
           NEW got, got = IF wanted THEN GetOutputCsv(info.csv, info.name, can)
                          ELSE Same(info.csv),
           NEW chain, Keep(p, info, got, chain),
           UNCHANGED <<setup, gRecordingCount, recording, running, recordings, exited>>,
           NEW row, NEW kind \in {"main", "wmr"}, NEW h,
           h = IF kind = "main" THEN got.csv.mFile ELSE got.csv.mWmrFile,
           row => h # NULL,
           disk' = IF row THEN Wrote(got.disk, got.files, h, p) ELSE got.disk,
           belongs' = IF row THEN Recorded(Belonging(info.name, kind), p) ELSE belongs
    PROVE  Survive'
  <1>1. Sound(p, got) /\ Spares(info.name, got)
    <2>1. CASE wanted
      <3>1. got = IF TRUE THEN GetOutputCsv(info.csv, info.name, can) ELSE Same(info.csv)
        BY <2>1
      <3>. QED  BY <2>1, <3>1, GetIsSound, GetSpares
    <2>2. CASE ~wanted
      <3>1. got = IF FALSE THEN GetOutputCsv(info.csv, info.name, can) ELSE Same(info.csv)
        BY <2>2
      <3>. QED  BY <3>1, GetIsSound, GetSpares
    <2>. QED  BY <2>1, <2>2
  <1>2. CASE row
    BY <1>1, <1>2, RowKeeps
  <1>3. CASE ~row
    BY <1>1, <1>3, RowKeeps
  <1>. QED  BY <1>2, <1>3

\* Closing files moves none.
LEMMA ClosedPaths ==
    ASSUME FilesTyped, NEW closing
    PROVE  /\ Len(Closed(files, closing)) = Len(files)
           /\ \A h \in 1..Len(files) : Closed(files, closing)[h].path = files[h].path
  <1>1. Len(Closed(files, closing)) = Len(files)
    BY ClosedFiles
  <1>2. files \in Seq(File) /\ DOMAIN files = 1..Len(files)
    BY DEF FilesTyped
  <1>3. \A h \in 1..Len(files) : files[h] \in File
    BY <1>2
  <1>4. \A h \in 1..Len(files) :
          Closed(files, closing)[h] = IF h \in closing THEN [files[h] EXCEPT !.open = FALSE]
                                      ELSE files[h]
    BY <1>2 DEF Closed
  <1>5. \A h \in 1..Len(files) : [files[h] EXCEPT !.open = FALSE].path = files[h].path
    BY <1>3 DEF File
  <1>. QED  BY <1>1, <1>4, <1>5

\* When all files are closed, no path of this recording gets any more rows.
LEMMA EndKeeps ==
    ASSUME FilesInv, Survive, CloseAll, UNCHANGED <<setup, disk, belongs, orphans, exited>>,
           \A p \in DOMAIN gProcesses' :
             /\ p \in DOMAIN gProcesses /\ gProcesses'[p].name = gProcesses[p].name
             /\ gProcesses'[p].csv = NoCsv,
           recordings' \in Nat, gRecordingCount' = recordings' + 1, recordings' >= recordings,
           recording' => "hotkey" \in args \/ recordings' = 0,
           running' => recordings' = recordings + 1
    PROVE  Survive'
  <1>1. /\ Len(files') = Len(files) /\ gSingleOutputCsv' = NoCsv
        /\ \A h \in 1..Len(files) : files'[h].path = files[h].path
        /\ Len(files) \in Nat /\ STDOUT \in 1..Len(files)
    BY ClosedPaths DEF CloseAll, FilesInv, FilesTyped
  <1>2. args' = args /\ \A path : Rows(path)' = Rows(path)
    BY DEF args, Rows
  <1>3. \A path : Reopened(path) => Reopened(path)'
    BY <1>1, ReopenedStays
  <1>4. \A path \in DOMAIN belongs : ~Current(path)'
    BY <1>2 DEF Current, Survive
  <1>5. Named(gSingleOutputCsv, NoName)'
    BY <1>1 DEF Named, NamedIn, NoCsv
  <1>6. \A p \in DOMAIN gProcesses' :
          Known(p, gProcesses[p].name)' /\ Named(gProcesses[p].csv, gProcesses[p].name)'
    BY DEF Survive, Known, Named, NamedIn, NoCsv
  <1>7. \A path \in DOMAIN disk : ~Reopened(path)' => disk[path] = Rows(path)
    BY <1>3 DEF Survive
  <1>8. \A path \in DOMAIN belongs : path \in DOMAIN disk /\ path[2] \in 0..recordings' + 1
    BY DEF Survive
  <1>. QED  BY <1>1, <1>2, <1>4, <1>5, <1>6, <1>7, <1>8 DEF Survive

\* The exit of a process closes its files, which may be opened again from then on.
LEMMA ExitKeeps ==
    ASSUME FilesInv, Survive, NEW p, HandleTerminatedProcess(p)
    PROVE  Survive'
  <1>1. /\ p \in DOMAIN gProcesses /\ files' = Closed(files, ClosedFor(p))
        /\ DOMAIN gProcesses' = DOMAIN gProcesses \ {p}
        /\ \A q \in DOMAIN gProcesses \ {p} : gProcesses'[q] = gProcesses[q]
        /\ exited' = exited \cup {gProcesses[p].name}
        /\ UNCHANGED <<setup, disk, gSingleOutputCsv, gRecordingCount, recording, running,
                       belongs, recordings, orphans>>
    BY DEF HandleTerminatedProcess
  <1>2. /\ Len(files') = Len(files)
        /\ \A h \in 1..Len(files) : files'[h].path = files[h].path
        /\ Len(files) \in Nat /\ STDOUT \in 1..Len(files) /\ Held \subseteq 1..Len(files)
    BY <1>1, ClosedPaths DEF FilesInv, FilesTyped
  <1>3. /\ args' = args /\ \A name, kind : Belonging(name, kind)' = Belonging(name, kind)
        /\ \A path : Rows(path)' = Rows(path) /\ (Current(path)' <=> Current(path))
    BY <1>1 DEF args, Belonging, FileName, Rows, Current
  <1>4. \A path : Reopened(path) => Reopened(path)'
    BY <1>1, <1>2, ReopenedStays
  <1>5. Named(gSingleOutputCsv, NoName)'
    <2>1. Handles(gSingleOutputCsv) \subseteq 1..Len(files)
      BY <1>2 DEF Held
    <2>. QED  BY <1>1, <1>2, <1>3, <2>1 DEF Survive, Named, NamedIn, Handles
  <1>6. \A q \in DOMAIN gProcesses' :
          Known(q, gProcesses[q].name)' /\ Named(gProcesses[q].csv, gProcesses[q].name)'
    <2>1. \A q \in DOMAIN gProcesses : Handles(gProcesses[q].csv) \subseteq 1..Len(files)
      BY <1>2 DEF Held
    <2>. QED  BY <1>1, <1>2, <1>3, <2>1 DEF Survive, Known, Named, NamedIn, Handles
  <1>7. \A path \in DOMAIN disk : ~Reopened(path)' => disk[path] = Rows(path)
    BY <1>4 DEF Survive
  <1>8. \A path \in DOMAIN belongs :
          Current(path) => \/ Reopened(path)'
                           \/ \E h \in Held' \cup {STDOUT} : files'[h].path = path
    <2>. SUFFICES ASSUME NEW path \in DOMAIN belongs, Current(path), ~Reopened(path)'
                  PROVE  \E h \in Held' \cup {STDOUT} : files'[h].path = path
      OBVIOUS
    <2>1. PICK h \in Held \cup {STDOUT} : files[h].path = path
      BY <1>4 DEF Survive
    <2>2. files'[h].path = path /\ h \notin orphans
      BY <1>1, <1>2, <2>1 DEF Reopened
    <2>3. CASE h \in Owned(p) /\ h # STDOUT
      <3>1. CASE "output_stdout" \in args
        BY <2>3, <3>1 DEF FilesInv, Ownership, ToStdout, Held, Owned
      <3>2. CASE "output_stdout" \notin args /\ "multi_csv" \in args
        <4>1. path[1] = gProcesses[p].name
          <5>1. \/ files[h].path = Belonging(gProcesses[p].name, "main")
                \/ files[h].path = Belonging(gProcesses[p].name, "wmr")
            BY <1>1, <2>3 DEF Survive, Named, NamedIn, Owned, Handles
          <5>. QED  BY <2>1, <3>2, <5>1 DEF Belonging, FileName
        <4>. QED  BY <1>1, <1>3, <3>2, <4>1 DEF Reopened
      <3>3. CASE "output_stdout" \notin args /\ "multi_csv" \notin args
        <4>1. h \in Handles(gSingleOutputCsv)
          BY <1>1, <2>2, <2>3, <3>3 DEF FilesInv, Ownership, ToOne
        <4>2. h \in Held'
          BY <1>1, <4>1 DEF Held, Handles
        <4>. QED  BY <2>2, <4>2
      <3>. QED  BY <3>1, <3>2, <3>3
    <2>4. CASE h \notin Owned(p) /\ h # STDOUT
      <3>1. h \in Held'
        BY <1>1, <2>1, <2>4 DEF Held, Owned, Handles
      <3>. QED  BY <2>2, <3>1
    <2>. QED  BY <2>2, <2>3, <2>4
  <1>. QED  BY <1>1, <1>2, <1>3, <1>5, <1>6, <1>7, <1>8 DEF Survive

LEMMA SurviveInit == Init => Survive
  <1>. SUFFICES ASSUME Init PROVE Survive
    OBVIOUS
  <1>. DEFINE path == <<NoName, 0, "stdout">>
  <1>1. /\ files = <<[path |-> path, open |-> TRUE]>> /\ gSingleOutputCsv = NoCsv
        /\ disk = [x \in {path} |-> <<>>] /\ belongs = disk
        /\ gRecordingCount = 1 /\ recordings = 0 /\ recording = FALSE
        /\ DOMAIN gProcesses = {} /\ running = TRUE
    BY DEF Init, CsvInit
  <1>2. Len(files) = 1 /\ files[STDOUT].path = path
    BY <1>1 DEF STDOUT
  <1>3. Named(gSingleOutputCsv, NoName)
    BY <1>1 DEF Named, NamedIn, NoCsv
  <1>4. \A x \in DOMAIN disk : x = path /\ disk[x] = Rows(x) /\ x[2] = 0
    BY <1>1 DEF Rows
  <1>. HIDE DEF path
  <1>. QED  BY <1>1, <1>2, <1>3, <1>4 DEF Survive, STDOUT, path

\* Of the state nothing else matters to Survive.
LEMMA SurviveKept ==
    ASSUME Survive, UNCHANGED <<setup, handleVars, gRecordingCount, gProcesses, running,
                                belongs, recordings, exited>>,
           recording' => "hotkey" \in args \/ recordings = 0
    PROVE  Survive'
  <1>1. args' = args /\ Held' = Held
    BY DEF args, Held, handleVars
  <1>2. \A name, kind : Belonging(name, kind)' = Belonging(name, kind)
    BY <1>1 DEF Belonging, FileName
  <1>3. \A path : Rows(path)' = Rows(path) /\ (Current(path)' <=> Current(path))
                  /\ (Reopened(path)' <=> Reopened(path))
    BY <1>1 DEF Rows, Current, Reopened, handleVars
  <1>4. UNCHANGED <<files, disk, gSingleOutputCsv>>
    BY DEF handleVars
  <1>5. Named(gSingleOutputCsv, NoName)'
    BY <1>2, <1>4 DEF Survive, Named, NamedIn
  <1>6. \A p \in DOMAIN gProcesses' :
          Known(p, gProcesses[p].name)' /\ Named(gProcesses[p].csv, gProcesses[p].name)'
    BY <1>2, <1>4 DEF Survive, Known, Named, NamedIn
  <1>. QED  BY <1>1, <1>3, <1>4, <1>5, <1>6 DEF Survive

LEMMA SurviveNext == FilesInv /\ Survive /\ [Next]_vars => Survive'
  <1>. SUFFICES ASSUME FilesInv, Survive, [Next]_vars PROVE Survive'
    OBVIOUS
  <1>1. ASSUME UNCHANGED csvVars PROVE Survive'
    <2>1. UNCHANGED <<setup, handleVars, gRecordingCount, gProcesses, recording, running,
                      belongs, recordings, exited>>
      BY <1>1 DEF csvVars
    <2>2. recording' => "hotkey" \in args \/ recordings = 0
      BY <2>1 DEF Survive
    <2>. QED  BY <2>1, <2>2, SurviveKept
  <1>2. ASSUME NEW p, NEW presented \in BOOLEAN, AddPresent(p, presented) PROVE Survive'
    <2>. DEFINE wanted == recording /\ ("exclude_dropped" \in args => presented)
                got(info, can) == IF wanted THEN GetOutputCsv(info.csv, info.name, can)
                                  ELSE Same(info.csv)
                row(info, can) == wanted /\ got(info, can).csv.mFile # NULL /\ info.chain
    <2>1. PICK info \in ProcessInfo(p) : \E can \in Openable(info.name) :
            /\ Keep(p, info, got(info, can), TRUE)
            /\ disk' = IF row(info, can)
                       THEN Wrote(got(info, can).disk, got(info, can).files,
                                  got(info, can).csv.mFile, p)
                       ELSE got(info, can).disk
            /\ belongs' = IF row(info, can) THEN Recorded(Belonging(info.name, "main"), p)
                          ELSE belongs
      BY <1>2 DEF AddPresent
    <2>2. PICK can \in Openable(info.name) :
            /\ Keep(p, info, got(info, can), TRUE)
            /\ disk' = IF row(info, can)
                       THEN Wrote(got(info, can).disk, got(info, can).files,
                                  got(info, can).csv.mFile, p)
                       ELSE got(info, can).disk
            /\ belongs' = IF row(info, can) THEN Recorded(Belonging(info.name, "main"), p)
                          ELSE belongs
      BY <2>1
    <2>3. /\ running
          /\ UNCHANGED <<setup, gRecordingCount, recording, running, recordings, exited>>
      BY <1>2 DEF AddPresent
    <2>4. /\ wanted => recording
          /\ row(info, can) => got(info, can).csv.mFile # NULL
          /\ got(info, can) = IF wanted THEN GetOutputCsv(info.csv, info.name, can)
                              ELSE Same(info.csv)
      OBVIOUS
    <2>. DEFINE g == got(info, can)
                w == row(info, can)
                h == g.csv.mFile
    <2>5. /\ h = IF "main" = "main" THEN g.csv.mFile ELSE g.csv.mWmrFile
          /\ "main" \in {"main", "wmr"} /\ info \in ProcessInfo(p)
          /\ can \in Openable(info.name)
      OBVIOUS
    <2>6. /\ Keep(p, info, g, TRUE) /\ (w => h # NULL)
          /\ g = IF wanted THEN GetOutputCsv(info.csv, info.name, can) ELSE Same(info.csv)
          /\ disk' = IF w THEN Wrote(g.disk, g.files, h, p) ELSE g.disk
          /\ belongs' = IF w THEN Recorded(Belonging(info.name, "main"), p) ELSE belongs
      BY <2>2, <2>4
    <2>. HIDE DEF wanted, g, w, h
    <2>. QED  BY <2>3, <2>4, <2>5, <2>6, AddKeeps
  <1>3. ASSUME AddLSR PROVE Survive'
    <2>. DEFINE l == Head(lsrEvents)
                p == GetAppProcessId(l)
                wanted == (mSimpleMode \/ p # 0) /\ recording
                got(info, can) == IF wanted THEN GetOutputCsv(info.csv, info.name, can)
                                  ELSE Same(info.csv)
                row(info, can) == wanted /\ UpdateLsrCsv(l, got(info, can).csv.mWmrFile)
    <2>1. PICK info \in ProcessInfo(p) : \E can \in Openable(info.name) :
            /\ Keep(p, info, got(info, can), info.chain)
            /\ disk' = IF row(info, can)
                       THEN Wrote(got(info, can).disk, got(info, can).files,
                                  got(info, can).csv.mWmrFile, p)
                       ELSE got(info, can).disk
            /\ belongs' = IF row(info, can) THEN Recorded(Belonging(info.name, "wmr"), p)
                          ELSE belongs
      BY <1>3 DEF AddLSR
    <2>2. PICK can \in Openable(info.name) :
            /\ Keep(p, info, got(info, can), info.chain)
            /\ disk' = IF row(info, can)
                       THEN Wrote(got(info, can).disk, got(info, can).files,
                                  got(info, can).csv.mWmrFile, p)
                       ELSE got(info, can).disk
            /\ belongs' = IF row(info, can) THEN Recorded(Belonging(info.name, "wmr"), p)
                          ELSE belongs
      BY <2>1
    <2>3. /\ running
          /\ UNCHANGED <<setup, gRecordingCount, recording, running, recordings, exited>>
      BY <1>3 DEF AddLSR
    <2>4. /\ wanted => recording
          /\ row(info, can) => got(info, can).csv.mWmrFile # NULL
          /\ got(info, can) = IF wanted THEN GetOutputCsv(info.csv, info.name, can)
                              ELSE Same(info.csv)
      BY DEF UpdateLsrCsv
    <2>. DEFINE g == got(info, can)
                w == row(info, can)
                h == g.csv.mWmrFile
    <2>5. /\ h = IF "wmr" = "main" THEN g.csv.mFile ELSE g.csv.mWmrFile
          /\ "wmr" \in {"main", "wmr"} /\ info \in ProcessInfo(p)
          /\ can \in Openable(info.name)
      OBVIOUS
    <2>6. /\ Keep(p, info, g, info.chain) /\ (w => h # NULL)
          /\ g = IF wanted THEN GetOutputCsv(info.csv, info.name, can) ELSE Same(info.csv)
          /\ disk' = IF w THEN Wrote(g.disk, g.files, h, p) ELSE g.disk
          /\ belongs' = IF w THEN Recorded(Belonging(info.name, "wmr"), p) ELSE belongs
      BY <2>2, <2>4
    <2>. HIDE DEF wanted, p, l, g, w, h
    <2>. QED  BY <2>3, <2>4, <2>5, <2>6, AddKeeps
  <1>4. ASSUME ToggleRecording PROVE Survive'
    <2>1. /\ recording' = ~recording /\ MayToggle
          /\ gRecordingCount' = gRecordingCount + (IF recording THEN 1 ELSE 0)
          /\ recordings' = recordings + (IF recording THEN 1 ELSE 0)
          /\ UNCHANGED <<setup, disk, running, belongs, orphans, exited>>
      BY <1>4 DEF ToggleRecording
    <2>2. CASE recording
      <3>1. /\ CloseAll
            /\ gProcesses' = [p \in DOMAIN gProcesses |-> [gProcesses[p] EXCEPT !.csv = NoCsv]]
        BY <1>4, <2>2 DEF ToggleRecording
      <3>2. \A p \in DOMAIN gProcesses' :
              /\ p \in DOMAIN gProcesses /\ gProcesses'[p].name = gProcesses[p].name
              /\ gProcesses'[p].csv = NoCsv
        BY <3>1 DEF FilesInv, FilesTyped, Info
      <3>3. /\ recordings \in Nat /\ recordings' = recordings + 1
            /\ gRecordingCount' = recordings' + 1 /\ ~recording'
        <4>1. /\ recordings' = recordings + 1 /\ gRecordingCount' = gRecordingCount + 1
              /\ ~recording'
          BY <2>1, <2>2
        <4>2. recordings \in Nat /\ gRecordingCount = recordings + 1
          BY DEF Survive
        <4>. QED  BY <4>1, <4>2
      <3>4. /\ recordings' \in Nat /\ gRecordingCount' = recordings' + 1
            /\ recordings' >= recordings
        BY <3>3
      <3>. QED  BY <2>1, <3>1, <3>2, <3>3, <3>4, EndKeeps
    <2>3. CASE ~recording
      <3>1. UNCHANGED <<files, gSingleOutputCsv, gProcesses>>
        BY <1>4, <2>3 DEF ToggleRecording
      <3>2. UNCHANGED <<recordings, gRecordingCount>>
        BY <2>1, <2>3 DEF Survive
      <3>3. recording' => "hotkey" \in args \/ recordings = 0
        BY <2>1, <2>3 DEF MayToggle
      <3>. QED  BY <2>1, <3>1, <3>2, <3>3, SurviveKept DEF handleVars
    <2>. QED  BY <2>2, <2>3
  <1>5. ASSUME EndOutput PROVE Survive'
    <2>1. /\ CloseAll /\ running' = FALSE /\ (DOMAIN gProcesses)' = {}
          /\ UNCHANGED <<setup, disk, gRecordingCount, recording, belongs, recordings, orphans,
                         exited>>
      BY <1>5 DEF EndOutput
    <2>2. /\ recordings' \in Nat /\ gRecordingCount' = recordings' + 1 /\ recordings' >= recordings
          /\ recording' => "hotkey" \in args \/ recordings' = 0
      BY <2>1 DEF Survive
    <2>. QED  BY <2>1, <2>2, EndKeeps
  <1>6. ASSUME NEW p, HandleTerminatedProcess(p) PROVE Survive'
    BY <1>6, ExitKeeps
  <1>7. ASSUME HandleSpectrumContinuousEvent \/ HandleDHDEvent \/ DequeueLSRs
        PROVE  UNCHANGED csvVars
    BY <1>7 DEF HandleSpectrumContinuousEvent, HolographicFrameStart, HolographicFrame_Stop,
         GetNewPose, otherThanFrames, HandleDHDEvent, Stamp, ReleaseFromPresentation,
         Destruction, BeginLsr, LatchedInput, MissVsync, PresentationTiming, otherThanLSR,
         DequeueLSRs
  <1>. QED  BY <1>1, <1>2, <1>3, <1>4, <1>5, <1>6, <1>7 DEF Next, CsvNext, vars

\* CsvOutput.cpp:166-177: every row is in the file of its process and recording, in
\* order and never lost to a later opening, whatever the options, processes, exits,
\* recordings and failing opens; the paths named in Reopened are shared by design.
THEOREM RowsAreNeverLost == Spec => []RowsSurvive
  <1>1. FilesInv /\ Survive => RowsSurvive
    BY DEF Survive, RowsSurvive, Rows
  <1>. QED  BY FilesInductive, SurviveInit, SurviveNext, <1>1, PTL DEF Spec

-----------------------------------------------------------------------------
(* The LSRs and frames of the mixed-reality consumer.                      *)

FrameState == {"Unknown", "Presented", "DuplicateFrameId", "Error"}
LsrState   == {"Unknown", "Presented", "Missed", "MissedMultiple", "Error"}
Frame == [ProcessId : Processes, FrameId : FrameIds, PresentId : Nat, stopped : BOOLEAN,
          Completed : BOOLEAN, FinalState : FrameState]
Lsr   == [source : Sources, frame : Nat, missed : Nat, FinalState : LsrState,
          Completed : BOOLEAN]

Typed ==
  /\ frames \in Seq(Frame) /\ lsrs \in Seq(Lsr)
  /\ presentIds \in Nat /\ mActiveLSR \in 0..Len(lsrs)

\* A frame with both events seen, presented and latched.
Done(f) == frames[f].Completed /\ frames[f].stopped /\ frames[f].PresentId # 0

\* A frame found by its frame id lacks one of the two.
Rendering ==
  \A id \in DOMAIN mHolographicFramesByFrameId :
    LET f == mHolographicFramesByFrameId[id]
    IN  /\ f \in 1..Len(frames) /\ frames[f].FrameId = id /\ ~frames[f].Completed
        /\ frames[f].PresentId = 0 \/ ~frames[f].stopped

\* A frame found by its present id has both, and has not been latched.
Waiting ==
  \A id \in DOMAIN mHolographicFramesByPresentId :
    LET f == mHolographicFramesByPresentId[id]
    IN  /\ f \in 1..Len(frames) /\ frames[f].PresentId = id /\ id # 0
        /\ frames[f].stopped /\ ~frames[f].Completed

\* What a source or an LSR shows has been latched.
Shows(f) == f \in 0..Len(frames) /\ (f # NULL => Done(f))
Shown ==
  /\ \A s \in DOMAIN mPresentationSourceByPtr : Shows(mPresentationSourceByPtr[s])
  /\ \A l \in 1..Len(lsrs) : Shows(lsrs[l].frame)

\* LSRs that may be handed over, and those that are.
Handed == {l \in 1..Len(lsrs) : l # mActiveLSR /\ lsrs[l].Completed
                                  /\ lsrs[l].FinalState # "Unknown"}

IInv ==
  /\ Typed /\ Rendering /\ Waiting /\ Shown
  /\ mActiveLSR # NULL => ~lsrs[mActiveLSR].Completed
  /\ delivered \in Seq(Handed) /\ lsrEvents \in Seq(Handed) /\ mCompletedLSRs \in Seq(Handed)

\* A step changes nothing of what has been handed over.
Final ==
  /\ \A f \in 1..Len(frames) : Done(f) => frames'[f] = frames[f]
  /\ \A l \in Handed : lsrs'[l] = lsrs[l]

-----------------------------------------------------------------------------
(* Two rules: for events that change frames, and for those that change LSRs. *)

LEMMA FramesChange ==
    ASSUME IInv,
           UNCHANGED <<lsrs, mActiveLSR, mCompletedLSRs, lsrEvents, delivered>>,
           \A s \in DOMAIN mPresentationSourceByPtr' :
             \/ /\ s \in DOMAIN mPresentationSourceByPtr
                /\ mPresentationSourceByPtr'[s] = mPresentationSourceByPtr[s]
             \/ Shows(mPresentationSourceByPtr[s])',
           frames' \in Seq(Frame), Len(frames') >= Len(frames), presentIds' \in Nat,
           \A f \in 1..Len(frames) : Done(f) => frames'[f] = frames[f],
           Rendering', Waiting'
    PROVE  IInv' /\ Final
  <1>1. Len(frames) \in Nat /\ Len(frames') \in Nat
    BY DEF IInv, Typed
  <1>2. \A f : Shows(f) => Shows(f)'
    BY <1>1 DEF Shows, Done, NULL
  <1>3. Shown'
    BY <1>2 DEF IInv, Shown
  <1>4. Handed' = Handed
    BY DEF Handed
  <1>5. Typed' /\ (mActiveLSR # NULL => ~lsrs[mActiveLSR].Completed)'
    BY DEF IInv, Typed
  <1>6. (delivered \in Seq(Handed) /\ lsrEvents \in Seq(Handed) /\ mCompletedLSRs \in Seq(Handed))'
    BY <1>4 DEF IInv
  <1>. QED  BY <1>3, <1>5, <1>6 DEF IInv, Final

LEMMA LsrsChange ==
    ASSUME IInv,
           UNCHANGED <<frames, mHolographicFramesByFrameId, mHolographicFramesByPresentId,
                       presentIds, lsrEvents, delivered>>,
           lsrs' \in Seq(Lsr), Len(lsrs') >= Len(lsrs), mActiveLSR' \in 0..Len(lsrs'),
           \A l \in Handed : lsrs'[l] = lsrs[l] /\ l # mActiveLSR',
           mActiveLSR' # NULL => ~lsrs'[mActiveLSR'].Completed,
           mCompletedLSRs' \in Seq(Handed'), Shown'
    PROVE  IInv' /\ Final
  <1>1. Len(lsrs) \in Nat /\ Len(lsrs') \in Nat
    BY DEF IInv, Typed
  <1>2. Handed \subseteq Handed'
    BY <1>1 DEF Handed
  <1>3. delivered' \in Seq(Handed') /\ lsrEvents' \in Seq(Handed')
    BY <1>2 DEF IInv
  <1>4. Typed' /\ Rendering' /\ Waiting'
    BY DEF IInv, Typed, Rendering, Waiting
  <1>. QED  BY <1>3, <1>4 DEF IInv, Final

-----------------------------------------------------------------------------
(* The life of a frame in its application.                                 *)

\* One frame replaced.
LEMMA FrameReplaced ==
    ASSUME IInv, NEW f \in 1..Len(frames), NEW frame \in Frame
    PROVE  /\ [frames EXCEPT ![f] = frame] \in Seq(Frame)
           /\ Len([frames EXCEPT ![f] = frame]) = Len(frames)
           /\ \A g \in 1..Len(frames) :
                [frames EXCEPT ![f] = frame][g] = IF g = f THEN frame ELSE frames[g]
  BY ExceptSeq DEF IInv, Typed

LEMMA StartKeeps ==
    ASSUME IInv, NEW p \in Processes, NEW id \in FrameIds, HolographicFrameStart(p, id)
    PROVE  IInv' /\ Final
  <1>. DEFINE f == mHolographicFramesByFrameId[id]
              collides == id \in DOMAIN mHolographicFramesByFrameId
              new == [ProcessId |-> p, FrameId |-> id, PresentId |-> 0, stopped |-> FALSE,
                      Completed |-> FALSE,
                      FinalState |-> IF collides THEN "DuplicateFrameId" ELSE "Unknown"]
              twin == [frames[f] EXCEPT !.Completed = TRUE, !.FinalState = "DuplicateFrameId"]
              old == IF collides THEN [frames EXCEPT ![f] = twin] ELSE frames
  <1>0. new \in Frame
    BY DEF Frame, FrameState
  <1>1. /\ frames \in Seq(Frame) /\ Len(frames) \in Nat /\ new \in Frame
        /\ \A g \in 1..Len(frames) : frames[g] \in Frame
    BY <1>0 DEF IInv, Typed
  <1>2. /\ old \in Seq(Frame) /\ Len(old) = Len(frames)
        /\ \A g \in 1..Len(frames) : ~(collides /\ g = f) => old[g] = frames[g]
        /\ collides => ~Done(f)
    <2>1. CASE collides
      <3>1. f \in 1..Len(frames) /\ ~Done(f)
        BY <2>1 DEF IInv, Rendering, Done
      <3>2. twin \in Frame
        BY <1>1, <3>1 DEF Frame, FrameState
      <3>. HIDE DEF f, twin
      <3>3. old = [frames EXCEPT ![f] = twin]
        BY <2>1
      <3>. QED  BY <2>1, <3>1, <3>2, <3>3, FrameReplaced
    <2>2. CASE ~collides
      BY <1>1, <2>2
    <2>. QED  BY <2>1, <2>2
  <1>3. /\ frames' = Append(old, new)
        /\ mHolographicFramesByFrameId' = With(mHolographicFramesByFrameId, id, Len(frames) + 1)
        /\ UNCHANGED <<otherThanFrames, mHolographicFramesByPresentId, presentIds>>
    BY DEF HolographicFrameStart
  <1>. HIDE DEF old
  <1>4. /\ frames' \in Seq(Frame) /\ Len(frames') = Len(frames) + 1
        /\ frames'[Len(frames) + 1] = new
        /\ \A g \in 1..Len(frames) : ~(collides /\ g = f) => frames'[g] = frames[g]
    BY <1>1, <1>2, <1>3, AppendProperties
  <1>5. \A g \in 1..Len(frames) : Done(g) => frames'[g] = frames[g]
    BY <1>2, <1>4
  <1>6. Rendering'
    <2>. SUFFICES ASSUME NEW i \in DOMAIN mHolographicFramesByFrameId'
                  PROVE  LET g == mHolographicFramesByFrameId'[i]
                         IN  /\ g \in 1..Len(frames') /\ frames'[g].FrameId = i
                             /\ ~frames'[g].Completed
                             /\ frames'[g].PresentId = 0 \/ ~frames'[g].stopped
      BY DEF Rendering
    <2>1. CASE i = id
      <3>1. mHolographicFramesByFrameId'[i] = Len(frames) + 1
        BY <1>3, <2>1 DEF With
      <3>. QED  BY <1>1, <1>4, <2>1, <3>1
    <2>2. CASE i # id
      <3>1. /\ i \in DOMAIN mHolographicFramesByFrameId
            /\ mHolographicFramesByFrameId'[i] = mHolographicFramesByFrameId[i]
        BY <1>3, <2>2 DEF With
      <3>. DEFINE g == mHolographicFramesByFrameId[i]
      <3>2. /\ g \in 1..Len(frames) /\ frames[g].FrameId = i /\ ~frames[g].Completed
            /\ frames[g].PresentId = 0 \/ ~frames[g].stopped
            /\ collides => frames[f].FrameId = id
        BY <3>1 DEF IInv, Rendering
      <3>3. frames'[g] = frames[g]
        BY <1>4, <2>2, <3>2
      <3>. QED  BY <1>1, <1>4, <3>1, <3>2, <3>3
    <2>. QED  BY <2>1, <2>2
  <1>7. Waiting'
    <2>. SUFFICES ASSUME NEW i \in DOMAIN mHolographicFramesByPresentId
                  PROVE  LET g == mHolographicFramesByPresentId[i]
                         IN  /\ g \in 1..Len(frames') /\ frames'[g].PresentId = i /\ i # 0
                             /\ frames'[g].stopped /\ ~frames'[g].Completed
      BY <1>3 DEF Waiting
    <2>. DEFINE g == mHolographicFramesByPresentId[i]
    <2>1. /\ g \in 1..Len(frames) /\ frames[g].PresentId = i /\ i # 0
          /\ frames[g].stopped /\ ~frames[g].Completed
          /\ collides => frames[f].PresentId = 0 \/ ~frames[f].stopped
      BY DEF IInv, Rendering, Waiting
    <2>2. frames'[g] = frames[g]
      BY <1>4, <2>1
    <2>. QED  BY <1>1, <1>4, <2>1, <2>2
  <1>8. /\ UNCHANGED <<lsrs, mPresentationSourceByPtr, mActiveLSR, mCompletedLSRs, lsrEvents,
                       delivered>>
        /\ presentIds' \in Nat
    BY <1>3 DEF otherThanFrames, IInv, Typed
  <1>. QED  BY <1>1, <1>4, <1>5, <1>6, <1>7, <1>8, FramesChange

\* The stop of a frame, and its pose, which gives it a present id.
LEMMA UpdatedKeeps ==
    ASSUME IInv, NEW id \in DOMAIN mHolographicFramesByFrameId, NEW frame \in Frame,
           frame.FrameId = id, ~frame.Completed,
           Updated(mHolographicFramesByFrameId[id], frame),
           presentIds' \in Nat, UNCHANGED otherThanFrames
    PROVE  IInv' /\ Final
  <1>. DEFINE f == mHolographicFramesByFrameId[id]
              both == frame.PresentId # 0 /\ frame.stopped
              state == IF frame.FinalState = "Unknown" THEN "Presented" ELSE frame.FinalState
              next == IF both THEN [frame EXCEPT !.FinalState = state] ELSE frame
  <1>1. /\ f \in 1..Len(frames) /\ frames[f].FrameId = id /\ ~frames[f].Completed
        /\ frames[f].PresentId = 0 \/ ~frames[f].stopped
        /\ Len(frames) \in Nat
    BY DEF IInv, Rendering, Typed
  <1>2. /\ next \in Frame /\ next.FrameId = id /\ ~next.Completed
        /\ next.PresentId = frame.PresentId /\ next.stopped = frame.stopped
    BY DEF Frame, FrameState
  <1>3. frames' = [frames EXCEPT ![f] = next]
    BY DEF Updated, HolographicFrameStop
  <1>4. /\ both => mHolographicFramesByFrameId' = Without(mHolographicFramesByFrameId, id)
        /\ ~both => mHolographicFramesByFrameId' = mHolographicFramesByFrameId
    BY DEF Updated, HolographicFrameStop
  <1>5. \/ mHolographicFramesByPresentId' = mHolographicFramesByPresentId
        \/ both /\ mHolographicFramesByPresentId' =
                     With(mHolographicFramesByPresentId, frame.PresentId, f)
    BY DEF Updated, HolographicFrameStop
  <1>. HIDE DEF next
  <1>6. /\ frames' \in Seq(Frame) /\ Len(frames') = Len(frames)
        /\ frames'[f] = next
        /\ \A g \in 1..Len(frames) : g # f => frames'[g] = frames[g]
    BY <1>1, <1>2, <1>3, FrameReplaced
  <1>7. \A g \in 1..Len(frames) : Done(g) => frames'[g] = frames[g]
    BY <1>1, <1>6 DEF Done
  <1>8. Rendering'
    <2>. SUFFICES ASSUME NEW i \in DOMAIN mHolographicFramesByFrameId'
                  PROVE  LET g == mHolographicFramesByFrameId'[i]
                         IN  /\ g \in 1..Len(frames') /\ frames'[g].FrameId = i
                             /\ ~frames'[g].Completed
                             /\ frames'[g].PresentId = 0 \/ ~frames'[g].stopped
      BY DEF Rendering
    <2>1. /\ i \in DOMAIN mHolographicFramesByFrameId
          /\ mHolographicFramesByFrameId'[i] = mHolographicFramesByFrameId[i]
          /\ both => i # id
      BY <1>4 DEF Without
    <2>. DEFINE g == mHolographicFramesByFrameId[i]
    <2>2. /\ g \in 1..Len(frames) /\ frames[g].FrameId = i /\ ~frames[g].Completed
          /\ frames[g].PresentId = 0 \/ ~frames[g].stopped
      BY <2>1 DEF IInv, Rendering
    <2>3. CASE g = f
      BY <1>1, <1>2, <1>6, <2>1, <2>2, <2>3
    <2>4. CASE g # f
      BY <1>6, <2>1, <2>2, <2>4
    <2>. QED  BY <2>3, <2>4
  <1>9. Waiting'
    <2>. SUFFICES ASSUME NEW i \in DOMAIN mHolographicFramesByPresentId'
                  PROVE  LET g == mHolographicFramesByPresentId'[i]
                         IN  /\ g \in 1..Len(frames') /\ frames'[g].PresentId = i /\ i # 0
                             /\ frames'[g].stopped /\ ~frames'[g].Completed
      BY DEF Waiting
    <2>1. CASE both /\ i = frame.PresentId /\ mHolographicFramesByPresentId'[i] = f
      BY <1>1, <1>2, <1>6, <2>1
    <2>2. CASE /\ i \in DOMAIN mHolographicFramesByPresentId
               /\ mHolographicFramesByPresentId'[i] = mHolographicFramesByPresentId[i]
      <3>. DEFINE g == mHolographicFramesByPresentId[i]
      <3>1. /\ g \in 1..Len(frames) /\ frames[g].PresentId = i /\ i # 0
            /\ frames[g].stopped /\ ~frames[g].Completed
        BY <2>2 DEF IInv, Waiting
      <3>2. g # f
        BY <1>1, <3>1
      <3>. QED  BY <1>6, <2>2, <3>1, <3>2
    <2>. QED  BY <1>5, <2>1, <2>2 DEF With
  <1>10. UNCHANGED <<lsrs, mPresentationSourceByPtr, mActiveLSR, mCompletedLSRs, lsrEvents,
                     delivered>>
    BY DEF otherThanFrames
  <1>. QED  BY <1>1, <1>6, <1>7, <1>8, <1>9, <1>10, FramesChange

LEMMA SpectrumKeeps ==
    ASSUME IInv, HandleSpectrumContinuousEvent
    PROVE  IInv' /\ Final
  <1>1. \A f \in 1..Len(frames) : frames[f] \in Frame
    BY DEF IInv, Typed
  <1>2. ASSUME NEW id \in FrameIds, HolographicFrame_Stop(id)
        PROVE  IInv' /\ Final
    <2>. DEFINE f == mHolographicFramesByFrameId[id]
                frame == [frames[f] EXCEPT !.stopped = TRUE]
    <2>1. /\ id \in DOMAIN mHolographicFramesByFrameId /\ Updated(f, frame)
          /\ UNCHANGED <<otherThanFrames, presentIds>>
      BY <1>2 DEF HolographicFrame_Stop
    <2>2. f \in 1..Len(frames) /\ frames[f].FrameId = id /\ ~frames[f].Completed
      BY <2>1 DEF IInv, Rendering
    <2>3. frame \in Frame /\ frame.FrameId = id /\ ~frame.Completed
      BY <1>1, <2>2 DEF Frame
    <2>4. presentIds' \in Nat /\ UNCHANGED otherThanFrames
      BY <2>1 DEF IInv, Typed
    <2>. HIDE DEF frame
    <2>. QED  BY <2>1, <2>3, <2>4, UpdatedKeeps
  <1>3. ASSUME NEW id \in FrameIds, GetNewPose(id)
        PROVE  IInv' /\ Final
    <2>. DEFINE f == mHolographicFramesByFrameId[id]
                frame == [frames[f] EXCEPT !.PresentId = presentIds + 1]
    <2>1. /\ id \in DOMAIN mHolographicFramesByFrameId /\ Updated(f, frame)
          /\ presentIds' = presentIds + 1 /\ UNCHANGED otherThanFrames
      BY <1>3 DEF GetNewPose
    <2>2. f \in 1..Len(frames) /\ frames[f].FrameId = id /\ ~frames[f].Completed
      BY <2>1 DEF IInv, Rendering
    <2>3. presentIds' \in Nat /\ presentIds + 1 \in Nat
      BY <2>1 DEF IInv, Typed
    <2>4. frame \in Frame /\ frame.FrameId = id /\ ~frame.Completed
      BY <1>1, <2>2, <2>3 DEF Frame
    <2>. HIDE DEF frame
    <2>. QED  BY <2>1, <2>3, <2>4, UpdatedKeeps
  <1>. QED  BY <1>2, <1>3, StartKeeps DEF HandleSpectrumContinuousEvent

-----------------------------------------------------------------------------
(* The compositor's sources and reprojections.                             *)

otherThanSources == <<csvVars, frames, mHolographicFramesByFrameId,
                      mHolographicFramesByPresentId, presentIds, mActiveLSR, mCompletedLSRs,
                      lsrEvents, mLSRHistory, delivered>>

\* The active LSR, which has not been handed over, is replaced.
LEMMA ActiveReplaced ==
    ASSUME IInv, mActiveLSR # NULL, NEW lsr \in Lsr, ~lsr.Completed, Shows(lsr.frame),
           lsrs' = [lsrs EXCEPT ![mActiveLSR] = lsr],
           \A s \in DOMAIN mPresentationSourceByPtr' : Shows(mPresentationSourceByPtr'[s]),
           UNCHANGED otherThanSources
    PROVE  IInv' /\ Final
  <1>1. /\ lsrs \in Seq(Lsr) /\ Len(lsrs) \in Nat /\ mActiveLSR \in 1..Len(lsrs)
    BY DEF IInv, Typed, NULL
  <1>2. /\ lsrs' \in Seq(Lsr) /\ Len(lsrs') = Len(lsrs) /\ lsrs'[mActiveLSR] = lsr
        /\ \A l \in 1..Len(lsrs) : l # mActiveLSR => lsrs'[l] = lsrs[l]
    BY <1>1, ExceptSeq
  <1>3. \A l \in Handed : lsrs'[l] = lsrs[l] /\ l # mActiveLSR'
    BY <1>2 DEF Handed, otherThanSources
  <1>4. \A f : Shows(f)' <=> Shows(f)
    BY DEF Shows, Done, otherThanSources
  <1>5. Shown'
    <2>1. \A l \in 1..Len(lsrs) : Shows(lsrs'[l].frame)
      BY <1>2 DEF IInv, Shown
    <2>. QED  BY <1>2, <1>4, <2>1 DEF Shown
  <1>6. Handed \subseteq Handed'
    BY <1>2, <1>3 DEF Handed
  <1>7. mCompletedLSRs' \in Seq(Handed')
    BY <1>6 DEF IInv, otherThanSources
  <1>. QED  BY <1>1, <1>2, <1>3, <1>5, <1>7, LsrsChange DEF otherThanSources

\* Only the sources change.
LEMMA SourcesChange ==
    ASSUME IInv, UNCHANGED lsrs, UNCHANGED otherThanSources,
           \A s \in DOMAIN mPresentationSourceByPtr' : Shows(mPresentationSourceByPtr'[s])
    PROVE  IInv' /\ Final
  <1>1. \A f : Shows(f)' <=> Shows(f)
    BY DEF Shows, Done, otherThanSources
  <1>2. Shown'
    BY <1>1 DEF IInv, Shown
  <1>3. Handed' = Handed
    BY DEF Handed, otherThanSources
  <1>4. Typed' /\ Rendering' /\ Waiting'
    BY DEF IInv, Typed, Rendering, Waiting, otherThanSources
  <1>. QED  BY <1>2, <1>3, <1>4 DEF IInv, Final, otherThanSources

LEMMA SourcesKeep ==
    ASSUME IInv, NEW s \in Sources,
           Stamp(s) \/ ReleaseFromPresentation(s) \/ Destruction(s)
    PROVE  IInv' /\ Final
  <1>1. UNCHANGED otherThanSources
    BY DEF otherThanSources, Stamp, ReleaseFromPresentation, Destruction, otherThanLSR
  <1>2. Shows(Lookup(s))
    <2>1. Shows(NULL)
      BY DEF Shows, NULL, IInv, Typed
    <2>. QED  BY <2>1 DEF IInv, Shown, Lookup
  <1>3. \A r \in DOMAIN mPresentationSourceByPtr' : Shows(mPresentationSourceByPtr'[r])
    BY <1>2 DEF Stamp, ReleaseFromPresentation, Destruction, With, Without, IInv, Shown
  <1>4. CASE UNCHANGED lsrs
    BY <1>1, <1>3, <1>4, SourcesChange
  <1>5. CASE ReleaseFromPresentation(s) /\ mActiveLSR # NULL
    <2>. DEFINE lsr == [lsrs[mActiveLSR] EXCEPT !.source = s, !.frame = Lookup(s)]
    <2>1. lsrs[mActiveLSR] \in Lsr /\ ~lsrs[mActiveLSR].Completed
      BY <1>5 DEF IInv, Typed, NULL
    <2>2. Lookup(s) \in Nat
      BY <1>2 DEF Shows, IInv, Typed
    <2>3. lsr \in Lsr /\ ~lsr.Completed /\ lsr.frame = Lookup(s)
      BY <2>1, <2>2 DEF Lsr
    <2>4. lsrs' = [lsrs EXCEPT ![mActiveLSR] = lsr]
      BY <1>5 DEF ReleaseFromPresentation
    <2>. HIDE DEF lsr
    <2>. QED  BY <1>1, <1>2, <1>3, <1>5, <2>3, <2>4, ActiveReplaced
  <1>. QED  BY <1>4, <1>5 DEF Stamp, ReleaseFromPresentation, Destruction

LEMMA ActiveKeeps ==
    ASSUME IInv, MissVsync \/ \E onSchedule \in BOOLEAN : PresentationTiming(onSchedule)
    PROVE  IInv' /\ Final
  <1>1. mActiveLSR # NULL /\ UNCHANGED <<otherThanSources, mPresentationSourceByPtr>>
    BY DEF MissVsync, PresentationTiming, otherThanSources, otherThanLSR
  <1>2. lsrs[mActiveLSR] \in Lsr /\ ~lsrs[mActiveLSR].Completed
    BY <1>1 DEF IInv, Typed, NULL
  <1>3. Shows(lsrs[mActiveLSR].frame)
    BY <1>1 DEF IInv, Shown, Typed, NULL
  <1>4. \A s \in DOMAIN mPresentationSourceByPtr' : Shows(mPresentationSourceByPtr'[s])
    BY <1>1 DEF IInv, Shown
  <1>5. \E lsr \in Lsr : /\ ~lsr.Completed /\ lsr.frame = lsrs[mActiveLSR].frame
                         /\ lsrs' = [lsrs EXCEPT ![mActiveLSR] = lsr]
    <2>1. CASE MissVsync
      <3>. DEFINE lsr == [lsrs[mActiveLSR] EXCEPT !.missed = @ + 1]
      <3>1. lsr \in Lsr /\ ~lsr.Completed /\ lsr.frame = lsrs[mActiveLSR].frame
        BY <1>2 DEF Lsr
      <3>2. lsrs' = [lsrs EXCEPT ![mActiveLSR] = lsr]
        BY <2>1 DEF MissVsync
      <3>. QED  BY <3>1, <3>2
    <2>2. ASSUME NEW onSchedule \in BOOLEAN, PresentationTiming(onSchedule)
          PROVE  \E lsr \in Lsr : /\ ~lsr.Completed /\ lsr.frame = lsrs[mActiveLSR].frame
                                 /\ lsrs' = [lsrs EXCEPT ![mActiveLSR] = lsr]
      <3>. DEFINE state == IF onSchedule THEN "Presented"
                           ELSE IF lsrs[mActiveLSR].missed > 1 THEN "MissedMultiple"
                           ELSE "Missed"
                  lsr == [lsrs[mActiveLSR] EXCEPT !.FinalState = state]
      <3>1. state \in LsrState
        BY DEF LsrState
      <3>. HIDE DEF state
      <3>2. lsr \in Lsr /\ ~lsr.Completed /\ lsr.frame = lsrs[mActiveLSR].frame
        BY <1>2, <3>1 DEF Lsr
      <3>3. lsrs' = [lsrs EXCEPT ![mActiveLSR] = lsr]
        BY <2>2 DEF PresentationTiming, state
      <3>. QED  BY <3>2, <3>3
    <2>. QED  BY <2>1, <2>2
  <1>6. UNCHANGED otherThanSources
    BY <1>1
  <1>. QED  BY <1>1, <1>3, <1>4, <1>5, <1>6, ActiveReplaced

LEMMA BeginKeeps ==
    ASSUME IInv, NEW s \in Sources, BeginLsr(s)
    PROVE  IInv' /\ Final
  <1>. DEFINE new == [source |-> s, frame |-> NULL, missed |-> 0, FinalState |-> "Unknown",
                      Completed |-> FALSE]
              made == Append(lsrs, new)
              l == mActiveLSR
              closed == [made[l] EXCEPT !.Completed = TRUE]
  <1>1. /\ lsrs \in Seq(Lsr) /\ Len(lsrs) \in Nat /\ l \in 0..Len(lsrs)
        /\ l # NULL => ~lsrs[l].Completed
    BY DEF IInv, Typed
  <1>2. new \in Lsr
    BY DEF Lsr, LsrState, NULL
  <1>3. /\ made \in Seq(Lsr) /\ Len(made) = Len(lsrs) + 1 /\ made[Len(lsrs) + 1] = new
        /\ \A m \in 1..Len(lsrs) : made[m] = lsrs[m]
    BY <1>1, <1>2, AppendProperties
  <1>4. /\ mActiveLSR' = Len(lsrs) + 1 /\ CompleteLSR(l, made)
        /\ UNCHANGED <<otherThanLSR, frames, mPresentationSourceByPtr,
                       mHolographicFramesByPresentId>>
    BY DEF BeginLsr
  <1>. DEFINE timed == l # NULL /\ made[l].FinalState # "Unknown"
  <1>. HIDE DEF made
  <1>5. /\ timed => lsrs' = [made EXCEPT ![l] = closed]
                      /\ mCompletedLSRs' = Append(mCompletedLSRs, l)
        /\ ~timed => lsrs' = made /\ mCompletedLSRs' = mCompletedLSRs
    BY <1>1, <1>3, <1>4 DEF CompleteLSR, NULL
  <1>6. timed => closed \in Lsr /\ l \in 1..Len(lsrs)
    <2>1. timed => l \in 1..Len(lsrs)
      BY <1>1 DEF NULL
    <2>2. timed => made[l] \in Lsr
      BY <1>1, <1>3, <2>1
    <2>. QED  BY <2>1, <2>2 DEF Lsr
  <1>. HIDE DEF closed
  <1>7. /\ lsrs' \in Seq(Lsr) /\ Len(lsrs') = Len(lsrs) + 1 /\ lsrs'[Len(lsrs) + 1] = new
        /\ \A m \in 1..Len(lsrs) : m # l => lsrs'[m] = lsrs[m]
        /\ timed => lsrs'[l] = closed
        /\ ~timed /\ l # NULL => lsrs'[l] = lsrs[l]
    <2>1. CASE timed
      <3>1. /\ lsrs' \in Seq(Lsr) /\ Len(lsrs') = Len(made)
            /\ \A m \in 1..Len(made) : lsrs'[m] = IF m = l THEN closed ELSE made[m]
        <4>1. closed \in Lsr /\ l \in 1..Len(made) /\ lsrs' = [made EXCEPT ![l] = closed]
          BY <1>1, <1>3, <1>5, <1>6, <2>1
        <4>. HIDE DEF l, timed
        <4>. QED  BY <1>3, <4>1, ExceptSeq
      <3>. HIDE DEF l, timed, new
      <3>. QED  BY <1>1, <1>3, <1>6, <2>1, <3>1
    <2>2. CASE ~timed
      BY <1>1, <1>3, <1>5, <2>2 DEF NULL
    <2>. QED  BY <2>1, <2>2
  <1>8. timed => closed.Completed /\ closed.FinalState # "Unknown" /\ closed.frame = lsrs[l].frame
    <2>1. timed => made[l] \in Lsr /\ made[l] = lsrs[l]
      BY <1>1, <1>3, <1>6
    <2>. QED  BY <2>1 DEF closed, Lsr
  <1>9. \A m \in Handed : lsrs'[m] = lsrs[m] /\ m # mActiveLSR'
    BY <1>1, <1>4, <1>7 DEF Handed
  <1>10. mCompletedLSRs' \in Seq(Handed')
    <2>1. Handed \subseteq Handed'
      BY <1>1, <1>7, <1>9 DEF Handed
    <2>2. mCompletedLSRs \in Seq(Handed')
      BY <2>1 DEF IInv
    <2>3. timed => l \in Handed'
      BY <1>1, <1>4, <1>6, <1>7, <1>8 DEF Handed
    <2>. QED  BY <1>5, <2>2, <2>3, AppendProperties
  <1>11. Shown'
    <2>1. \A f : Shows(f)' <=> Shows(f)
      BY <1>4 DEF Shows, Done
    <2>2. Shows(NULL)
      BY DEF Shows, NULL, IInv, Typed
    <2>3. new.frame = NULL
      OBVIOUS
    <2>4. \A m \in 1..Len(lsrs) : lsrs'[m].frame = lsrs[m].frame
      BY <1>1, <1>7, <1>8 DEF NULL
    <2>. HIDE DEF new
    <2>5. \A m \in 1..Len(lsrs') : Shows(lsrs'[m].frame)
      <3>. SUFFICES ASSUME NEW m \in 1..Len(lsrs')
                    PROVE  Shows(lsrs'[m].frame)
        OBVIOUS
      <3>1. CASE m \in 1..Len(lsrs)
        BY <2>4, <3>1 DEF IInv, Shown
      <3>2. CASE m = Len(lsrs) + 1
        BY <1>7, <2>2, <2>3, <3>2
      <3>. QED  BY <1>1, <1>7, <3>1, <3>2
    <2>. QED  BY <1>4, <2>1, <2>5 DEF IInv, Shown
  <1>12. /\ mActiveLSR' \in 0..Len(lsrs') /\ Len(lsrs') >= Len(lsrs)
         /\ ~lsrs'[mActiveLSR'].Completed
    BY <1>1, <1>4, <1>7
  <1>13. UNCHANGED <<frames, mHolographicFramesByFrameId, mHolographicFramesByPresentId,
                     presentIds, lsrEvents, delivered>>
    BY <1>4 DEF otherThanLSR
  <1>. QED  BY <1>7, <1>9, <1>10, <1>11, <1>12, <1>13, LsrsChange

\* A frame is latched, found by its present id: it cannot have been latched before.
LEMMA LatchedKeeps ==
    ASSUME IInv, NEW id \in 1..presentIds, LatchedInput(id)
    PROVE  IInv' /\ Final
  <1>. DEFINE f == mHolographicFramesByPresentId[id]
              frame == [frames[f] EXCEPT !.Completed = TRUE]
              source == lsrs[mActiveLSR].source
  <1>1. /\ f \in 1..Len(frames) /\ frames[f].PresentId = id /\ id # 0
        /\ frames[f].stopped /\ ~frames[f].Completed
        /\ Len(frames) \in Nat /\ frames[f] \in Frame
    <2>1. id \in DOMAIN mHolographicFramesByPresentId
      BY DEF LatchedInput
    <2>. QED  BY <2>1 DEF IInv, Waiting, Typed
  <1>2. frame \in Frame /\ frame.PresentId = id /\ frame.stopped /\ frame.Completed
    BY <1>1 DEF Frame
  <1>3. /\ frames' = [frames EXCEPT ![f] = frame]
        /\ mHolographicFramesByPresentId' = Without(mHolographicFramesByPresentId, id)
        /\ mPresentationSourceByPtr' = With(mPresentationSourceByPtr, source, f)
        /\ UNCHANGED <<otherThanLSR, lsrs, mActiveLSR, mCompletedLSRs>>
    BY <1>1 DEF LatchedInput
  <1>. HIDE DEF frame, source
  <1>4. /\ frames' \in Seq(Frame) /\ Len(frames') = Len(frames) /\ frames'[f] = frame
        /\ \A g \in 1..Len(frames) : g # f => frames'[g] = frames[g]
    BY <1>1, <1>2, <1>3, FrameReplaced
  <1>5. \A g \in 1..Len(frames) : Done(g) => frames'[g] = frames[g]
    BY <1>1, <1>4 DEF Done
  <1>6. Rendering'
    BY <1>1, <1>3, <1>4 DEF IInv, Rendering, otherThanLSR
  <1>7. Waiting'
    <2>. SUFFICES ASSUME NEW i \in DOMAIN mHolographicFramesByPresentId'
                  PROVE  LET g == mHolographicFramesByPresentId'[i]
                         IN  /\ g \in 1..Len(frames') /\ frames'[g].PresentId = i /\ i # 0
                             /\ frames'[g].stopped /\ ~frames'[g].Completed
      BY DEF Waiting
    <2>. DEFINE g == mHolographicFramesByPresentId[i]
    <2>1. /\ i \in DOMAIN mHolographicFramesByPresentId /\ i # id
          /\ mHolographicFramesByPresentId'[i] = g
      BY <1>3 DEF Without
    <2>2. /\ g \in 1..Len(frames) /\ frames[g].PresentId = i /\ i # 0
          /\ frames[g].stopped /\ ~frames[g].Completed
      BY <2>1 DEF IInv, Waiting
    <2>3. g # f
      BY <1>1, <2>1, <2>2
    <2>. QED  BY <1>4, <2>1, <2>2, <2>3
  <1>8. \A s \in DOMAIN mPresentationSourceByPtr' :
          \/ /\ s \in DOMAIN mPresentationSourceByPtr
             /\ mPresentationSourceByPtr'[s] = mPresentationSourceByPtr[s]
          \/ Shows(mPresentationSourceByPtr[s])'
    <2>1. \A s : mPresentationSourceByPtr'[s] = f => Shows(mPresentationSourceByPtr[s])'
      BY <1>1, <1>2, <1>4 DEF Shows, Done
    <2>. QED  BY <1>3, <2>1 DEF With
  <1>9. /\ UNCHANGED <<lsrs, mActiveLSR, mCompletedLSRs, lsrEvents, delivered>>
        /\ presentIds' \in Nat
    BY <1>3 DEF otherThanLSR, IInv, Typed
  <1>. QED  BY <1>1, <1>4, <1>5, <1>6, <1>7, <1>8, <1>9, FramesChange

-----------------------------------------------------------------------------
(* The output thread, which reads without a lock, and the theorems.        *)

LEMMA OutputKeeps ==
    ASSUME IInv, UNCHANGED lsrVars \/ DequeueLSRs \/ AddLSR
    PROVE  IInv' /\ Final
  <1>1. UNCHANGED consumerVars
    BY DEF lsrVars, DequeueLSRs, AddLSR
  <1>2. /\ Handed' = Handed /\ Typed' /\ Rendering' /\ Waiting' /\ Shown' /\ Final
        /\ (mActiveLSR # NULL => ~lsrs[mActiveLSR].Completed)'
    BY <1>1 DEF consumerVars, Handed, IInv, Typed, Rendering, Waiting, Shown, Shows, Done, Final
  <1>3. /\ delivered' \in Seq(Handed) /\ lsrEvents' \in Seq(Handed)
        /\ mCompletedLSRs' \in Seq(Handed)
    <2>1. CASE UNCHANGED lsrVars
      BY <2>1 DEF lsrVars, IInv
    <2>2. CASE DequeueLSRs
      BY <2>2 DEF DequeueLSRs, IInv
    <2>3. CASE AddLSR
      <3>1. /\ lsrEvents # <<>> /\ lsrEvents' = Tail(lsrEvents)
            /\ delivered' = Append(delivered, Head(lsrEvents))
            /\ mCompletedLSRs' = mCompletedLSRs
        BY <2>3 DEF AddLSR
      <3>2. Head(lsrEvents) \in Handed /\ Tail(lsrEvents) \in Seq(Handed)
        BY <3>1, HeadTailProperties DEF IInv
      <3>. QED  BY <3>1, <3>2, AppendProperties DEF IInv
    <2>. QED  BY <2>1, <2>2, <2>3
  <1>. QED  BY <1>2, <1>3 DEF IInv

LEMMA HandedInit == Init => IInv
  BY DEF Init, IInv, Typed, Rendering, Waiting, Shown, NULL

LEMMA HandedNext == IInv /\ [Next]_vars => IInv' /\ Final
  <1>. SUFFICES ASSUME IInv, [Next]_vars PROVE IInv' /\ Final
    OBVIOUS
  <1>1. CASE HandleSpectrumContinuousEvent
    BY <1>1, SpectrumKeeps
  <1>2. CASE HandleDHDEvent
    BY <1>2, SourcesKeep, BeginKeeps, LatchedKeeps, ActiveKeeps DEF HandleDHDEvent
  <1>3. CASE DequeueLSRs \/ AddLSR \/ UNCHANGED lsrVars
    BY <1>3, OutputKeeps
  <1>. QED  BY <1>1, <1>2, <1>3 DEF Next, vars

\* The LSRs in hand are among those that may be handed over.
LEMMA PublishedIsHanded ==
    ASSUME IInv
    PROVE  \A n \in DOMAIN Published : Published[n] \in Handed
  <1>1. Published \in Seq(Handed)
    BY ConcatProperties DEF IInv, Published
  <1>. QED  BY <1>1

\* Where a frame and an LSR are in their lives, and who can find them.
THEOREM HandOverInductive == Spec => []IInv
  BY HandedInit, HandedNext, PTL DEF Spec

\* OutputThread.cpp:371-374: the assertions on what is handed over hold, whatever
\* applications, frame ids and sources there are and whatever events are lost.
THEOREM OnlyCompleteIsHandedOver == Spec => []HandedOverIsComplete
  <1>1. IInv => HandedOverIsComplete
    <2>. SUFFICES ASSUME IInv, NEW n \in DOMAIN Published
                  PROVE  LET l == Published[n]
                             f == lsrs[l].frame
                         IN  /\ lsrs[l].Completed /\ lsrs[l].FinalState # "Unknown"
                             /\ f # NULL => /\ frames[f].Completed /\ frames[f].stopped
                                            /\ frames[f].PresentId # 0
      BY DEF HandedOverIsComplete
    <2>1. Published[n] \in Handed
      BY PublishedIsHanded
    <2>2. Shows(lsrs[Published[n]].frame)
      BY <2>1 DEF IInv, Shown, Handed
    <2>. QED  BY <2>1, <2>2 DEF Handed, Shows, Done
  <1>. QED  BY HandOverInductive, <1>1, PTL

\* No event changes an LSR, or a frame it shows, that the output thread may be
\* reading.
THEOREM HandedOverIsFinal == Spec => QueuedIsFinal
  <1>1. IInv /\ [Next]_vars =>
          [\A n \in DOMAIN Published :
             LET l == Published[n]
             IN  /\ lsrs'[l] = lsrs[l]
                 /\ lsrs[l].frame # NULL => frames'[lsrs[l].frame] = frames[lsrs[l].frame]]_vars
    <2>. SUFFICES ASSUME IInv, [Next]_vars, NEW n \in DOMAIN Published
                  PROVE  LET l == Published[n]
                         IN  /\ lsrs'[l] = lsrs[l]
                             /\ lsrs[l].frame # NULL =>
                                  frames'[lsrs[l].frame] = frames[lsrs[l].frame]
      OBVIOUS
    <2>1. Published[n] \in Handed
      BY PublishedIsHanded
    <2>2. Shows(lsrs[Published[n]].frame)
      BY <2>1 DEF IInv, Shown, Handed
    <2>3. Final
      BY HandedNext
    <2>4. lsrs[Published[n]].frame # NULL =>
            lsrs[Published[n]].frame \in 1..Len(frames) /\ Done(lsrs[Published[n]].frame)
      BY <2>2 DEF Shows, NULL, IInv, Typed
    <2>. QED  BY <2>1, <2>3, <2>4 DEF Final
  <1>. QED  BY HandOverInductive, <1>1, PTL DEF Spec, QueuedIsFinal

-----------------------------------------------------------------------------
(* The order of the LSRs: the active one is always the newest, and is      *)
(* closed before there is another, so they are handed over as they began.  *)

(* Sequences.                                                              *)

LEMMA SeqMono ==
    ASSUME NEW S, NEW T, S \subseteq T, NEW q \in Seq(S)
    PROVE  q \in Seq(T)
  OBVIOUS

LEMMA ConcatAppend ==
    ASSUME NEW S, NEW p \in Seq(S), NEW q \in Seq(S), NEW x \in S
    PROVE  p \o Append(q, x) = Append(p \o q, x)
  <1>. DEFINE a == Append(q, x)
              c == p \o q
              n == Len(p) + Len(q) + 1
  <1>1. Len(p) \in Nat /\ Len(q) \in Nat
    BY LenProperties
  <1>2. /\ a \in Seq(S) /\ Len(a) = Len(q) + 1
        /\ \A i \in 1..Len(q) + 1 : a[i] = IF i = Len(q) + 1 THEN x ELSE q[i]
    BY AppendProperties
  <1>3. /\ c \in Seq(S) /\ Len(c) = Len(p) + Len(q)
        /\ \A i \in 1..Len(p) + Len(q) : c[i] = IF i <= Len(p) THEN p[i] ELSE q[i - Len(p)]
    BY ConcatProperties
  <1>. HIDE DEF a, c
  <1>4. /\ p \o a \in Seq(S) /\ Len(p \o a) = Len(p) + Len(a)
        /\ \A i \in 1..Len(p) + Len(a) :
             (p \o a)[i] = IF i <= Len(p) THEN p[i] ELSE a[i - Len(p)]
    BY <1>2, ConcatProperties
  <1>5. /\ Append(c, x) \in Seq(S) /\ Len(Append(c, x)) = n
        /\ \A i \in 1..n : Append(c, x)[i] = IF i = n THEN x ELSE c[i]
    BY <1>1, <1>3, AppendProperties
  <1>6. \A i \in 1..n : (p \o a)[i] = Append(c, x)[i]
    <2>. SUFFICES ASSUME NEW i \in 1..n PROVE (p \o a)[i] = Append(c, x)[i]
      OBVIOUS
    <2>1. i \in Nat /\ i \in 1..Len(p) + Len(a)
      BY <1>1, <1>2
    <2>2. CASE i <= Len(p)
      BY <1>1, <1>3, <1>4, <1>5, <2>1, <2>2
    <2>3. CASE i > Len(p)
      <3>1. i - Len(p) \in 1..Len(q) + 1 /\ (i = n <=> i - Len(p) = Len(q) + 1)
        BY <1>1, <2>1, <2>3
      <3>2. (p \o a)[i] = a[i - Len(p)]
        BY <1>1, <1>4, <2>1, <2>3
      <3>3. i # n => i \in 1..Len(p) + Len(q) /\ c[i] = q[i - Len(p)]
        BY <1>1, <1>3, <2>1, <2>3
      <3>. QED  BY <1>2, <1>5, <3>1, <3>2, <3>3
    <2>4. i <= Len(p) \/ i > Len(p)
      BY <1>1, <2>1
    <2>. QED  BY <2>2, <2>3, <2>4
  <1>7. Len(p \o a) = n
    BY <1>1, <1>2, <1>4
  <1>8. p \o a = Append(c, x)
    BY <1>4, <1>5, <1>6, <1>7, SeqEqual
  <1>. QED  BY <1>8 DEF a, c

LEMMA ConcatHeadTail ==
    ASSUME NEW S, NEW p \in Seq(S), NEW e \in Seq(S), e # <<>>
    PROVE  Append(p, Head(e)) \o Tail(e) = p \o e
  <1>. DEFINE h == Head(e)
              r == Tail(e)
              a == Append(p, h)
              n == Len(p) + Len(e)
  <1>1. /\ h \in S /\ h = e[1] /\ r \in Seq(S) /\ Len(r) = Len(e) - 1
        /\ \A i \in 1..Len(r) : r[i] = e[i + 1]
    BY HeadTailProperties
  <1>2. Len(p) \in Nat /\ Len(e) \in Nat /\ Len(e) # 0
    BY LenProperties, EmptySeq
  <1>. HIDE DEF h, r
  <1>3. /\ a \in Seq(S) /\ Len(a) = Len(p) + 1 /\ a[Len(p) + 1] = h
        /\ \A i \in 1..Len(p) : a[i] = p[i]
    BY <1>1, AppendProperties
  <1>. HIDE DEF a
  <1>4. /\ a \o r \in Seq(S) /\ Len(a \o r) = Len(a) + Len(r)
        /\ \A i \in 1..Len(a) + Len(r) :
             (a \o r)[i] = IF i <= Len(a) THEN a[i] ELSE r[i - Len(a)]
    BY <1>1, <1>3, ConcatProperties
  <1>5. /\ p \o e \in Seq(S) /\ Len(p \o e) = n
        /\ \A i \in 1..n : (p \o e)[i] = IF i <= Len(p) THEN p[i] ELSE e[i - Len(p)]
    BY <1>2, ConcatProperties
  <1>6. \A i \in 1..n : (a \o r)[i] = (p \o e)[i]
    <2>. SUFFICES ASSUME NEW i \in 1..n PROVE (a \o r)[i] = (p \o e)[i]
      OBVIOUS
    <2>0. i \in Nat
      BY <1>2
    <2>1. CASE i <= Len(p)
      BY <1>1, <1>2, <1>3, <1>4, <1>5, <2>1
    <2>2. CASE i = Len(p) + 1
      BY <1>1, <1>2, <1>3, <1>4, <1>5, <2>2
    <2>3. CASE i > Len(p) + 1
      <3>1. /\ i - Len(a) \in 1..Len(r) /\ (i - Len(a)) + 1 = i - Len(p)
            /\ i \in 1..Len(a) + Len(r) /\ ~(i <= Len(a)) /\ ~(i <= Len(p))
        BY <1>1, <1>2, <1>3, <2>3
      <3>2. (a \o r)[i] = r[i - Len(a)] /\ (p \o e)[i] = e[i - Len(p)]
        BY <1>4, <1>5, <3>1
      <3>. QED  BY <1>1, <3>1, <3>2
    <2>4. i <= Len(p) \/ i = Len(p) + 1 \/ i > Len(p) + 1
      BY <1>2, <2>0
    <2>. HIDE DEF n
    <2>. QED  BY <2>1, <2>2, <2>3, <2>4
  <1>7. Len(a \o r) = n
    BY <1>1, <1>2, <1>3, <1>4
  <1>8. a \o r = p \o e
    BY <1>4, <1>5, <1>6, <1>7, SeqEqual
  <1>. QED  BY <1>8 DEF a, h, r

LEMMA IncreasingAppend ==
    ASSUME NEW p \in Seq(Nat), NEW T, NEW x \in Nat, \A m \in T : m < x,
           \A i, j \in DOMAIN p : i < j => p[i] < p[j],
           {p[n] : n \in DOMAIN p} = T,
           NEW q, q = Append(p, x)
    PROVE  /\ \A i, j \in DOMAIN q : i < j => q[i] < q[j]
           /\ {q[n] : n \in DOMAIN q} = T \cup {x}
  <1>1. /\ Len(p) \in Nat /\ DOMAIN p = 1..Len(p)
        /\ \A n \in 1..Len(p) : p[n] \in T /\ p[n] \in Nat
    BY LenProperties
  <1>2. /\ q \in Seq(Nat) /\ Len(q) = Len(p) + 1 /\ q[Len(p) + 1] = x
        /\ \A n \in 1..Len(p) : q[n] = p[n]
    BY AppendProperties
  <1>3. DOMAIN q = 1..Len(p) + 1
    BY <1>1, <1>2
  <1>4. \A i, j \in 1..Len(p) + 1 : i < j => q[i] < q[j]
    <2>. SUFFICES ASSUME NEW i \in 1..Len(p) + 1, NEW j \in 1..Len(p) + 1, i < j
                  PROVE  q[i] < q[j]
      OBVIOUS
    <2>1. i \in 1..Len(p) /\ (j \in 1..Len(p) \/ j = Len(p) + 1)
      BY <1>1
    <2>. QED  BY <1>1, <1>2, <2>1
  <1>5. \A n \in 1..Len(p) + 1 : q[n] \in T \cup {x}
    BY <1>1, <1>2
  <1>6. \A y \in T \cup {x} : \E n \in 1..Len(p) + 1 : y = q[n]
    <2>1. \A y \in T : \E n \in 1..Len(p) : y = p[n]
      BY <1>1
    <2>2. 1..Len(p) \subseteq 1..Len(p) + 1 /\ Len(p) + 1 \in 1..Len(p) + 1
      BY <1>1
    <2>3. \A y \in T : \E n \in 1..Len(p) + 1 : y = q[n]
      <3>. TAKE y \in T
      <3>1. PICK n \in 1..Len(p) : y = p[n]
        BY <2>1
      <3>. QED  BY <1>2, <2>2, <3>1
    <2>. QED  BY <1>2, <2>2, <2>3
  <1>. QED  BY <1>3, <1>4, <1>5, <1>6

\* The LSRs that must have come out.
Timed == {l \in 1..Len(lsrs) : l # mActiveLSR /\ lsrs[l].FinalState # "Unknown"}

Ordered == mActiveLSR = Len(lsrs) /\ EveryTimedLSRComesOut

\* What every step but BeginLsr keeps.
Settled ==
  /\ Published' = Published /\ Len(lsrs') = Len(lsrs) /\ mActiveLSR' = mActiveLSR
  /\ \A l \in 1..Len(lsrs) : l # mActiveLSR => lsrs'[l].FinalState = lsrs[l].FinalState

LEMMA SettledKeeps == Ordered /\ Settled => Ordered'
  <1>. SUFFICES ASSUME Ordered, Settled PROVE Ordered'
    OBVIOUS
  <1>1. Timed' = Timed
    BY DEF Timed, Settled
  <1>. QED  BY <1>1 DEF Ordered, Settled, EveryTimedLSRComesOut, Timed

\* Nothing that is published is lost or overtaken between the two threads.
LEMMA OutputSettles ==
    ASSUME IInv, UNCHANGED lsrVars \/ DequeueLSRs \/ AddLSR
    PROVE  Settled
  <1>1. UNCHANGED consumerVars
    BY DEF lsrVars, DequeueLSRs, AddLSR
  <1>2. /\ delivered \in Seq(Handed) /\ lsrEvents \in Seq(Handed)
        /\ mCompletedLSRs \in Seq(Handed)
    BY DEF IInv
  <1>3. CASE UNCHANGED lsrVars
    BY <1>1, <1>3 DEF lsrVars, consumerVars, Settled, Published
  <1>4. CASE DequeueLSRs
    <2>1. /\ lsrEvents = <<>> /\ lsrEvents' = mCompletedLSRs /\ mCompletedLSRs' = <<>>
          /\ delivered' = delivered
      BY <1>4 DEF DequeueLSRs
    <2>2. /\ delivered \o <<>> = delivered
          /\ (delivered \o mCompletedLSRs) \o <<>> = delivered \o mCompletedLSRs
      BY <1>2, ConcatProperties, ConcatEmptySeq
    <2>. QED  BY <1>1, <2>1, <2>2 DEF consumerVars, Settled, Published
  <1>5. CASE AddLSR
    <2>1. /\ lsrEvents # <<>> /\ lsrEvents' = Tail(lsrEvents)
          /\ delivered' = Append(delivered, Head(lsrEvents)) /\ UNCHANGED mCompletedLSRs
      BY <1>5 DEF AddLSR
    <2>2. Append(delivered, Head(lsrEvents)) \o Tail(lsrEvents) = delivered \o lsrEvents
      BY <1>2, <2>1, ConcatHeadTail
    <2>. QED  BY <1>1, <2>1, <2>2 DEF consumerVars, Settled, Published
  <1>. QED  BY <1>3, <1>4, <1>5

\* No event but BeginLsr publishes an LSR, and none times another than the active one.
LEMMA EventSettles ==
    ASSUME IInv, HandleSpectrumContinuousEvent \/ HandleDHDEvent,
           ~\E s \in Sources : BeginLsr(s)
    PROVE  Settled
  <1>1. /\ UNCHANGED <<delivered, lsrEvents, mCompletedLSRs, mActiveLSR>>
        /\ (lsrs' = lsrs) \/ (\E x : lsrs' = [lsrs EXCEPT ![mActiveLSR] = x])
    <2>1. CASE HandleSpectrumContinuousEvent
      BY <2>1 DEF HandleSpectrumContinuousEvent, HolographicFrameStart, HolographicFrame_Stop,
                  GetNewPose, otherThanFrames
    <2>2. CASE \E s \in Sources : Stamp(s) \/ ReleaseFromPresentation(s) \/ Destruction(s)
      <3>. PICK s \in Sources : Stamp(s) \/ ReleaseFromPresentation(s) \/ Destruction(s)
        BY <2>2
      <3>1. UNCHANGED <<delivered, lsrEvents, mCompletedLSRs, mActiveLSR>>
        BY DEF Stamp, ReleaseFromPresentation, Destruction, otherThanLSR
      <3>2. \/ lsrs' = lsrs
            \/ lsrs' = [lsrs EXCEPT ![mActiveLSR] =
                            [lsrs[mActiveLSR] EXCEPT !.source = s, !.frame = Lookup(s)]]
        BY DEF Stamp, ReleaseFromPresentation, Destruction
      <3>. QED  BY <3>1, <3>2
    <2>3. CASE \E id \in 1..presentIds : LatchedInput(id)
      BY <2>3 DEF LatchedInput, otherThanLSR
    <2>4. CASE MissVsync
      BY <2>4 DEF MissVsync, otherThanLSR
    <2>5. CASE \E onSchedule \in BOOLEAN : PresentationTiming(onSchedule)
      BY <2>5 DEF PresentationTiming, otherThanLSR
    <2>. QED  BY <2>1, <2>2, <2>3, <2>4, <2>5 DEF HandleDHDEvent
  <1>2. lsrs \in Seq(Lsr)
    BY DEF IInv, Typed
  <1>3. /\ Len(lsrs') = Len(lsrs)
        /\ \A l \in 1..Len(lsrs) : l # mActiveLSR => lsrs'[l] = lsrs[l]
    BY <1>1, <1>2
  <1>. QED  BY <1>1, <1>3 DEF Settled, Published

\* BeginLsr publishes the LSR that was active when its timing is known.
LEMMA BeginOrders ==
    ASSUME IInv, Ordered, NEW s \in Sources, BeginLsr(s)
    PROVE  Ordered'
  <1>. DEFINE new == [source |-> s, frame |-> NULL, missed |-> 0, FinalState |-> "Unknown",
                      Completed |-> FALSE]
              made == Append(lsrs, new)
              l == mActiveLSR
              timed == l # NULL /\ lsrs[l].FinalState # "Unknown"
  <1>1. /\ lsrs \in Seq(Lsr) /\ Len(lsrs) \in Nat /\ l = Len(lsrs)
        /\ l # NULL => ~lsrs[l].Completed
        /\ Published \in Seq(Nat) /\ Len(Published) \in Nat
    <2>1. Handed \subseteq Nat
      BY DEF Handed, IInv, Typed
    <2>2. Published \in Seq(Handed)
      BY ConcatProperties DEF IInv, Published
    <2>3. Published \in Seq(Nat)
      BY <2>1, <2>2, SeqMono
    <2>. QED  BY <2>3, LenProperties DEF IInv, Typed, Ordered
  <1>2. new \in Lsr
    BY DEF Lsr, LsrState, NULL
  <1>3. /\ made \in Seq(Lsr) /\ Len(made) = Len(lsrs) + 1 /\ made[Len(lsrs) + 1] = new
        /\ \A m \in 1..Len(lsrs) : made[m] = lsrs[m]
    BY <1>1, <1>2, AppendProperties
  <1>4. /\ mActiveLSR' = Len(lsrs) + 1 /\ CompleteLSR(l, made)
        /\ UNCHANGED <<delivered, lsrEvents>>
    BY DEF BeginLsr, otherThanLSR
  <1>. HIDE DEF made, new
  <1>5. /\ timed => lsrs' = [made EXCEPT ![l].Completed = TRUE]
                      /\ mCompletedLSRs' = Append(mCompletedLSRs, l)
        /\ ~timed => lsrs' = made /\ mCompletedLSRs' = mCompletedLSRs
    BY <1>1, <1>3, <1>4 DEF CompleteLSR, NULL
  <1>6. /\ Len(lsrs') = Len(lsrs) + 1
        /\ \A m \in 1..Len(lsrs) : lsrs'[m].FinalState = lsrs[m].FinalState
    <2>1. CASE timed
      <3>1. lsrs' = [made EXCEPT ![l] = [made[l] EXCEPT !.Completed = TRUE]]
        BY <1>5, <2>1
      <3>2. made[l] \in Lsr /\ l \in 1..Len(lsrs) /\ l \in 1..Len(made)
        BY <1>1, <1>3, <2>1 DEF NULL
      <3>3. [made[l] EXCEPT !.Completed = TRUE].FinalState = made[l].FinalState
        BY <3>2 DEF Lsr
      <3>. DEFINE closed == [made[l] EXCEPT !.Completed = TRUE]
      <3>. HIDE DEF closed
      <3>4. \A m \in 1..Len(lsrs) : lsrs'[m] = IF m = l THEN closed ELSE made[m]
        BY <1>1, <1>3, <3>1 DEF closed
      <3>. QED  BY <1>1, <1>3, <3>1, <3>2, <3>3, <3>4 DEF closed
    <2>2. CASE ~timed
      BY <1>3, <1>5, <2>2
    <2>. QED  BY <2>1, <2>2
  <1>7. /\ timed => Timed' = Timed \cup {l}
        /\ ~timed => Timed' = Timed
    <2>1. \A m : m \in Timed' <=> m \in 1..Len(lsrs) /\ lsrs[m].FinalState # "Unknown"
      BY <1>1, <1>4, <1>6 DEF Timed
    <2>2. \A m : m \in Timed <=> m \in 1..Len(lsrs) /\ m # l /\ lsrs[m].FinalState # "Unknown"
      BY DEF Timed
    <2>3. timed => \A m : m \in Timed' <=> m \in Timed \cup {l}
      BY <1>1, <2>1, <2>2 DEF NULL
    <2>4. ~timed => \A m : m \in Timed' <=> m \in Timed
      BY <1>1, <2>1, <2>2 DEF NULL
    <2>. HIDE DEF l, timed
    <2>5. timed => Timed' = Timed \cup {l}
      BY <2>3
    <2>6. ~timed => Timed' = Timed
      BY <2>4
    <2>. QED  BY <2>5, <2>6
  <1>8. /\ {Published[n] : n \in DOMAIN Published} = Timed
        /\ \A i, j \in DOMAIN Published : i < j => Published[i] < Published[j]
        /\ \A m \in Timed : m < l
    BY <1>1 DEF Ordered, EveryTimedLSRComesOut, Timed
  <1>9. CASE ~timed
    <2>1. Published' = Published
      BY <1>4, <1>5, <1>9 DEF Published
    <2>. QED  BY <1>1, <1>4, <1>6, <1>7, <1>9, <2>1 DEF Ordered, EveryTimedLSRComesOut, Timed
  <1>10. CASE timed
    <2>1. Published' = Append(Published, l)
      <3>1. /\ delivered \o lsrEvents \in Seq(Handed) /\ mCompletedLSRs \in Seq(Handed)
            /\ Handed \subseteq Nat
        BY ConcatProperties DEF IInv, Typed, Handed
      <3>2. delivered \o lsrEvents \in Seq(Nat) /\ mCompletedLSRs \in Seq(Nat) /\ l \in Nat
        BY <1>1, <3>1, SeqMono
      <3>3. Published' = delivered \o lsrEvents \o Append(mCompletedLSRs, l)
        BY <1>4, <1>5, <1>10 DEF Published
      <3>. HIDE DEF l
      <3>. QED  BY <3>2, <3>3, ConcatAppend DEF Published
    <2>. HIDE DEF l
    <2>2. l \in Nat /\ Published \in Seq(Nat)
      BY <1>1
    <2>3. /\ \A i, j \in DOMAIN Published' : i < j => Published'[i] < Published'[j]
          /\ {Published'[n] : n \in DOMAIN Published'} = Timed \cup {l}
      BY <1>8, <2>1, <2>2, IncreasingAppend
    <2>4. Timed' = Timed \cup {l} /\ mActiveLSR' = Len(lsrs')
      BY <1>4, <1>6, <1>7, <1>10
    <2>. QED  BY <2>3, <2>4 DEF Ordered, EveryTimedLSRComesOut, Timed
  <1>. QED  BY <1>9, <1>10

\* LateStageReprojectionData.cpp:65: the reprojections come to the output thread in
\* the order they began, each once and none but those without a timing left out,
\* whatever events are lost and however the two threads interleave.
THEOREM LSRsComeInOrder == Spec => []EveryTimedLSRComesOut
  <1>1. Init => Ordered
    BY EmptySeq DEF Init, Ordered, EveryTimedLSRComesOut, Published, NULL
  <1>2. IInv /\ Ordered /\ [Next]_vars => Ordered'
    <2>. SUFFICES ASSUME IInv, Ordered, [Next]_vars PROVE Ordered'
      OBVIOUS
    <2>1. CASE \E s \in Sources : BeginLsr(s)
      BY <2>1, BeginOrders
    <2>2. CASE ~(\E s \in Sources : BeginLsr(s))
      <3>1. CASE HandleSpectrumContinuousEvent \/ HandleDHDEvent
        BY <2>2, <3>1, EventSettles, SettledKeeps
      <3>2. CASE DequeueLSRs \/ AddLSR \/ UNCHANGED lsrVars
        BY <3>2, OutputSettles, SettledKeeps
      <3>. QED  BY <3>1, <3>2 DEF Next, vars
    <2>. QED  BY <2>1, <2>2
  <1>3. Ordered => EveryTimedLSRComesOut
    BY DEF Ordered
  <1>. QED  BY <1>1, <1>2, <1>3, HandOverInductive, PTL DEF Spec
=============================================================================
