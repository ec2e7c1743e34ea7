------------------------------ MODULE MixedReality ------------------------------
(***************************************************************************)
(* -include_mixed_reality: the consumer of late-stage reprojections (LSRs, *)
(* PresentData/MixedRealityTraceConsumer.cpp) and what the output thread   *)
(* does with them (LateStageReprojectionData.cpp and the AddPresents for   *)
(* LSRs of OutputThread.cpp), which ends in the "_WMR" files of CsvOutput. *)
(*                                                                         *)
(* LSRs and the holographic frames they show are shared by both threads    *)
(* through pointers; only mCompletedLSRs is locked.  The events come from  *)
(* several processes, and any of them may be lost, so every event is       *)
(* allowed at any time.  Times are left out: nothing here depends on them. *)
(***************************************************************************)
EXTENDS CsvOutput

CONSTANTS
  Sources,   \* pointers to presentation sources
  FrameIds   \* holographic frame ids, unique in a process only

VARIABLES
  frames,    \* every HolographicFrame made, by number
  lsrs,      \* every LateStageReprojectionEvent made, by number
  mPresentationSourceByPtr,    \* the frame of each source known
  mHolographicFramesByFrameId,
  mHolographicFramesByPresentId,
  mActiveLSR,
  mCompletedLSRs,
  presentIds, \* how many present ids the compositor has given out
  lsrEvents,  \* the LSRs the output thread has taken and not yet seen to
  mLSRHistory,
  delivered   \* history: the LSRs seen to

consumerVars == <<frames, lsrs, mPresentationSourceByPtr, mHolographicFramesByFrameId,
                  mHolographicFramesByPresentId, mActiveLSR, presentIds>>
lsrVars == <<consumerVars, mCompletedLSRs, lsrEvents, mLSRHistory, delivered>>
vars    == <<csvVars, lsrVars>>

mSimpleMode == "simple" \in args
Without(f, x) == [y \in DOMAIN f \ {x} |-> f[y]]

Init ==
  /\ CsvInit
  /\ frames = <<>> /\ lsrs = <<>> /\ mActiveLSR = NULL /\ presentIds = 0
  /\ mPresentationSourceByPtr = [s \in {} |-> NULL]
  /\ mHolographicFramesByFrameId = [i \in {} |-> NULL]
  /\ mHolographicFramesByPresentId = [i \in {} |-> NULL]
  /\ mCompletedLSRs = <<>> /\ lsrEvents = <<>> /\ mLSRHistory = <<>> /\ delivered = <<>>

-----------------------------------------------------------------------------
(***************************************************************************)
(* HandleSpectrumContinuousEvent: the life of a frame in its application.  *)
(***************************************************************************)
otherThanFrames == <<csvVars, lsrs, mPresentationSourceByPtr, mActiveLSR, mCompletedLSRs,
                     lsrEvents, mLSRHistory, delivered>>

\* HolographicFrameStart.  A frame in flight with the same id, of this or of
\* another process, is given up.
HolographicFrameStart(p, id) ==
  /\ ~mSimpleMode /\ Len(frames) < bound.frames
  /\ LET collides == id \in DOMAIN mHolographicFramesByFrameId
         new == [ProcessId |-> p, FrameId |-> id, PresentId |-> 0, stopped |-> FALSE,
                 Completed |-> FALSE,
                 FinalState |-> IF collides THEN "DuplicateFrameId" ELSE "Unknown"]
         old == IF collides
                THEN [frames EXCEPT ![mHolographicFramesByFrameId[id]] =
                        [@ EXCEPT !.Completed = TRUE, !.FinalState = "DuplicateFrameId"]]
                ELSE frames
     IN  frames' = Append(old, new)
  /\ mHolographicFramesByFrameId' =
       With(mHolographicFramesByFrameId, id, Len(frames) + 1)
  /\ UNCHANGED <<otherThanFrames, mHolographicFramesByPresentId, presentIds>>

\* A faulty HolographicFrameStop that leaves the frame in the first map.
HolographicFrameStop_Stays(f, frame) ==
  /\ frames' = [frames EXCEPT ![f] =
       [frame EXCEPT !.FinalState = IF @ = "Unknown" THEN "Presented" ELSE @]]
  /\ mHolographicFramesByPresentId' =
       IF frame.PresentId \in DOMAIN mHolographicFramesByPresentId
       THEN mHolographicFramesByPresentId
       ELSE With(mHolographicFramesByPresentId, frame.PresentId, f)
  /\ UNCHANGED mHolographicFramesByFrameId

\* HolographicFrameStop: f moves from the map by frame id to that by present
\* id, where one that is there stays.
HolographicFrameStop(f, frame) ==
  /\ frames' = [frames EXCEPT ![f] =
       [frame EXCEPT !.FinalState = IF @ = "Unknown" THEN "Presented" ELSE @]]
  /\ mHolographicFramesByFrameId' = Without(mHolographicFramesByFrameId, frame.FrameId)
  /\ mHolographicFramesByPresentId' =
       IF frame.PresentId \in DOMAIN mHolographicFramesByPresentId
       THEN mHolographicFramesByPresentId
       ELSE With(mHolographicFramesByPresentId, frame.PresentId, f)

\* What both events below do with the frame f once it is updated: it is stopped
\* when both have been seen.
Updated(f, frame) ==
  IF frame.PresentId # 0 /\ frame.stopped THEN HolographicFrameStop(f, frame)
  ELSE /\ frames' = [frames EXCEPT ![f] = frame]
       /\ UNCHANGED <<mHolographicFramesByFrameId, mHolographicFramesByPresentId>>

HolographicFrame_Stop(id) ==
  /\ id \in DOMAIN mHolographicFramesByFrameId
  /\ LET f == mHolographicFramesByFrameId[id]
     IN  Updated(f, [frames[f] EXCEPT !.stopped = TRUE])
  /\ UNCHANGED <<otherThanFrames, presentIds>>

\* GetNewPoseForReprojection.  Present ids are unique (MixedRealityTraceConsumer
\* .hpp), but a frame that is shown again gets another one.
GetNewPose(id) ==
  /\ id \in DOMAIN mHolographicFramesByFrameId /\ presentIds < bound.presentIds
  /\ presentIds' = presentIds + 1
  /\ LET f == mHolographicFramesByFrameId[id]
     IN  Updated(f, [frames[f] EXCEPT !.PresentId = presentIds + 1])
  /\ UNCHANGED otherThanFrames

HandleSpectrumContinuousEvent ==
  \/ \E p \in Processes, id \in FrameIds : HolographicFrameStart(p, id)
  \/ \E id \in FrameIds : HolographicFrame_Stop(id) \/ GetNewPose(id)

-----------------------------------------------------------------------------
(***************************************************************************)
(* HandleDHDEvent: the compositor's sources and reprojections.             *)
(***************************************************************************)
Lookup(s) == IF s \in DOMAIN mPresentationSourceByPtr THEN mPresentationSourceByPtr[s]
             ELSE NULL

otherThanLSR == <<csvVars, mHolographicFramesByFrameId, presentIds, lsrEvents,
                  mLSRHistory, delivered>>

\* AcquireForRendering, ReleaseFromRendering and AcquireForPresentation note a
\* time in the source, and make it if it is not there (FindOrCreatePresentationSource).
Stamp(s) ==
  /\ mPresentationSourceByPtr' = With(mPresentationSourceByPtr, s, Lookup(s))
  /\ UNCHANGED <<otherThanLSR, frames, lsrs, mHolographicFramesByPresentId, mActiveLSR,
                 mCompletedLSRs>>

\* The active LSR gets a copy of the source.
ReleaseFromPresentation(s) ==
  /\ mPresentationSourceByPtr' = With(mPresentationSourceByPtr, s, Lookup(s))
  /\ lsrs' = IF mActiveLSR = NULL THEN lsrs
             ELSE [lsrs EXCEPT ![mActiveLSR] = [@ EXCEPT !.source = s, !.frame = Lookup(s)]]
  /\ UNCHANGED <<otherThanLSR, frames, mHolographicFramesByPresentId, mActiveLSR,
                 mCompletedLSRs>>

Destruction(s) ==
  /\ s \in DOMAIN mPresentationSourceByPtr
  /\ mPresentationSourceByPtr' = Without(mPresentationSourceByPtr, s)
  /\ UNCHANGED <<otherThanLSR, frames, lsrs, mHolographicFramesByPresentId, mActiveLSR,
                 mCompletedLSRs>>

\* A faulty CompleteLSR that leaves out one that missed its vsync.
CompleteLSR_Presented(l, made) ==
  IF l = NULL \/ made[l].FinalState \in {"Unknown", "Missed"}
  THEN lsrs' = made /\ UNCHANGED mCompletedLSRs
  ELSE /\ lsrs' = [made EXCEPT ![l].Completed = TRUE]
       /\ mCompletedLSRs' = Append(mCompletedLSRs, l)

\* CompleteLSR: one whose timing has not been seen is dropped.
CompleteLSR(l, made) ==
  IF l = NULL \/ made[l].FinalState = "Unknown"
  THEN lsrs' = made /\ UNCHANGED mCompletedLSRs
  ELSE IF made[l].Completed
  THEN lsrs' = [made EXCEPT ![l].FinalState = "Error"] /\ UNCHANGED mCompletedLSRs
  ELSE /\ lsrs' = [made EXCEPT ![l].Completed = TRUE]
       /\ mCompletedLSRs' = Append(mCompletedLSRs, l)

\* BeginLsrProcessing: the last LSR is complete, and a new one active.
BeginLsr(s) ==
  /\ Len(lsrs) < bound.lsrs
  /\ mActiveLSR' = Len(lsrs) + 1
  /\ CompleteLSR(mActiveLSR, Append(lsrs, [source |-> s, frame |-> NULL, missed |-> 0,
                                           FinalState |-> "Unknown", Completed |-> FALSE]))
  /\ UNCHANGED <<otherThanLSR, frames, mPresentationSourceByPtr,
                 mHolographicFramesByPresentId>>

\* A faulty one that forgets to complete the frame (CompleteHolographicFrame).
LatchedInput_NotDone(id) ==
  /\ mActiveLSR # NULL /\ ~mSimpleMode
  /\ id \in DOMAIN mHolographicFramesByPresentId
  /\ mPresentationSourceByPtr' = With(mPresentationSourceByPtr, lsrs[mActiveLSR].source,
                                      mHolographicFramesByPresentId[id])
  /\ UNCHANGED <<otherThanLSR, frames, lsrs, mHolographicFramesByPresentId, mActiveLSR,
                 mCompletedLSRs>>

\* The source of the active LSR shows the frame that is latched, which is done
\* with (CompleteHolographicFrame).  That the source was acquired before, which an
\* assertion asks for, is about a time, and times are left out.
LatchedInput(id) ==
  /\ mActiveLSR # NULL /\ ~mSimpleMode
  /\ id \in DOMAIN mHolographicFramesByPresentId
  /\ LET f == mHolographicFramesByPresentId[id]
     IN  /\ mPresentationSourceByPtr' =
              With(mPresentationSourceByPtr, lsrs[mActiveLSR].source, f)
         /\ IF frames[f].Completed
            THEN /\ frames' = [frames EXCEPT ![f].FinalState = "Error"]
                 /\ UNCHANGED mHolographicFramesByPresentId
            ELSE /\ frames' = [frames EXCEPT ![f].Completed = TRUE]
                 /\ mHolographicFramesByPresentId' =
                      Without(mHolographicFramesByPresentId, frames[f].PresentId)
  /\ UNCHANGED <<otherThanLSR, lsrs, mActiveLSR, mCompletedLSRs>>

\* UnaccountedForVsyncs and MissedPresentation.
MissVsync ==
  /\ mActiveLSR # NULL /\ lsrs[mActiveLSR].missed < bound.misses
  /\ lsrs' = [lsrs EXCEPT ![mActiveLSR].missed = @ + 1]
  /\ UNCHANGED <<otherThanLSR, frames, mPresentationSourceByPtr,
                 mHolographicFramesByPresentId, mActiveLSR, mCompletedLSRs>>

\* OnTimePresentationTiming and LatePresentationTiming.
PresentationTiming(onSchedule) ==
  /\ mActiveLSR # NULL
  /\ lsrs' = [lsrs EXCEPT ![mActiveLSR].FinalState =
                IF onSchedule THEN "Presented"
                ELSE IF lsrs[mActiveLSR].missed > 1 THEN "MissedMultiple" ELSE "Missed"]
  /\ UNCHANGED <<otherThanLSR, frames, mPresentationSourceByPtr,
                 mHolographicFramesByPresentId, mActiveLSR, mCompletedLSRs>>

HandleDHDEvent ==
  \/ \E s \in Sources :
       Stamp(s) \/ ReleaseFromPresentation(s) \/ Destruction(s) \/ BeginLsr(s)
  \/ \E id \in 1..presentIds : LatchedInput(id)
  \/ MissVsync
  \/ \E onSchedule \in BOOLEAN : PresentationTiming(onSchedule)

-----------------------------------------------------------------------------
(***************************************************************************)
(* The output thread.                                                      *)
(***************************************************************************)
DequeueLSRs ==
  /\ running /\ lsrEvents = <<>> /\ mCompletedLSRs # <<>>
  /\ lsrEvents' = mCompletedLSRs /\ mCompletedLSRs' = <<>>
  /\ UNCHANGED <<csvVars, consumerVars, mLSRHistory, delivered>>

GetAppProcessId(l) == IF lsrs[l].frame = NULL THEN 0 ELSE frames[lsrs[l].frame].ProcessId

\* UpdateLateStageReprojectionInfo: an LSR leaves the history after three
\* seconds, the newest never; they are never too many here.
PruneDeque(history) == {SubSeq(history, n, Len(history)) : n \in 1..Len(history)}

\* UpdateLsrCsv: whether l gets a row in file; it is measured from the LSR before.
UpdateLsrCsv(l, file) ==
  /\ file # NULL /\ mLSRHistory # <<>>
  /\ "exclude_dropped" \in args => lsrs[l].FinalState = "Presented"

\* AddPresents for one LSR, which needs to know its application unless -simple
\* is given.
AddLSR ==
  /\ running /\ lsrEvents # <<>>
  /\ lsrEvents' = Tail(lsrEvents) /\ delivered' = Append(delivered, Head(lsrEvents))
  /\ LET l == Head(lsrEvents)
         p == GetAppProcessId(l)
         counts == mSimpleMode \/ p # 0
         wanted == counts /\ recording
     IN  /\ IF counts THEN mLSRHistory' \in PruneDeque(Append(mLSRHistory, l))
                      ELSE UNCHANGED mLSRHistory
         /\ \E info \in ProcessInfo(p) : \E can \in Openable(info.name) :
              LET got == IF wanted THEN GetOutputCsv(info.csv, info.name, can) ELSE Same(info.csv)
                  row == wanted /\ UpdateLsrCsv(l, got.csv.mWmrFile)
              IN  /\ Keep(p, info, got, info.chain)
                  /\ disk' = IF row THEN Wrote(got.disk, got.files, got.csv.mWmrFile, p)
                             ELSE got.disk
                  /\ belongs' = IF row THEN Recorded(Belonging(info.name, "wmr"), p)
                                ELSE belongs
  /\ UNCHANGED <<setup, gRecordingCount, recording, running, recordings, exited, bound,
                 consumerVars, mCompletedLSRs>>

Next ==
  \/ HandleSpectrumContinuousEvent
  \/ HandleDHDEvent
  \/ DequeueLSRs
  \/ AddLSR
  \/ CsvNext /\ UNCHANGED lsrVars

Spec == Init /\ [][Next]_vars

-----------------------------------------------------------------------------
\* The LSRs the output thread has, had or can take, in the order they came.
Published == delivered \o lsrEvents \o mCompletedLSRs

\* CompleteLSR hands an LSR to the output thread while events go on coming:
\* neither it nor the frame it shows is changed from then on, as the other
\* thread reads both without a lock.
QueuedIsFinal ==
  [][\A n \in DOMAIN Published :
       LET l == Published[n]
       IN  /\ lsrs'[l] = lsrs[l]
           /\ lsrs[l].frame # NULL => frames'[lsrs[l].frame] = frames[lsrs[l].frame]]_vars

\* OutputThread.cpp:371-374, the assertions on what is handed over: an LSR is
\* complete, and a frame it shows has been presented and latched.
HandedOverIsComplete ==
  \A n \in DOMAIN Published :
    LET l == Published[n]
        f == lsrs[l].frame
    IN  /\ lsrs[l].Completed /\ lsrs[l].FinalState # "Unknown"
        /\ f # NULL => frames[f].Completed /\ frames[f].stopped /\ frames[f].PresentId # 0

\* LateStageReprojectionData.cpp:65 asserts that LSRs come in order: every LSR
\* whose timing was seen comes out once, in the order they began, whatever events
\* were lost between.
EveryTimedLSRComesOut ==
  /\ \A i, j \in DOMAIN Published : i < j => Published[i] < Published[j]
  /\ {Published[n] : n \in DOMAIN Published} =
       {l \in 1..Len(lsrs) : l # mActiveLSR /\ lsrs[l].FinalState # "Unknown"}
=============================================================================
