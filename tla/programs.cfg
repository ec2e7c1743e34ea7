\* Every way to start, switch and end; the programs end when they return.
CHECK_DEADLOCK FALSE
SPECIFICATION FairSpec
CONSTANTS
  QpcFrequency = 1
  Setups <- AllSetups
INVARIANTS TypeOK NothingIsLeftOpen ThreadsHaveWhatTheyUse EveryPressToggles RecordingIsAgreed FpsIsExact
PROPERTIES TimedRecordingEnds AskedProgramEnds
