\* The output thread ends.
CHECK_DEADLOCK FALSE
SPECIFICATION RecordingsSpec
CONSTANTS
  Processes = {1, 2}
  Sources = {s1}
  FrameIds = {1}
  NoName = NoName
  ErrorName = ErrorName
  Setups <- AllSetups
  MaxCount = 3
  Window = 2
  Full = TRUE
  ExcludeDropped = FALSE
  MaxPresents = 8
  MaxTime = 5
INVARIANTS
  OpenIsHeld RowsSurvive HandedOverIsComplete EveryTimedLSRComesOut
  HistoryIsContiguous LastDisplayedIsRetained RowsAreGrounded
PROPERTIES QueuedIsFinal PruneIsExact
