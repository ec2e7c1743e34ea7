SPECIFICATION HistorySpec
CONSTANTS
  MaxCount = 3
  Window = 2
  Full = FALSE
  ExcludeDropped = TRUE
  MaxPresents = 8
  MaxTime = 5
INVARIANT
  DisplayChangeIsFromDisplayed
