\* Recording, exits, ETL files and presents out of order.
\* The program ends when main has joined its threads.
CHECK_DEADLOCK FALSE
SPECIFICATION Spec
CONSTANTS
  app = app other = other
  Pids = {app, other}
  main = main
  ctrl = ctrl
  NoEntry = NoEntry
  Setups <- SafetySetups
INVARIANTS
  TypeOK RecordedAsOfItsTime NothingLeftBehind GoneStaysGone TargetsAreCounted
