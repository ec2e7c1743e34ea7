\* -terminate_on_proc_exit with -process_id.
\* The program ends when main has joined its threads.
CHECK_DEADLOCK FALSE
SPECIFICATION FairSpec
CONSTANTS
  app = app other = other
  Pids = {app, other}
  main = main
  ctrl = ctrl
  NoEntry = NoEntry
  Setups <- FilteredSetups
PROPERTY QuitsWhenTargetsGone
