\* One game, whose id may be gone when the detector next looks.
\* The program ends.
CHECK_DEADLOCK FALSE
SPECIFICATION FairSpec
CONSTANTS
  Games = {g1}
  OnIgfx = {g1}
  window = window
  gpu = gpu
  detector = detector
  powerMode = powerMode
  NoGame = NoGame
  NoCaller = NoCaller
PROPERTY ExitIsNoticed
