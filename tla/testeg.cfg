\* Two games, one of them on the integrated GPU.
\* The program ends.
CHECK_DEADLOCK FALSE
SPECIFICATION BoundedSpec
CONSTANTS
  Games = {g1, g2}
  OnIgfx = {g1}
  window = window
  gpu = gpu
  detector = detector
  powerMode = powerMode
  NoGame = NoGame
  NoCaller = NoCaller
INVARIANT PolicyFollowsDetector
PROPERTIES OpenableExitIsNoticed GameIsRecognised ShutdownCompletes
