\* Two callers whose toggles overtake each other.
SPECIFICATION Spec
CONSTANTS
  Callers = {window, gpu}
  Games = {g1}
  Subscribers = {}
  Workers = {w1, w2}
  NoGame = NoGame
  NoCaller = NoCaller
  NoWorker = NoWorker
  Unheard = Unheard
  MaxTokens = 1
INVARIANT ActiveMeansRunning
