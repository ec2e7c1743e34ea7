\* Two threads update the policy concurrently; one subscriber; fair mutexes, and no
\* timeout ever needed.
SPECIFICATION FairMutexSpec
CONSTANTS
  Callers = {window, gpu}
  Games = {g1}
  Subscribers = {s1}
  Workers = {w1, w2}
  NoGame = NoGame
  NoCaller = NoCaller
  NoWorker = NoWorker
  Unheard = Unheard
  MaxTokens = 1
INVARIANTS
  AtMostOneWorker KeepGoingMeansRunning StopIsNeverLost
  ObservedIsConsistent NoCallbackAfterUnsubscribe
PROPERTIES SwitchesOnce CallsReturn
