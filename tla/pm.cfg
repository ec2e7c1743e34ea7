\* Every kind of presentation, each with the events that concern it.
\* The trace may end at any point.
CHECK_DEADLOCK FALSE
SPECIFICATION Spec
CONSTANTS
  app = app dwm = dwm t1 = t1 t2 = t2 td = td
  s1 = s1 s2 = s2 k1 = k1 k2 = k2
  Threads = {t1, t2, td}
  Processes = {app, dwm}
  ProcessOf <- OwnerOf
  TrackedProcesses = {app}
  SwapChains = {a1}
  SubmitSeqs = {s1, s2}
  Contexts = {x1}
  Hwnds = {w1}
  Tokens = {k1, k2}
  None = None
  RingSize = 2
  Traces <- AllTraces
SYMMETRY Symmetries
INVARIANTS
  TypeOK EveryPresentAccountedFor DeliveredInOrder
  AssertsHold DisplayedHasScreenTime BlitIsSettled
PROPERTY PublishedIsFinal
