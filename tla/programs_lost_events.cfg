\* ETW loses events; the last target's exit ends PresentMon.
CHECK_DEADLOCK FALSE
SPECIFICATION Spec
CONSTANTS
  QpcFrequency = 1
  Setups <- LossySetups
INVARIANT LossIsReported
