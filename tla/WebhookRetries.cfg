SPECIFICATION FairSpec
CONSTANTS
  EventCount = 3
  AnchorEvents = {}
  Subs = {s1, s2}
  Wants <- MCWants
  Steady = {s1}
  Ticks = {t1}
  BatchSize = 2
  MaxAttempts = 2
  MaxPerStamp = 1
  MaxAborts = 1
  LateCommits = FALSE
  None = None
CHECK_DEADLOCK FALSE
INVARIANTS SendsAreBounded
PROPERTIES DeliveredIsFinal EveryDeliverySettles EveryEventFansOut
