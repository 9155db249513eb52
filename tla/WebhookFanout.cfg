SPECIFICATION Spec
CONSTANTS
  EventCount = 3
  AnchorEvents = {}
  Subs = {s1}
  Wants <- MCWants
  Steady = {s1}
  Ticks = {t1, t2}
  BatchSize = 2
  MaxAttempts = 1
  MaxPerStamp = 2
  MaxAborts = 1
  LateCommits = FALSE
  None = None
CHECK_DEADLOCK FALSE
SYMMETRY Symmetry
INVARIANTS TypeOK NothingSkipped
