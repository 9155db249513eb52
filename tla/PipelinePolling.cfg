SPECIFICATION Spec
CONSTANTS
  Intents = {i1}
  Runs = {r1, r2}
  Live = {i1}
  NeedsApproval = {i1}
  Strategies = {s1}
  StrategyOf <- MCStrategyOf
  MaxHops = 2
  MaxAttempts = 2
  MaxStalled = 1
  MaxEvictions = 0
  MaxLosses = 3
  Eager = FALSE
  Faults = FALSE
  RequestFaults = FALSE
  Crashes = TRUE
  Zombies = FALSE
  Operators = {"approve", "override", "pause"}
  None = None
CHECK_DEADLOCK FALSE
SYMMETRY Symmetry
INVARIANTS TypeOK ExecutedPlanWasAllowed
PROPERTIES StatusFollowsLifecycle
