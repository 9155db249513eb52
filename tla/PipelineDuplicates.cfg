SPECIFICATION Spec
CONSTANTS
  Intents = {i1}
  Runs = {r1, r2}
  Live = {i1}
  NeedsApproval = {}
  Strategies = {s1}
  StrategyOf <- MCStrategyOf
  MaxHops = 1
  MaxAttempts = 2
  MaxStalled = 1
  MaxEvictions = 0
  MaxLosses = 2
  Eager = FALSE
  Faults = FALSE
  RequestFaults = FALSE
  Crashes = TRUE
  Zombies = FALSE
  Operators = {}
  None = None
CHECK_DEADLOCK FALSE
INVARIANTS NoDuplicateSubmission
