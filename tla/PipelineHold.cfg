SPECIFICATION Spec
CONSTANTS
  Intents = {i1}
  Runs = {r1, r2}
  Live = {i1}
  NeedsApproval = {i1}
  Strategies = {s1}
  StrategyOf <- MCStrategyOf
  MaxHops = 2
  MaxAttempts = 1
  MaxStalled = 0
  MaxEvictions = 0
  MaxLosses = 1
  Eager = TRUE
  Faults = FALSE
  RequestFaults = TRUE
  Crashes = FALSE
  Zombies = TRUE
  Operators = {"hold", "approve"}
  None = None
CHECK_DEADLOCK FALSE
SYMMETRY Symmetry
INVARIANTS ExecutedIsFullyRecorded
PROPERTIES GateSpec
