SPECIFICATION Spec
CONSTANTS
  Intents = {i1}
  Runs = {r1, r2}
  Live = {i1}
  NeedsApproval = {}
  Strategies = {s1}
  StrategyOf <- MCStrategyOf
  MaxHops = 1
  MaxAttempts = 2
  MaxStalled = 0
  MaxEvictions = 1
  MaxLosses = 2
  Eager = TRUE
  Faults = TRUE
  RequestFaults = FALSE
  Crashes = FALSE
  Zombies = FALSE
  Operators = {"override", "kill", "pause"}
  None = None
CHECK_DEADLOCK FALSE
SYMMETRY Symmetry
INVARIANTS NoSubmitOverOpenExecution
