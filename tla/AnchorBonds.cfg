SPECIFICATION FairSpec
CONSTANTS
  Reconcilers = {r1}
  Onboarders = {o1}
  Callers = {c1, c2}
  Strict = TRUE
  Vouches = FALSE
  Sources = {}
  LockRefs = {"set"}
  MaxCalls = 2
  MaxAborts = 1
  None = None
INVARIANTS TypeOK VerifiedIsBacked OnboardingSettles RoutedAnchorsPassPolicy
PROPERTIES ReconciliationSettles
