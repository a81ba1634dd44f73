SPECIFICATION RetrySpec
CONSTANTS
  Workloads = {"w1", "w2"}
  Candidates <- MCCandidates
  Price <- MCPrice
  Limit = 3
  FailFast = {"w2"}
  Recoverable = {"w1"}
  Urgent = {"w2"}
  Usage = {1, 3}
  Troubles <- MCTroubles
CHECK_DEADLOCK FALSE
INVARIANTS
    RunningHoldsClaim
    WithinBudget
PROPERTIES
    ChargedOnce
    IntentsCarriedOut
