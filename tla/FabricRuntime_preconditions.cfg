SPECIFICATION Spec
CONSTANTS
  PrimaryOwners = {"op"}
  MaxOrdinary = 12
  Reserve = 12
  e1 = e1
  e2 = e2
  Callers <- MCCallers
  Executors <- MCExecutors
  Cancellers = {"c1"}
  Stops = {}
  Preconditioned = {"c1"}
  MaxConcurrent = 8
  Delegates = TRUE
  Impatient = FALSE
  MaxRuns = 2
  MaxHandoffs = 4
  MaxFaults = 1
SYMMETRY Interchangeable
INVARIANTS NamedAuthorityRespected SlotsBalanced ActiveRunIsCancellable
