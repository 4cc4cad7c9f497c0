SPECIFICATION Spec
CONSTANTS
  PrimaryOwners = {"op"}
  MaxOrdinary = 12
  Reserve = 12
  Callers = {"e1", "c1", "stop"}
  Executors = {"e1"}
  Cancellers = {"c1"}
  Stops = {"stop"}
  Preconditioned = {}
  MaxConcurrent = 8
  Delegates = TRUE
  Impatient = TRUE
  MaxRuns = 2
  MaxHandoffs = 4
  MaxFaults = 2
INVARIANTS CancelSuccessIsDurable ConvergedIsDurable
PROPERTIES FirstIntentWins
