SPECIFICATION Spec
CONSTANTS
  Turns = {"a", "c"}
  Session <- MCSession
  MaxActiveTurns = 2
  MaxProcessBytes = 5
  MaxTurnBytes = 4
  Classes = {"tool_arguments", "output"}
  ClassBytes <- MCClassBytes
  AccClass = "tool_arguments"
  Sizes = {2}
  Phases = {"admission", "upstream"}
  MaxHeld = 2
CHECK_DEADLOCK FALSE
INVARIANTS BooksBalance ChargedForHeld WithinLimits
