SPECIFICATION LiveSpec
CONSTANTS
  Turns = {"a", "b", "c", "d"}
  Session <- MCSession
  MaxActiveTurns = 2
  MaxProcessBytes = 5
  MaxTurnBytes = 4
  Classes = {"tool_arguments"}
  ClassBytes <- MCClassBytes
  AccClass = "tool_arguments"
  Sizes = {3}
  Phases = {}
  MaxHeld = 0
CHECK_DEADLOCK FALSE
INVARIANTS NoLostWakeup TurnsExclusive
PROPERTIES WaitersServed
