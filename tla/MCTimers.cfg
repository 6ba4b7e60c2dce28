CONSTANTS
  EnableValues <- AllEnables
  ClearValues <- AllClears
  TimerDValues = {0, 1, 2}
  Frame = 4
  ByteTime = 2
  PeriodC = 3
  PeriodD = 2
  InstrClocks = {1}
  AcceptClocks = {1}
  Masks = {7}
  FailingSets <- None
  Responses = {"none"}
  ResetBytes = {FALSE}
  Capacity = 0
  Late = 2
  MaxResets = 1
SPECIFICATION Spec
INVARIANTS TimerDIsQuiet BootStagesAgree
PROPERTIES TimersPendOnlyWhileOn
