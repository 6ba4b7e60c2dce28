CONSTANTS
  EnableValues <- AciaEnables
  ClearValues <- AciaClears
  TimerDValues = {0}
  Frame = 3
  ByteTime = 2
  PeriodC = 2
  PeriodD = 2
  InstrClocks = {1}
  AcceptClocks = {1}
  Masks = {3, 7}
  FailingSets <- OneOrNone
  Responses = {"none", "last"}
  ResetBytes = {FALSE}
  Capacity = 2
  Late = 2
  MaxResets = 0
SPECIFICATION Spec
INVARIANTS TypeOK OverdueOnlyBehindRdrf
PROPERTIES ServiceNestsUpwards StopWakes
