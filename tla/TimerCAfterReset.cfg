CONSTANTS
  EnableValues <- AciaEnables
  ClearValues <- AciaClears
  TimerDValues = {0}
  Frame = 4
  ByteTime = 2
  PeriodC = 3
  PeriodD = 2
  InstrClocks = {1}
  AcceptClocks = {1}
  Masks = {3, 7}
  FailingSets <- None
  Responses = {"none"}
  ResetBytes = {FALSE}
  Capacity = 0
  Late = 2
  MaxResets = 1
SPECIFICATION Spec
PROPERTIES ResetStopsTimerC
