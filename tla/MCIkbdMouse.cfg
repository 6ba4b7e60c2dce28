CONSTANTS
  HostBytes <- MouseBytes
  SetClockPacket <- MCPacket
  ResponseLength = 2
  ByteTicks = 1
  Motions <- MCMotions
  KeyEvents <- NoKeys
  MinDelta <- MCMinDelta
  MaxDelta = 1
  AccumBound = 1
  Capacity = 3
  MaxResets = 1
  MaxPolls = 2
SPECIFICATION Spec
INVARIANTS ReadsGoToTheSender
PROPERTIES UplinkNeverStalls
CHECK_DEADLOCK FALSE
