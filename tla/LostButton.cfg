CONSTANTS
  HostBytes <- MouseBytes
  SetClockPacket <- MCPacket
  ResponseLength = 2
  ByteTicks = 1
  Motions <- MCMotions
  KeyEvents <- MCKeys
  MinDelta <- MCMinDelta
  MaxDelta = 1
  AccumBound = 2
  Capacity = 4
  MaxResets = 0
  MaxPolls = 2
SPECIFICATION Spec
PROPERTIES ButtonChangesAreSent
CHECK_DEADLOCK FALSE
