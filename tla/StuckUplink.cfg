CONSTANTS
  HostBytes <- ClockBytes
  SetClockPacket <- MCPacket
  ResponseLength = 2
  ByteTicks = 1
  Motions <- NoMotions
  KeyEvents <- MCKeys
  MinDelta <- MCMinDelta
  MaxDelta = 1
  AccumBound = 2
  Capacity = 1
  MaxResets = 0
  MaxPolls = 0
SPECIFICATION Spec
PROPERTIES UplinkNeverStalls
CHECK_DEADLOCK FALSE
