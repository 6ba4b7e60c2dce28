CONSTANTS
  HostBytes <- MCHostBytes
  SetClockPacket <- MCPacket
  ResponseLength = 2
  ByteTicks = 1
  Motions <- NoMotions
  KeyEvents <- MCKeys
  MinDelta <- MCMinDelta
  MaxDelta = 1
  AccumBound = 2
  Capacity = 1
  MaxResets = 0
  MaxPolls = 2
SPECIFICATION Spec
INVARIANTS TypeOK ReadsGoToTheSender ResponsesArriveWhole PollsDoNotOverlap
PROPERTIES OneResponseAtATime RequestsAreAnswered
CHECK_DEADLOCK FALSE
