SPECIFICATION Spec
CONSTANTS
  header = header
  dx = dx
  dy = dy
  key1 = key1
  key2 = key2
  zero = zero
  Bytes <- MCBytes
  NoByte <- zero
  Packets <- MCPackets
  Capacity <- MCCapacity
INVARIANT IInv
PROPERTY ImplementsQueue
