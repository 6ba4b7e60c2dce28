CONSTANTS
  RamSize = 1048576
  Rom <- MCRom
  Programs <- MCPrograms
  FrameBytes = 32000
  FrameOffsets <- MCFrameOffsets
SPECIFICATION Spec
INVARIANTS TypeOK MemoryRemembers SizingFindsTheChips DmaLoadsInOrder HostSeesTheScreen
PROPERTIES SystemRamIsSafe
