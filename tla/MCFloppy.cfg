CONSTANTS
  LastTarget <- MCLastTarget
  Overlap = FALSE
SPECIFICATION Spec
INVARIANTS TypeOK FdcIsConsistent CheckKeepsItsDrive PassesCanGoOn ScanCoversTheBus
PROPERTIES PassRestoresThePort BootStageGoesForward
