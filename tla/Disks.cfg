SPECIFICATION Spec
CONSTANTS
  MaxDisks = 3
  Parts = {0, 1}
  Present = {0}
  MaxRegions = 2
  NrIrqs = 3
  Lost = lost
  ErrId = err
  KernelMayFail = TRUE
CHECK_DEADLOCK FALSE
INVARIANTS MountsAgree NoRegionLeak NoSharedDeviceNumber
