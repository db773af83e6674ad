SPECIFICATION FairSpec
CONSTANTS
  WRAP = 8
  INTERVAL = 3
  FIFO = 2
  LINE = 2
  TICK = 399999
INVARIANTS
  FirmwareTypeOK
  JumpIsClean
  FlagInTransit
  ClockUntouched
  ClockWithinLimits
  PeripheralClocks
  BeatsOnTime
PROPERTIES
  NoResetLoop
  Pll1Undisturbed
  BootEnds
  LockupIsRecoverable
