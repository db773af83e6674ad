SPECIFICATION Spec
CONSTANTS
  WORD = 2
  SECTOR = 4
  NSECT = 2
  XFER = 3
  Payload = {p}
  Erased = Erased
  Pad = Pad
  Junk = Junk
  Faults = FALSE
INVARIANTS
  QuietWhenIdle
PROPERTY
  ImplementsAsyncFlash
