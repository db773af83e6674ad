SPECIFICATION DeviceSpec
CONSTANTS
  WORD = 2
  SECTOR = 4
  NSECT = 2
  XFER = 4
  Payload = {p}
  Erased = Erased
  Pad = Pad
  Junk = Junk
  Faults = TRUE
  Lengths = {3, 4}
  Events = {"powerCut", "earlyMount", "classReset"}
VIEW Control
INVARIANT
  OpMatchesDriver
PROPERTIES
  LaunchOnlyWhenReady
  JobWindsDown
