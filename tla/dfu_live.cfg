SPECIFICATION FairSpec
CONSTANTS
  WORD = 2
  SECTOR = 4
  NSECT = 1
  XFER = 4
  Payload = {p}
  Erased = Erased
  Pad = Pad
  Junk = Junk
  Unknown = Unknown
  Faults = TRUE
  Lengths = {3, 4}
  Events = {"lostReply", "powerCut"}
PROPERTIES
  DownloadAnswered
  DriverDrains
