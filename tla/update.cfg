SPECIFICATION UpdateSpec
VIEW Live
CONSTANTS
  WORD = 2
  SECTOR = 4
  NSECT = 2
  XFER = 4
  Payload = {p}
  Erased = Erased
  Pad = Pad
  Junk = Junk
  Unknown = Unknown
  Faults = FALSE
  Code <- AllButPads
  Lengths = {3}
  Events = {"lostReply", "powerCut"}
INVARIANTS
  FlashOnlyInLoop
  AcknowledgedUpdateBoots
  TypeOK
  ReadBack
  PollFindsItsOp
  QuietWhenIdle
PROPERTIES
  ImplementsBootFlow
  WriteStartsAtFirstPoll
  PollsAdvance
  UsesDriverAsAgreed
