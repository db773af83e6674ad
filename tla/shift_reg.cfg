SPECIFICATION Spec
CONSTANTS
  BITS = 3
  NBYTES = 2
  Pins <- PinmapPins
INVARIANTS
  OutputsMatch
  ReadMatches
PROPERTY
  OnlyTheRequestedPin
