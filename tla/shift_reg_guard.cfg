SPECIFICATION Spec
CONSTANTS
  BITS = 3
  NBYTES = 2
  Pins <- GuardedPins
PROPERTY
  OnlyTheRequestedPin
