SPECIFICATION Spec
CONSTANTS
  HALF = 1
  Modes <- AllModes
  Afs <- UsbAndAnother
  Speeds = {"HIGH"}
INVARIANT
  PinsAsAsked
