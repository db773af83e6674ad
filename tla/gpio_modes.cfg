SPECIFICATION Spec
CONSTANTS
  HALF = 1
  Modes <- WithoutOpenDrainPu
  Afs <- UsbAndAnother
  Speeds = {"HIGH"}
INVARIANTS
  PinsAsAsked
  NoStrayDrive
