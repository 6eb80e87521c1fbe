SPECIFICATION Spec
CONSTANTS
  Ids = {c1, c2, c3}
  lamp = lamp
  plug = plug
  Devices = {lamp}
  WithTopic = {lamp}
  WithAddress = {lamp}
  NoDevice = NoDevice
  CancelCap = 1
SYMMETRY IdSymmetry
CONSTRAINT DiscoveredFirst
INVARIANTS
  TypeOK
  SingleChannel
  SilenceKept
PROPERTY
  DeliversOnce
