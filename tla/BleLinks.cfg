SPECIFICATION Spec
CONSTANTS
  Ids = {c1, c2}
  lamp = lamp
  plug = plug
  Devices <- MCDevices
  WithTopic <- MCWithTopic
  WithAddress <- MCWithAddress
  NoDevice = NoDevice
  CancelCap = 1
CONSTRAINT BluetoothOnly
INVARIANTS
  RadioHeldByJob
