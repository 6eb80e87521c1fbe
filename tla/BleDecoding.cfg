SPECIFICATION FairSpec
CONSTANTS
  Undefined = Undefined
  Throws = Throws
  Calibration = Calibration
  h5106 = h5106
  h5074 = h5074
  h6127 = h6127
  Peripherals = {h5106, h5074, h6127}
  Owned = {h5106, h5074}
  Readings <- ReadingsOf
  Advertised <- AdvertisedBy
  Measured <- MeasuredBy
  Addressed = {h5106}
  Darwin = TRUE
  Models <- MCModels
  Decoded <- DecodedBy
  Assets = {"H5106"}
  MaxFailures = 1
INVARIANTS
  TypeOK
  StatusIsMeasured
  Reachable
PROPERTIES
  NeverBack
  LastReadingShown
CHECK_DEADLOCK FALSE
