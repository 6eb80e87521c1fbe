SPECIFICATION FairConnectionSpec
CONSTANTS
  Jobs = {1, 2, 3, 4}
  Configs = {a1, a2}
  None = None
CONSTRAINT InOrder
INVARIANTS
  ConnectionTypeOK
  ConnectedMeansEstablished
  TopicHeard
  SwitchFollowed
PROPERTY
  JobsEnd
