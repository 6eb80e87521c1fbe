SPECIFICATION FairSpec
CONSTANTS
  Devices = {d1, d2}
  Lights = {d1}
  Lists = {l1, l2}
  Saved = {d2}
  MaxStatus = 1
INVARIANTS
  TypeOK
  AnnouncedOnce
  StatusFollows
  EffectsReach
PROPERTY
  DiscoveriesEnd
