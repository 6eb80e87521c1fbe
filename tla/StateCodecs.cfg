SPECIFICATION Spec
CONSTANTS
  Undefined = Undefined
  Nothing = Nothing
  Products <- AllProducts
  Listed <- MCListed
  Wishes <- MCWishes
  Reports <- MCReports
  Effects <- MCEffects
  Now = 79000
  MaxChanges = 1
  MaxLost = 0
  MaxInbox = 1
INVARIANTS
  FramesAreWhole
  EchoIsExpected
  ReadsBack
  ShownIsMeant
  Isolated
  Catalogued
CHECK_DEADLOCK FALSE
