SPECIFICATION FairSpec
CONSTANTS
  Undefined = Undefined
  Nothing = Nothing
  Products <- WithModes
  Listed <- MCListed
  Wishes <- FewWishes
  Reports <- FewReports
  Effects <- MCEffects
  Now = 79000
  MaxChanges = 2
  MaxLost = 1
  MaxInbox = 2
INVARIANTS
  TypeOK
PROPERTIES
  Informed
  FollowersAgree
CHECK_DEADLOCK FALSE
