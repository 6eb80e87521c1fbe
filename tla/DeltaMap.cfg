SPECIFICATION Spec
CONSTANTS
  Keys = {k1, k2}
  v1 = v1
  v2 = v2
  Values = {v1, v2}
  Modifies <- MCModifies
  Nothing = Nothing
SYMMETRY KeySymmetry
CONSTRAINT NothingLost
INVARIANTS
  TypeOK
  CopyFollows
  DeltaIsDifference
