SPECIFICATION Spec
CONSTANTS
  Users = {u1, u2}
  Jobs = {j1}
  None = None
  MaxTokens = 1
  MaxRefreshes = 1
PROPERTY
  ConnectsAsUser
