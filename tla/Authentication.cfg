SPECIFICATION FairSpec
CONSTANTS
  Users = {u1}
  Jobs = {j1, j2}
  None = None
  MaxTokens = 2
  MaxRefreshes = 1
INVARIANTS
  TypeOK
  RenewalWatched
  FileResumes
PROPERTIES
  RenewalAsked
