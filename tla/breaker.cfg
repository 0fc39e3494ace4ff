SPECIFICATION FairSpec
CONSTANTS
  Calls = {c1, c2}
  Admin = Admin
  None = None
  TrialLimit = 5
  MaxErrors = 3
  MaxRestarts = 1
INVARIANTS
  TypeOK
  ErrorsNoticed
  RowAgrees
PROPERTIES
  WritesDrain
  Recovers
CHECK_DEADLOCK FALSE
