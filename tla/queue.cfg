CONSTANTS
  Roots = {r1, r2, r3}
  MaxQueue = 2
  MaxRequests = 5
  MaxFailures = 2
SPECIFICATION Spec
INVARIANT TypeOK
INVARIANT NoDuplicateWait
INVARIANT NoResurrection
INVARIANT Preserved
PROPERTY IsDurable
