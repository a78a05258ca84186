\* A push with a page the client never claimed.
CONSTANTS
  LastPage = 1
  Content = {a, b}
  MaxSent = 3
  MaxTransfers = 2
  MaxBatch = 1
SPECIFICATION Spec
INVARIANTS
  PushReconcilesUnclaimed
CHECK_DEADLOCK FALSE
