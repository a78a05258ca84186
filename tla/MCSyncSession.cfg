\* One session against any client, any failure, and other sessions' writes.
CONSTANTS
  LastPage = 2
  Content = {a, b}
  MaxSent = 4
  MaxTransfers = 3
  MaxBatch = 2
SPECIFICATION Spec
INVARIANTS
  IInv
  CompleteIsLast
  WaitsForPages
  PendingWasRequested
  CompleteMeansSettled
PROPERTIES
  PullOffersEveryPage
CHECK_DEADLOCK FALSE
