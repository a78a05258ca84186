\* h1 pushes, and pushes again whatever became of the first try.
CONSTANTS
  LastPage = 2
  Content = {a, b}
  h1 = h1
  h2 = h2
  s1 = s1
  s2 = s2
  Host = {h1}
  Session = {s1, s2}
  Owner <- RetryOwner
  Command <- PushPush
  Tokens <- FitPushPush
  Writers = {h1}
  MaxLocalWrites = 1
  Faults = {"client", "storage", "restart"}
SPECIFICATION HSpec
INVARIANTS
  RequestInOnePlace
  XIInv
PROPERTIES
  PushIsExact
  ImplementsSyncedDatabase
SYMMETRY Symmetry
