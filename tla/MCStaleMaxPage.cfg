\* h1 pushes while h2 pulls: the snapshot of max_page in the pull.
CONSTANTS
  LastPage = 1
  Content = {a, b}
  h1 = h1
  h2 = h2
  s1 = s1
  s2 = s2
  Host = {h1, h2}
  Session = {s1, s2}
  Owner <- EachOwner
  Command <- PushPull
  Tokens <- FitPushPull
  Writers = {}
  MaxLocalWrites = 0
  Faults = {}
SPECIFICATION Spec
INVARIANTS
  ServerMaxPageStable
