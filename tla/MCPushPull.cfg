\* h1 pushes while h2 pulls into a file its application writes, with their
\* own tokens or with each other's.
CONSTANTS
  LastPage = 2
  Content = {a, b}
  h1 = h1
  h2 = h2
  s1 = s1
  s2 = s2
  Host = {h1, h2}
  Session = {s1, s2}
  Owner <- EachOwner
  Command <- PushPull
  Tokens <- FitOrSwapped
  Writers = {h2}
  MaxLocalWrites = 1
  Faults = {}
SPECIFICATION HSpec
INVARIANTS
  CountsAgree
  NoHoles
PROPERTIES
  PullIsExact
  ImplementsSyncedDatabase
SYMMETRY Symmetry
