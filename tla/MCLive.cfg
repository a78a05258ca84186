\* Nothing fails: every session that starts succeeds.
CONSTANTS
  LastPage = 2
  Content = {a, b}
  h1 = h1
  h2 = h2
  s1 = s1
  s2 = s2
  Host = {h1, h2}
  Session = {s1, s2}
  Owner <- EachOwner
  Command <- PushPull
  Tokens <- FitPushPull
  Writers = {}
  MaxLocalWrites = 0
  Faults = {}
SPECIFICATION FairSpec
INVARIANTS
  BatchMatchMeansEqual
PROPERTIES
  SessionsSucceed
