\* Anything may fail, a token may be for the other command, and the pushed
\* file is written meanwhile: every session that starts still ends.
CONSTANTS
  LastPage = 1
  Content = {a, b}
  h1 = h1
  h2 = h2
  s1 = s1
  s2 = s2
  Host = {h1, h2}
  Session = {s1, s2}
  Owner <- EachOwner
  Command <- PushPull
  Tokens <- OneUnfit
  Writers = {h1}
  MaxLocalWrites = 1
  Faults = {"client", "storage", "socket", "restart"}
SPECIFICATION FairSpec
INVARIANTS
  TypeOK
  SurprisesAreErrors
PROPERTIES
  SessionsEnd
