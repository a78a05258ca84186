\* Three commands at once or one after the other, on two servers.
CONSTANTS
  Process = {p1, p2, p3}
  Server = {default_server, other_server}
  DEFAULT_SERVER = default_server
  None = None
  Empty = Empty
  Torn = Torn
SPECIFICATION Spec
INVARIANTS
  IInv
  TokenGoesHome
  SavedIsKept
SYMMETRY Symmetry
