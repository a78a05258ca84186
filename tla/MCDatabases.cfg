\* Two requests at a time on the databases of two organizations, with a default
\* lifetime above the cap, which the code does not rule out.
CONSTANTS
  None = None
  Other = Other
  Call = {c1, c2}
  DatabaseId = {d1, d2}
  o1 = o1
  o2 = o2
  OrgId = {o1, o2}
  Session <- Sessions
  Text = {n}
  Ttl = {0, 3}
  Appended = {{}, {9}, {Other}}
  sync_token_ttl_seconds = 2
  max_sync_token_ttl_seconds = 1
  MaxNow = 1
  MaxTokens = 1
  Faulty = TRUE
SPECIFICATION Spec
INVARIANTS
  NamesAreUnique
  DeletionsAreFinal
  IInv
PROPERTIES
  OnlyOwnersDelete
  NoTokenAfterDeletion
  RequestsAreCapped
  AdmissionsAreAuthorized
SYMMETRY Symmetry
