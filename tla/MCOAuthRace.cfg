\* Two OAuth sign-ins with a state each, at once or one after the other, among
\* sign-ups and logins; nothing expires.
CONSTANTS
  None = None
  Call = {c1, c2}
  UserId = {u1, u2}
  OrgId = {o1, o2}
  State = {t1, t2}
  x = x
  y = y
  Addr = {x, y}
  Email <- Spellings
  Password = {p, q}
  Subject = {g}
  Deployed = {{"github_credentials", "oauth_redirect_base"},
              {"oauth_redirect_base"}}
  SessionTtl = 1
  StateTtl = 0
  MaxNow = 0
  Faulty = TRUE
SPECIFICATION Spec
INVARIANTS
  KeysAreUnique
PROPERTIES
  SessionsAreProved
SYMMETRY Symmetry
