\* Two requests at a time, D1 failing, while sessions and OAuth states expire;
\* isolates with and without the GitHub credentials, as when a deployment
\* changes.
CONSTANTS
  None = None
  Call = {c1, c2}
  UserId = {u1, u2}
  OrgId = {o1, o2}
  State = {t1}
  x = x
  y = y
  Addr = {x, y}
  Email <- Addresses
  Password = {p, q}
  Subject = {g}
  Deployed = {{"github_credentials", "oauth_redirect_base"},
              {"oauth_redirect_base"}}
  SessionTtl = 1
  StateTtl = 0
  MaxNow = 1
  Faulty = TRUE
SPECIFICATION Spec
INVARIANTS
  IInv
  AccountsAreWhole
  StatesAreSingleUse
  NothingDangles
SYMMETRY Symmetry
