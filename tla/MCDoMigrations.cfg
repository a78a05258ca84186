\* Two objects and two requests of one isolate; failing statements,
\* evictions, restarts and deployments interfere up to twice.
CONSTANTS
  Object = {o1, o2}
  Request = {r1, r2}
  MIGRATIONS <- TwoVersions
  schema_version = "schema_version"
  pages = "pages"
  SCHEMA = {"users"}
  PageRow = {row}
  Account = {account}
  auto_migrate = TRUE
  MaxFaults = 2
SPECIFICATION FairSpec
INVARIANTS
  IInv
  ServedFindsSchema
  StampsAreTrue
PROPERTIES
  RowsSurvive
  SchemaHeals
