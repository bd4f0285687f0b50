CONSTANTS
  Kinds = {"vercel", "cloudflare", "deno"}
  Versions = {v1, v2}
  RelayKeys = {k1, k2}
  None = None
  Ahead = 1
  PageSize = 1
  MaxUpsets = 3
SPECIFICATION Spec
INVARIANTS
  TypeOK
PROPERTIES
  DeployKeepsContract
  DeleteKeepsContract
  Converges
CHECK_DEADLOCK FALSE
