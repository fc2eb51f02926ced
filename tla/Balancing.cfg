SPECIFICATION Spec
CONSTANTS
  Projects = {1}
  Names = {"web", "api"}
  Hosts = {"h"}
  Globs <- MCGlobs
  Ports = {0, 1}
  Chars <- MCChars
  Services <- BalancingServices
  Choices <- BalancingChoices
  Ids = {1, 2, 3}
  Lists <- BalancingLists
  Paths <- MCPaths
  Handlers = {1}
  Requests = {r1, r2}
  Pools = {1, 2, 3}
  Budget <- BalancingBudget
  CursorSpan = 5
  NoRow = NoRow
  NoPool = NoPool
  NoService = NoService
  NoBackend = NoBackend
SYMMETRY RequestSymmetry
INVARIANTS FreshBackends Rotates
