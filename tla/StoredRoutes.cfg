SPECIFICATION Spec
CONSTANTS
  Projects = {1, 2}
  Names = {"web", "api"}
  Hosts = {"h", "k"}
  Globs <- MCGlobs
  Ports = {0, 1}
  Chars <- MCChars
  Services <- PortServices
  Choices <- PortChoices
  Ids = {1, 2, 3}
  Lists <- RoutingLists
  Paths <- MCPaths
  Handlers = {1}
  Requests = {}
  Pools = {}
  Budget <- PortBudget
  CursorSpan = 4
  NoRow = NoRow
  NoPool = NoPool
  NoService = NoService
  NoBackend = NoBackend
INVARIANT StoredRoutesBuild
