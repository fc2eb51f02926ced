SPECIFICATION FairSpec
CONSTANTS
  Projects = {1, 2}
  Names = {"web", "api"}
  Hosts = {"h"}
  Globs <- MCGlobs
  Ports = {0, 1}
  Chars <- MCChars
  Services <- RoutingServices
  Choices <- RoutingChoices
  Ids = {1, 2, 3}
  Lists <- RoutingLists
  Paths <- MCPaths
  Handlers = {1, 2}
  Requests = {}
  Pools = {}
  Budget <- RoutingBudget
  CursorSpan = 4
  NoRow = NoRow
  NoPool = NoPool
  NoService = NoService
  NoBackend = NoBackend
INVARIANTS TypeOK OneRoute MostSpecific
PROPERTIES KeepsHost RoutesPublished
