SPECIFICATION FairSpec
CONSTANTS
  Keys <- BothKeys
  Services = {"db", "cache"}
  Tables <- PortTables
  Backends = {1}
  Conns = {"c"}
  Sources = {"s"}
  Sticky = 2
  MaxStarts = 2
  Budget <- FewChanges
  NoService = NoService
  NoBackend = NoBackend
INVARIANTS TypeOK StraysExplained StickyExpires
PROPERTIES PortsOpen ShutdownEnds
