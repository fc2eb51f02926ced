SPECIFICATION FairSpec
CONSTANTS
  p1 = p1 p2 = p2
  Subscribers = {"panel"}
  Hooks = {"audit", "webhook"}
  Publishers = {p1, p2}
  MaxEvents = 2
  Cap = 1
INVARIANTS TypeOK InOrder PanicsOnlyInRace CloseDrains
PROPERTY BlocksOnlyItself
CHECK_DEADLOCK FALSE
