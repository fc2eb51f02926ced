SPECIFICATION FairSpec
CONSTANTS
  c1 = c1 c2 = c2
  Ids = {c1, c2}
  Checks = {"none", "http", "exec"}
  NoHealth = "none"
  HistoryCap = 2
  Objs = {1, 2, 3}
  TailCalls = 1
  Untracked = Untracked
  Free = Free
  None = None
INVARIANTS TypeOK OneLoopPerContainer
PROPERTIES ImplementsRegister CallsReturn ShutdownCompletes
CHECK_DEADLOCK FALSE
