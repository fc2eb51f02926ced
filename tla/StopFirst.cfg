SPECIFICATION Spec
CONSTANTS
  c1 = c1 c2 = c2 c3 = c3 c4 = c4
  Services = {1}
  MaxReplicas = 2
  Ids = {c1, c2, c3, c4}
  Specs <- StatefulSpecs
  Images <- MCImages
  Checks <- MCChecks
  NoHealth = "none"
  Retries <- MCRetries
  Outcomes <- MCOutcomes
  HistoryCap = 2
  Budget <- Budget2111
  FaultAt = {"list", "create", "start", "stop", "remove", "rename", "inspect", "put"}
  NoContainer = NoContainer
  NoRow = NoRow
  Untracked = Untracked
  NoId = NoId
  NoSpec = NoSpec
SYMMETRY IdSymmetry
INVARIANT OneContainerPerSlot
PROPERTY HealthyCoversSlots
