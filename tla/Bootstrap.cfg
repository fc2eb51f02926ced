SPECIFICATION FairSpec
CONSTANTS
  Projects = {"default"}
  AnyProject = "*"
  NoProject = ""
  Inits = {"i1", "i2"}
  Server = "server"
  MaxVersion = 2
  Secrets = {1, 2, 3, 4, 5, 6, 7, 8}
  Requests = {"r"}
  Budget <- FewDeaths
  Missing = Missing
  Torn = Torn
  NoProcess = NoProcess
INVARIANTS TypeOK SchemaWhole TokenWorks
PROPERTIES JudgedAsStored KeyKept Recovers
