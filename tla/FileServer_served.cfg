CONSTANTS
  Clients = {c1, c2, c3}
  NoClient = NoClient
  Loopers = {c1, c2}
  FileLen = 2
  PIPE = 1
  READ = 1
  OPEN_MAX = 1
SPECIFICATION FairSpec
CHECK_DEADLOCK FALSE
INVARIANTS TypeOK EofMeansAllSent
PROPERTY NobodyLeftWaiting
