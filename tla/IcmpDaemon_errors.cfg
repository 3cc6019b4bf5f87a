CONSTANTS
  Clients = {c1, c2}
  NoClient = NoClient
  Ports4 = {4}
  Ports6 = {6}
  FD_SETSIZE = 2
  Asks = 1
  Shorts = {"fd6"}
  RCVBUF = 2
  SNDBUF = 2
SPECIFICATION FairSpec
CHECK_DEADLOCK FALSE
INVARIANTS TableAgrees TalkIsOwn
PROPERTY ClientsAreServed
