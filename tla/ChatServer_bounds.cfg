CONSTANTS
  Clients = {c1, c2}
  NoClient = NoClient
  MAX_CHATS = 1
  Fds = {1, 2}
  Texts = {hi}
  NoText = NoText
  Says <- MCSilent
  RCVBUF = 1
  SNDBUF = 1
SPECIFICATION Spec
CHECK_DEADLOCK FALSE
SYMMETRY Symmetry
INVARIANT TableWithinBounds
