CONSTANTS
  Clients = {c1, c2, c3}
  NoClient = NoClient
  MAX_CHATS = 3
  Fds = {1, 2, 3}
  hi = hi
  Texts = {hi}
  NoText = NoText
  Says <- MCSays
  Bodies <- MCBodies
  RCVBUF = 2
  SNDBUF = 1
  MaxPosts = 2
  MaxConnects = 3
SPECIFICATION HSpec
SYMMETRY Symmetry
CHECK_DEADLOCK FALSE
INVARIANT TableSound
PROPERTIES ImplementsRoom NamesStay
