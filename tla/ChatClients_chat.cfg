CONSTANTS
  Clients = {c1, c2, c3}
  NoClient = NoClient
  MAX_CHATS = 1
  Fds = {1, 2, 3}
  c1 = c1
  c2 = c2
  hi = hi
  Texts = {hi}
  NoText = NoText
  Says <- MCSays
  RCVBUF = 3
  SNDBUF = 1
  Line <- MCLine
  MaxTyped <- MCMaxTyped
  MaxStarts <- MCMaxStarts
  Piped = {c3}
SPECIFICATION ClientsSpec
CHECK_DEADLOCK FALSE
INVARIANTS TypeOK ReadNeverBlocks
PROPERTIES ArrivalsAreAnswered RelayEnds LinesAreRead LeaversAreRemoved
