CONSTANTS
  QSIZE = 3
  RCVBUF = 3
  MaxDg = 9
SPECIFICATION FairSpec
CHECK_DEADLOCK FALSE
INVARIANT TypeOK
PROPERTIES ImplementsService NoSignalLost NoticedAreAnswered
