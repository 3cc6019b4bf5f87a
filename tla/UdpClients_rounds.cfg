CONSTANTS
  Programs = {"dg_cli", "dgclitimeo", "dgclitimeo1", "dgclitimeo2", "dgclitimeo3", "dg_send_recv", "ping",
              "dgclibcast1", "dgclibcast2", "dgclibcast3", "dgclibcast4", "dgclibcast4_lib", "dgclibcast5", "dgclibcast6"}
  Questions = 2
  Hosts = 2
  Doubles = 1
  Inbox = 2
  RTT_RXTMIN = 2
  RTT_RXTMAX = 60
  RTT_MAXNREXMT = 3
  Estimates = {0, 100}
SPECIFICATION FairSpec
CHECK_DEADLOCK FALSE
INVARIANTS TypeOK NothingIsLeft
PROPERTIES ImplementsSession RoundsEnd
