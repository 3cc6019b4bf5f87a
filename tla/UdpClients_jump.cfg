CONSTANTS
  Programs = {"dgclibcast5"}
  Questions = 2
  Hosts = 2
  Doubles = 1
  Inbox = 2
  RTT_RXTMIN = 2
  RTT_RXTMAX = 60
  RTT_MAXNREXMT = 3
  Estimates = {0, 100}
SPECIFICATION Spec
CHECK_DEADLOCK FALSE
INVARIANTS NeverFalls
