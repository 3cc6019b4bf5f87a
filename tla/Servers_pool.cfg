CONSTANTS
  c1 = c1
  c2 = c2
  c3 = c3
  Mixes <- MCMixes
  Conns = {c1, c2, c3}
  nworkers = 2
  MAXNCLI = 3
  MSGLEN = 2
  Designs = {"serv00", "lab4", "daytime", "serv01", "tcpserv02", "serv02", "serv02l", "serv03", "serv04", "serv05",
             "serv06", "tcpserv01", "serv07", "serv08", "serv09", "poll", "select"}
  NoConn = NoConn
SPECIFICATION FairSpec
CHECK_DEADLOCK FALSE
INVARIANTS TypeOK AvailAgrees ZombiesAreReaped
PROPERTIES ImplementsPool GoodClientsAreAnswered ChildrenFollow
