CONSTANTS
  Lines = 5
  Cap = 1
  MAXLINE = 2
  Clients = {"str_cli", "tcp_client", "strclifork", "strclithread", "strclithread2", "strcliselect01", "strcliselect02",
             "str_cli_select02", "str_cli_poll03", "str_cli_kqueue04", "loop", "loop_halfclose", "strclinonb"}
  Servers = {"str_echo", "str_echo_stdio02"}
SPECIFICATION FairSpec
CHECK_DEADLOCK FALSE
INVARIANTS TypeOK StagesAgree
PROPERTIES ImplementsSession AllIsShown
