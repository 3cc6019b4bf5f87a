CONSTANTS
  Programs = {"web01", "web02", "web03", "web"}
  nfiles = 4
  maxnconn = 3
SPECIFICATION FairSpec
CHECK_DEADLOCK FALSE
INVARIANT CountsAgree
PROPERTIES ImplementsFetch EndsOrIsStuck
