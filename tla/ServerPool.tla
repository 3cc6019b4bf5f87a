------------------------------ MODULE ServerPool ------------------------------
(***************************************************************************)
(* What every server of Lab2017/server promises, however it spreads its    *)
(* work over processes or threads: each connection waits, is served by one *)
(* worker from beginning to end, and is finished.  A worker serves one     *)
(* connection at a time, and no connection is finished unserved while the  *)
(* server is in order, unless its client resets it first.                  *)
(***************************************************************************)
CONSTANTS Conns, Workers, NoWorker

VARIABLES
  kind,      \* what each client does
  stage,     \* "new", "waiting", "served" or "finished"
  server,    \* the worker who serves the connection
  up         \* is the server in order?

pool == <<kind, stage, server, up>>

Init ==
  /\ up = TRUE
  /\ stage = [c \in Conns |-> "new"] /\ server = [c \in Conns |-> NoWorker]

Arrive(c) ==
  /\ stage[c] = "new"
  /\ stage' = [stage EXCEPT ![c] = "waiting"]
  /\ UNCHANGED <<kind, server, up>>

\* The client takes its connection back before anybody serves it.
Abort(c) ==
  /\ stage[c] = "waiting" /\ kind[c] = "reset"
  /\ stage' = [stage EXCEPT ![c] = "finished"]
  /\ UNCHANGED <<kind, server, up>>

Serve(c, w) ==
  /\ stage[c] = "waiting"
  /\ \A d \in Conns : server[d] # w
  /\ stage' = [stage EXCEPT ![c] = "served"]
  /\ server' = [server EXCEPT ![c] = w]
  /\ UNCHANGED <<kind, up>>

Finish(c) ==
  /\ stage[c] = "served"
  /\ stage' = [stage EXCEPT ![c] = "finished"]
  /\ server' = [server EXCEPT ![c] = NoWorker]
  /\ UNCHANGED <<kind, up>>

\* The server ends or breaks; from then on connections may be given up.
Stop ==
  /\ up' = FALSE /\ UNCHANGED kind
  /\ \A c \in Conns :
       \/ stage'[c] = stage[c] /\ server'[c] = server[c]
       \/ stage'[c] = "finished" /\ server'[c] = NoWorker

Next ==
  \/ \E c \in Conns : Arrive(c) \/ Abort(c) \/ Finish(c) \/ \E w \in Workers : Serve(c, w)
  \/ Stop

Spec == Init /\ [][Next]_pool
===============================================================================
