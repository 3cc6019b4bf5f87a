---------------------------- MODULE ServerPrograms ----------------------------
(***************************************************************************)
(* The programs of Lab2017/server and their relatives, each over the       *)
(* common part in Servers: one process for one client at a time (serv00,   *)
(* the daytime servers, Lab 4), a child per client (serv01, tcpserv02),    *)
(* children forked in advance that share the listening socket (serv02 to   *)
(* serv04), children who get their connections from the parent (serv05), a *)
(* thread per client (serv06, tcpserv01), threads created in advance       *)
(* (serv07 to serv09), and one process for all clients (tcpservpoll01,     *)
(* tcpservselect03).                                                       *)
(***************************************************************************)
EXTENDS Servers

-----------------------------------------------------------------------------
(* The servers that only send: a file in Lab 4, the time elsewhere.         *)

\* open(), sendfile() or write() fails, and the program ends.
SendFails ==
  /\ pc[Main] = "send"
  /\ design = "lab4" \/ inq[hand[Main]] = "reset"
  /\ Exit(Main)
  /\ UNCHANGED <<fixed, clients, acceptQ, lock, table, pipes, ring>>

\* sendfile() blocks until the client has read.
Send ==
  /\ pc[Main] = "send" /\ inq[hand[Main]] # "reset"
  /\ peer' = [peer EXCEPT ![hand[Main]] = IF kind[hand[Main]] = "reset" THEN @ ELSE "answered"]
  /\ pc' = [pc EXCEPT ![Main] = "close"]
  /\ UNCHANGED <<fixed, inq, kernel, hand, others>>

-----------------------------------------------------------------------------
(* A child or a thread per client.                                          *)

FreeSlots == {w \in Workers : pc[w] = "none"}

\* Fork(): parent and child both hold the connection.
Fork(w) ==
  /\ design \in Forking /\ pc[Main] = "create" /\ w \in FreeSlots
  /\ pc' = [pc EXCEPT ![Main] = "close", ![w] = "serve"]
  /\ hand' = [hand EXCEPT ![w] = hand[Main]]
  /\ holders' = [holders EXCEPT ![hand[Main]] = @ \cup {w}]
  /\ UNCHANGED <<fixed, clients, acceptQ, others>>

\* Pthread_create(): the descriptor is handed over.
CreateThread(w) ==
  /\ design \in Threaded /\ pc[Main] = "create" /\ w \in FreeSlots
  /\ pc' = [pc EXCEPT ![Main] = "accept", ![w] = "serve"]
  /\ hand' = [hand EXCEPT ![w] = hand[Main], ![Main] = NoConn]
  /\ UNCHANGED <<fixed, clients, kernel, others>>

\* No process or thread is left: err_sys() ends the program.
CreateFails ==
  /\ pc[Main] = "create" /\ FreeSlots = {}
  /\ Exit(Main)
  /\ UNCHANGED <<fixed, clients, acceptQ, lock, table, pipes, ring>>

Zombies == {w \in Workers : pc[w] = "zombie"}

\* Mutant: wait() once per signal in serv01, too.
ReapsOne(left) ==
  \/ Zombies = {} /\ left = {}
  \/ \E w \in Zombies : left = Zombies \ {w}

\* serv01 waits until there is nothing to wait for, tcpserv02 once.
Reaps(left) == IF design = "serv01" THEN left = {} ELSE ReapsOne(left)

\* sig_chld().
Reap ==
  /\ design \in Forking /\ Alive(Main) /\ sigchld
  /\ sigchld' = FALSE
  /\ \E left \in SUBSET Zombies :
       /\ Reaps(left)
       /\ pc' = [a \in Agents |-> IF a \in Zombies \ left THEN "none" ELSE pc[a]]
  /\ UNCHANGED <<fixed, clients, kernel, hand, lock, table, pipes, ring>>

-----------------------------------------------------------------------------
(* Workers that call accept() themselves, with or without a lock.           *)

\* serv02l: select() finds the socket readable; another may be first.
SelectListen(w) ==
  /\ design = "serv02l" /\ pc[w] = "select" /\ acceptQ # <<>>
  /\ pc' = [pc EXCEPT ![w] = "accept"]
  /\ UNCHANGED <<fixed, clients, kernel, hand, others>>

\* my_lock_wait(), Pthread_mutex_lock().
TakeLock(w) ==
  /\ pc[w] = "lock" /\ lock = NoConn
  /\ lock' = w
  /\ pc' = [pc EXCEPT ![w] = IF design = "serv08" THEN "test" ELSE "accept"]
  /\ UNCHANGED <<fixed, clients, kernel, hand, sigchld, table, pipes, ring>>

ReleaseLock(w) ==
  /\ pc[w] = "release"
  /\ lock' = NoConn
  /\ pc' = [pc EXCEPT ![w] = IF design = "serv08" /\ w = Main THEN "accept" ELSE "serve"]
  /\ UNCHANGED <<fixed, clients, kernel, hand, sigchld, table, pipes, ring>>

-----------------------------------------------------------------------------
(* serv05: the parent accepts and passes descriptors over stream pipes.     *)

\* Mutant: child_make does not close the parent's end in the child.
NobodyEnds(w) == FALSE

AllDeadAfter(w) == ~ Alive(Main) /\ \A v \in Workers : v > w => ~ Alive(v)

\* Mutant: the first child, busy or not.
FirstChild(w) == w = 1

\* The first available child.
Available(w) ==
  /\ child_status[w] = 0
  /\ \A v \in Workers : v < w => child_status[v] # 0

\* Select() returns; the connection is taken first, and only if a child is
\* available.  The scan of the pipes uses the same rset.
SelectConn ==
  /\ pc[Main] = "select" /\ navail > 0 /\ acceptQ # <<>>
  /\ pc' = [pc EXCEPT ![Main] = "accept"]
  /\ UNCHANGED <<fixed, clients, kernel, hand, others>>

\* Write_fd() to a child that is gone raises SIGPIPE.
PassTo(w) ==
  /\ Available(w)
  /\ child_status' = [child_status EXCEPT ![w] = 1]
  /\ navail' = navail - 1
  /\ IF Alive(w)
       THEN /\ inbox' = [inbox EXCEPT ![w] = Append(@, hand[Main])]
            /\ holders' = [holders EXCEPT ![hand[Main]] = {w}]
            /\ hand' = [hand EXCEPT ![Main] = NoConn]
            /\ pc' = [pc EXCEPT ![Main] = "select"]
            /\ UNCHANGED sigchld
       ELSE Exit(Main) /\ UNCHANGED inbox

\* err_quit("no available children"): the bytes of the message of a child that
\* gives up can leave navail above the number of children with status 0.
PassConn(w) ==
  /\ pc[Main] = "pass"
  /\ IF \A v \in Workers : child_status[v] # 0
       THEN Exit(Main) /\ UNCHANGED <<table, inbox>>
       ELSE PassTo(w)
  /\ UNCHANGED <<fixed, clients, acceptQ, lock, freed, ring>>

\* Any byte from a child says that it is available.
NewlyAvailable(w) ==
  /\ design = "serv05" /\ pc[Main] = "select" /\ freed[w] > 0
  /\ freed' = [freed EXCEPT ![w] = @ - 1]
  /\ child_status' = [child_status EXCEPT ![w] = 0]
  /\ navail' = navail + 1
  /\ UNCHANGED <<fixed, clients, kernel, pc, hand, lock, sigchld, inbox, ring>>

\* err_quit("child terminated unexpectedly").
ChildTerminated(w) ==
  /\ design = "serv05" /\ pc[Main] = "select" /\ freed[w] = 0 /\ ~ Alive(w)
  /\ Exit(Main)
  /\ UNCHANGED <<fixed, clients, acceptQ, lock, table, pipes, ring>>

\* Read_fd().
ReceiveConn(w) ==
  /\ pc[w] = "idle" /\ inbox[w] # <<>>
  /\ hand' = [hand EXCEPT ![w] = Head(inbox[w])]
  /\ inbox' = [inbox EXCEPT ![w] = Tail(@)]
  /\ pc' = [pc EXCEPT ![w] = "serve"]
  /\ UNCHANGED <<fixed, clients, kernel, lock, sigchld, table, freed, ring>>

\* "tell parent we're ready again".  A write to a parent that is gone raises
\* SIGPIPE, once no later child holds a copy of the parent's end.
TellParent(w) ==
  /\ pc[w] = "tell"
  /\ IF AllDeadAfter(w)
       THEN Exit(w) /\ UNCHANGED freed
       ELSE /\ freed' = [freed EXCEPT ![w] = @ + 1]
            /\ pc' = [pc EXCEPT ![w] = "idle"]
            /\ UNCHANGED <<holders, hand, sigchld>>
  /\ UNCHANGED <<fixed, clients, acceptQ, lock, table, inbox, ring>>

\* Read_fd() returns 0: the parent is gone, and so are the children forked
\* after this one, who hold copies of the parent's end.
ParentGone(w) ==
  /\ pc[w] = "idle" /\ inbox[w] = <<>> /\ AllDeadAfter(w)
  /\ Exit(w)
  /\ UNCHANGED <<fixed, clients, acceptQ, lock, table, pipes, ring>>

\* The exit of a child whose message is written; what is in its pipe is closed.
ChildDies(w) ==
  /\ pc[w] = "dying"
  /\ Exit(w)
  /\ inbox' = [inbox EXCEPT ![w] = <<>>]
  /\ UNCHANGED <<fixed, clients, acceptQ, lock, table, freed, ring>>

-----------------------------------------------------------------------------
(* serv08: main() puts descriptors into a ring, threads take them out.      *)

\* Mutant: no wrap at MAXNCLI.
SuccNoWrap(k) == k + 1

Succ(k) == (k + 1) % MAXNCLI

LockRing ==
  /\ design = "serv08" /\ pc[Main] = "store" /\ lock = NoConn
  /\ lock' = Main
  /\ pc' = [pc EXCEPT ![Main] = "put"]
  /\ UNCHANGED <<fixed, clients, kernel, hand, sigchld, table, pipes, ring>>

\* Mutant: the test for a full ring is missing.
NeverFull(j) == FALSE

RingFull(j) == j = iget

\* Store, step iput, err_quit() if the ring is full now, else signal a waiter.
PutConn ==
  /\ pc[Main] = "put"
  /\ clifd' = [clifd EXCEPT ![iput] = hand[Main]]
  /\ iput' = Succ(iput)
  /\ IF RingFull(Succ(iput))
       THEN Exit(Main)
       ELSE /\ \/ \E w \in Workers : pc[w] = "wait" /\ pc' = [pc EXCEPT ![Main] = "release", ![w] = "lock"]
               \/ (\A w \in Workers : pc[w] # "wait") /\ pc' = [pc EXCEPT ![Main] = "release"]
            /\ hand' = [hand EXCEPT ![Main] = NoConn]
            /\ UNCHANGED <<holders, sigchld>>
  /\ UNCHANGED <<fixed, clients, acceptQ, lock, table, pipes, iget, nready>>

\* Mutant: Pthread_cond_wait() without a look at the ring.
WaitAnyway(w) ==
  /\ pc[w] = "test"
  /\ pc' = [pc EXCEPT ![w] = "wait"]
  /\ lock' = NoConn
  /\ UNCHANGED <<fixed, clients, kernel, hand, sigchld, table, pipes, ring>>

\* Pthread_cond_wait() while the ring is empty.
WaitForConn(w) ==
  /\ pc[w] = "test" /\ iget = iput
  /\ pc' = [pc EXCEPT ![w] = "wait"]
  /\ lock' = NoConn
  /\ UNCHANGED <<fixed, clients, kernel, hand, sigchld, table, pipes, ring>>

TakeConn(w) ==
  /\ pc[w] = "test" /\ iget # iput
  /\ hand' = [hand EXCEPT ![w] = clifd[iget]]
  /\ iget' = Succ(iget)
  /\ pc' = [pc EXCEPT ![w] = "release"]
  /\ UNCHANGED <<fixed, clients, kernel, lock, sigchld, table, pipes, clifd, iput, nready>>

-----------------------------------------------------------------------------
(* tcpservpoll01 and tcpservselect03: one process, an array of connections. *)

HasInput(w) == hand[w] # NoConn /\ inq[hand[w]] # "nothing"

\* Poll() or Select() flags what can be read; the listening socket comes first.
PollReturns ==
  /\ pc[Main] = "poll"
  /\ nready' = Cardinality({w \in Workers : HasInput(w)}) + (IF acceptQ = <<>> THEN 0 ELSE 1)
  /\ nready' > 0
  /\ pc' = [a \in Agents |-> IF a = Main THEN IF acceptQ = <<>> THEN "scan" ELSE "accept"
                            ELSE IF HasInput(a) THEN "flagged" ELSE "none"]
  /\ UNCHANGED <<fixed, clients, kernel, hand, lock, sigchld, table, pipes, clifd, iput, iget>>

\* The first free entry.  The revents of an entry that was never used has not
\* been written by anybody: it may say anything.  select() has no such field.
Enter(w) ==
  /\ pc[Main] = "enter" /\ hand[w] = NoConn
  /\ \A v \in Workers : v < w => hand[v] # NoConn
  /\ hand' = [hand EXCEPT ![w] = hand[Main], ![Main] = NoConn]
  /\ nready' = nready - 1
  /\ \E flag \in IF design = "poll" THEN {"none", "flagged"} ELSE {"none"} :
       pc' = [pc EXCEPT ![w] = flag, ![Main] = IF nready > 1 THEN "scan" ELSE "poll"]
  /\ UNCHANGED <<fixed, clients, kernel, lock, sigchld, table, pipes, clifd, iput, iget>>

\* err_quit("too many clients").
TooManyClients ==
  /\ pc[Main] = "enter" /\ \A w \in Workers : hand[w] # NoConn
  /\ Exit(Main)
  /\ UNCHANGED <<fixed, clients, acceptQ, lock, table, pipes, ring>>

\* read() of the first flagged entry, which waits if nothing is there: echo, or
\* close at the end; after a reset, too, but for Readline(), which ends the
\* program.  nready is 0 before the entries are through.
ReadFlagged(w) ==
  /\ pc[Main] = "scan" /\ pc[w] = "flagged" /\ HasInput(w)
  /\ ~ (design = "select" /\ inq[hand[w]] = "reset")
  /\ \A v \in Workers : v < w => pc[v] # "flagged"
  /\ nready' = nready - 1
  /\ pc' = [pc EXCEPT ![w] = "none", ![Main] = IF nready > 1 THEN "scan" ELSE "poll"]
  /\ IF inq[hand[w]] = "line"
       THEN /\ peer' = [peer EXCEPT ![hand[w]] = "answered"]
            /\ inq' = [inq EXCEPT ![hand[w]] = "nothing"]
            /\ UNCHANGED <<hand, holders>>
       ELSE /\ hand' = [hand EXCEPT ![w] = NoConn]
            /\ holders' = [holders EXCEPT ![hand[w]] = {}]
            /\ UNCHANGED clients
  /\ UNCHANGED <<fixed, acceptQ, lock, sigchld, table, pipes, clifd, iput, iget>>

ReadlineFails(w) ==
  /\ design = "select" /\ pc[Main] = "scan" /\ pc[w] = "flagged"
  /\ HasInput(w) /\ inq[hand[w]] = "reset"
  /\ \A v \in Workers : v < w => pc[v] # "flagged"
  /\ Exit(Main)
  /\ UNCHANGED <<fixed, clients, acceptQ, lock, table, pipes, ring>>

-----------------------------------------------------------------------------
(* SIGINT.                                                                  *)

Parents == Preforked \cup {"serv05"}

\* sig_int(): the others exit() at once.
Interrupt ==
  /\ Alive(Main) /\ pc[Main] # "kill"
  /\ IF design \in Parents
       THEN pc' = [pc EXCEPT ![Main] = "kill"] /\ UNCHANGED <<holders, hand, sigchld>>
       ELSE Exit(Main)
  /\ UNCHANGED <<fixed, clients, acceptQ, lock, table, pipes, ring>>

\* kill() of the next child.
KillChild(w) ==
  /\ pc[Main] = "kill" /\ Alive(w)
  /\ \A v \in Workers : v < w => ~ Alive(v)
  /\ Exit(w)
  /\ inbox' = [inbox EXCEPT ![w] = <<>>]
  /\ lock' = IF lock = w /\ design = "serv03" THEN NoConn ELSE lock
  /\ UNCHANGED <<fixed, clients, acceptQ, table, freed, ring>>

\* wait() for all of them, and exit().
WaitForChildren ==
  /\ pc[Main] = "kill" /\ \A w \in Workers : ~ Alive(w)
  /\ pc' = [a \in Agents |-> IF a = Main THEN "exit" ELSE "none"]
  /\ holders' = [c \in Conns |-> {}] /\ hand' = [hand EXCEPT ![Main] = NoConn]
  /\ UNCHANGED <<fixed, clients, acceptQ, others>>

-----------------------------------------------------------------------------

MainStep ==
  \/ Accept(Main) \/ WebChild(Main) \/ Send \/ LockRing \/ PutConn \/ ReleaseLock(Main)
  \/ SelectConn \/ WaitForChildren
  \/ \E w \in Workers :
       Fork(w) \/ CreateThread(w) \/ PassConn(w) \/ NewlyAvailable(w) \/ ChildTerminated(w) \/ KillChild(w)
  \/ CreateFails \/ Reap
  \/ PollReturns \/ TooManyClients \/ \E w \in Workers : Enter(w) \/ ReadFlagged(w) \/ ReadlineFails(w)

WorkerStep(w) ==
  \/ Accept(w) \/ WebChild(w) \/ SelectListen(w) \/ TakeLock(w) \/ ReleaseLock(w)
  \/ ReceiveConn(w) \/ TellParent(w) \/ ParentGone(w) \/ ChildDies(w)
  \/ WaitForConn(w) \/ TakeConn(w)

Progress ==
  \/ MainStep
  \/ \E w \in Workers : WorkerStep(w)
  \/ \E c \in Conns : ClientStep(c)

Next == Progress \/ SendFails \/ Interrupt

Spec == Init /\ [][Next]_vars

\* Whatever can go on does, in any order: no process, thread or client takes
\* infinitely many steps, so that nobody has to be treated fairly by the others.
FairSpec == Spec /\ WF_vars(Progress)

-----------------------------------------------------------------------------
(* Properties.                                                              *)

Places ==
  {"none", "accept", "create", "close", "serve", "send", "pause", "select", "lock", "release",
   "pass", "tell", "idle", "dying", "store", "put", "test", "wait", "poll", "enter",
   "scan", "flagged", "kill", "zombie", "exit"}

TypeOK ==
  /\ design \in Designs /\ kind \in [Conns -> Kinds]
  /\ peer \in [Conns -> {"start", "connected", "asked", "answered", "closed", "failed"}]
  /\ inq \in [Conns -> {"nothing", "line", "eof", "reset"}]
  /\ acceptQ \in Seq(Conns) /\ holders \in [Conns -> SUBSET Agents]
  /\ pc \in [Agents -> Places] /\ hand \in [Agents -> Conns \cup {NoConn}]
  /\ lock \in Agents \cup {NoConn} /\ sigchld \in BOOLEAN
  /\ navail \in Int /\ child_status \in [Workers -> 0 .. 1]
  /\ inbox \in [Workers -> Seq(Conns)] /\ freed \in [Workers -> Nat]
  /\ clifd \in [0 .. (MAXNCLI - 1) -> Conns \cup {NoConn}]
  /\ iput \in 0 .. (MAXNCLI - 1) /\ iget \in 0 .. (MAXNCLI - 1)
  /\ nready \in 0 .. (nworkers + 1)

\* Who serves a connection: main() does so only where there is nobody else.
ServedBy(c) ==
  {a \in Agents : hand[a] = c /\ (a = Main => design \in Iterative)}

\* The descriptors in the ring, from iget up to iput, and in the stream pipes.
Filled(k) == (k - iget) % MAXNCLI < (iput - iget) % MAXNCLI
InRing(c) == \E k \in 0 .. (MAXNCLI - 1) : clifd[k] = c /\ Filled(k)
Passed(c) == \E w \in Workers : \E k \in DOMAIN inbox[w] : inbox[w][k] = c

Waits(c) ==
  \/ Queued(c) /\ ListenOpen
  \/ hand[Main] = c /\ pc[Main] # "close"
  \/ Passed(c)
  \/ InRing(c) /\ Alive(Main)

\* A child of serv05 is gone, SIGINT has come, or nobody listens any more.
InOrder ==
  /\ ListenOpen /\ pc[Main] # "kill"
  /\ design = "serv05" => \A w \in Workers : Alive(w) /\ pc[w] # "dying"

\* The one who serves it, and how far it is.
ServerOf(c) ==
  LET by == ServedBy(c)
  IN  IF \E a \in Agents : by = {a} THEN CHOOSE a \in Agents : by = {a} ELSE NoConn

StageOf(c) ==
  IF ServedBy(c) # {} THEN "served"
  ELSE IF Waits(c) THEN "waiting"
  ELSE IF peer[c] = "start" THEN "new" ELSE "finished"

Pool == INSTANCE ServerPool WITH
  Workers  <- Agents,
  NoWorker <- NoConn,
  up       <- InOrder,
  server   <- [c \in Conns |-> ServerOf(c)],
  stage    <- [c \in Conns |-> StageOf(c)]

\* Refinement: whatever the design, a connection is served by one worker, who
\* serves nothing else, and none is forgotten between accept(), the ring, the
\* pipes and the workers.
ImplementsPool == Pool!Spec

\* Safety: as long as no child has died, navail is the number of children with
\* status 0, such a child has nothing to do, and each busy child has one
\* connection or has said that it is done.  So err_quit("no available children")
\* takes a bad request first.
AvailAgrees ==
  design = "serv05" /\ InOrder =>
    /\ navail = Cardinality({w \in Workers : child_status[w] = 0})
    /\ \A w \in Workers :
         Len(inbox[w]) + freed[w] + (IF pc[w] = "idle" THEN 0 ELSE 1) = child_status[w]

\* Safety: no child of serv01 stays a zombie when no SIGCHLD is pending, though
\* signals are not queued.
ZombiesAreReaped ==
  design = "serv01" /\ Alive(Main) /\ Zombies # {} => sigchld

Bad == {c \in Conns :
         /\ peer[c] # "start"
         /\ kind[c] = "reset" \/ (kind[c] = "bad" /\ design \notin Echoing \cup Sending)}

\* What a client may spoil for the others, and how often it takes.
Spoilt ==
  IF design \in Forking THEN FALSE
  ELSE IF design \in Preforked THEN Cardinality(Bad) >= nworkers
  ELSE Bad # {}

Unanswered == {c \in Conns : kind[c] = "good" /\ peer[c] \in {"connected", "asked"}}

\* Liveness: good clients that get through to the server are answered, unless
\* the server ends or other clients have spoilt it: no connection is left for
\* good in the queue, the pipes or the ring with a worker free.
GoodClientsAreAnswered ==
  []<> (Unanswered = {} \/ ~ Alive(Main) \/ pc[Main] = "kill" \/ Spoilt)

\* Liveness: when the parent of serv05 ends, each child sees the end of its
\* pipe, though later children hold copies of the parent's end of it.
ChildrenFollow ==
  []<> (design = "serv05" /\ ~ Alive(Main) => \A w \in Workers : ~ Alive(w))
===============================================================================
