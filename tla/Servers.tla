------------------------------- MODULE Servers --------------------------------
(***************************************************************************)
(* The client-server design alternatives of Lab2017/server: what they have *)
(* in common.  One server program, `design`, runs at a time: serv00 to     *)
(* serv09 and serv02l; the echo servers tcpserv02, tcpserv01 (threads),    *)
(* tcpservpoll01 ("poll") and tcpservselect03 ("select"); the daytime      *)
(* servers and the iterative file server of Lab 4 ("lab4").  The clients   *)
(* are the children of client.c and clientrst.c, one connection each.      *)
(*                                                                         *)
(* An agent is main() (0) or a worker: a child process, a thread, or an    *)
(* entry of the array client[] of tcpservpoll01.  The kernel's part is the *)
(* queue of completed connections and who holds a descriptor of each; a    *)
(* request is "good", or "bad" when its number of bytes is out of range; a *)
(* "reset" client aborts its connection.                                   *)
(* Left out: the contents of replies, counters that are only               *)
(* printed, CPU times, and failures of calls other than fork().            *)
(***************************************************************************)
EXTENDS Integers, Sequences, FiniteSets

CONSTANTS
  Conns,        \* connections that are made
  nworkers,     \* children, threads or entries; also the limit on them
  MAXNCLI,      \* size of the ring of serv08
  MSGLEN,       \* bytes of a message of err_quit
  Designs,      \* the programs to choose from
  Mixes,        \* the kinds of clients that come together
  NoConn

Main    == 0
Workers == 1 .. nworkers
Agents  == {Main} \cup Workers

Kinds == {"good", "bad", "reset"}

Iterative == {"serv00", "lab4", "daytime"}
Forking   == {"serv01", "tcpserv02"}
Preforked == {"serv02", "serv02l", "serv03", "serv04"}
Selecting == {"poll", "select"}
Threaded  == {"serv06", "tcpserv01", "serv07", "serv08", "serv09"}
AllDesigns == Iterative \cup Forking \cup Preforked \cup Selecting \cup Threaded \cup {"serv05"}

\* These echo (str_echo); the others look at the number of bytes asked for.
Echoing == {"tcpserv02", "tcpserv01"} \cup Selecting

\* These send without having been asked.
Sending == {"lab4", "daytime"}

ASSUME ConstantsAssumption ==
  /\ nworkers \in Nat \ {0} /\ MAXNCLI \in Nat \ {0, 1} /\ MSGLEN \in Nat \ {0}
  /\ Designs \subseteq AllDesigns
  /\ Mixes \subseteq [Conns -> Kinds]
  /\ NoConn \notin Conns \cup Agents

VARIABLES
  design, kind,
  peer,         \* where each client is in its program
  inq,          \* what the server's end of a connection has to read
  acceptQ,      \* completed connections, in order
  holders,      \* processes with a descriptor of the connection
  pc, hand,     \* each agent's place, and the connection in its connfd
  lock,         \* who has the lock around accept() or the ring
  sigchld,      \* SIGCHLD is pending for main()
  navail, child_status, inbox, freed,   \* serv05: its table, and the stream pipes both ways
  clifd, iput, iget,                    \* serv08: the ring
  nready                                \* tcpservpoll01: what poll() returned

fixed   == <<design, kind>>
clients == <<peer, inq>>
kernel  == <<acceptQ, holders>>
table   == <<navail, child_status>>
pipes   == <<inbox, freed>>
ring    == <<clifd, iput, iget, nready>>
others  == <<lock, sigchld, table, pipes, ring>>
vars    == <<fixed, clients, kernel, pc, hand, others>>

\* The loop of each main(): where it begins, and what follows accept().
serv00        == [start |-> "accept", accepted |-> "serve"]
server_loop   == [start |-> "accept", accepted |-> "send"]
daytimetcpsrv == [start |-> "accept", accepted |-> "send"]
serv01        == [start |-> "accept", accepted |-> "create"]
tcpserv02     == [start |-> "accept", accepted |-> "create"]
serv02        == [start |-> "pause",  accepted |-> "none"]
serv03        == [start |-> "pause",  accepted |-> "none"]
serv04        == [start |-> "pause",  accepted |-> "none"]
serv05        == [start |-> "select", accepted |-> "pass"]
serv06        == [start |-> "accept", accepted |-> "create"]
tcpserv01     == [start |-> "accept", accepted |-> "create"]
serv07        == [start |-> "pause",  accepted |-> "none"]
serv08        == [start |-> "accept", accepted |-> "store"]
serv09        == [start |-> "pause",  accepted |-> "none"]
tcpservpoll01 == [start |-> "poll",   accepted |-> "enter"]
tcpservselect03 == [start |-> "poll", accepted |-> "enter"]

MainLoop == [
  serv00 |-> serv00, lab4 |-> server_loop, daytime |-> daytimetcpsrv,
  serv01 |-> serv01, tcpserv02 |-> tcpserv02,
  serv02 |-> serv02, serv02l |-> serv02, serv03 |-> serv03, serv04 |-> serv04, serv05 |-> serv05,
  serv06 |-> serv06, tcpserv01 |-> tcpserv01, serv07 |-> serv07, serv08 |-> serv08, serv09 |-> serv09,
  poll |-> tcpservpoll01, select |-> tcpservselect03]

\* The loop of each worker: where it begins, what follows accept() if the
\* worker calls it, and what follows close().
NoLoop    == [start |-> "none",   accepted |-> "none",    closed |-> "none"]
child02   == [start |-> "accept", accepted |-> "serve",   closed |-> "accept"]
child02l  == [start |-> "select", accepted |-> "serve",   closed |-> "select"]
child03   == [start |-> "lock",   accepted |-> "release", closed |-> "lock"]
child04   == [start |-> "lock",   accepted |-> "release", closed |-> "lock"]
child05   == [start |-> "idle",   accepted |-> "none",    closed |-> "tell"]
pthread07 == [start |-> "lock",   accepted |-> "release", closed |-> "lock"]
pthread08 == [start |-> "lock",   accepted |-> "none",    closed |-> "lock"]
pthread09 == [start |-> "accept", accepted |-> "serve",   closed |-> "accept"]

WorkerLoop == [
  serv00 |-> NoLoop, lab4 |-> NoLoop, daytime |-> NoLoop, serv01 |-> NoLoop, tcpserv02 |-> NoLoop,
  serv02 |-> child02, serv02l |-> child02l, serv03 |-> child03, serv04 |-> child04, serv05 |-> child05,
  serv06 |-> NoLoop, tcpserv01 |-> NoLoop, serv07 |-> pthread07, serv08 |-> pthread08, serv09 |-> pthread09,
  poll |-> NoLoop, select |-> NoLoop]

Start(a)     == IF a = Main THEN MainLoop[design].start ELSE WorkerLoop[design].start
AfterAccept(a) == IF a = Main THEN MainLoop[design].accepted ELSE WorkerLoop[design].accepted
AfterClose(a) == IF a = Main THEN MainLoop[design].start ELSE WorkerLoop[design].closed

Init ==
  /\ design \in Designs
  /\ kind \in Mixes
  /\ peer = [c \in Conns |-> "start"] /\ inq = [c \in Conns |-> "nothing"]
  /\ acceptQ = <<>> /\ holders = [c \in Conns |-> {}]
  /\ pc = [a \in Agents |-> Start(a)]
  /\ hand = [a \in Agents |-> NoConn]
  /\ lock = NoConn /\ sigchld = FALSE
  /\ navail = nworkers /\ child_status = [w \in Workers |-> 0]
  /\ inbox = [w \in Workers |-> <<>>] /\ freed = [w \in Workers |-> 0]
  /\ clifd = [k \in 0 .. (MAXNCLI - 1) |-> NoConn] /\ iput = 0 /\ iget = 0
  /\ nready = 0

-----------------------------------------------------------------------------
(* Processes and descriptors.                                               *)

Dead == {"none", "zombie", "exit"}
Alive(a) == pc[a] \notin Dead

\* The process an agent runs in.
Process(a) == IF design \in Threaded \cup Selecting THEN Main ELSE a

\* The children of serv01 and serv05 close the listening socket.
ListenOpen == Alive(Main) \/ (design \in Preforked /\ \E w \in Workers : Alive(w))

Queued(c) == \E k \in DOMAIN acceptQ : acceptQ[k] = c

\* The server's end is closed, and not by a descriptor that is still queued.
ClosedByServer(c) == ~ (Queued(c) /\ ListenOpen) /\ holders[c] = {}

\* exit(), err_quit() or a signal: what a process holds is closed.  A child
\* stays as a zombie, and its parent gets a SIGCHLD; a thread takes all others
\* with it.
Exit(a) ==
  /\ pc' = [b \in Agents |-> IF b = a \/ Process(a) = Process(b)
                               THEN IF b = Main THEN "exit" ELSE "zombie" ELSE pc[b]]
  /\ holders' = [c \in Conns |-> holders[c] \ {Process(a)}]
  /\ hand' = [b \in Agents |-> IF b = a \/ Process(a) = Process(b) THEN NoConn ELSE hand[b]]
  /\ sigchld' = (sigchld \/ (a # Main /\ design \in Forking))

-----------------------------------------------------------------------------
(* client.c and clientrst.c: connect, write, read the reply, close.         *)

Connect(c) ==
  /\ peer[c] = "start" /\ ListenOpen
  /\ peer' = [peer EXCEPT ![c] = "connected"]
  /\ acceptQ' = Append(acceptQ, c)
  /\ UNCHANGED <<fixed, inq, holders, pc, hand, others>>

\* The clients of Lab 4 and of the daytime servers write nothing.
WriteRequest(c) ==
  /\ peer[c] = "connected" /\ kind[c] # "reset" /\ design \notin Sending
  /\ ~ ClosedByServer(c)
  /\ peer' = [peer EXCEPT ![c] = "asked"]
  /\ inq' = [inq EXCEPT ![c] = "line"]
  /\ UNCHANGED <<fixed, kernel, pc, hand, others>>

CloseConn(c) ==
  /\ peer[c] = "answered"
  /\ peer' = [peer EXCEPT ![c] = "closed"]
  /\ inq' = [inq EXCEPT ![c] = "eof"]
  /\ UNCHANGED <<fixed, kernel, pc, hand, others>>

Without(s, k) == SubSeq(s, 1, k - 1) \o SubSeq(s, k + 1, Len(s))

\* SO_LINGER and close: the RST takes the connection out of the queue
\* (systems differ) or waits for whoever accepts it.
ResetConn(c) ==
  /\ peer[c] = "connected" /\ kind[c] = "reset"
  /\ peer' = [peer EXCEPT ![c] = "closed"]
  /\ inq' = [inq EXCEPT ![c] = "reset"]
  /\ \/ \E k \in DOMAIN acceptQ : acceptQ[k] = c /\ acceptQ' = Without(acceptQ, k)
     \/ UNCHANGED acceptQ
  /\ UNCHANGED <<fixed, holders, pc, hand, others>>

\* connect() is refused, or Readn() finds the end too early.
ClientFails(c) ==
  /\ \/ peer[c] = "start" /\ ~ ListenOpen
     \/ peer[c] \in {"connected", "asked"} /\ ClosedByServer(c)
  /\ peer' = [peer EXCEPT ![c] = "failed"]
  /\ UNCHANGED <<fixed, inq, kernel, pc, hand, others>>

ClientStep(c) == Connect(c) \/ WriteRequest(c) \/ CloseConn(c) \/ ResetConn(c) \/ ClientFails(c)

-----------------------------------------------------------------------------
(* accept(), web_child() and close(), wherever they are called.             *)

Accept(a) ==
  /\ pc[a] = "accept" /\ acceptQ # <<>>
  /\ hand' = [hand EXCEPT ![a] = Head(acceptQ)]
  /\ acceptQ' = Tail(acceptQ)
  /\ holders' = [holders EXCEPT ![Head(acceptQ)] = {Process(a)}]
  /\ pc' = [pc EXCEPT ![a] = AfterAccept(a)]
  /\ UNCHANGED <<fixed, clients, others>>

Acceptable(c) == kind[c] = "good" \/ design \in Echoing

\* One turn of web_child() or str_echo(): the line is read and answered.
Answer(a) ==
  /\ pc[a] = "serve" /\ inq[hand[a]] = "line" /\ Acceptable(hand[a])
  /\ inq' = [inq EXCEPT ![hand[a]] = "nothing"]
  /\ peer' = [peer EXCEPT ![hand[a]] = "answered"]
  /\ UNCHANGED <<fixed, kernel, pc, hand, others>>

\* Readline() returns 0.
EndOfConn(a) ==
  /\ pc[a] = "serve" /\ inq[hand[a]] = "eof"
  /\ pc' = [pc EXCEPT ![a] = "close"]
  /\ UNCHANGED <<fixed, clients, kernel, hand, others>>

\* err_quit() in web_child(), or err_sys() after a failed read.  The message of a
\* child of serv05 goes to its standard error, which is the stream pipe.
Refuse(a) ==
  /\ pc[a] = "serve"
  /\ \/ inq[hand[a]] = "line" /\ ~ Acceptable(hand[a])
     \/ inq[hand[a]] = "reset"
  /\ IF design = "serv05"
       THEN /\ freed' = [freed EXCEPT ![a] = @ + MSGLEN]
            /\ pc' = [pc EXCEPT ![a] = "dying"]
            /\ UNCHANGED <<holders, hand, sigchld>>
       ELSE Exit(a) /\ UNCHANGED freed
  /\ UNCHANGED <<fixed, clients, acceptQ, lock, table, inbox, ring>>

\* A child of serv01 ends, the thread of serv06 too; the others come back for
\* the next connection.
CloseDone(a) ==
  /\ pc[a] = "close"
  /\ IF a # Main /\ design \in Forking
       THEN Exit(a)
       ELSE /\ holders' = [holders EXCEPT ![hand[a]] = @ \ {Process(a)}]
            /\ hand' = [hand EXCEPT ![a] = NoConn]
            /\ pc' = [pc EXCEPT ![a] = AfterClose(a)]
            /\ UNCHANGED sigchld
  /\ UNCHANGED <<fixed, clients, acceptQ, lock, table, pipes, ring>>

WebChild(a) == Answer(a) \/ EndOfConn(a) \/ Refuse(a) \/ CloseDone(a)
===============================================================================
