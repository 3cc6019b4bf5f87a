----------------------------- MODULE FileServer -----------------------------
(***************************************************************************)
(* The forking file server, Lab2/tcp_fork_server.c, and its clients,       *)
(* Lab2/tcp_client.c and Lab4/tcp_easy_ipv46_client.c.                     *)
(*                                                                         *)
(* The parent accepts a connection and forks; the child sends one file and *)
(* exits.  Parent and child both hold the connection's descriptor, and the *)
(* kernel sends the FIN that tells the client "end of file" when the last  *)
(* of them is closed.  Parent, children and clients run concurrently, and  *)
(* no order between them is enforced.                                      *)
(*                                                                         *)
(* The file is FileLen units long; a unit is what the kernel moves at once.*)
(* Left out: setting up the listening socket, and what is printed.         *)
(***************************************************************************)
EXTENDS Integers, Sequences, FiniteSets

CONSTANTS
  Clients,    \* client processes; each connects once
  NoClient,   \* connected_fd before the first accept()
  Loopers,    \* the clients that read until end of file (Lab4)
  FileLen,    \* units in the file
  PIPE,       \* units the kernel holds between server and client
  READ,       \* units one read() of a client can return (its 512 bytes)
  OPEN_MAX    \* connections the parent may have open

ASSUME ConstantsAssumption ==
  /\ NoClient \notin Clients
  /\ Loopers \subseteq Clients
  /\ IsFiniteSet(Clients)
  /\ {FileLen, PIPE, READ, OPEN_MAX} \subseteq Nat \ {0}

VARIABLES
  ppc,           \* where the parent is in its loop
  connected_fd,  \* the connection accepted last
  held,          \* connections the parent has a descriptor of
  child,         \* the child made for each connection
  sent,          \* units sendfile() has handed to the kernel
  backlog,       \* connections waiting for accept()
  conn,          \* the state of each connection
  pipe,          \* units on their way to the client
  cpc,           \* where each client is
  got            \* units each client has read

server  == <<ppc, connected_fd, held, child>>
clients == <<cpc, got>>
vars    == <<server, sent, backlog, conn, pipe, clients>>

-----------------------------------------------------------------------------

Waits(c) == \E n \in DOMAIN backlog : backlog[n] = c

\* The child of c has the connection open.
ChildHolds(c) == child[c] \in {"start", "send"}

\* Mutant: closing one descriptor ends the connection, as shutdown() would.
FinAtFirstClose(c) == /\ ~ Waits(c)
                      /\ c \notin held \/ ~ ChildHolds(c)

\* No process of the server has c's connection open any more.
FinSent(c) == /\ ~ Waits(c)
              /\ c \notin held
              /\ ~ ChildHolds(c)

Init ==
  /\ ppc = "accept" /\ connected_fd = NoClient /\ held = {}
  /\ child = [c \in Clients |-> "none"]
  /\ sent = [c \in Clients |-> 0]
  /\ backlog = << >>
  /\ conn = [c \in Clients |-> "none"]
  /\ pipe = [c \in Clients |-> 0]
  /\ cpc = [c \in Clients |-> "start"]
  /\ got = [c \in Clients |-> 0]

-----------------------------------------------------------------------------
(* tcp_fork_server: the parent.                                             *)

Accept ==
  /\ ppc = "accept"
  /\ backlog # << >>
  /\ Cardinality(held) < OPEN_MAX
  /\ connected_fd' = Head(backlog)
  /\ held' = held \cup {Head(backlog)}
  /\ backlog' = Tail(backlog)
  /\ ppc' = "fork"
  /\ UNCHANGED <<child, sent, conn, pipe, clients>>

\* exit() of the parent: the kernel closes what it held, the queue included.
ParentExits ==
  /\ ppc' = "ended" /\ held' = {} /\ backlog' = << >>
  /\ UNCHANGED <<connected_fd, child, sent, conn, pipe, clients>>

\* The Accept wrapper ends the program when accept() fails.
AcceptFails ==
  /\ ppc = "accept"
  /\ backlog # << >>
  /\ Cardinality(held) >= OPEN_MAX
  /\ ParentExits

Fork ==
  /\ ppc = "fork"
  /\ child' = [child EXCEPT ![connected_fd] = "start"]
  /\ ppc' = "parent"
  /\ UNCHANGED <<connected_fd, held, sent, backlog, conn, pipe, clients>>

\* fork() < 0: perror(), and on to the next accept() with the connection open.
\* It may fail at any time, and does when the zombies of children nobody waits
\* for have used up the processes a user may have.
ForkFails ==
  /\ ppc = "fork"
  /\ ppc' = "accept"
  /\ UNCHANGED <<connected_fd, held, child, sent, backlog, conn, pipe, clients>>

\* Mutant: the parent does not close its copy.
ParentKeepsIt ==
  /\ ppc = "parent"
  /\ conn[connected_fd] # "reset"
  /\ ppc' = "accept"
  /\ UNCHANGED <<connected_fd, held, child, sent, backlog, conn, pipe, clients>>

\* getpeername() succeeds; the parent closes its copy of the descriptor.
ParentCloses ==
  /\ ppc = "parent"
  /\ conn[connected_fd] # "reset"
  /\ held' = held \ {connected_fd}
  /\ ppc' = "accept"
  /\ UNCHANGED <<connected_fd, child, sent, backlog, conn, pipe, clients>>

\* getpeername() of a connection that was reset fails: err_sys().
PeerIsGone ==
  /\ ppc = "parent"
  /\ conn[connected_fd] = "reset"
  /\ ParentExits

-----------------------------------------------------------------------------
(* tcp_fork_server: the child of c.                                         *)

\* close(listen_fd), open() and fstat().
ChildOpens(c) ==
  /\ child[c] = "start"
  /\ child' = [child EXCEPT ![c] = "send"]
  /\ UNCHANGED <<ppc, connected_fd, held, sent, backlog, conn, pipe, clients>>

\* open() fails; the child goes on, sendfile() fails and err_quit() follows.
ChildHasNoFile(c) ==
  /\ child[c] = "start"
  /\ child' = [child EXCEPT ![c] = "failed"]
  /\ UNCHANGED <<ppc, connected_fd, held, sent, backlog, conn, pipe, clients>>

\* Mutant: the size of the file is not looked at.
SendFilePastEnd(c) ==
  /\ child[c] = "send"
  /\ conn[c] = "up"
  /\ pipe[c] < PIPE
  /\ sent' = [sent EXCEPT ![c] = @ + 1]
  /\ pipe' = [pipe EXCEPT ![c] = @ + 1]
  /\ UNCHANGED <<server, backlog, conn, clients>>

\* Inside sendfile(): the kernel takes a unit when it has room.  A client that
\* closed answers with a RST; the time that takes is not modelled.
SendFile(c) ==
  /\ child[c] = "send"
  /\ sent[c] < FileLen
  /\ sent' = [sent EXCEPT ![c] = @ + 1]
  /\ \/ /\ conn[c] = "up"
        /\ pipe[c] < PIPE
        /\ pipe' = [pipe EXCEPT ![c] = @ + 1]
        /\ UNCHANGED conn
     \/ /\ conn[c] = "left"
        /\ conn' = [conn EXCEPT ![c] = "reset"]
        /\ UNCHANGED pipe
  /\ UNCHANGED <<server, backlog, clients>>

\* sendfile() has moved the whole file: close() and exit(0).
ChildDone(c) ==
  /\ child[c] = "send"
  /\ sent[c] = FileLen
  /\ child' = [child EXCEPT ![c] = "exited"]
  /\ UNCHANGED <<ppc, connected_fd, held, sent, backlog, conn, pipe, clients>>

\* sendfile() returns before the end of the file, because of the kernel's limit
\* for one call, of a file that has shrunk since fstat(), or of a connection that
\* was reset meanwhile.  Anything but -1 counts as success: close() and exit(0).
ChildCutShort(c) ==
  /\ child[c] = "send"
  /\ sent[c] < FileLen
  /\ child' = [child EXCEPT ![c] = "cut"]
  /\ UNCHANGED <<ppc, connected_fd, held, sent, backlog, conn, pipe, clients>>

\* sendfile() fails on a connection that was reset, by -1 and err_quit() or by
\* SIGPIPE.
ChildFails(c) ==
  /\ child[c] = "send"
  /\ conn[c] = "reset"
  /\ child' = [child EXCEPT ![c] = "failed"]
  /\ UNCHANGED <<ppc, connected_fd, held, sent, backlog, conn, pipe, clients>>

-----------------------------------------------------------------------------
(* The clients.                                                             *)

\* tcp_easy_connect: the kernel completes the handshake.
ClientConnects(c) ==
  /\ cpc[c] = "start"
  /\ ppc # "ended"
  /\ cpc' = [cpc EXCEPT ![c] = "read"]
  /\ conn' = [conn EXCEPT ![c] = "up"]
  /\ backlog' = Append(backlog, c)
  /\ UNCHANGED <<server, sent, pipe, got>>

\* dump_socket_to_stdout: read() returns data.  The Lab4 client goes on until
\* read() returns no more; the for(;;) of the Lab2 client returns at once.
ClientReads(c, n) ==
  /\ cpc[c] = "read"
  /\ n <= pipe[c] /\ n <= READ
  /\ got' = [got EXCEPT ![c] = @ + n]
  /\ pipe' = [pipe EXCEPT ![c] = @ - n]
  /\ cpc' = [cpc EXCEPT ![c] = IF c \in Loopers THEN "read" ELSE "close"]
  /\ UNCHANGED <<server, sent, backlog, conn>>

\* read() returns 0, or -1 when the server closed without accepting.
ClientSeesEof(c) ==
  /\ cpc[c] = "read"
  /\ pipe[c] = 0
  /\ FinSent(c)
  /\ cpc' = [cpc EXCEPT ![c] = "saw_eof"]
  /\ UNCHANGED <<server, sent, backlog, conn, pipe, got>>

\* The client is interrupted by its user.
ClientQuits(c) ==
  /\ cpc[c] = "read"
  /\ cpc' = [cpc EXCEPT ![c] = "close"]
  /\ UNCHANGED <<server, sent, backlog, conn, pipe, got>>

\* close(): with unread data the kernel sends a RST instead of a FIN.
ClientCloses(c) ==
  /\ cpc[c] = "close"
  /\ cpc' = [cpc EXCEPT ![c] = "closed"]
  /\ conn' = [conn EXCEPT ![c] = IF pipe[c] > 0 THEN "reset" ELSE "left"]
  /\ pipe' = [pipe EXCEPT ![c] = 0]
  /\ UNCHANGED <<server, sent, backlog, got>>

-----------------------------------------------------------------------------

ParentStep == Accept \/ AcceptFails \/ Fork \/ ForkFails \/ ParentCloses \/ PeerIsGone

ChildStep(c) ==
  \/ ChildOpens(c) \/ ChildHasNoFile(c) \/ SendFile(c)
  \/ ChildDone(c) \/ ChildCutShort(c) \/ ChildFails(c)

ClientStep(c) ==
  (\E n \in 1 .. READ : ClientReads(c, n)) \/ ClientSeesEof(c) \/ ClientCloses(c)

Next ==
  \/ ParentStep
  \/ \E c \in Clients :
       ChildStep(c) \/ ClientStep(c) \/ ClientConnects(c) \/ ClientQuits(c)

Spec == Init /\ [][Next]_vars

\* Every process that can run does.  Nobody has to connect or to quit.
Fairness ==
  /\ WF_vars(ParentStep)
  /\ \A c \in Clients : WF_vars(ChildStep(c)) /\ WF_vars(ClientStep(c))

FairSpec == Spec /\ Fairness

-----------------------------------------------------------------------------
(* Properties.                                                              *)

TypeOK ==
  /\ ppc \in {"accept", "fork", "parent", "ended"}
  /\ connected_fd \in Clients \cup {NoClient}
  /\ held \subseteq Clients
  /\ child \in [Clients -> {"none", "start", "send", "exited", "cut", "failed"}]
  /\ sent \in [Clients -> 0 .. FileLen]
  /\ backlog \in Seq(Clients)
  /\ conn \in [Clients -> {"none", "up", "left", "reset"}]
  /\ pipe \in [Clients -> 0 .. PIPE]
  /\ cpc \in [Clients -> {"start", "read", "close", "saw_eof", "closed"}]
  /\ got \in [Clients -> 0 .. FileLen]

\* Safety: what a client has when it sees the end is what the child sent, to the
\* last unit: the copy of the descriptor the parent closes, perhaps while the
\* child is still sending, must not end the connection, and no client sees the
\* end while its child may go on.  It is the whole file unless the child had no
\* file, none was made, or sendfile() stopped early, which send_file_to_socket
\* does not look for.
EofMeansAllSent ==
  \A c \in Clients : cpc[c] = "saw_eof" =>
    /\ got[c] = sent[c]
    /\ child[c] \in {"exited", "cut", "failed", "none"}
    /\ child[c] = "exited" => got[c] = FileLen

\* fork() failed for c, and the parent went on without closing c's connection.
Forgotten(c) == ppc = "accept" /\ c \in held /\ child[c] = "none"

\* Liveness: no client is left waiting but one that was forgotten.  Two
\* processes have to close a connection, in any order, for its client to see
\* the end; that the parent runs out of descriptors, or dies, keeps nobody who
\* has a child from being served.
NobodyLeftWaiting ==
  \A c \in Clients : cpc[c] = "read" ~> cpc[c] \in {"saw_eof", "closed"} \/ Forgotten(c)
=============================================================================
