---------------------------- MODULE ChatClients -----------------------------
(***************************************************************************)
(* The chat server together with its real clients, Lab3/chatclient.c.      *)
(*                                                                         *)
(* ChatServer lets chatters write and read whenever they like.  Here each  *)
(* of them is a program with one thread: chatUser waits in select() for    *)
(* its socket and its terminal, deals with one of the two, and does        *)
(* nothing else while it waits for a write() to return.                    *)
(***************************************************************************)
EXTENDS ChatServer

CONSTANTS
  Line,       \* what each user types again and again, as the stream that is sent
  MaxTyped,   \* bound on the lines, for each user
  MaxStarts,  \* bound on how often each user starts the client
  Piped       \* clients whose input is not a terminal and ends after that

ASSUME LineAssumption ==
  /\ \A c \in Clients : Line[c] \in Says[c] /\ MaxTyped[c] \in Nat /\ MaxStarts[c] \in Nat
  /\ Piped \subseteq Clients

VARIABLES
  cpc,        \* where chatUser is for each client; "off" when it does not run
  typed,      \* lines each user has still to type
  starts      \* how often each user will still start the client

user  == <<cpc, typed, starts>>
cvars == <<vars, user>>

ClientsInit ==
  /\ Init
  /\ cpc = [c \in Clients |-> "off"]
  /\ typed = [c \in Clients |-> MaxTyped[c]]
  /\ starts = [c \in Clients |-> MaxStarts[c]]

\* The connection is closed at the server's end.
ServerGone(c) == conn[c] = "refused" \/ Down

SocketReady(c) == outq[c] # << >> \/ ServerGone(c)
StdinReady(c)  == typed[c] > 0 \/ c \in Piped

\* socket() and connect().
ClientStarts(c) ==
  /\ cpc[c] = "off"
  /\ ~ Down
  /\ starts[c] > 0
  /\ Connect(c)
  /\ cpc' = [cpc EXCEPT ![c] = "select"]
  /\ starts' = [starts EXCEPT ![c] = @ - 1]
  /\ UNCHANGED typed

\* Mutant: the terminal goes first.
SocketAfterStdin(c) ==
  /\ cpc[c] = "select"
  /\ ~ StdinReady(c)
  /\ outq[c] # << >>
  /\ Take(c, Len(outq[c]))
  /\ UNCHANGED user

\* select() finds the socket ready, which goes first: read() returns what there
\* is, and it is shown.  A return of 0 or -1 is not looked at, and the client
\* is back in select() as it was.
ClientReadsSocket(c) ==
  /\ cpc[c] = "select"
  /\ outq[c] # << >>
  /\ Take(c, Len(outq[c]))
  /\ UNCHANGED user

\* select() finds the terminal ready and the socket not: read() returns a line,
\* which is to be written.  At the end of a file it returns 0, which is not
\* looked at either.
ClientReadsStdin(c) ==
  /\ cpc[c] = "select"
  /\ ~ SocketReady(c)
  /\ StdinReady(c)
  /\ IF typed[c] > 0
     THEN /\ typed' = [typed EXCEPT ![c] = @ - 1]
          /\ cpc' = [cpc EXCEPT ![c] = "write"]
     ELSE UNCHANGED <<cpc, typed>>
  /\ UNCHANGED <<vars, starts>>

\* write() returns when the kernel has room for the line.
ClientWrites(c) ==
  /\ cpc[c] = "write"
  /\ Arrive(c, Line[c])
  /\ cpc' = [cpc EXCEPT ![c] = "select"]
  /\ UNCHANGED <<typed, starts>>

\* write() to a connection the server closed: the first is answered by a RST,
\* and one after that raises SIGPIPE.
ClientWritesInVain(c) ==
  /\ cpc[c] = "write"
  /\ ServerGone(c)
  /\ \/ cpc' = [cpc EXCEPT ![c] = "select"] /\ UNCHANGED vars
     \/ cpc' = [cpc EXCEPT ![c] = "off"] /\ HangUp(c)
  /\ UNCHANGED <<typed, starts>>

\* The only way out of for(;;): the user ends the program.
UserQuits(c) ==
  /\ cpc[c] # "off"
  /\ HangUp(c)
  /\ cpc' = [cpc EXCEPT ![c] = "off"]
  /\ UNCHANGED <<typed, starts>>

ChatUser(c) ==
  \/ ClientReadsSocket(c) \/ ClientReadsStdin(c)
  \/ ClientWrites(c) \/ ClientWritesInVain(c)

ClientsNext ==
  \/ ServerStep /\ UNCHANGED user
  \/ \E c \in Clients :
       \/ ClientStarts(c) \/ ChatUser(c) \/ UserQuits(c)
       \/ RstArrives(c) /\ UNCHANGED user

\* The server and every client run when they can, and a RST gets through.
ClientsFairness ==
  /\ WF_cvars(ServerStep /\ UNCHANGED user)
  /\ WF_cvars(\E c \in Clients : RstArrives(c) /\ UNCHANGED user)
  /\ \A c \in Clients : WF_cvars(ChatUser(c))

ClientsSpec == ClientsInit /\ [][ClientsNext]_cvars /\ ClientsFairness

-----------------------------------------------------------------------------
(* Properties.                                                              *)

\* c is in write() and its socket is full both ways: c comes to read again
\* only when the server has read, or not at all.
Wedged(c) ==
  /\ cpc[c] = "write" /\ conn[c] = "open"
  /\ Len(inq[c]) + Len(Line[c]) > RCVBUF
  /\ Len(outq[c]) = SNDBUF

\* The deadlock the two programs are open to: the server, too, is in write(),
\* to that client.  Only the client's user can end it.
BothWrite ==
  \/ pc = "reply" /\ Wedged(Chatter(i))
  \/ RelayTarget /\ FdAt(j) # WildFd /\ Wedged(Chatter(j))

\* The server has ended, or stands in that deadlock for good.
Stuck == <>[](Down \/ BothWrite)

\* Liveness: the server gets to the end of a relay or a reply, and from there
\* back to its other chatters (lines 271-274 of chatserver.c: "send the data in
\* outbuff to all the other chatter except the sender").  Whatever a client
\* does, only a client in write() can keep it for ever, never one that is slow
\* to read, quits or is reset.
RelayEnds == Stuck \/ (pc \in {"relay", "reply"} ~> pc \notin {"relay", "reply"})

\* Liveness: what a chatter wrote is read, also when seats before it empty and
\* the scan steps over it.
LinesAreRead ==
  Stuck \/ \A c \in Clients : Seated(c) /\ inq[c] # << >> ~> inq[c] = << >>

\* Liveness: whoever connects gets an answer, a welcome or CHAT_FULL, however
\* busy the others keep the server.
ArrivalsAreAnswered == Stuck \/ \A c \in Clients : Waits(c) ~> ~ Waits(c)

\* Liveness: a chatter who hung up loses the seat, although what was sent
\* before the end has to be read first.
LeaversAreRemoved == Stuck \/ \A c \in Clients : HungUp(c) ~> ~ HungUp(c)
=============================================================================
