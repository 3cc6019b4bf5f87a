------------------------------ MODULE IcmpDaemon ------------------------------
(***************************************************************************)
(* icmpd and its clients.  A client (icmpd/dgcli01.c) binds a UDP socket,  *)
(* connects to the daemon, passes it the socket's descriptor and waits for *)
(* one byte; from then on it asks its questions, and looks at the          *)
(* connection for errors while it waits.  The daemon (icmpd.c and its      *)
(* readable_*.c) waits for connections, for ICMP messages about either     *)
(* family and for its clients, and writes each ICMP error to the clients   *)
(* whose port it is about.                                                 *)
(*                                                                         *)
(* A port is a number that tells its family.  An error is the port it is   *)
(* about; answers to the questions are left out, and so are ICMP messages  *)
(* about something else, which are only read.  One that is too short ends  *)
(* the daemon.                                                             *)
(***************************************************************************)
EXTENDS Integers, Sequences, FiniteSets

CONSTANTS
  Clients, NoClient,
  Ports4, Ports6,    \* UDP ports of the two families
  FD_SETSIZE,        \* entries of client[]
  Asks,              \* questions of a client at most
  Shorts,            \* sockets that get ICMP messages that are too short
  RCVBUF,            \* ICMP messages the sockets hold, before more are lost
  SNDBUF             \* messages a connection holds, before write() waits

Ports == Ports4 \cup Ports6
\* The bytes '1' and '0', and an ICMP message that is too short: no ports.
OK    == 0
NO    == -1
Short == 0

ASSUME ConstantsAssumption ==
  /\ NoClient \notin Clients /\ IsFiniteSet(Clients)
  /\ Ports4 \cap Ports6 = {} /\ Ports \subseteq Nat \ {0}
  /\ Shorts \subseteq {"fd4", "fd6"}
  /\ FD_SETSIZE \in Nat \ {0} /\ Asks \in Nat /\ RCVBUF \in Nat /\ SNDBUF \in Nat \ {0}
  /\ (Clients \cup {NoClient}) \cap {"listenfd", "fd4", "fd6"} = {}

VARIABLES
  cpc, port, asked,     \* each client: its place, the port of its UDP socket, its questions
  passed,               \* clients whose descriptor is on its way to the daemon
  unread,               \* what the daemon has written to each client: OK or NO, and errors
  conn,                 \* each connection: "none", "open", or "closed" by the daemon
  backlog,              \* connections that wait for accept()
  raw,                  \* ICMP messages in the sockets fd4 and fd6, or on their way there
  connfd, lport, maxi,  \* client[] and the highest entry used
  dpc, rset, nready, i, \* the daemon's place, what its select() returned, its loop
  report,               \* the error it is telling its clients of, or 0
  known                 \* clients the daemon has registered

clients == <<cpc, port, asked>>
wires   == <<passed, unread, conn, backlog>>
table   == <<connfd, lport, maxi>>
turn    == <<dpc, rset, nready, i, report>>
vars == <<clients, wires, raw, table, turn, known>>

Slots == 1 .. FD_SETSIZE
Used  == {s \in Slots : connfd[s] # NoClient}
Family(p) == IF p \in Ports4 THEN "fd4" ELSE "fd6"
Down == dpc = "down"
Left(c) == cpc[c] = "left"
ConnDead(c) == Down \/ conn[c] = "closed"

Init ==
  /\ cpc = [c \in Clients |-> "off"] /\ port = [c \in Clients |-> 0] /\ asked = [c \in Clients |-> 0]
  /\ passed = {} /\ unread = [c \in Clients |-> <<>>] /\ conn = [c \in Clients |-> "none"] /\ backlog = <<>>
  /\ raw = [f \in {"fd4", "fd6"} |-> <<>>]
  /\ connfd = [s \in Slots |-> NoClient] /\ lport = [s \in Slots |-> 0] /\ maxi = 0
  /\ dpc = "select" /\ rset = {} /\ nready = 0 /\ i = 1
  /\ report = 0 /\ known = {}

------------------------------ (* The clients *) ------------------------------
\* A descriptor on its way holds the port as well.
InUse == {port[c] : c \in {d \in Clients : cpc[d] \notin {"off", "left"}} \cup passed}

Connect(c) ==
  /\ cpc[c] = "off" /\ ~ Down
  /\ \E p \in Ports \ InUse : port' = [port EXCEPT ![c] = p]
  /\ cpc' = [cpc EXCEPT ![c] = "connected"]
  /\ conn' = [conn EXCEPT ![c] = "open"] /\ backlog' = Append(backlog, c)
  /\ UNCHANGED <<asked, passed, unread, raw, table, turn, known>>

Go(c, place) == cpc' = [cpc EXCEPT ![c] = place]

WriteFd(c) ==
  /\ cpc[c] = "connected"
  /\ IF ConnDead(c) THEN Go(c, "left") /\ UNCHANGED passed
                    ELSE Go(c, "registering") /\ passed' = passed \cup {c}
  /\ UNCHANGED <<port, asked, unread, conn, backlog, raw, table, turn, known>>

\* Mutant: any byte counts as '1'.
ReadAnyAnswer(c) ==
  /\ cpc[c] = "registering" /\ unread[c] # <<>>
  /\ Go(c, "fgets") /\ unread' = [unread EXCEPT ![c] = Tail(@)]
  /\ UNCHANGED <<port, asked, passed, conn, backlog, raw, table, turn, known>>

\* One byte is read.  If it is not '1', or there is none, the client gives up,
\* with the rest of it unread.
ReadAnswer(c) ==
  /\ cpc[c] = "registering"
  /\ unread[c] # <<>> \/ ConnDead(c)
  /\ IF unread[c] # <<>> /\ Head(unread[c]) = OK
     THEN Go(c, "fgets") /\ unread' = [unread EXCEPT ![c] = Tail(@)]
     ELSE Go(c, "left") /\ UNCHANGED unread
  /\ UNCHANGED <<port, asked, passed, conn, backlog, raw, table, turn, known>>

\* A question may cause an ICMP error, which may come when the client has left.
Ask(c) ==
  /\ cpc[c] = "fgets" /\ asked[c] < Asks
  /\ asked' = [asked EXCEPT ![c] = @ + 1]
  /\ \/ UNCHANGED raw
     \/ /\ ~ Down /\ Len(raw[Family(port[c])]) < RCVBUF
        /\ raw' = [raw EXCEPT ![Family(port[c])] = Append(@, port[c])]
  /\ Go(c, "select")
  /\ UNCHANGED <<port, wires, table, turn, known>>

\* select() returns because of an answer, a timeout or an error; the end of the
\* connection ends the client.
SelectReturns(c) ==
  /\ cpc[c] = "select"
  /\ IF unread[c] # <<>>
     THEN Go(c, "fgets") /\ unread' = [unread EXCEPT ![c] = Tail(@)]
     ELSE cpc' \in {[cpc EXCEPT ![c] = r] : r \in IF ConnDead(c) THEN {"left"} ELSE {"fgets"}} /\ UNCHANGED unread
  /\ UNCHANGED <<port, asked, passed, conn, backlog, raw, table, turn, known>>

\* The input ends, or the user interrupts the client.
Leave(c) ==
  /\ cpc[c] \notin {"off", "left"}
  /\ Go(c, "left")
  /\ UNCHANGED <<port, asked, wires, raw, table, turn, known>>

\* The next client, once the daemon has noticed that this one has left.
Again(c) ==
  /\ Left(c) /\ conn[c] = "closed" /\ c \notin passed
  /\ Go(c, "off")
  /\ port' = [port EXCEPT ![c] = 0] /\ asked' = [asked EXCEPT ![c] = 0]
  /\ unread' = [unread EXCEPT ![c] = <<>>] /\ conn' = [conn EXCEPT ![c] = "none"]
  /\ known' = known \ {c}
  /\ UNCHANGED <<passed, backlog, raw, table, turn>>

\* Somebody sends an ICMP message that is too short.
ShortArrives(f) ==
  /\ ~ Down /\ Len(raw[f]) < RCVBUF
  /\ raw' = [raw EXCEPT ![f] = Append(@, Short)]
  /\ UNCHANGED <<clients, wires, table, turn, known>>

ClientStep(c) == WriteFd(c) \/ ReadAnswer(c) \/ Ask(c) \/ SelectReturns(c)

------------------------------- (* The daemon *) ------------------------------
Readable ==
  {f \in {"listenfd"} : backlog # <<>>} \cup {f \in {"fd4", "fd6"} : raw[f] # <<>>}
  \cup {c \in {connfd[s] : s \in Used} : c \in passed \/ Left(c)}

Select ==
  /\ dpc = "select" /\ Readable # {}
  /\ rset' = Readable /\ nready' = Cardinality(Readable) /\ dpc' = "listenfd" /\ i' = 1
  /\ UNCHANGED <<clients, wires, raw, table, report, known>>

\* A handler returns --nready, and when that is 0 main() goes back to select().
Handled(next) ==
  /\ nready' = nready - 1
  /\ dpc' = IF nready' <= 0 THEN "select" ELSE next
  /\ UNCHANGED rset

After(f) == CASE f = "listenfd" -> "fd4" [] f = "fd4" -> "fd6" [] f = "fd6" -> "conns"

Skip(f) ==
  /\ dpc = f /\ f \notin rset
  /\ dpc' = After(f)
  /\ UNCHANGED <<clients, wires, raw, table, rset, nready, i, report, known>>

Lowest(S) == CHOOSE s \in S : \A t \in S : s <= t
\* Mutant: maxi becomes the last entry given out.
Second(a, b) == b
Greater(a, b) == IF a > b THEN a ELSE b

\* An entry keeps the port of the client who had it before.
readable_listen ==
  /\ dpc = "listenfd" /\ "listenfd" \in rset
  /\ LET c == Head(backlog) IN
       IF Used = Slots
       THEN conn' = [conn EXCEPT ![c] = "closed"] /\ UNCHANGED <<connfd, maxi>>
       ELSE LET s == Lowest(Slots \ Used) IN
              connfd' = [connfd EXCEPT ![s] = c] /\ maxi' = Greater(s, maxi) /\ UNCHANGED conn
  /\ backlog' = Tail(backlog)
  /\ Handled("fd4")
  /\ UNCHANGED <<clients, passed, unread, raw, lport, i, report, known>>

Room(c) == Left(c) \/ Len(unread[c]) < SNDBUF

\* write(): to a client that has left it raises SIGPIPE, one that does not read
\* makes it wait.
Write(c, what) ==
  /\ Room(c)
  /\ unread' = IF Left(c) THEN unread ELSE [unread EXCEPT ![c] = Append(@, what)]

ReadIcmp(f) ==
  /\ dpc = f /\ f \in rset /\ report = 0
  /\ raw' = [raw EXCEPT ![f] = Tail(@)]
  /\ IF Head(raw[f]) = Short THEN dpc' = "down" /\ UNCHANGED report
                             ELSE report' = Head(raw[f]) /\ UNCHANGED dpc
  /\ UNCHANGED <<clients, wires, table, rset, nready, i, known>>

\* Mutant: the loop stops before maxi.
TargetsButLast == {s \in Used : i <= s /\ s < maxi /\ lport[s] = report}

\* The entries from i on that the error is written to.
Targets == {s \in Used : i <= s /\ s <= maxi /\ lport[s] = report}

Tell(f) ==
  /\ dpc = f /\ report # 0 /\ Targets # {}
  /\ LET c == connfd[Lowest(Targets)] IN
       /\ Write(c, report)
       /\ IF Left(c) THEN dpc' = "down" /\ UNCHANGED i
                     ELSE i' = Lowest(Targets) + 1 /\ UNCHANGED dpc
  /\ UNCHANGED <<clients, passed, conn, backlog, raw, table, rset, nready, report, known>>

AllTold(f) ==
  /\ dpc = f /\ report # 0 /\ Targets = {}
  /\ report' = 0 /\ i' = 1
  /\ Handled(After(f))
  /\ UNCHANGED <<clients, wires, raw, table, known>>

readable_icmp(f) == ReadIcmp(f) \/ Tell(f) \/ AllTold(f)

OtherConn ==
  /\ dpc = "conns"
  /\ IF i > maxi THEN dpc' = "select" /\ UNCHANGED i
     ELSE connfd[i] \notin rset /\ i' = i + 1 /\ UNCHANGED dpc
  /\ UNCHANGED <<clients, wires, raw, table, rset, nready, report, known>>

\* readable_conn, when a descriptor comes ...
Registers ==
  /\ dpc = "conns" /\ i <= maxi /\ connfd[i] \in rset \cap passed
  /\ LET c == connfd[i] IN
       /\ Write(c, OK)
       /\ passed' = passed \ {c}
       /\ IF Left(c)
          THEN dpc' = "down" /\ UNCHANGED <<lport, rset, nready, known>>
          ELSE /\ lport' = [lport EXCEPT ![i] = port[c]] /\ known' = known \cup {c}
               /\ Handled("conns")
  /\ i' = i + 1
  /\ UNCHANGED <<clients, conn, backlog, raw, connfd, maxi, report>>

\* ... when it does not come, because the daemon has no descriptor left for it
\* or its port cannot be found out ...
Rejects ==
  /\ dpc = "conns" /\ i <= maxi /\ connfd[i] \in rset \cap passed
  /\ LET c == connfd[i] IN
       /\ Write(c, NO)
       /\ passed' = passed \ {c}
       /\ IF Left(c)
          THEN dpc' = "down" /\ UNCHANGED <<connfd, conn, rset, nready>>
          ELSE /\ connfd' = [connfd EXCEPT ![i] = NoClient] /\ conn' = [conn EXCEPT ![c] = "closed"]
               /\ Handled("conns")
  /\ i' = i + 1
  /\ UNCHANGED <<clients, backlog, raw, lport, maxi, report, known>>

\* ... and when the client has left.  If it has left something unread, the
\* read may fail instead of returning 0, and Read_fd ends the daemon.
Unregisters ==
  /\ dpc = "conns" /\ i <= maxi /\ connfd[i] \in rset \ passed
  /\ LET c == connfd[i] IN
       \/ /\ connfd' = [connfd EXCEPT ![i] = NoClient] /\ conn' = [conn EXCEPT ![c] = "closed"]
          /\ Handled("conns")
       \/ /\ unread[c] # <<>>
          /\ dpc' = "down" /\ UNCHANGED <<connfd, conn, rset, nready>>
  /\ i' = i + 1
  /\ UNCHANGED <<clients, passed, unread, backlog, raw, lport, maxi, report, known>>

Daemon ==
  \/ Select \/ readable_listen \/ OtherConn \/ Registers \/ Rejects \/ Unregisters
  \/ \E f \in {"listenfd", "fd4", "fd6"} : Skip(f)
  \/ \E f \in {"fd4", "fd6"} : readable_icmp(f)

Next ==
  \/ Daemon
  \/ \E f \in Shorts : ShortArrives(f)
  \/ \E c \in Clients : ClientStep(c) \/ Connect(c) \/ Leave(c) \/ Again(c)

Spec == Init /\ [][Next]_vars

\* The daemon and the clients are scheduled; the users owe nobody a question.
Fairness ==
  /\ WF_vars(Daemon)
  /\ \A c \in Clients : WF_vars(WriteFd(c)) /\ WF_vars(ReadAnswer(c)) /\ WF_vars(SelectReturns(c))

FairSpec == Spec /\ Fairness

------------------------------ (* Properties *) -------------------------------
\* The table agrees with the connections: each is in one entry, entries in use
\* are within maxi, and a registered client's entry has its port; and the count
\* with which main() leaves its loop early counts exactly the descriptors that
\* are ready and not yet looked at (icmpd.c:39-63).
Later == CASE dpc = "listenfd" -> {"listenfd", "fd4", "fd6"} [] dpc = "fd4" -> {"fd4", "fd6"}
           [] dpc = "fd6" -> {"fd6"} [] OTHER -> {}
Ahead == IF dpc = "conns" THEN i .. maxi ELSE Slots
TableAgrees ==
  /\ \A s, t \in Used : connfd[s] = connfd[t] => s = t
  /\ \A s \in Used : s <= maxi /\ (connfd[s] \in known => lport[s] = port[connfd[s]])
  /\ dpc \notin {"select", "down"} =>
       nready = Cardinality(rset \cap (Later \cup {connfd[s] : s \in {t \in Used : t \in Ahead}}))

\* Who has got the answer OK is registered, and is told of errors about its own
\* port only: what an entry's former owner is still told, as the entry keeps
\* his port, comes before the answer and makes the new client give up
\* (readable_v4.c:56-59, readable_conn.c:34-42, dgcli01.c:22-25).
TalkIsOwn ==
  \A c \in Clients : cpc[c] \in {"fgets", "select"} =>
    /\ c \in known
    /\ \A k \in 1 .. Len(unread[c]) : unread[c][k] = port[c]

\* While the daemon is up and does not wait for a client that does not read,
\* who passes a descriptor gets an answer, and every error about the port of a
\* registered client is written to it.
Pending(p) == \E k \in 1 .. Len(raw[Family(p)]) : raw[Family(p)][k] = p
Told(c)    == \E k \in 1 .. Len(unread[c]) : unread[c][k] = port[c]
Full       == \E c \in Clients : ~ Room(c)
ClientsAreServed ==
  \A c \in Clients :
    /\ cpc[c] = "registering" ~> (cpc[c] # "registering" \/ Full)
    /\ (c \in known /\ Pending(port[c])) ~> (Told(c) \/ Left(c) \/ Down \/ Full)
===============================================================================
