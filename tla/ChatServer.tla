----------------------------- MODULE ChatServer -----------------------------
(***************************************************************************)
(* The select()-driven chat server, Lab3/chatserver.c, together with the   *)
(* part of the kernel it talks to: a listening socket and one TCP          *)
(* connection per chatter.                                                 *)
(*                                                                         *)
(* The server is one thread.  Every action of it stands for the code       *)
(* between two calls that other processes can observe: the return of       *)
(* select(), an accept() with the bookkeeping that follows it, a read()    *)
(* with the handling of what was read, and each single write() of a reply  *)
(* or a relayed line, because a write() may block or kill the process.     *)
(* The chatters and the network act between any two of those steps.        *)
(*                                                                         *)
(* The two tables are adjacent globals (lines 12 and 20; numChats lies     *)
(* before them): in the executable kept next to the source, fd_chats ends  *)
(* where name_chats begins.  The model keeps one cell of name_chats past   *)
(* the end and reads fd_chats[MAX_CHATS] for what it is in that build, the *)
(* first bytes of name_chats[0].                                           *)
(*                                                                         *)
(* Left out: the printf() lines, the wording of messages, the list of      *)
(* names inside the welcome message, and names longer than NAME_SIZE.      *)
(***************************************************************************)
EXTENDS Integers, Sequences, FiniteSets

CONSTANTS
  Clients,    \* the chatters; each has at most one connection at a time
  NoClient,   \* what an unused descriptor refers to
  MAX_CHATS,  \* size of the tables fd_chats and name_chats
  Fds,        \* descriptor numbers the kernel can give to connections
  Texts,      \* what chatters type
  NoText,     \* the text of a chunk that carries none
  Says,       \* pieces of a chatter's byte stream that reach the server as a unit
  RCVBUF,     \* chunks the kernel holds for the server per connection
  SNDBUF      \* messages the kernel holds for a chatter before write() blocks

\* The byte stream is cut into chunks: the command prefix, a run of text, a
\* newline, or the stub that is left of a chunk whose last byte is overwritten.
Chunk == [part : {"cmd", "text", "nl", "stub"}, txt : Texts \cup {NoText}]

ASSUME ConstantsAssumption ==
  /\ NoClient \notin Clients
  /\ MAX_CHATS \in Nat \ {0}
  /\ Fds \subseteq Nat \ {0}
  /\ \A c \in Clients : Says[c] \subseteq Seq(Chunk) \ {<< >>}
  /\ RCVBUF \in Nat \ {0}
  /\ SNDBUF \in Nat \ {0}

ListenFd == 0      \* fd_listen
WildFd   == -1     \* a descriptor number no call ever returned

VARIABLES
  \* the server's globals and the live locals of chatLoop and processChat
  fd_chats, name_chats, numChats, pc, fdCheck, i, j, outbuff,
  \* the kernel: connections waiting for accept(), what a descriptor refers
  \* to, the state of each connection and the data under way on it
  backlog, sock, conn, inq, outq

server == <<fd_chats, name_chats, numChats, pc, fdCheck, i, j, outbuff>>
kernel == <<backlog, sock, conn, inq, outq>>
vars   == <<server, kernel>>

-----------------------------------------------------------------------------
(* Names and messages. A name is the one given on arrival, the rest of a    *)
(* -name= line, or the bytes of a descriptor stored over it.                *)

Name == ({"unknown"} \X Nat) \cup ({"user"} \X Seq(Chunk)) \cup ({"fd"} \X Fds)

Unknown(k) == <<"unknown", k>>
NoName     == <<"user", << >> >>

Message == [kind : {"welcome", "full"}]
             \cup [kind : {"renamed"}, name : Name]
             \cup [kind : {"chat"}, by : Clients, name : Name, body : Seq(Chunk)]

NoMsg      == [kind |-> "none"]
Welcome    == [kind |-> "welcome"]
ChatFull   == [kind |-> "full"]
Renamed(n) == [kind |-> "renamed", name |-> n]
\* "by" is who wrote the line; only the name is sent, "by" is for properties.
Chat(c, n, b) == [kind |-> "chat", by |-> c, name |-> n, body |-> b]

\* buffer[nread-1] = 0: the last byte read is overwritten, whatever it is.
Terminated(s) ==
  LET front == SubSeq(s, 1, Len(s) - 1)
      last  == s[Len(s)]
  IN  IF last.part = "nl" THEN front
      ELSE Append(front, [last EXCEPT !.part = "stub"])

IsNameCommand(buffer) == buffer # << >> /\ buffer[1].part = "cmd"

-----------------------------------------------------------------------------
(* The tables.                                                              *)

Seats == 0 .. (numChats - 1)

\* The descriptor whose bytes are the start of a name.
FdBytes(n) == IF n[1] = "fd" THEN n[2] ELSE WildFd

\* fd_chats[k], also for the index one past the end.
FdAt(k) == IF k < MAX_CHATS THEN fd_chats[k] ELSE FdBytes(name_chats[0])

Registered == {FdAt(k) : k \in Seats}

Chatter(k) == sock[FdAt(k)]

\* Mutant: the flag is not looked at.
AlwaysFlagged(k) == FdAt(k) # WildFd

\* FD_ISSET(fd_chats[k], &fdCheck)
Flagged(k) == FdAt(k) \in fdCheck

\* The peer has gone, with a FIN or a RST the server's kernel has seen.
HungUp(c) == conn[c] \in {"closed", "poked", "reset"}

\* read() on c's connection would not block.
Pending(c) == inq[c] # << >> \/ HungUp(c)

\* c's connection has not been accepted yet.
Waits(c) == \E n \in DOMAIN backlog : backlog[n] = c

OpenFds == {f \in Fds : sock[f] # NoClient}

LowestFree(f) == /\ f \in Fds \ OpenFds
                 /\ \A g \in Fds \ OpenFds : f <= g

\* Mutants: the loop of FD_SET starts at 1; fd_listen is not in the set.
ReadyButFirst == {f \in {FdAt(k) : k \in Seats \ {0}} \cap OpenFds : Pending(sock[f])}
                   \cup (IF backlog # << >> THEN {ListenFd} ELSE {})
ReadyNotListening == {f \in Registered \cap OpenFds : Pending(sock[f])}

Ready == {f \in Registered \cap OpenFds : Pending(sock[f])}
           \cup (IF backlog # << >> THEN {ListenFd} ELSE {})

Init ==
  /\ fd_chats   = [k \in 0 .. (MAX_CHATS - 1) |-> 0]
  /\ name_chats = [k \in 0 .. MAX_CHATS |-> NoName]
  /\ numChats = 0
  /\ pc = "select" /\ fdCheck = {} /\ i = 0 /\ j = 0 /\ outbuff = NoMsg
  /\ backlog = << >>
  /\ sock = [f \in Fds |-> NoClient]
  /\ conn = [c \in Clients |-> "idle"]
  /\ inq  = [c \in Clients |-> << >>]
  /\ outq = [c \in Clients |-> << >>]

-----------------------------------------------------------------------------
(* The kernel's side of write(fd, ...) to c's connection when it returns:   *)
(* the message is queued if there is room; a peer that closed answers with  *)
(* a RST; on a connection already reset the call can fail.                  *)

Write(c, m) ==
  \/ /\ conn[c] = "open"
     /\ Len(outq[c]) < SNDBUF
     /\ outq' = [outq EXCEPT ![c] = Append(@, m)]
     /\ UNCHANGED conn
  \/ /\ conn[c] \in {"closed", "poked"}
     /\ conn' = [conn EXCEPT ![c] = "poked"]
     /\ UNCHANGED outq
  \/ /\ conn[c] = "reset"
     /\ UNCHANGED <<conn, outq>>

-----------------------------------------------------------------------------
(* chatLoop: one turn of for(;;).                                           *)

\* FD_ZERO, FD_SET for the listening socket and every seat, and select().
SelectReturns ==
  /\ pc = "select"
  /\ WildFd \notin Registered
  /\ Ready # {}
  /\ fdCheck' = Ready
  /\ pc' = IF ListenFd \in Ready THEN "accept" ELSE "scan"
  /\ UNCHANGED <<fd_chats, name_chats, numChats, i, j, outbuff, kernel>>

\* FD_SET or FD_ISSET of a number far outside fdCheck reads or writes past
\* the stack: the process is gone, or worse.
WildDescriptor ==
  /\ \/ pc = "select" /\ WildFd \in Registered
     \/ pc = "scan" /\ i \in Seats /\ FdAt(i) = WildFd
  /\ pc' = "undefined"
  /\ UNCHANGED <<fd_chats, name_chats, numChats, fdCheck, i, j, outbuff, kernel>>

\* The test that decides between CHAT_FULL and addChatter.
RoomFull == numChats > MAX_CHATS

\* accept() returns the connection that has waited longest.
Accepted(c) == backlog # << >> /\ c = Head(backlog)

\* accept(), CHAT_FULL, close(): the descriptor is free again at once.
RejectChatter(c) ==
  /\ pc = "accept"
  /\ Accepted(c)
  /\ RoomFull
  /\ backlog' = Tail(backlog)
  /\ conn' = [conn EXCEPT ![c] = IF @ = "open" THEN "refused" ELSE "idle"]
  /\ outq' = [outq EXCEPT ![c] = IF conn[c] = "open" THEN <<ChatFull>> ELSE << >>]
  /\ inq'  = [inq EXCEPT ![c] = << >>]
  /\ pc' = "scan"
  /\ UNCHANGED <<fd_chats, name_chats, numChats, fdCheck, i, j, outbuff, sock>>

\* The two stores of addChatter; past the end, fd_chats lands in name_chats[0].
Seat(f) ==
  /\ numChats' = numChats + 1
  /\ \/ /\ numChats < MAX_CHATS
        /\ name_chats' = [name_chats EXCEPT ![numChats] = Unknown(numChats)]
        /\ fd_chats' = [fd_chats EXCEPT ![numChats] = f]
     \/ /\ numChats = MAX_CHATS
        /\ name_chats' = [name_chats EXCEPT ![MAX_CHATS] = Unknown(MAX_CHATS),
                                            ![0] = <<"fd", f>>]
        /\ UNCHANGED fd_chats

\* accept() and addChatter().  The send buffer is empty: this write() returns.
AddChatter(c) ==
  /\ pc = "accept"
  /\ Accepted(c)
  /\ ~ RoomFull
  /\ backlog' = Tail(backlog)
  /\ \E f \in Fds :
       /\ LowestFree(f)
       /\ sock' = [sock EXCEPT ![f] = c]
       /\ Seat(f)
  /\ Write(c, Welcome)
  /\ pc' = "scan"
  /\ UNCHANGED <<fdCheck, i, j, outbuff, inq>>

\* Mutant: i <= numChats.
ScanSkipTooFar ==
  /\ pc = "scan"
  /\ i \in Seats \cup {numChats}
  /\ FdAt(i) \notin fdCheck
  /\ i' = i + 1
  /\ UNCHANGED <<fd_chats, name_chats, numChats, pc, fdCheck, j, outbuff, kernel>>

\* for (i = 0; i < numChats; i++): a seat that select() did not flag.
ScanSkip ==
  /\ pc = "scan"
  /\ i \in Seats
  /\ FdAt(i) # WildFd
  /\ ~ Flagged(i)
  /\ i' = i + 1
  /\ UNCHANGED <<fd_chats, name_chats, numChats, pc, fdCheck, j, outbuff, kernel>>

\* The end of the scan; fdCheck and the indices are dead from here on.
ScanDone ==
  /\ pc = "scan"
  /\ i \notin Seats
  /\ pc' = "select"
  /\ fdCheck' = {} /\ i' = 0 /\ j' = 0 /\ outbuff' = NoMsg
  /\ UNCHANGED <<fd_chats, name_chats, numChats, kernel>>

\* The seat at i is flagged: read() is called on its descriptor.
Reading ==
  /\ pc = "scan"
  /\ i \in Seats
  /\ FdAt(i) # WildFd
  /\ Flagged(i)

\* What processChat is called with.
Buffer == Terminated(inq[Chatter(i)])

\* processChat of a -name= command: the rest of the buffer is the new name.
ReadName ==
  /\ Reading
  /\ inq[Chatter(i)] # << >>
  /\ IsNameCommand(Buffer)
  /\ name_chats' = [name_chats EXCEPT ![i] = <<"user", Tail(Buffer)>>]
  /\ outbuff' = Renamed(<<"user", Tail(Buffer)>>)
  /\ inq' = [inq EXCEPT ![Chatter(i)] = << >>]
  /\ pc' = "reply"
  /\ UNCHANGED <<fd_chats, numChats, fdCheck, i, j, backlog, sock, conn, outq>>

\* processChat of anything else: outbuff is to go to every other seat.
ReadChat ==
  /\ Reading
  /\ inq[Chatter(i)] # << >>
  /\ ~ IsNameCommand(Buffer)
  /\ outbuff' = Chat(Chatter(i), name_chats[i], Buffer)
  /\ inq' = [inq EXCEPT ![Chatter(i)] = << >>]
  /\ j' = 0
  /\ pc' = "relay"
  /\ UNCHANGED <<fd_chats, name_chats, numChats, fdCheck, i, backlog, sock, conn, outq>>

\* Mutants: the names stay where they are; the loop ends one seat early.
ShiftNoNames(s) == name_chats
ShiftFdsShort(s) ==
  [k \in DOMAIN fd_chats |->
     IF k \in s .. (numChats - 3) THEN fd_chats[k + 1] ELSE fd_chats[k]]

\* The loop of remove_chatter, seat by seat: fd_chats[k] = fd_chats[k+1], then
\* strcpy of the name.  The copy of name 0 precedes the last read of fd_chats.
ShiftNames(s) ==
  [k \in DOMAIN name_chats |->
     IF k \in s .. (numChats - 2) THEN name_chats[k + 1] ELSE name_chats[k]]

ShiftFds(s) ==
  [k \in DOMAIN fd_chats |->
     IF k \notin s .. (numChats - 2) THEN fd_chats[k]
     ELSE IF k + 1 < MAX_CHATS THEN fd_chats[k + 1]
     ELSE FdBytes(IF k = 0 THEN name_chats[0] ELSE ShiftNames(s)[0])]

\* read() returned 0 or -1: remove_chatter(i).  The loop then goes on at i+1.
RemoveChatter ==
  /\ Reading
  /\ inq[Chatter(i)] = << >>
  /\ HungUp(Chatter(i))
  /\ fd_chats' = ShiftFds(i)
  /\ name_chats' = ShiftNames(i)
  /\ numChats' = numChats - 1
  /\ sock' = [sock EXCEPT ![FdAt(i)] = NoClient]
  /\ conn' = [conn EXCEPT ![Chatter(i)] = "idle"]
  /\ outq' = [outq EXCEPT ![Chatter(i)] = << >>]
  /\ i' = i + 1
  /\ UNCHANGED <<pc, fdCheck, j, outbuff, backlog, inq>>

-----------------------------------------------------------------------------
(* The write() calls of processChat.                                        *)

\* "Your name has been changed to", to the chatter who asked.
Reply ==
  /\ pc = "reply"
  /\ Write(Chatter(i), outbuff)
  /\ pc' = "scan" /\ i' = i + 1
  /\ UNCHANGED <<fd_chats, name_chats, numChats, fdCheck, j, outbuff, backlog, sock, inq>>

\* Mutant: the author is not left out.
RelayToAll == pc = "relay" /\ j \in Seats

\* The relay loop at a seat that is written to.
RelayTarget == pc = "relay" /\ j \in Seats /\ j # i

\* if (i == instance) continue, and a descriptor write() rejects with EBADF.
RelaySkip ==
  /\ pc = "relay"
  /\ j \in Seats
  /\ j = i \/ FdAt(j) = WildFd
  /\ j' = j + 1
  /\ UNCHANGED <<fd_chats, name_chats, numChats, pc, fdCheck, i, outbuff, kernel>>

RelayWrite ==
  /\ RelayTarget
  /\ FdAt(j) # WildFd
  /\ Write(Chatter(j), outbuff)
  /\ j' = j + 1
  /\ UNCHANGED <<fd_chats, name_chats, numChats, pc, fdCheck, i, outbuff, backlog, sock, inq>>

RelayDone ==
  /\ pc = "relay"
  /\ j \notin Seats
  /\ pc' = "scan" /\ i' = i + 1
  /\ UNCHANGED <<fd_chats, name_chats, numChats, fdCheck, j, outbuff, kernel>>

\* write() to a connection already reset also raises SIGPIPE, which nothing
\* in the program catches or ignores.
SigPipe ==
  /\ \/ pc = "reply" /\ conn[Chatter(i)] = "reset"
     \/ RelayTarget /\ FdAt(j) # WildFd /\ conn[Chatter(j)] = "reset"
  /\ pc' = "dead"
  /\ UNCHANGED <<fd_chats, name_chats, numChats, fdCheck, i, j, outbuff, kernel>>

-----------------------------------------------------------------------------
(* The chatters and the network.                                            *)

\* connect(): the handshake completes without the server's help.
Connect(c) ==
  /\ conn[c] = "idle"
  /\ conn' = [conn EXCEPT ![c] = "open"]
  /\ backlog' = Append(backlog, c)
  /\ UNCHANGED <<server, sock, inq, outq>>

\* A piece of what c wrote arrives.  TCP keeps no boundaries: a piece may end
\* inside a line, and pieces not read yet are read together.
Arrive(c, s) ==
  /\ conn[c] = "open"
  /\ Len(inq[c]) + Len(s) <= RCVBUF
  /\ inq' = [inq EXCEPT ![c] = @ \o s]
  /\ UNCHANGED <<server, backlog, sock, conn, outq>>

\* c reads the first n messages.
Take(c, n) ==
  /\ conn[c] \in {"open", "refused"}
  /\ outq' = [outq EXCEPT ![c] = SubSeq(@, n + 1, Len(@))]
  /\ UNCHANGED <<server, backlog, sock, conn, inq>>

Consume(c) == \E n \in DOMAIN outq[c] : Take(c, n)

\* close() or exit.  With unread data the kernel sends a RST instead of a FIN.
HangUp(c) ==
  /\ conn[c] \in {"open", "refused"}
  /\ conn' = [conn EXCEPT ![c] = IF @ = "refused" THEN "idle"
                                 ELSE IF outq[c] = << >> THEN "closed"
                                 ELSE "reset"]
  /\ outq' = [outq EXCEPT ![c] = << >>]
  /\ UNCHANGED <<server, backlog, sock, inq>>

\* The answer to data sent to a closed connection comes back.
RstArrives(c) ==
  /\ conn[c] = "poked"
  /\ conn' = [conn EXCEPT ![c] = "reset"]
  /\ UNCHANGED <<server, backlog, sock, inq, outq>>

-----------------------------------------------------------------------------

ServerStep ==
  \/ SelectReturns \/ WildDescriptor
  \/ \E c \in Clients : RejectChatter(c) \/ AddChatter(c)
  \/ ScanSkip \/ ScanDone
  \/ ReadName \/ ReadChat \/ RemoveChatter
  \/ Reply \/ RelaySkip \/ RelayWrite \/ RelayDone
  \/ SigPipe

ChatterStep ==
  \E c \in Clients :
    \/ Connect(c)
    \/ \E s \in Says[c] : Arrive(c, s)
    \/ Consume(c) \/ HangUp(c) \/ RstArrives(c)

Next == ServerStep \/ ChatterStep

Spec == Init /\ [][Next]_vars

-----------------------------------------------------------------------------
(* Properties.                                                              *)

TypeOK ==
  /\ fd_chats \in [0 .. (MAX_CHATS - 1) -> Fds \cup {0, WildFd}]
  /\ name_chats \in [0 .. MAX_CHATS -> Name]
  /\ numChats \in 0 .. (MAX_CHATS + 1)
  /\ pc \in {"select", "accept", "scan", "reply", "relay", "dead", "undefined"}
  /\ fdCheck \subseteq Fds \cup {ListenFd}
  /\ i \in 0 .. (MAX_CHATS + 1)
  /\ j \in 0 .. (MAX_CHATS + 1)
  /\ outbuff \in Message \cup {NoMsg}
  /\ backlog \in Seq(Clients)
  /\ sock \in [Fds -> Clients \cup {NoClient}]
  /\ conn \in [Clients -> {"idle", "open", "closed", "poked", "reset", "refused"}]
  /\ inq \in [Clients -> Seq(Chunk)]
  /\ outq \in [Clients -> Seq(Message)]

\* The program has ended, or no longer follows its source.
Down == pc \in {"dead", "undefined"}

\* Safety: between two calls the table and the kernel agree - every descriptor
\* accept() returned is listed exactly once until it is closed, and nothing
\* else is listed.  addChatter and the compaction in remove_chatter keep it.
TableSound ==
  /\ Registered = OpenFds
  /\ \A k, l \in Seats : k # l => FdAt(k) # FdAt(l)

\* Safety: read() is only called where it returns at once, so that one silent
\* chatter cannot stop the server: the flags of one select() stay true of the
\* seats still to be scanned although accept() hands out descriptors again and
\* remove_chatter moves seats meanwhile.
ReadNeverBlocks == Reading => Pending(Chatter(i))

\* After a step, the chatter at seat l has the name it had, at seat k, before.
NamesKept ==
  \A k \in Seats, l \in Seats' :
    Chatter(k) = Chatter(l)' =>
      \/ name_chats'[l] = name_chats[k]
      \/ ReadName /\ k = i

\* Action: a name belongs to a connection, not to a seat.  Whatever compaction
\* does to the tables, a chatter's name changes only by that chatter's own
\* -name= command.
NamesStay == [][NamesKept]_vars

\* Safety: the seats never outnumber the table (the comment on lines 168-170:
\* reject when the chatters are "no smaller than MAX_CHATS").
TableWithinBounds == numChats <= MAX_CHATS

Seated(c) == \E f \in Fds : sock[f] = c
=============================================================================
