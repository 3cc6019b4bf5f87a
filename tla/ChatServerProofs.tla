-------------------------- MODULE ChatServerProofs --------------------------
(***************************************************************************)
(* What ChatServer guarantees for every number of chatters, every size of  *)
(* the tables and of the kernel's buffers, and every way of cutting the    *)
(* byte streams.                                                           *)
(***************************************************************************)
EXTENDS ChatClients, ChatServerHistory, FiniteSetTheorems, TLAPS

\* Where the loop variables are live, they have been set.
LocalsSet ==
  /\ pc \in {"select", "accept"} => i = 0
  /\ pc \in {"reply", "relay"} =>
       i \in Seats /\ FdAt(i) # WildFd /\ outbuff \in Message

\* A connection is waiting for accept(), has one descriptor, or is unknown to
\* the program.
OneDescriptor ==
  /\ \A f, g \in OpenFds : sock[f] = sock[g] => f = g
  /\ \A c \in Clients :
       Waits(c) \/ conn[c] \in {"idle", "refused"} => \A f \in Fds : sock[f] # c

\* No connection waits twice, and those that wait are known to the kernel.
QueueSound ==
  /\ \A m, n \in DOMAIN backlog : backlog[m] = backlog[n] => m = n
  /\ \A n \in DOMAIN backlog : conn[backlog[n]] \notin {"idle", "refused"}

\* Listed descriptors are open and distinct, unless the one past the end of
\* the table has been overwritten by a name; only name 0 lies there.
TableOpen ==
  /\ \A k \in Seats : FdAt(k) \in OpenFds \cup {WildFd}
  /\ \A k, l \in Seats : k # l /\ FdAt(k) # WildFd => FdAt(k) # FdAt(l)
  /\ \A k \in 1 .. MAX_CHATS : name_chats[k][1] # "fd"

\* The flags of the last select() still hold for the seats to be scanned.
ToScan(k) == \/ pc = "accept"
             \/ pc = "scan" /\ k >= i
             \/ pc \in {"reply", "relay"} /\ k > i

FlagsFresh ==
  /\ pc = "accept" => fdCheck \subseteq OpenFds \cup {ListenFd}
  /\ \A k \in Seats : ToScan(k) /\ Flagged(k) => Pending(Chatter(k))

IInv == TypeOK /\ LocalsSet /\ OneDescriptor /\ QueueSound /\ TableOpen /\ FlagsFresh

-----------------------------------------------------------------------------
(* The operators of the model.                                              *)

\* What is left after the last byte is overwritten is still a byte stream.
LEMMA TerminatedType ==
  ASSUME NEW s \in Seq(Chunk), s # << >>
  PROVE  Terminated(s) \in Seq(Chunk)
<1> DEFINE front == SubSeq(s, 1, Len(s) - 1)
           last  == s[Len(s)]
<1>1. Len(s) \in Nat \ {0} /\ last \in Chunk
  OBVIOUS
<1>2. front \in Seq(Chunk)
  BY <1>1
<1>3. [last EXCEPT !.part = "stub"] \in Chunk
  BY <1>1 DEF Chunk
<1> QED
  BY <1>2, <1>3 DEF Terminated

\* Every seat, the one past the end included, has an entry.
LEMMA FdAtType ==
  ASSUME TypeOK, NEW k \in 0 .. MAX_CHATS
  PROVE  FdAt(k) \in Fds \cup {0, WildFd}
<1>1. name_chats[0] \in Name
  BY ConstantsAssumption DEF TypeOK
<1>2. FdBytes(name_chats[0]) \in Fds \cup {WildFd}
  BY <1>1 DEF FdBytes, Name
<1>3. k < MAX_CHATS => fd_chats[k] \in Fds \cup {0, WildFd}
  BY ConstantsAssumption DEF TypeOK
<1> QED
  BY <1>2, <1>3 DEF FdAt

\* A write() touches the connection it is for, and a peer that has gone stays
\* gone.
LEMMA WriteEffect ==
  ASSUME TypeOK, NEW c \in Clients, NEW m \in Message, Write(c, m)
  PROVE  /\ conn' \in [Clients -> {"idle", "open", "closed", "poked", "reset", "refused"}]
         /\ outq' \in [Clients -> Seq(Message)]
         /\ conn[c] \notin {"idle", "refused"} /\ conn'[c] \notin {"idle", "refused"}
         /\ \A d \in Clients \ {c} : conn'[d] = conn[d] /\ outq'[d] = outq[d]
         /\ \A d \in Clients : HungUp(d) => HungUp(d)'
<1>1. CASE conn[c] = "open" /\ outq' = [outq EXCEPT ![c] = Append(@, m)] /\ UNCHANGED conn
  BY <1>1 DEF TypeOK, HungUp
<1>2. CASE conn[c] \in {"closed", "poked"} /\ conn' = [conn EXCEPT ![c] = "poked"] /\ UNCHANGED outq
  BY <1>2 DEF TypeOK, HungUp
<1>3. CASE conn[c] = "reset" /\ UNCHANGED <<conn, outq>>
  BY <1>3 DEF TypeOK, HungUp
<1> QED
  BY <1>1, <1>2, <1>3 DEF Write

\* What depends on the tables and the descriptors alone.
LEMMA TablesKept ==
  ASSUME UNCHANGED <<fd_chats, name_chats, numChats, sock>>
  PROVE  /\ Seats' = Seats /\ OpenFds' = OpenFds
         /\ \A k : FdAt(k)' = FdAt(k) /\ Chatter(k)' = Chatter(k)
  BY DEF Seats, OpenFds, FdAt, FdBytes, Chatter

\* A seat whose descriptor was not overwritten has a chatter; select() flags
\* no other seat.
LEMMA SeatChatter ==
  ASSUME IInv, NEW k \in Seats, FdAt(k) # WildFd \/ Flagged(k)
  PROVE  /\ FdAt(k) \in OpenFds /\ FdAt(k) # WildFd
         /\ Chatter(k) \in Clients
<1>1. WildFd \notin fdCheck
  BY ConstantsAssumption DEF IInv, TypeOK, WildFd, ListenFd
<1>2. FdAt(k) \in OpenFds
  BY <1>1 DEF IInv, TableOpen, Flagged
<1>3. \A f \in Fds : f > 0 /\ sock[f] \in Clients \cup {NoClient}
  BY ConstantsAssumption DEF IInv, TypeOK
<1> QED
  BY <1>2, <1>3 DEF OpenFds, Chatter, WildFd

\* A step that accepts no connection leaves the queue sound.
LEMMA QueueKept ==
  ASSUME IInv, UNCHANGED backlog,
         \A d \in Clients : conn'[d] \in {"idle", "refused"} =>
                            conn[d] \in {"idle", "refused"} \/ ~ Waits(d)
  PROVE  QueueSound' /\ \A d \in Clients : Waits(d)' = Waits(d)
<1>1. \A n \in DOMAIN backlog : backlog[n] \in Clients /\ Waits(backlog[n])
  BY DEF IInv, TypeOK, Waits
<1> QED
  BY <1>1 DEF IInv, QueueSound, Waits

-----------------------------------------------------------------------------
(* IInv is inductive: one lemma for each step that changes what it is about.*)

THEOREM InitIInv == Init => IInv
<1> SUFFICES ASSUME Init PROVE IInv
  OBVIOUS
<1> USE DEF Init
<1>1. TypeOK
  <2>1. MAX_CHATS \in Nat
    BY ConstantsAssumption
  <2>2. << >> \in Seq(Chunk)
    OBVIOUS
  <2>3. NoName \in Name
    BY <2>2 DEF Name, NoName
  <2> QED
    BY <2>1, <2>3 DEF TypeOK
<1>2. Seats = {} /\ OpenFds = {} /\ backlog = << >>
  BY ConstantsAssumption DEF Seats, OpenFds
<1>3. LocalsSet
  BY DEF LocalsSet
<1>4. OneDescriptor
  BY <1>2, ConstantsAssumption DEF OneDescriptor, Waits
<1>7. QueueSound
  BY <1>2 DEF QueueSound
<1>5. TableOpen
  BY <1>2 DEF TableOpen, NoName
<1>6. FlagsFresh
  BY <1>2 DEF FlagsFresh, ToScan
<1> QED
  BY <1>1, <1>3, <1>4, <1>5, <1>6, <1>7 DEF IInv

\* select() flags what is ready.
LEMMA SelectStep == IInv /\ SelectReturns => IInv'
<1> SUFFICES ASSUME IInv, SelectReturns PROVE IInv'
  OBVIOUS
<1> USE DEF SelectReturns, kernel
<1>0. /\ Seats' = Seats /\ OpenFds' = OpenFds
      /\ \A k : FdAt(k)' = FdAt(k) /\ Chatter(k)' = Chatter(k)
      /\ \A c : Pending(c)' = Pending(c)
  BY TablesKept DEF Pending, HungUp
<1>1. TypeOK'
  BY DEF IInv, TypeOK, Ready, OpenFds
<1>2. LocalsSet'
  BY DEF IInv, LocalsSet, Seats
<1>3. OneDescriptor'
  BY <1>0 DEF IInv, OneDescriptor, Waits
<1>q. QueueSound'
  BY <1>0, QueueKept
<1>4. TableOpen'
  BY <1>0 DEF IInv, TableOpen
<1>5. FlagsFresh'
  <2>1. fdCheck' \subseteq OpenFds \cup {ListenFd}
    BY DEF Ready
  <2>2. ASSUME NEW k \in Seats, FdAt(k) \in Ready PROVE Pending(Chatter(k))
    BY <2>2, ConstantsAssumption DEF Ready, Registered, Chatter, ListenFd, IInv, TableOpen, OpenFds, WildFd
  <2> QED
    BY <1>0, <2>1, <2>2 DEF FlagsFresh, ToScan, Flagged
<1> QED
  BY <1>1, <1>2, <1>3, <1>4, <1>5, <1>q DEF IInv

\* Steps that only move the program on to the next seat, or end it.
LEMMA LoopStep ==
  IInv /\ (WildDescriptor \/ ScanSkip \/ ScanDone \/ RelaySkip \/ RelayDone \/ SigPipe)
    => IInv'
<1> SUFFICES ASSUME IInv,
                    WildDescriptor \/ ScanSkip \/ ScanDone \/ RelaySkip \/ RelayDone \/ SigPipe
             PROVE  IInv'
  OBVIOUS
<1> USE DEF WildDescriptor, ScanSkip, ScanDone, RelaySkip, RelayDone, SigPipe, kernel
<1>0. /\ UNCHANGED <<fd_chats, name_chats, numChats, backlog, sock, conn, inq, outq>>
      /\ Seats' = Seats /\ OpenFds' = OpenFds
      /\ \A k : FdAt(k)' = FdAt(k) /\ Chatter(k)' = Chatter(k)
      /\ \A c : Pending(c)' = Pending(c)
  BY TablesKept DEF Pending, HungUp
<1>1. TypeOK'
  <2>1. i' \in 0 .. (MAX_CHATS + 1) /\ j' \in 0 .. (MAX_CHATS + 1)
    BY ConstantsAssumption DEF IInv, TypeOK, Seats, LocalsSet
  <2>2. /\ pc' \in {"select", "scan", "relay", "dead", "undefined"}
        /\ fdCheck' \subseteq Fds \cup {ListenFd}
        /\ outbuff' \in Message \cup {NoMsg}
    BY DEF IInv, TypeOK
  <2> QED
    BY <1>0, <2>1, <2>2 DEF IInv, TypeOK
<1>2. LocalsSet'
  BY <1>0 DEF IInv, LocalsSet
<1>3. OneDescriptor'
  BY <1>0 DEF IInv, OneDescriptor, Waits
<1>q. QueueSound'
  BY <1>0, QueueKept
<1>4. TableOpen'
  BY <1>0 DEF IInv, TableOpen
<1>5. FlagsFresh'
  <2>1. /\ pc' # "accept"
        /\ \A k \in Seats : ToScan(k)' => ToScan(k) /\ fdCheck' = fdCheck
    BY <1>0 DEF ToScan, IInv, TypeOK, Seats, LocalsSet
  <2> QED
    BY <1>0, <2>1 DEF IInv, FlagsFresh, Flagged
<1> QED
  BY <1>1, <1>2, <1>3, <1>4, <1>5, <1>q DEF IInv

\* What chatters and the network do.
LEMMA ChatterStepKeeps == IInv /\ ChatterStep => IInv'
<1> SUFFICES ASSUME IInv, ChatterStep PROVE IInv'
  OBVIOUS
<1> PICK c \in Clients :
       \/ Connect(c) \/ (\E s \in Says[c] : Arrive(c, s))
       \/ Consume(c) \/ HangUp(c) \/ RstArrives(c)
  BY DEF ChatterStep
<1> USE DEF server
<1>0. /\ UNCHANGED <<fd_chats, name_chats, numChats, pc, fdCheck, i, j, outbuff, sock>>
      /\ Seats' = Seats /\ OpenFds' = OpenFds
      /\ \A k : FdAt(k)' = FdAt(k) /\ Chatter(k)' = Chatter(k)
  BY TablesKept DEF Connect, Arrive, Consume, Take, HangUp, RstArrives
<1>1. /\ backlog' \in Seq(Clients)
      /\ conn' \in [Clients -> {"idle", "open", "closed", "poked", "reset", "refused"}]
      /\ outq' \in [Clients -> Seq(Message)]
      /\ inq' \in [Clients -> Seq(Chunk)]
  <2>1. CASE Connect(c)
    BY <2>1 DEF IInv, TypeOK, Connect
  <2>2. ASSUME NEW s \in Says[c], Arrive(c, s)
        PROVE  UNCHANGED <<backlog, conn, outq>> /\ inq' \in [Clients -> Seq(Chunk)]
    <3>1. inq[c] \in Seq(Chunk) /\ s \in Seq(Chunk)
      BY ConstantsAssumption DEF IInv, TypeOK
    <3>2. inq[c] \o s \in Seq(Chunk)
      BY <3>1
    <3> QED
      BY <2>2, <3>2 DEF IInv, TypeOK, Arrive
  <2>3. CASE Consume(c)
    <3>1. PICK n \in DOMAIN outq[c] : Take(c, n)
      BY <2>3 DEF Consume
    <3>2. outq[c] \in Seq(Message)
      BY DEF IInv, TypeOK
    <3>3. SubSeq(outq[c], n + 1, Len(outq[c])) \in Seq(Message)
      BY <3>2
    <3> QED
      BY <3>1, <3>3 DEF IInv, TypeOK, Take
  <2>4. CASE HangUp(c)
    BY <2>4 DEF IInv, TypeOK, HangUp
  <2>5. CASE RstArrives(c)
    BY <2>5 DEF IInv, TypeOK, RstArrives
  <2> QED
    BY <2>1, <2>2, <2>3, <2>4, <2>5 DEF IInv, TypeOK
<1>3. \A d \in Clients : Pending(d) => Pending(d)'
  BY ConstantsAssumption DEF IInv, TypeOK, Pending, HungUp, Connect, Arrive, Consume, Take, HangUp, RstArrives
<1>4. TypeOK'
  BY <1>0, <1>1 DEF IInv, TypeOK
<1>5. LocalsSet'
  BY <1>0 DEF IInv, LocalsSet
<1>6. OneDescriptor'
  <2>1. \A d \in Clients : conn'[d] \in {"idle", "refused"} => conn[d] \in {"idle", "refused"}
    BY DEF IInv, TypeOK, Connect, Arrive, Consume, Take, HangUp, RstArrives
  <2>2. \A d \in Clients : Waits(d)' => Waits(d) \/ conn[d] = "idle"
    <3>1. CASE Connect(c)
      BY <3>1 DEF Connect, IInv, TypeOK, Waits
    <3>2. CASE UNCHANGED backlog
      BY <3>2 DEF Waits
    <3> QED
      BY <3>1, <3>2 DEF Arrive, Consume, Take, HangUp, RstArrives
  <2> QED
    BY <1>0, <2>1, <2>2 DEF IInv, OneDescriptor
<1>q. QueueSound'
  <2>1. CASE Connect(c)
    <3>1. ~ Waits(c) /\ conn[c] = "idle" /\ conn'[c] = "open" /\ backlog' = Append(backlog, c)
      BY <2>1 DEF Connect, IInv, TypeOK, QueueSound, Waits
    <3>2. /\ \A n \in DOMAIN backlog' : n \in DOMAIN backlog \/ n = Len(backlog) + 1
          /\ \A n \in DOMAIN backlog : backlog'[n] = backlog[n] /\ backlog[n] \in Clients \ {c}
          /\ backlog'[Len(backlog) + 1] = c
      BY <3>1 DEF IInv, TypeOK, Waits
    <3>3. \A d \in Clients \ {c} : conn'[d] = conn[d]
      BY <2>1 DEF Connect, IInv, TypeOK
    <3> QED
      BY <3>1, <3>2, <3>3 DEF IInv, QueueSound
  <2>2. CASE ~ Connect(c)
    <3>1. \A d \in Clients : conn'[d] \in {"idle", "refused"} =>
                             conn[d] \in {"idle", "refused"}
      BY <2>2 DEF IInv, TypeOK, Arrive, Consume, Take, HangUp, RstArrives
    <3>2. UNCHANGED backlog
      BY <2>2 DEF Arrive, Consume, Take, HangUp, RstArrives
    <3> QED
      BY <3>1, <3>2, QueueKept
  <2> QED
    BY <2>1, <2>2
<1>7. TableOpen'
  BY <1>0 DEF IInv, TableOpen
<1>8. FlagsFresh'
  <2>1. \A k : ToScan(k)' = ToScan(k) /\ Flagged(k)' = Flagged(k)
    BY <1>0 DEF ToScan, Flagged
  <2>2. ASSUME NEW k \in Seats, Flagged(k) PROVE Chatter(k) \in Clients
    BY <2>2, SeatChatter
  <2> QED
    BY <1>0, <1>3, <2>1, <2>2 DEF IInv, FlagsFresh
<1> QED
  BY <1>4, <1>5, <1>6, <1>7, <1>8, <1>q DEF IInv

\* The write() calls of processChat.
LEMMA WriteStep == IInv /\ (Reply \/ RelayWrite) => IInv'
<1> SUFFICES ASSUME IInv, Reply \/ RelayWrite PROVE IInv'
  OBVIOUS
<1>0. /\ UNCHANGED <<fd_chats, name_chats, numChats, fdCheck, outbuff, backlog, sock, inq>>
      /\ Seats' = Seats /\ OpenFds' = OpenFds
      /\ \A k : FdAt(k)' = FdAt(k) /\ Chatter(k)' = Chatter(k)
  BY TablesKept DEF Reply, RelayWrite
<1>1. PICK k \in Seats : FdAt(k) # WildFd /\ Write(Chatter(k), outbuff)
  BY DEF Reply, RelayWrite, RelayTarget, IInv, LocalsSet
<1>2. Chatter(k) \in Clients /\ outbuff \in Message
  BY <1>1, SeatChatter DEF IInv, LocalsSet, Reply, RelayWrite, RelayTarget
<1>3. /\ conn' \in [Clients -> {"idle", "open", "closed", "poked", "reset", "refused"}]
      /\ outq' \in [Clients -> Seq(Message)]
      /\ \A d \in Clients : conn'[d] \in {"idle", "refused"} => conn[d] \in {"idle", "refused"}
      /\ \A d \in Clients : HungUp(d) => HungUp(d)'
  BY <1>1, <1>2, WriteEffect DEF IInv
<1>4. TypeOK'
  <2>1. i' \in 0 .. (MAX_CHATS + 1) /\ j' \in 0 .. (MAX_CHATS + 1)
    BY ConstantsAssumption DEF IInv, TypeOK, Seats, LocalsSet, Reply, RelayWrite, RelayTarget
  <2>2. pc' \in {"scan", "relay"}
    BY DEF Reply, RelayWrite, RelayTarget
  <2> QED
    BY <1>0, <1>3, <2>1, <2>2 DEF IInv, TypeOK
<1>5. LocalsSet'
  BY <1>0 DEF IInv, LocalsSet, Reply, RelayWrite, RelayTarget
<1>6. OneDescriptor'
  BY <1>0, <1>3 DEF IInv, TypeOK, OneDescriptor, Waits
<1>q. QueueSound'
  BY <1>0, <1>3, QueueKept
<1>7. TableOpen'
  BY <1>0 DEF IInv, TableOpen
<1>8. FlagsFresh'
  <2>1. pc' # "accept" /\ \A l \in Seats : ToScan(l)' => ToScan(l)
    BY <1>0 DEF ToScan, IInv, TypeOK, LocalsSet, Seats, Reply, RelayWrite, RelayTarget
  <2>2. ASSUME NEW l \in Seats, ToScan(l)', Flagged(l)' PROVE Pending(Chatter(l))'
    <3>1. Flagged(l) /\ Pending(Chatter(l))
      BY <1>0, <2>1, <2>2 DEF Flagged, IInv, FlagsFresh
    <3>2. Chatter(l) \in Clients
      BY <3>1, SeatChatter
    <3> QED
      BY <1>0, <1>3, <3>1, <3>2 DEF Pending
  <2> QED
    BY <1>0, <2>1, <2>2 DEF FlagsFresh
<1> QED
  BY <1>4, <1>5, <1>6, <1>7, <1>8, <1>q DEF IInv

\* accept() takes a connection off the queue, which holds none twice.
LEMMA AcceptEffect ==
  ASSUME IInv, NEW c \in Clients, Accepted(c), backlog' = Tail(backlog)
  PROVE  /\ backlog' \in Seq(Clients)
         /\ Waits(c) /\ conn[c] \notin {"idle", "refused"}
         /\ \A d \in Clients : Waits(d)' => Waits(d) /\ d # c
         /\ \A m, n \in DOMAIN backlog' : backlog'[m] = backlog'[n] => m = n
         /\ \A n \in DOMAIN backlog' : /\ backlog'[n] \in Clients \ {c}
                                      /\ conn[backlog'[n]] \notin {"idle", "refused"}
<1>1. /\ backlog \in Seq(Clients) /\ Len(backlog) \in Nat \ {0} /\ c = backlog[1]
      /\ 1 \in DOMAIN backlog
  BY DEF Accepted, IInv, TypeOK
<1>2. /\ backlog' \in Seq(Clients)
      /\ \A n \in DOMAIN backlog' : /\ n + 1 \in DOMAIN backlog /\ n + 1 # 1
                                   /\ backlog'[n] = backlog[n + 1]
  BY <1>1
<1>3. /\ \A m, n \in DOMAIN backlog : backlog[m] = backlog[n] => m = n
      /\ \A n \in DOMAIN backlog : conn[backlog[n]] \notin {"idle", "refused"}
  BY DEF IInv, QueueSound
<1>4. \A n \in DOMAIN backlog' : /\ backlog'[n] \in Clients \ {c}
                                /\ conn[backlog'[n]] \notin {"idle", "refused"}
  BY <1>1, <1>2, <1>3
<1>5. \A m, n \in DOMAIN backlog' : backlog'[m] = backlog'[n] => m = n
  <2> SUFFICES ASSUME NEW m \in DOMAIN backlog', NEW n \in DOMAIN backlog',
                      backlog'[m] = backlog'[n]
               PROVE  m = n
    OBVIOUS
  <2>1. m + 1 = n + 1 /\ m \in Nat /\ n \in Nat
    BY <1>2, <1>3
  <2> QED
    BY <2>1
<1> QED
  BY <1>1, <1>2, <1>3, <1>4, <1>5 DEF Waits

\* accept() when the room is full.
LEMMA RejectStep == IInv /\ (\E c \in Clients : RejectChatter(c)) => IInv'
<1> SUFFICES ASSUME IInv, NEW c \in Clients, RejectChatter(c) PROVE IInv'
  OBVIOUS
<1> USE DEF RejectChatter
<1>0. /\ UNCHANGED <<fd_chats, name_chats, numChats, fdCheck, i, j, outbuff, sock>>
      /\ Seats' = Seats /\ OpenFds' = OpenFds
      /\ \A k : FdAt(k)' = FdAt(k) /\ Chatter(k)' = Chatter(k)
  BY TablesKept
<1>a. Accepted(c) /\ backlog' = Tail(backlog)
  OBVIOUS
<1>1. TypeOK'
  <2>1. <<ChatFull>> \in Seq(Message) /\ << >> \in Seq(Message) /\ << >> \in Seq(Chunk)
    BY DEF Message, ChatFull
  <2>2. backlog' \in Seq(Clients)
    BY <1>a, AcceptEffect
  <2> QED
    BY <1>0, <2>1, <2>2 DEF IInv, TypeOK
<1>2. LocalsSet'
  BY <1>0 DEF IInv, LocalsSet
<1>3. \A f \in Fds : sock[f] # c
  BY <1>a, AcceptEffect DEF IInv, OneDescriptor
<1>4. OneDescriptor'
  <2>1. /\ \A d \in Clients : Waits(d)' => Waits(d)
        /\ \A d \in Clients \ {c} : conn'[d] = conn[d]
    BY <1>a, AcceptEffect DEF IInv, TypeOK
  <2> QED
    BY <1>0, <1>3, <2>1 DEF IInv, OneDescriptor
<1>q. QueueSound'
  <2>1. \A d \in Clients \ {c} : conn'[d] = conn[d]
    BY DEF IInv, TypeOK
  <2> QED
    BY <1>a, <2>1, AcceptEffect DEF QueueSound
<1>5. TableOpen'
  BY <1>0 DEF IInv, TableOpen
<1>6. FlagsFresh'
  <2>1. ASSUME NEW k \in Seats, Flagged(k) PROVE Pending(Chatter(k))'
    <3>0. ToScan(k)
      BY DEF ToScan
    <3>1. Pending(Chatter(k))
      BY <2>1, <3>0 DEF IInv, FlagsFresh
    <3>2. Chatter(k) \in Clients \ {c}
      BY <1>3, <2>1, SeatChatter DEF Chatter, OpenFds
    <3> QED
      BY <1>0, <3>1, <3>2 DEF IInv, TypeOK, Pending, HungUp
  <2> QED
    BY <1>0, <2>1 DEF FlagsFresh, ToScan, Flagged
<1> QED
  BY <1>1, <1>2, <1>4, <1>5, <1>6, <1>q DEF IInv

\* The two stores of addChatter: the new seat has the new descriptor, the
\* others keep theirs.
LEMMA SeatEffect ==
  ASSUME IInv, NEW f \in Fds, Seat(f)
  PROVE  /\ numChats' = numChats + 1 /\ numChats <= MAX_CHATS /\ numChats \in Nat
         /\ Seats' = Seats \cup {numChats} /\ numChats \notin Seats
         /\ fd_chats' \in [0 .. (MAX_CHATS - 1) -> Fds \cup {0, WildFd}]
         /\ name_chats' \in [0 .. MAX_CHATS -> Name]
         /\ \A k \in 1 .. MAX_CHATS : name_chats'[k][1] # "fd"
         /\ \A k \in Seats' : FdAt(k)' = IF k \in Seats THEN FdAt(k) ELSE f
<1>1. /\ fd_chats \in [0 .. (MAX_CHATS - 1) -> Fds \cup {0, WildFd}]
      /\ name_chats \in [0 .. MAX_CHATS -> Name]
      /\ \A k \in 1 .. MAX_CHATS : name_chats[k][1] # "fd"
      /\ MAX_CHATS \in Nat /\ MAX_CHATS > 0
  BY ConstantsAssumption DEF IInv, TypeOK, TableOpen
<1>2. /\ numChats' = numChats + 1 /\ numChats <= MAX_CHATS
      /\ Seats' = Seats \cup {numChats} /\ numChats \notin Seats
      /\ numChats \in Nat
  BY ConstantsAssumption DEF IInv, TypeOK, Seat, Seats
<1>3. /\ fd_chats' \in [0 .. (MAX_CHATS - 1) -> Fds \cup {0, WildFd}]
      /\ name_chats' \in [0 .. MAX_CHATS -> Name]
      /\ \A k \in 1 .. MAX_CHATS : name_chats'[k][1] # "fd"
  <2>1. Unknown(numChats) \in Name /\ <<"fd", f>> \in Name /\ Unknown(numChats)[1] # "fd"
    BY <1>2 DEF Unknown, Name
  <2>2. CASE /\ numChats < MAX_CHATS
             /\ name_chats' = [name_chats EXCEPT ![numChats] = Unknown(numChats)]
             /\ fd_chats' = [fd_chats EXCEPT ![numChats] = f]
    BY <1>1, <1>2, <2>1, <2>2
  <2>3. CASE /\ numChats = MAX_CHATS
             /\ name_chats' = [name_chats EXCEPT ![MAX_CHATS] = Unknown(MAX_CHATS), ![0] = <<"fd", f>>]
             /\ UNCHANGED fd_chats
    BY <1>1, <1>2, <2>1, <2>3
  <2> QED
    BY <2>2, <2>3 DEF Seat
<1>4. \A k \in Seats' : FdAt(k)' = IF k \in Seats THEN FdAt(k) ELSE f
  <2>1. Seats = 0 .. (numChats - 1)
    BY DEF Seats
  <2>2. CASE /\ numChats < MAX_CHATS
             /\ fd_chats' = [fd_chats EXCEPT ![numChats] = f]
    BY <1>1, <1>2, <2>1, <2>2 DEF FdAt
  <2>3. CASE /\ numChats = MAX_CHATS
             /\ name_chats' = [name_chats EXCEPT ![MAX_CHATS] = Unknown(MAX_CHATS), ![0] = <<"fd", f>>]
             /\ UNCHANGED fd_chats
    <3>1. name_chats'[0] = <<"fd", f>>
      BY <1>1, <2>3
    <3> QED
      BY <1>1, <1>2, <2>1, <2>3, <3>1 DEF FdAt, FdBytes
  <2> QED
    BY <2>2, <2>3 DEF Seat
<1> QED
  BY <1>2, <1>3, <1>4

\* accept() and addChatter: the newcomer's descriptor was not in use.
LEMMA AddStep == IInv /\ (\E c \in Clients : AddChatter(c)) => IInv'
<1> SUFFICES ASSUME IInv, NEW c \in Clients, AddChatter(c) PROVE IInv'
  OBVIOUS
<1>0. PICK f \in Fds : LowestFree(f) /\ sock' = [sock EXCEPT ![f] = c] /\ Seat(f)
  BY DEF AddChatter
<1>a. /\ pc = "accept" /\ pc' = "scan" /\ Accepted(c) /\ backlog' = Tail(backlog)
      /\ Write(c, Welcome)
      /\ UNCHANGED <<fdCheck, i, j, outbuff, inq>>
  BY DEF AddChatter
<1>1. /\ f \notin OpenFds /\ OpenFds' = OpenFds \cup {f} /\ f > 0
      /\ \A g \in OpenFds : sock'[g] = sock[g] /\ sock[g] # c
      /\ sock'[f] = c
  <2>1. sock \in [Fds -> Clients \cup {NoClient}] /\ c # NoClient
    BY ConstantsAssumption DEF IInv, TypeOK
  <2>2. f \in Fds \ OpenFds /\ f > 0
    BY <1>0, ConstantsAssumption DEF LowestFree
  <2>3. \A g \in Fds : sock[g] # c
    BY <1>a, AcceptEffect DEF IInv, OneDescriptor
  <2> QED
    BY <1>0, <2>1, <2>2, <2>3 DEF OpenFds
<1>2. /\ Welcome \in Message
      /\ conn' \in [Clients -> {"idle", "open", "closed", "poked", "reset", "refused"}]
      /\ outq' \in [Clients -> Seq(Message)]
      /\ \A d \in Clients : conn'[d] \in {"idle", "refused"} =>
                             d # c /\ conn[d] \in {"idle", "refused"}
      /\ \A d \in Clients : HungUp(d) => HungUp(d)'
  <2>1. Welcome \in Message
    BY DEF Welcome, Message
  <2> QED
    BY <1>a, <2>1, WriteEffect DEF IInv
<1>3. /\ numChats' = numChats + 1 /\ numChats <= MAX_CHATS /\ numChats \in Nat
      /\ Seats' = Seats \cup {numChats} /\ numChats \notin Seats
      /\ fd_chats' \in [0 .. (MAX_CHATS - 1) -> Fds \cup {0, WildFd}]
      /\ name_chats' \in [0 .. MAX_CHATS -> Name]
      /\ \A k \in 1 .. MAX_CHATS : name_chats'[k][1] # "fd"
      /\ \A k \in Seats' : FdAt(k)' = IF k \in Seats THEN FdAt(k) ELSE f
  BY <1>0, SeatEffect
<1>4. TypeOK'
  <2>1. sock' \in [Fds -> Clients \cup {NoClient}] /\ backlog' \in Seq(Clients)
    BY <1>0, <1>a, AcceptEffect DEF IInv, TypeOK
  <2>2. numChats' \in 0 .. (MAX_CHATS + 1)
    BY <1>3, ConstantsAssumption
  <2> QED
    BY <1>a, <1>2, <1>3, <2>1, <2>2 DEF IInv, TypeOK
<1>5. LocalsSet'
  BY <1>a DEF LocalsSet
<1>6. OneDescriptor'
  <2>1. \A d \in Clients : Waits(d)' => Waits(d) /\ d # c
    BY <1>a, AcceptEffect
  <2>2. \A g, h \in OpenFds' : sock'[g] = sock'[h] => g = h
    BY <1>1 DEF IInv, OneDescriptor
  <2>3. ASSUME NEW d \in Clients, Waits(d)' \/ conn'[d] \in {"idle", "refused"}, NEW g \in Fds
        PROVE  sock'[g] # d
    <3>1. sock[g] # d /\ d # c
      BY <1>2, <2>1, <2>3 DEF IInv, OneDescriptor
    <3>2. sock'[g] \in {sock[g], c}
      BY <1>0 DEF IInv, TypeOK
    <3> QED
      BY <3>1, <3>2
  <2> QED
    BY <2>2, <2>3 DEF OneDescriptor
<1>q. QueueSound'
  BY <1>a, <1>2, AcceptEffect DEF QueueSound
<1>7. TableOpen'
  <2>1. \A k \in Seats' : FdAt(k)' \in OpenFds' \cup {WildFd}
    BY <1>1, <1>3 DEF IInv, TableOpen
  <2>2. \A k \in Seats : FdAt(k)' # f
    BY <1>1, <1>3 DEF IInv, TableOpen, WildFd
  <2>3. \A k, l \in Seats' : k # l /\ FdAt(k)' # WildFd => FdAt(k)' # FdAt(l)'
    BY <1>3, <2>2 DEF IInv, TableOpen
  <2> QED
    BY <1>3, <2>1, <2>3 DEF TableOpen
<1>8. FlagsFresh'
  <2>1. ASSUME NEW k \in Seats', Flagged(k)' PROVE Pending(Chatter(k))'
    <3>0. fdCheck' = fdCheck /\ f \notin fdCheck
      BY <1>a, <1>1 DEF IInv, FlagsFresh, ListenFd
    <3>1. k \in Seats /\ Flagged(k)
      BY <1>3, <2>1, <3>0 DEF Flagged
    <3>2. FdAt(k) \in OpenFds /\ Chatter(k) \in Clients
      BY <3>1, SeatChatter
    <3>3. Chatter(k)' = Chatter(k)
      BY <1>1, <1>3, <3>1, <3>2 DEF Chatter
    <3>4. ToScan(k)
      BY <1>a DEF ToScan
    <3>5. Pending(Chatter(k))
      BY <3>1, <3>4 DEF IInv, FlagsFresh
    <3> QED
      BY <1>a, <1>2, <3>2, <3>3, <3>5 DEF Pending
  <2> QED
    BY <1>a, <2>1 DEF FlagsFresh, ToScan
<1> QED
  BY <1>4, <1>5, <1>6, <1>7, <1>8, <1>q DEF IInv

\* read() returned data: what was read is gone, and processChat is called.
LEMMA ReadStep == IInv /\ (ReadName \/ ReadChat) => IInv'
<1> SUFFICES ASSUME IInv, ReadName \/ ReadChat PROVE IInv'
  OBVIOUS
<1> DEFINE c == Chatter(i)
<1>0. /\ i \in Seats /\ Flagged(i) /\ FdAt(i) # WildFd /\ inq[c] # << >>
      /\ UNCHANGED <<fd_chats, numChats, fdCheck, i, backlog, sock, conn, outq>>
      /\ Seats' = Seats /\ OpenFds' = OpenFds
      /\ inq' = [inq EXCEPT ![c] = << >>]
      /\ pc = "scan" /\ pc' \in {"reply", "relay"}
  BY DEF ReadName, ReadChat, Reading, Seats, OpenFds
<1>1. FdAt(i) \in OpenFds /\ c \in Clients
      /\ i \in 0 .. MAX_CHATS
  BY <1>0, ConstantsAssumption, SeatChatter DEF IInv, TypeOK, Seats
<1>b. /\ name_chats \in [0 .. MAX_CHATS -> Name] /\ j \in 0 .. (MAX_CHATS + 1)
      /\ \A k \in 1 .. MAX_CHATS : name_chats[k][1] # "fd"
      /\ MAX_CHATS \in Nat /\ MAX_CHATS > 0
  BY ConstantsAssumption DEF IInv, TypeOK, TableOpen
<1>2. Buffer \in Seq(Chunk)
  <2>1. inq[c] \in Seq(Chunk)
    BY <1>1 DEF IInv, TypeOK
  <2> QED
    BY <1>0, <2>1, TerminatedType DEF Buffer
<1>3. /\ name_chats' \in [0 .. MAX_CHATS -> Name]
      /\ \A k \in 1 .. MAX_CHATS : name_chats'[k][1] # "fd"
      /\ outbuff' \in Message
      /\ j' \in 0 .. (MAX_CHATS + 1)
      /\ \A k \in DOMAIN name_chats \ {i} : name_chats'[k] = name_chats[k]
      /\ name_chats'[0] = name_chats[0] \/ (i = 0 /\ name_chats'[0][1] # "fd")
  <2>1. CASE ReadName
    <3>1. Tail(Buffer) \in Seq(Chunk)
      BY <1>2, <2>1 DEF ReadName, IsNameCommand
    <3> DEFINE nm == <<"user", Tail(Buffer)>>
    <3>2. nm \in Name /\ nm[1] # "fd" /\ Renamed(nm) \in Message
      BY <3>1 DEF Name, Message, Renamed
    <3>3. name_chats' = [name_chats EXCEPT ![i] = nm] /\ outbuff' = Renamed(nm) /\ j' = j
      BY <2>1 DEF ReadName
    <3> HIDE DEF nm
    <3>4. /\ name_chats' \in [0 .. MAX_CHATS -> Name]
          /\ \A k \in 0 .. MAX_CHATS : name_chats'[k] = IF k = i THEN nm ELSE name_chats[k]
      BY <1>b, <1>1, <3>2, <3>3
    <3>5. name_chats'[0] = name_chats[0] \/ (i = 0 /\ name_chats'[0][1] # "fd")
      BY <1>b, <3>2, <3>4
    <3>6. \A k \in 1 .. MAX_CHATS : name_chats'[k][1] # "fd"
      BY <1>b, <3>2, <3>4
    <3>7. \A k \in DOMAIN name_chats \ {i} : name_chats'[k] = name_chats[k]
      BY <1>b, <3>4
    <3> QED
      BY <1>b, <3>2, <3>3, <3>4, <3>5, <3>6, <3>7
  <2>2. CASE ReadChat
    <3>1. Chat(c, name_chats[i], Buffer) \in Message
      BY <1>1, <1>2 DEF IInv, TypeOK, Message, Chat
    <3> QED
      BY <1>b, <2>2, <3>1 DEF ReadChat
  <2> QED
    BY <2>1, <2>2
<1>4. \A k \in Seats : FdAt(k)' \in {FdAt(k), WildFd} /\ (k = i => FdAt(k)' = FdAt(k))
  <2> SUFFICES ASSUME NEW k \in Seats
               PROVE  FdAt(k)' \in {FdAt(k), WildFd} /\ (k = i => FdAt(k)' = FdAt(k))
    OBVIOUS
  <2>1. CASE k < MAX_CHATS
    <3>1. FdAt(k) = fd_chats[k] /\ FdAt(k)' = fd_chats'[k]
      BY <2>1 DEF FdAt
    <3> QED
      BY <1>0, <3>1
  <2>2. CASE ~ (k < MAX_CHATS)
    <3>1. k = i => i # 0
      BY <1>b, <2>2
    <3>2. FdAt(k) = FdBytes(name_chats[0]) /\ FdAt(k)' = FdBytes(name_chats'[0])
      BY <2>2 DEF FdAt, FdBytes
    <3> QED
      BY <1>3, <3>1, <3>2 DEF FdBytes
  <2> QED
    BY <2>1, <2>2
<1>5. TypeOK'
  <2>1. inq' \in [Clients -> Seq(Chunk)]
    <3>1. << >> \in Seq(Chunk)
      OBVIOUS
    <3> QED
      BY <1>0, <3>1 DEF IInv, TypeOK
  <2> QED
    BY <1>0, <1>3, <2>1 DEF IInv, TypeOK
<1>6. LocalsSet'
  BY <1>0, <1>3, <1>4 DEF LocalsSet
<1>7. OneDescriptor'
  BY <1>0 DEF IInv, OneDescriptor, Waits
<1>q. QueueSound'
  BY <1>0, QueueKept
<1>8. TableOpen'
  BY <1>0, <1>3, <1>4 DEF IInv, TableOpen
<1>9. FlagsFresh'
  <2>1. ASSUME NEW k \in Seats, k > i, Flagged(k)' PROVE Pending(Chatter(k))'
    <3>1. Flagged(k) /\ FdAt(k)' = FdAt(k)
      BY <1>0, <1>4, <2>1, ConstantsAssumption
      DEF Flagged, IInv, TypeOK, ListenFd, WildFd
    <3>2. ToScan(k)
      BY <1>0, <2>1 DEF ToScan, IInv, TypeOK, Seats
    <3>3. Pending(Chatter(k))
      BY <3>1, <3>2 DEF IInv, FlagsFresh
    <3>4. Chatter(k) # c
      <4>1. FdAt(k) \in OpenFds /\ FdAt(k) # FdAt(i)
        BY <1>0, <2>1, <3>1, SeatChatter DEF IInv, TypeOK, TableOpen
      <4> QED
        BY <1>1, <4>1 DEF IInv, OneDescriptor, Chatter
    <3>5. Chatter(k)' = Chatter(k) /\ Chatter(k) \in Clients
      BY <1>0, <3>1, SeatChatter DEF Chatter
    <3> QED
      BY <1>0, <3>3, <3>4, <3>5 DEF IInv, TypeOK, Pending, HungUp
  <2> QED
    BY <1>0, <2>1 DEF FlagsFresh, ToScan
<1> QED
  BY <1>5, <1>6, <1>7, <1>8, <1>9, <1>q DEF IInv

\* The compaction: each seat after the one removed moves up by one with its
\* descriptor, or with a name in its place when the table had overflowed.
LEMMA ShiftEffect ==
  ASSUME TypeOK, NEW s \in Seats, \A k \in 1 .. MAX_CHATS : name_chats[k][1] # "fd"
  PROVE  /\ ShiftNames(s) \in [0 .. MAX_CHATS -> Name]
         /\ \A k \in 1 .. MAX_CHATS : ShiftNames(s)[k][1] # "fd"
         /\ ShiftFds(s) \in [0 .. (MAX_CHATS - 1) -> Fds \cup {0, WildFd}]
         /\ \A k \in 0 .. (numChats - 2) :
              k < MAX_CHATS /\ ShiftFds(s)[k] \in {FdAt(IF k < s THEN k ELSE k + 1), WildFd}
<1>1. /\ fd_chats \in [0 .. (MAX_CHATS - 1) -> Fds \cup {0, WildFd}]
      /\ name_chats \in [0 .. MAX_CHATS -> Name]
      /\ numChats \in 0 .. (MAX_CHATS + 1) /\ MAX_CHATS \in Nat \ {0}
      /\ s \in 0 .. (numChats - 1)
  BY ConstantsAssumption DEF TypeOK, Seats
<1>2. \A k \in 0 .. MAX_CHATS :
        ShiftNames(s)[k] = IF k \in s .. (numChats - 2) THEN name_chats[k + 1] ELSE name_chats[k]
  BY <1>1 DEF ShiftNames
<1>3. ShiftNames(s) \in [0 .. MAX_CHATS -> Name]
  BY <1>1 DEF ShiftNames
<1>4. \A k \in 1 .. MAX_CHATS : ShiftNames(s)[k][1] # "fd"
  BY <1>1, <1>2
<1>5. \A n \in Name : FdBytes(n) \in Fds \cup {WildFd} /\ (n[1] # "fd" => FdBytes(n) = WildFd)
  BY DEF FdBytes, Name
<1>6. ShiftFds(s) \in [0 .. (MAX_CHATS - 1) -> Fds \cup {0, WildFd}]
  <2>1. ASSUME NEW n \in {name_chats[0], ShiftNames(s)[0]}
        PROVE  FdBytes(n) \in Fds \cup {0, WildFd}
    BY <1>1, <1>3, <1>5
  <2> QED
    BY <1>1, <2>1 DEF ShiftFds
<1>7. ASSUME NEW k \in 0 .. (numChats - 2)
      PROVE  k < MAX_CHATS /\ ShiftFds(s)[k] \in {FdAt(IF k < s THEN k ELSE k + 1), WildFd}
  <2>1. k < MAX_CHATS /\ k \in DOMAIN fd_chats
    BY <1>1
  <2>2. CASE k < s
    BY <1>1, <2>1, <2>2 DEF ShiftFds, FdAt
  <2>3. CASE ~ (k < s) /\ k + 1 < MAX_CHATS
    BY <1>1, <2>1, <2>3 DEF ShiftFds, FdAt
  <2>4. CASE ~ (k < s) /\ ~ (k + 1 < MAX_CHATS)
    <3>1. FdAt(k + 1) = FdBytes(name_chats[0])
      BY <2>4 DEF FdAt
    <3>2. ShiftFds(s)[k] = FdBytes(IF k = 0 THEN name_chats[0] ELSE ShiftNames(s)[0])
      BY <1>1, <2>1, <2>4 DEF ShiftFds
    <3>3. k = 0 \/ ShiftNames(s)[0] = name_chats[0] \/ ShiftNames(s)[0] = name_chats[1]
      BY <1>1, <1>2
    <3>4. FdBytes(name_chats[1]) = WildFd
      BY <1>1, <1>5
    <3>5. ShiftFds(s)[k] \in {FdBytes(name_chats[0]), FdBytes(name_chats[1])}
      BY <3>2, <3>3
    <3>6. ShiftFds(s)[k] \in {FdAt(k + 1), WildFd}
      BY <3>1, <3>4, <3>5
    <3> QED
      BY <2>1, <2>4, <3>6
  <2> QED
    BY <2>2, <2>3, <2>4
<1> QED
  BY <1>3, <1>4, <1>6, <1>7

\* read() returned 0 or -1: remove_chatter.
LEMMA RemoveStep == IInv /\ RemoveChatter => IInv'
<1> SUFFICES ASSUME IInv, RemoveChatter PROVE IInv'
  OBVIOUS
<1> DEFINE f == FdAt(i)
           c == Chatter(i)
           Old(k) == IF k < i THEN k ELSE k + 1
<1>0. /\ i \in Seats /\ Flagged(i) /\ pc = "scan" /\ HungUp(c)
      /\ fd_chats' = ShiftFds(i) /\ name_chats' = ShiftNames(i)
      /\ numChats' = numChats - 1 /\ i' = i + 1
      /\ sock' = [sock EXCEPT ![f] = NoClient]
      /\ conn' = [conn EXCEPT ![c] = "idle"]
      /\ outq' = [outq EXCEPT ![c] = << >>]
      /\ UNCHANGED <<pc, fdCheck, j, outbuff, backlog, inq>>
  BY DEF RemoveChatter, Reading
<1>1. f \in OpenFds /\ c \in Clients /\ c = sock[f]
  BY <1>0, SeatChatter DEF Chatter
<1>2. /\ numChats \in 1 .. (MAX_CHATS + 1) /\ MAX_CHATS \in Nat \ {0}
      /\ i \in 0 .. (numChats - 1)
      /\ Seats = 0 .. (numChats - 1) /\ Seats' = 0 .. (numChats - 2)
      /\ \A k \in Seats' : Old(k) \in Seats /\ Old(k) # i
      /\ \A k, l \in Seats' : k # l => Old(k) # Old(l)
  BY <1>0, ConstantsAssumption DEF IInv, TypeOK, Seats
<1>3. /\ name_chats' \in [0 .. MAX_CHATS -> Name]
      /\ \A k \in 1 .. MAX_CHATS : name_chats'[k][1] # "fd"
      /\ fd_chats' \in [0 .. (MAX_CHATS - 1) -> Fds \cup {0, WildFd}]
      /\ \A k \in 0 .. (numChats - 2) :
           k < MAX_CHATS /\ fd_chats'[k] \in {FdAt(Old(k)), WildFd}
  BY <1>0, ShiftEffect DEF IInv, TableOpen
<1>4. \A k \in Seats' : FdAt(k)' \in {FdAt(Old(k)), WildFd}
  BY <1>2, <1>3 DEF FdAt
<1>5. OpenFds' = OpenFds \ {f} /\ \A g \in OpenFds' : sock'[g] = sock[g]
  BY <1>0, <1>1, ConstantsAssumption DEF IInv, TypeOK, OpenFds
<1>6. TypeOK'
  <2>1. sock' \in [Fds -> Clients \cup {NoClient}]
    BY <1>0 DEF IInv, TypeOK
  <2>2. /\ conn' \in [Clients -> {"idle", "open", "closed", "poked", "reset", "refused"}]
        /\ outq' \in [Clients -> Seq(Message)]
    <3>1. << >> \in Seq(Message)
      OBVIOUS
    <3> QED
      BY <1>0, <3>1 DEF IInv, TypeOK
  <2>3. numChats' \in 0 .. (MAX_CHATS + 1) /\ i' \in 0 .. (MAX_CHATS + 1)
    BY <1>0, <1>2
  <2> QED
    BY <1>0, <1>3, <2>1, <2>2, <2>3 DEF IInv, TypeOK
<1>7. LocalsSet'
  BY <1>0 DEF LocalsSet
<1>8. \A g \in OpenFds' : sock[g] # c
  BY <1>1, <1>5 DEF IInv, OneDescriptor
<1>9. OneDescriptor'
  <2>1. \A g, h \in OpenFds' : sock'[g] = sock'[h] => g = h
    BY <1>5 DEF IInv, OneDescriptor
  <2>2. ASSUME NEW d \in Clients, Waits(d)' \/ conn'[d] \in {"idle", "refused"},
               NEW g \in Fds
        PROVE  sock'[g] # d
    <3>1. CASE g \in OpenFds'
      BY <1>0, <1>1, <1>5, <1>8, <2>2, <3>1 DEF IInv, TypeOK, OneDescriptor, Waits
    <3>2. CASE g \notin OpenFds'
      BY <3>2, ConstantsAssumption DEF OpenFds
    <3> QED
      BY <3>1, <3>2
  <2> QED
    BY <2>1, <2>2 DEF OneDescriptor
<1>q. QueueSound'
  <2>1. ~ Waits(c)
    BY <1>1 DEF IInv, OneDescriptor, OpenFds
  <2>2. \A d \in Clients \ {c} : conn'[d] = conn[d]
    BY <1>0, <1>1 DEF IInv, TypeOK
  <2> QED
    BY <1>0, <2>1, <2>2, QueueKept
<1>10. TableOpen'
  <2>1. ASSUME NEW k \in Seats', FdAt(k)' # WildFd
        PROVE  FdAt(k)' = FdAt(Old(k)) /\ FdAt(k)' \in OpenFds'
    BY <1>0, <1>2, <1>4, <1>5, <2>1 DEF IInv, TableOpen
  <2>2. ASSUME NEW k \in Seats', NEW l \in Seats', k # l, FdAt(k)' # WildFd
        PROVE  FdAt(k)' # FdAt(l)'
    BY <1>2, <2>1, <2>2 DEF IInv, TableOpen
  <2> QED
    BY <1>3, <2>1, <2>2 DEF TableOpen
<1>11. FlagsFresh'
  <2>1. ASSUME NEW k \in Seats', k >= i + 1, Flagged(k)' PROVE Pending(Chatter(k))'
    <3>1. WildFd \notin fdCheck
      BY ConstantsAssumption DEF IInv, TypeOK, WildFd, ListenFd
    <3>2. FdAt(k)' = FdAt(k + 1) /\ Flagged(k + 1) /\ k + 1 \in Seats
      BY <1>0, <1>2, <1>4, <2>1, <3>1 DEF Flagged
    <3>3. Pending(Chatter(k + 1))
      BY <1>0, <1>2, <2>1, <3>2 DEF IInv, FlagsFresh, ToScan
    <3>4. FdAt(k + 1) \in OpenFds' /\ Chatter(k + 1) \in Clients
      BY <1>0, <1>2, <1>5, <2>1, <3>2, SeatChatter DEF IInv, TableOpen
    <3>5. Chatter(k)' = Chatter(k + 1) /\ Chatter(k + 1) # c
      BY <1>5, <1>8, <3>2, <3>4 DEF Chatter
    <3> QED
      BY <1>0, <3>3, <3>4, <3>5 DEF IInv, TypeOK, Pending, HungUp
  <2> QED
    BY <1>0, <2>1 DEF FlagsFresh, ToScan
<1> QED
  BY <1>6, <1>7, <1>9, <1>10, <1>11, <1>q DEF IInv

-----------------------------------------------------------------------------
(* The theorems.                                                            *)

LEMMA NextKeepsIInv == IInv /\ [Next]_vars => IInv'
<1> SUFFICES ASSUME IInv, [Next]_vars PROVE IInv'
  OBVIOUS
<1>1. CASE UNCHANGED vars
  <2>1. /\ Seats' = Seats /\ OpenFds' = OpenFds
        /\ \A k : FdAt(k)' = FdAt(k) /\ Chatter(k)' = Chatter(k)
    BY <1>1, TablesKept DEF vars, server, kernel
  <2>2. \A k : /\ ToScan(k)' = ToScan(k) /\ Flagged(k)' = Flagged(k)
               /\ Pending(k)' = Pending(k)
    BY <1>1, <2>1 DEF vars, server, kernel, ToScan, Flagged, Pending, HungUp
  <2>3. TypeOK'
    BY <1>1 DEF vars, server, kernel, IInv, TypeOK
  <2> QED
    BY <1>1, <2>1, <2>2, <2>3
    DEF vars, server, kernel, IInv, LocalsSet, OneDescriptor, Waits, TableOpen, FlagsFresh, QueueSound
<1>2. CASE ServerStep
  <2>1. \/ SelectReturns \/ WildDescriptor
        \/ (\E c \in Clients : RejectChatter(c)) \/ (\E c \in Clients : AddChatter(c))
        \/ ScanSkip \/ ScanDone \/ ReadName \/ ReadChat \/ RemoveChatter
        \/ Reply \/ RelaySkip \/ RelayWrite \/ RelayDone \/ SigPipe
    BY <1>2 DEF ServerStep
  <2> QED
    BY <2>1, SelectStep, LoopStep, RejectStep, AddStep, ReadStep, RemoveStep, WriteStep
<1>3. CASE ChatterStep
  BY <1>3, ChatterStepKeeps
<1> QED
  BY <1>1, <1>2, <1>3 DEF Next

THEOREM IInvHolds == Spec => []IInv
  BY InitIInv, NextKeepsIInv, PTL DEF Spec

\* The model is well-typed: in particular numChats never passes MAX_CHATS + 1,
\* so that the one cell past the end that the model keeps is enough.
THEOREM TypeCorrect == Spec => []TypeOK
<1>1. IInv => TypeOK
  BY DEF IInv
<1> QED
  BY IInvHolds, <1>1, PTL

\* read() is only called where it returns at once, however many chatters
\* arrive, leave and move between select() and the end of the scan.
THEOREM ReadsReturn == Spec => []ReadNeverBlocks
<1>1. IInv => ReadNeverBlocks
  <2> SUFFICES ASSUME IInv, Reading PROVE Pending(Chatter(i))
    BY DEF ReadNeverBlocks
  <2>1. i \in Seats /\ Flagged(i) /\ ToScan(i)
    BY DEF Reading, ToScan, Seats, IInv, TypeOK
  <2> QED
    BY <2>1 DEF IInv, FlagsFresh
<1> QED
  BY IInvHolds, <1>1, PTL

-----------------------------------------------------------------------------
(* With no more chatters than seats the table never overflows, and agrees   *)
(* with the kernel.  (With more it does overflow: TableWithinBounds.)       *)

FewChatters == IsFiniteSet(Clients) /\ Cardinality(Clients) <= MAX_CHATS

RoomInv == IInv /\ numChats <= MAX_CHATS /\ Registered = OpenFds

\* Within the table, a seat's descriptor is open.
LEMMA SeatOpen ==
  ASSUME RoomInv, NEW k \in Seats
  PROVE  FdAt(k) \in OpenFds /\ FdAt(k) # WildFd /\ Chatter(k) \in Clients
<1>1. FdAt(k) \in OpenFds
  BY DEF RoomInv, Registered
<1>2. FdAt(k) # WildFd
  BY <1>1, ConstantsAssumption DEF OpenFds, WildFd
<1> QED
  BY <1>1, <1>2, SeatChatter DEF RoomInv

\* Seats have different chatters, and one who waits for accept() has none.
LEMMA SeatLeft ==
  ASSUME FewChatters, RoomInv, NEW c \in Clients, Waits(c)
  PROVE  numChats < MAX_CHATS
<1> DEFINE T == Clients \ {c}
           who == [k \in Seats |-> Chatter(k)]
<1>1. c \in Clients /\ \A f \in Fds : sock[f] # c
  BY DEF RoomInv, IInv, TypeOK, OneDescriptor
<1>2. \A k \in Seats : Chatter(k) \in T
  BY <1>1, SeatOpen DEF Chatter, OpenFds
<1>3. \A k, l \in Seats : k # l => Chatter(k) # Chatter(l)
  BY SeatOpen DEF RoomInv, IInv, OneDescriptor, TableOpen, Chatter
<1>4. who \in Injection(Seats, T)
  BY <1>2, <1>3 DEF Injection, IsInjective
<1>5. IsFiniteSet(T) /\ Cardinality(T) = Cardinality(Clients) - 1
  BY <1>1, FS_RemoveElement DEF FewChatters
<1>6. Cardinality(Seats) <= Cardinality(T)
  BY <1>4, <1>5, FS_Injection
<1>7. Cardinality(Seats) = numChats
  <2>1. numChats \in Nat
    BY ConstantsAssumption DEF RoomInv, IInv, TypeOK
  <2>2. Cardinality(0 .. (numChats - 1)) = IF 0 > numChats - 1 THEN 0 ELSE numChats - 1 - 0 + 1
    BY <2>1, FS_Interval
  <2> QED
    BY <2>1, <2>2 DEF Seats
<1>8. Cardinality(Clients) \in Nat
  BY FS_CardinalityType DEF FewChatters
<1> QED
  BY <1>5, <1>6, <1>7, <1>8, ConstantsAssumption DEF FewChatters, RoomInv, IInv, TypeOK

\* Within the table, the compaction moves each later seat up by one.
LEMMA ShiftWithin ==
  ASSUME RoomInv, NEW s \in Seats, NEW k \in 0 .. (numChats - 2)
  PROVE  LET old == IF k < s THEN k ELSE k + 1
         IN  /\ old \in Seats /\ k < MAX_CHATS
             /\ ShiftFds(s)[k] = FdAt(old)
             /\ ShiftNames(s)[k] = name_chats[old]
<1>1. /\ DOMAIN fd_chats = 0 .. (MAX_CHATS - 1) /\ DOMAIN name_chats = 0 .. MAX_CHATS
      /\ numChats \in 0 .. MAX_CHATS /\ MAX_CHATS \in Nat
      /\ s \in 0 .. (numChats - 1)
  BY ConstantsAssumption DEF RoomInv, IInv, TypeOK, Seats
<1>2. CASE k < s
  BY <1>1, <1>2 DEF ShiftFds, ShiftNames, FdAt, Seats
<1>3. CASE ~ (k < s)
  BY <1>1, <1>3 DEF ShiftFds, ShiftNames, FdAt, Seats
<1> QED
  BY <1>2, <1>3

\* The steps that can change the tables or a descriptor.
LEMMA StepsOfTable ==
  ASSUME [Next]_vars
  PROVE  \/ UNCHANGED <<fd_chats, name_chats, numChats, sock>>
         \/ (\E c \in Clients : AddChatter(c)) \/ ReadName \/ RemoveChatter
  BY DEF Next, ServerStep, ChatterStep, vars, server, kernel, SelectReturns, WildDescriptor,
         RejectChatter, ScanSkip, ScanDone, ReadChat, Reply, RelaySkip, RelayWrite, RelayDone,
         SigPipe, Connect, Arrive, Consume, Take, HangUp, RstArrives

LEMMA RoomKept ==
  ASSUME FewChatters, RoomInv, [Next]_vars
  PROVE  RoomInv'
<1>1. IInv'
  BY NextKeepsIInv DEF RoomInv
<1>2. ASSUME UNCHANGED <<fd_chats, name_chats, numChats, sock>>
      PROVE  numChats' <= MAX_CHATS /\ Registered' = OpenFds'
  BY <1>2, TablesKept DEF RoomInv, Registered
<1>3. ASSUME NEW c \in Clients, AddChatter(c)
      PROVE  numChats' <= MAX_CHATS /\ Registered' = OpenFds'
  <2>1. PICK f \in Fds : LowestFree(f) /\ sock' = [sock EXCEPT ![f] = c] /\ Seat(f)
    BY <1>3 DEF AddChatter
  <2>2. OpenFds' = OpenFds \cup {f}
    BY <2>1, ConstantsAssumption DEF RoomInv, IInv, TypeOK, OpenFds
  <2>3. numChats < MAX_CHATS
    BY <1>3, SeatLeft, AcceptEffect DEF AddChatter, RoomInv
  <2>4. /\ numChats' = numChats + 1 /\ numChats \in Nat
        /\ Seats' = Seats \cup {numChats} /\ numChats \notin Seats
        /\ \A k \in Seats' : FdAt(k)' = IF k \in Seats THEN FdAt(k) ELSE f
    BY <2>1, SeatEffect DEF RoomInv
  <2>5. Registered' = Registered \cup {f}
    BY <2>4 DEF Registered
  <2> QED
    BY <2>2, <2>3, <2>4, <2>5, ConstantsAssumption DEF RoomInv
<1>4. ASSUME ReadName
      PROVE  numChats' <= MAX_CHATS /\ Registered' = OpenFds'
  <2>1. numChats' = numChats /\ fd_chats' = fd_chats /\ sock' = sock
    BY <1>4 DEF ReadName
  <2>2. \A k \in Seats : k < MAX_CHATS
    BY ConstantsAssumption DEF Seats, RoomInv, IInv, TypeOK
  <2>3. \A k \in Seats : FdAt(k)' = FdAt(k)
    BY <2>1, <2>2 DEF FdAt
  <2> QED
    BY <2>1, <2>3 DEF RoomInv, Registered, OpenFds, Seats
<1>5. ASSUME RemoveChatter
      PROVE  numChats' <= MAX_CHATS /\ Registered' = OpenFds'
  <2>1. /\ i \in Seats /\ fd_chats' = ShiftFds(i) /\ numChats' = numChats - 1
        /\ sock' = [sock EXCEPT ![FdAt(i)] = NoClient]
    BY <1>5 DEF RemoveChatter, Reading
  <2>2. OpenFds' = OpenFds \ {FdAt(i)}
    BY <2>1, SeatOpen, ConstantsAssumption DEF RoomInv, IInv, TypeOK, OpenFds
  <2>3. /\ numChats \in Nat /\ Seats = 0 .. (numChats - 1) /\ Seats' = 0 .. (numChats - 2)
        /\ i \in 0 .. (numChats - 1)
    BY <2>1, ConstantsAssumption DEF RoomInv, IInv, TypeOK, Seats
  <2>4. \A k \in Seats' : FdAt(k)' = FdAt(IF k < i THEN k ELSE k + 1)
    BY <2>1, <2>3, ShiftWithin DEF FdAt
  <2>5. \A k, l \in Seats : k # l => FdAt(k) # FdAt(l)
    BY SeatOpen DEF RoomInv, IInv, TableOpen
  <2>6. Registered' = Registered \ {FdAt(i)}
    <3>1. \A k \in Seats' : (IF k < i THEN k ELSE k + 1) \in Seats \ {i}
      BY <2>3
    <3>2. \A l \in Seats \ {i} : \E k \in Seats' : l = IF k < i THEN k ELSE k + 1
      <4> TAKE l \in Seats \ {i}
      <4>1. CASE l < i
        BY <2>3, <4>1
      <4>2. CASE ~ (l < i)
        <5>1. l - 1 \in Seats' /\ ~ (l - 1 < i) /\ l = l - 1 + 1
          BY <2>3, <4>2
        <5> QED
          BY <5>1
      <4> QED
        BY <4>1, <4>2
    <3> QED
      BY <2>1, <2>4, <2>5, <3>1, <3>2 DEF Registered
  <2> QED
    BY <2>1, <2>2, <2>3, <2>6, ConstantsAssumption DEF RoomInv
<1> QED
  BY <1>1, <1>2, <1>3, <1>4, <1>5, StepsOfTable DEF RoomInv

LEMMA RoomInvHolds ==
  ASSUME FewChatters
  PROVE  Spec => []RoomInv
<1>1. Init => RoomInv
  <2> SUFFICES ASSUME Init PROVE RoomInv
    OBVIOUS
  <2>1. Registered = {} /\ OpenFds = {} /\ numChats <= MAX_CHATS
    BY ConstantsAssumption DEF Init, Registered, Seats, OpenFds
  <2> QED
    BY <2>1, InitIInv DEF RoomInv
<1>2. RoomInv /\ [Next]_vars => RoomInv'
  BY RoomKept
<1> QED
  BY <1>1, <1>2, PTL DEF Spec

\* Every descriptor accept() returned is listed once until it is closed, and
\* nothing else is listed.
THEOREM TableAgrees ==
  ASSUME FewChatters
  PROVE  Spec => []TableSound
<1>1. RoomInv => TableSound
  BY SeatOpen DEF RoomInv, IInv, TableOpen, TableSound
<1> QED
  BY RoomInvHolds, <1>1, PTL

\* numChats stays within the tables, so that no store goes past their end.
THEOREM TableFits ==
  ASSUME FewChatters
  PROVE  Spec => []TableWithinBounds
<1>1. RoomInv => TableWithinBounds
  BY DEF RoomInv, TableWithinBounds
<1> QED
  BY RoomInvHolds, <1>1, PTL

\* A name stays with its connection, whatever the compaction moves.
THEOREM NamesBelong ==
  ASSUME FewChatters
  PROVE  Spec => NamesStay
<1>1. ASSUME RoomInv, [Next]_vars PROVE [NamesKept]_vars
  <2> SUFFICES ASSUME NEW k \in Seats, NEW l \in Seats', Chatter(k) = Chatter(l)'
               PROVE  name_chats'[l] = name_chats[k] \/ (ReadName /\ k = i)
    BY DEF NamesKept
  <2>1. \A m \in Seats : Chatter(m) = Chatter(k) => m = k
    BY <1>1, SeatOpen DEF RoomInv, IInv, OneDescriptor, TableOpen, Chatter
  <2>2. CASE UNCHANGED <<fd_chats, name_chats, numChats, sock>>
    BY <2>1, <2>2, TablesKept
  <2>3. ASSUME NEW c \in Clients, AddChatter(c) PROVE name_chats'[l] = name_chats[k]
    <3>1. PICK f \in Fds : LowestFree(f) /\ sock' = [sock EXCEPT ![f] = c] /\ Seat(f)
      BY <2>3 DEF AddChatter
    <3>2. /\ numChats < MAX_CHATS
          /\ \A m \in Seats' : m \in Seats \/ m = numChats
          /\ numChats \notin Seats
          /\ \A m \in Seats' : FdAt(m)' = IF m \in Seats THEN FdAt(m) ELSE f
      BY <1>1, <2>3, <3>1, SeatLeft, SeatEffect, AcceptEffect DEF RoomInv, AddChatter
    <3>3. f \notin OpenFds /\ sock'[f] = c /\ \A g \in Fds : sock[g] # c
      <4>1. Waits(c)
        BY <1>1, <2>3, AcceptEffect DEF AddChatter, RoomInv
      <4> QED
        BY <1>1, <3>1, <4>1 DEF LowestFree, RoomInv, IInv, TypeOK, OneDescriptor
    <3>4. l \in Seats
      BY <1>1, <3>2, <3>3, SeatOpen DEF Chatter, OpenFds
    <3>5. Chatter(l)' = Chatter(l)
      BY <1>1, <3>1, <3>2, <3>3, <3>4, SeatOpen DEF Chatter
    <3>6. name_chats' = [name_chats EXCEPT ![numChats] = Unknown(numChats)]
      BY <3>1, <3>2, ConstantsAssumption DEF Seat
    <3> QED
      BY <2>1, <3>2, <3>4, <3>5, <3>6
  <2>4. CASE ReadName
    <3>1. numChats' = numChats /\ fd_chats' = fd_chats /\ sock' = sock /\ Seats' = Seats
      BY <2>4 DEF ReadName, Seats
    <3>2. l < MAX_CHATS
      BY <1>1, <3>1, ConstantsAssumption DEF Seats, RoomInv, IInv, TypeOK
    <3>3. Chatter(l)' = Chatter(l)
      BY <3>1, <3>2 DEF FdAt, Chatter
    <3>4. k = l
      BY <2>1, <3>1, <3>3
    <3> QED
      BY <2>4, <3>4 DEF ReadName
  <2>5. CASE RemoveChatter
    <3>1. /\ i \in Seats /\ fd_chats' = ShiftFds(i) /\ name_chats' = ShiftNames(i)
          /\ numChats' = numChats - 1 /\ sock' = [sock EXCEPT ![FdAt(i)] = NoClient]
      BY <2>5 DEF RemoveChatter, Reading
    <3>2. l \in 0 .. (numChats - 2) /\ i \in 0 .. (numChats - 1) /\ numChats \in Nat
      BY <1>1, <3>1, ConstantsAssumption DEF RoomInv, IInv, TypeOK, Seats
    <3> DEFINE old == IF l < i THEN l ELSE l + 1
    <3>3. /\ old \in Seats /\ l < MAX_CHATS
          /\ ShiftFds(i)[l] = FdAt(old) /\ ShiftNames(i)[l] = name_chats[old]
      BY <1>1, <3>1, <3>2, ShiftWithin
    <3>4. old # i
      BY <3>2
    <3> HIDE DEF old
    <3>5. FdAt(l)' = FdAt(old) /\ FdAt(old) # FdAt(i)
      BY <1>1, <3>1, <3>3, <3>4, SeatOpen DEF FdAt, RoomInv, IInv, TableOpen
    <3>6. Chatter(l)' = Chatter(old)
      BY <1>1, <3>1, <3>5 DEF Chatter
    <3> QED
      BY <2>1, <3>1, <3>3, <3>6
  <2>6. CASE UNCHANGED vars
    BY <2>2, <2>6 DEF vars, server, kernel
  <2> QED
    BY <1>1, <2>2, <2>3, <2>4, <2>5, <2>6, StepsOfTable
<1> QED
  BY <1>1, RoomInvHolds, PTL DEF Spec, NamesStay

-----------------------------------------------------------------------------
(* The server implements ChatRoom.                                          *)

\* Any line a chatter can write is a post.
AnyBody == Seq(Chunk) \subseteq Bodies

Relayed == outbuff.kind = "chat"

\* Only the relay loop leaves seats behind: before and after it, outbuff holds
\* something else or the index has passed every seat.
RelayFits ==
  /\ pc \in {"select", "accept"} => ~ Relayed
  /\ pc = "reply" => ~ Relayed
  /\ pc = "scan" /\ Relayed => j >= numChats
  /\ pc = "relay" => Relayed /\ outbuff.by = Chatter(i)

\* What is being relayed is the newest post; who has no seat has no inbox.
HistoryFits ==
  /\ posts \in Seq(Room!Post)
  /\ inbox \in [Clients -> Seq(Room!Post)]
  /\ Relayed => posts # << >> /\ posts[Len(posts)] = PostOf(outbuff)
  /\ \A c \in Clients : ~ Seated(c) => inbox[c] = << >>

HistoryInv == RoomInv /\ RelayFits /\ HistoryFits

\* A chatter's seat is the one SeatOf() finds.
SeatsFound ==
  /\ \A k \in Seats : Seated(Chatter(k)) /\ SeatOf(Chatter(k)) = k
  /\ \A c \in Clients : Seated(c) => SeatOf(c) \in Seats /\ Chatter(SeatOf(c)) = c

\* It is, while the table agrees with the kernel.
LEMMA SeatFound == RoomInv => SeatsFound
<1> SUFFICES ASSUME RoomInv PROVE SeatsFound
  OBVIOUS
<1>1. \A k, l \in Seats : Chatter(k) = Chatter(l) => k = l
  BY SeatOpen DEF RoomInv, IInv, OneDescriptor, TableOpen, Chatter
<1>2. ASSUME NEW k \in Seats PROVE Seated(Chatter(k)) /\ SeatOf(Chatter(k)) = k
  BY <1>1, SeatOpen DEF SeatOf, Seated, Chatter, OpenFds
<1>3. ASSUME NEW c \in Clients, Seated(c)
      PROVE  SeatOf(c) \in Seats /\ Chatter(SeatOf(c)) = c
  <2>1. PICK f \in OpenFds : sock[f] = c
    BY <1>3, ConstantsAssumption DEF Seated, OpenFds
  <2>2. PICK k \in Seats : f = FdAt(k)
    BY <2>1 DEF RoomInv, Registered
  <2> QED
    BY <1>2, <2>1, <2>2 DEF Chatter
<1> QED
  BY <1>2, <1>3 DEF SeatsFound

LEMMA SeatFoundNext == RoomInv' => SeatsFound'
  BY SeatFound, PTL

\* What SeatOf() finds depends on the descriptors, not on the names.
LEMMA SeatsStay ==
  ASSUME RoomInv, RoomInv', UNCHANGED <<fd_chats, numChats, sock>>
  PROVE  /\ Seats' = Seats
         /\ \A k \in Seats : Chatter(k)' = Chatter(k)
         /\ \A c \in Clients : Seated(c)' = Seated(c)
         /\ \A c \in Clients : Seated(c) => SeatOf(c)' = SeatOf(c)
<1>1. Seats' = Seats /\ \A c \in Clients : Seated(c)' = Seated(c)
  BY DEF Seats, Seated
<1>2. ASSUME NEW k \in Seats PROVE Chatter(k)' = Chatter(k)
  <2>1. k < MAX_CHATS
    BY ConstantsAssumption DEF Seats, RoomInv, IInv, TypeOK
  <2> QED
    BY <2>1 DEF FdAt, Chatter
<1>3. ASSUME NEW c \in Clients, Seated(c) PROVE SeatOf(c)' = SeatOf(c)
  <2>1. SeatOf(c) \in Seats /\ Chatter(SeatOf(c)) = c
    BY <1>3, SeatFound DEF SeatsFound
  <2>2. \A k \in Seats' : Chatter(k)' = c => SeatOf(c)' = k
    BY SeatFoundNext DEF SeatsFound
  <2> QED
    BY <1>1, <1>2, <2>1, <2>2
<1> QED
  BY <1>1, <1>2, <1>3

\* Only a line that is relayed counts as one.
LEMMA NoLine ==
  ASSUME TypeOK,
         \/ UNCHANGED outq
         \/ \E c \in Clients : outq' = [outq EXCEPT ![c] = << >>]
         \/ \E c \in Clients : \E n \in DOMAIN outq[c] :
              outq' = [outq EXCEPT ![c] = SubSeq(@, n + 1, Len(@))]
         \/ \E c \in Clients, m \in Message : m.kind # "chat" /\ Write(c, m)
  PROVE  \A c \in Clients : ~ GotLine(c)
<1> SUFFICES ASSUME NEW c \in Clients PROVE ~ GotLine(c)
  OBVIOUS
<1>0. outq \in [Clients -> Seq(Message)] /\ outq[c] \in Seq(Message) /\ Len(outq[c]) \in Nat
  BY DEF TypeOK
<1>1. CASE UNCHANGED outq
  BY <1>0, <1>1 DEF GotLine
<1>2. ASSUME NEW d \in Clients, outq' = [outq EXCEPT ![d] = << >>] PROVE ~ GotLine(c)
  <2>1. Len(outq'[c]) = 0 \/ outq'[c] = outq[c]
    BY <1>0, <1>2
  <2> QED
    BY <1>0, <2>1 DEF GotLine
<1>3. ASSUME NEW d \in Clients, NEW n \in DOMAIN outq[d],
             outq' = [outq EXCEPT ![d] = SubSeq(@, n + 1, Len(@))]
      PROVE  ~ GotLine(c)
  <2>1. CASE c = d
    <3>1. outq'[c] = SubSeq(outq[c], n + 1, Len(outq[c]))
      BY <1>0, <1>3, <2>1, Zenon
    <3>2. n \in 1 .. Len(outq[c])
      BY <1>0, <2>1
    <3>3. \A s \in Seq(Message) : \A m \in 1 .. Len(s) : Len(SubSeq(s, m + 1, Len(s))) = Len(s) - m
      OBVIOUS
    <3>4. Len(outq'[c]) = Len(outq[c]) - n
      BY <1>0, <3>1, <3>2, <3>3
    <3> QED
      BY <1>0, <3>2, <3>4 DEF GotLine
  <2>2. CASE c # d
    BY <1>0, <1>3, <2>2 DEF GotLine
  <2> QED
    BY <2>1, <2>2
<1>4. ASSUME NEW d \in Clients, NEW m \in Message, m.kind # "chat", Write(d, m)
      PROVE  ~ GotLine(c)
  <2>1. CASE outq' = [outq EXCEPT ![d] = Append(@, m)]
    <3>1. c = d => outq'[c][Len(outq'[c])] = m
      BY <1>0, <2>1
    <3>2. c # d => outq'[c] = outq[c]
      BY <1>0, <2>1
    <3> QED
      BY <1>0, <1>4, <3>1, <3>2 DEF GotLine
  <2>2. CASE UNCHANGED outq
    BY <1>0, <2>2 DEF GotLine
  <2> QED
    BY <1>4, <2>1, <2>2 DEF Write
<1> QED
  BY <1>1, <1>2, <1>3, <1>4

\* What joins an inbox is a post, and whoever loses the seat loses the inbox.
LEMMA InboxKept ==
  ASSUME AnyBody, TypeOK, TypeOK', inbox \in [Clients -> Seq(Room!Post)], RecordInbox
  PROVE  /\ inbox' \in [Clients -> Seq(Room!Post)]
         /\ \A c \in Clients : ~ Seated(c)' => inbox'[c] = << >>
<1>1. ASSUME NEW c \in Clients, GotLine(c)
      PROVE  PostOf(outq'[c][Len(outq'[c])]) \in Room!Post
  <2>1. outq'[c] \in Seq(Message) /\ Len(outq'[c]) \in Nat
    BY DEF TypeOK
  <2>2. Len(outq'[c]) \in DOMAIN outq'[c]
    <3>1. Len(outq[c]) \in Nat
      BY DEF TypeOK
    <3> QED
      BY <1>1, <2>1, <3>1 DEF GotLine
  <2>3. outq'[c][Len(outq'[c])] \in Message
    BY <2>1, <2>2
  <2> QED
    BY <1>1, <2>3 DEF GotLine, Message, PostOf, AnyBody, Room!Post
<1> QED
  BY <1>1 DEF RecordInbox

\* A turn of the relay loop starts with ReadChat, and outbuff is not written
\* before it has gone round.
LEMMA RelayStaysFit ==
  ASSUME HistoryInv, RoomInv', Next
  PROVE  /\ RelayFits'
         /\ \/ ReadChat
            \/ (pc' = "relay" => pc = "relay") /\ (Relayed' => outbuff' = outbuff)
<1> USE DEF RelayFits, Relayed
<1>0. HistoryInv /\ RelayFits /\ numChats \in Nat /\ Seats = 0 .. (numChats - 1)
  BY ConstantsAssumption DEF HistoryInv, RoomInv, IInv, TypeOK, Seats
<1>1. CASE ChatterStep \/ SelectReturns \/ WildDescriptor \/ ScanSkip \/ SigPipe
  <2>1. UNCHANGED <<fd_chats, name_chats, numChats, sock, j, outbuff>>
    BY <1>1 DEF ChatterStep, Connect, Arrive, Consume, Take, HangUp, RstArrives, server, kernel,
                SelectReturns, WildDescriptor, ScanSkip, SigPipe
  <2>2. \/ pc' = pc /\ (pc = "relay" => i' = i)
        \/ pc = "select" /\ pc' \in {"accept", "scan"}
        \/ pc' \in {"dead", "undefined"}
    BY <1>1 DEF ChatterStep, Connect, Arrive, Consume, Take, HangUp, RstArrives, server,
                SelectReturns, WildDescriptor, ScanSkip, SigPipe
  <2>3. \A k : Chatter(k)' = Chatter(k)
    BY <2>1, TablesKept
  <2>4. pc = "relay" /\ pc' = "relay" => Chatter(i)' = Chatter(i)
    <3>1. pc = "relay" /\ pc' = "relay" => i' = i
      BY <2>2
    <3>2. ASSUME i' = i PROVE Chatter(i)' = Chatter(i)
      BY <2>1, <3>2 DEF Chatter, FdAt, FdBytes
    <3> QED
      BY <3>1, <3>2
  <2> QED
    BY <1>0, <2>1, <2>2, <2>4
<1>2. ASSUME NEW c \in Clients, RejectChatter(c) \/ AddChatter(c)
      PROVE  ~ Relayed' /\ pc' = "scan"
  BY <1>0, <1>2 DEF RejectChatter, AddChatter
<1>3. CASE ScanDone \/ ReadName
  BY <1>3 DEF ScanDone, ReadName, NoMsg, Renamed
<1>4. CASE ReadChat
  <2>1. pc' = "relay" /\ outbuff' = Chat(Chatter(i), name_chats[i], Buffer)
        /\ UNCHANGED <<fd_chats, name_chats, numChats, sock, i>>
    BY <1>4 DEF ReadChat
  <2>2. Chatter(i)' = Chatter(i)
    BY <2>1 DEF Chatter, FdAt, FdBytes
  <2> QED
    BY <1>4, <2>1, <2>2 DEF Chat
<1>5. CASE RemoveChatter
  <2>1. pc = "scan" /\ pc' = "scan" /\ numChats' = numChats - 1 /\ UNCHANGED <<j, outbuff>>
    BY <1>5 DEF RemoveChatter, Reading
  <2>2. j \in Nat
    BY ConstantsAssumption DEF HistoryInv, RoomInv, IInv, TypeOK
  <2> QED
    BY <1>0, <2>1, <2>2
<1>6. CASE Reply
  BY <1>0, <1>6 DEF Reply
<1>7. CASE RelaySkip \/ RelayWrite
  <2>1. pc = "relay" /\ pc' = "relay"
        /\ UNCHANGED <<fd_chats, name_chats, numChats, sock, i, outbuff>>
    BY <1>7 DEF RelaySkip, RelayWrite, RelayTarget, kernel
  <2>2. Chatter(i)' = Chatter(i)
    BY <2>1 DEF Chatter, FdAt, FdBytes
  <2> QED
    BY <1>0, <2>1, <2>2
<1>8. CASE RelayDone
  <2>1. pc = "relay" /\ pc' = "scan" /\ j \notin Seats /\ UNCHANGED <<j, outbuff, numChats>>
    BY <1>8 DEF RelayDone
  <2>2. j \in Nat
    BY ConstantsAssumption DEF HistoryInv, RoomInv, IInv, TypeOK
  <2> QED
    BY <1>0, <2>1, <2>2
<1> QED
  BY <1>1, <1>2, <1>3, <1>4, <1>5, <1>6, <1>7, <1>8 DEF Next, ServerStep

LEMMA HistoryKept ==
  ASSUME FewChatters, AnyBody, HistoryInv, HNext
  PROVE  HistoryInv'
<1>1. RoomInv' /\ TypeOK /\ TypeOK'
  <2>1. RoomInv'
    BY RoomKept DEF HistoryInv, HNext
  <2> QED
    BY <2>1 DEF HistoryInv, RoomInv, IInv
<1>2. /\ RelayFits'
      /\ \/ ReadChat
         \/ (pc' = "relay" => pc = "relay") /\ (Relayed' => outbuff' = outbuff)
  BY <1>1, RelayStaysFit DEF HNext
<1>3. /\ inbox' \in [Clients -> Seq(Room!Post)]
      /\ \A c \in Clients : ~ Seated(c)' => inbox'[c] = << >>
  BY <1>1, InboxKept DEF HNext, HistoryInv, HistoryFits
<1>4. Relayed' => PostOf(outbuff') \in Room!Post
  BY <1>1 DEF TypeOK, Relayed, Message, NoMsg, PostOf, AnyBody, Room!Post
<1>5. posts \in Seq(Room!Post) /\ RecordPost /\ (Relayed => posts # << >> /\ posts[Len(posts)] = PostOf(outbuff))
  BY DEF HNext, HistoryInv, HistoryFits
<1>6. CASE ReadChat
  <2>1. posts' = Append(posts, PostOf(outbuff')) /\ Relayed'
    BY <1>5, <1>6 DEF RecordPost, ReadChat, Reading, Relayed, Chat
  <2>2. posts' \in Seq(Room!Post) /\ posts' # << >> /\ posts'[Len(posts')] = PostOf(outbuff')
    BY <1>4, <1>5, <2>1
  <2> QED
    BY <1>1, <1>2, <1>3, <2>2 DEF HistoryInv, HistoryFits
<1>7. CASE (pc' = "relay" => pc = "relay") /\ (Relayed' => outbuff' = outbuff)
  <2>1. posts' = posts
    BY <1>5, <1>7 DEF RecordPost
  <2>2. Relayed' => posts' # << >> /\ posts'[Len(posts')] = PostOf(outbuff')
    BY <1>5, <1>7, <2>1 DEF Relayed
  <2> QED
    BY <1>1, <1>2, <1>3, <1>5, <2>1, <2>2 DEF HistoryInv, HistoryFits
<1> QED
  BY <1>2, <1>6, <1>7

LEMMA HistoryHolds ==
  ASSUME FewChatters, AnyBody
  PROVE  HSpec => []HistoryInv
<1>1. HInit => HistoryInv
  <2> SUFFICES ASSUME HInit PROVE HistoryInv
    OBVIOUS
  <2>1. RoomInv
    <3>1. Registered = {} /\ OpenFds = {} /\ numChats <= MAX_CHATS
      BY ConstantsAssumption DEF HInit, Init, Registered, Seats, OpenFds
    <3> QED
      BY <3>1, InitIInv DEF RoomInv, HInit
  <2>2. RelayFits /\ ~ Relayed
    BY DEF HInit, Init, RelayFits, Relayed, NoMsg
  <2>3. HistoryFits
    BY <2>2 DEF HInit, HistoryFits
  <2> QED
    BY <2>1, <2>2, <2>3 DEF HistoryInv
<1>2. HistoryInv /\ [HNext]_hvars => HistoryInv'
  <2>1. CASE HNext
    BY <2>1, HistoryKept
  <2>2. ASSUME HistoryInv, UNCHANGED hvars PROVE HistoryInv'
    <3>1. RoomInv'
      BY <2>2, RoomKept DEF HistoryInv, hvars
    <3>2. UNCHANGED <<fd_chats, name_chats, numChats, sock, pc, i, j, outbuff, posts, inbox>>
      BY <2>2 DEF hvars, vars, server, kernel
    <3>3. Chatter(i)' = Chatter(i) /\ \A c \in Clients : Seated(c)' = Seated(c)
      BY <3>2 DEF Chatter, FdAt, FdBytes, Seated
    <3> QED
      BY <2>2, <3>1, <3>2, <3>3 DEF HistoryInv, RelayFits, HistoryFits, Relayed
  <2> QED
    BY <2>1, <2>2
<1> QED
  BY <1>1, <1>2, PTL DEF HSpec

-----------------------------------------------------------------------------
(* The steps of the mapping.                                                *)

Members  == {c \in Clients : Seated(c)}
GoneNow  == {c \in Clients : Seated(c) /\ HungUp(c)}
DealtNow == [c \in Clients |-> IF ~ Seated(c) THEN 0
                               ELSE IF Behind(c) THEN Len(posts) - 1
                               ELSE Len(posts)]

\* A step the room does not see.
LEMMA StepUnseen ==
  ASSUME HistoryInv, RoomInv', RecordInbox,
         UNCHANGED <<fd_chats, numChats, sock, posts>>,
         \A c \in Clients : Seated(c) => HungUp(c)' = HungUp(c) /\ Behind(c)' = Behind(c),
         \A c \in Clients : ~ GotLine(c)
  PROVE  UNCHANGED Room!room
<1>1. RoomInv /\ inbox \in [Clients -> Seq(Room!Post)] /\ \A c \in Clients : ~ Seated(c) => inbox[c] = << >>
  BY DEF HistoryInv, HistoryFits
<1>2. \A c \in Clients : Seated(c)' = Seated(c)
  BY <1>1, SeatsStay
<1>3. Members' = Members /\ GoneNow' = GoneNow
  BY <1>2 DEF Members, GoneNow
<1>4. DealtNow' = DealtNow
  BY <1>2 DEF DealtNow
<1>5. inbox' = inbox
  BY <1>1, <1>2 DEF RecordInbox
<1> QED
  BY <1>3, <1>4, <1>5 DEF Room!room, Members, GoneNow, DealtNow

\* Nobody is behind while nothing is being relayed.
LEMMA NoneBehind ==
  ASSUME HistoryInv, pc \in {"select", "accept", "scan", "reply"}
  PROVE  \A c \in Clients : Seated(c) => ~ Behind(c)
<1> SUFFICES ASSUME NEW c \in Clients, Seated(c), Relayed PROVE ~ (SeatOf(c) >= j)
  BY DEF Behind, Relayed
<1>1. SeatOf(c) \in 0 .. (numChats - 1) /\ numChats \in Nat
  BY SeatFound, ConstantsAssumption DEF SeatsFound, HistoryInv, RoomInv, IInv, TypeOK, Seats
<1>2. j >= numChats /\ j \in Nat
  BY ConstantsAssumption DEF HistoryInv, RelayFits, RoomInv, IInv, TypeOK
<1> QED
  BY <1>1, <1>2

LEMMA ServerStepUnseen ==
  ASSUME HistoryInv, RoomInv', RecordInbox, posts' = posts,
         \/ SelectReturns \/ WildDescriptor \/ ScanSkip \/ ScanDone
         \/ ReadName \/ Reply \/ RelayDone \/ SigPipe
  PROVE  UNCHANGED Room!room
<1>0. RoomInv /\ TypeOK
  BY DEF HistoryInv, RoomInv, IInv
<1>1. UNCHANGED <<fd_chats, numChats, sock>>
  <2>1. CASE SelectReturns \/ WildDescriptor \/ ScanSkip \/ ScanDone
    BY <2>1 DEF SelectReturns, WildDescriptor, ScanSkip, ScanDone, kernel
  <2>2. CASE ReadName \/ Reply
    BY <2>2 DEF ReadName, Reply
  <2>3. CASE RelayDone \/ SigPipe
    BY <2>3 DEF RelayDone, SigPipe, kernel
  <2> QED
    BY <2>1, <2>2, <2>3
<1>2. CASE Reply
  <2>1. Chatter(i) \in Clients /\ outbuff \in Message /\ outbuff.kind # "chat"
    BY <1>2, SeatOpen DEF Reply, HistoryInv, RelayFits, Relayed, RoomInv, IInv, LocalsSet
  <2>2. Write(Chatter(i), outbuff) /\ pc = "reply" /\ UNCHANGED <<outbuff, j>>
    BY <1>2 DEF Reply
  <2>3. \A c \in Clients : ~ GotLine(c)
    BY <1>0, <2>1, <2>2, NoLine
  <2>4. \A c \in Clients : HungUp(c)' = HungUp(c)
    BY <1>0, <2>1, <2>2 DEF Write, HungUp, TypeOK
  <2>5. \A c \in Clients : Seated(c) => Behind(c)' = Behind(c)
    BY <2>1, <2>2, NoneBehind DEF Behind
  <2> QED
    BY <1>1, <2>3, <2>4, <2>5, StepUnseen
<1>3. ASSUME \/ SelectReturns \/ WildDescriptor \/ ScanSkip \/ ScanDone
             \/ ReadName \/ RelayDone \/ SigPipe
      PROVE  UNCHANGED Room!room
  <2>1. UNCHANGED <<conn, outq>>
    BY <1>3 DEF SelectReturns, WildDescriptor, ScanSkip, ScanDone, ReadName, RelayDone, SigPipe, kernel
  <2>2. \A c \in Clients : ~ GotLine(c)
    BY <1>0, <2>1, NoLine
  <2>3. \A c \in Clients : HungUp(c)' = HungUp(c)
    BY <2>1 DEF HungUp
  <2>4. \A c \in Clients : Seated(c) => Behind(c)' = Behind(c)
    <3>1. CASE UNCHANGED <<outbuff, j>>
      BY <1>0, <1>1, <3>1, SeatsStay DEF Behind
    <3>2. CASE outbuff'.kind # "chat" /\ pc = "scan"
      BY <3>2, NoneBehind DEF Behind
    <3> QED
      BY <1>3, <3>1, <3>2 DEF SelectReturns, WildDescriptor, ScanSkip, ScanDone, ReadName, Reading,
                              RelayDone, SigPipe, NoMsg, Renamed
  <2> QED
    BY <1>1, <2>2, <2>3, <2>4, StepUnseen
<1> QED
  BY <1>2, <1>3

\* The chatters: only a seated one who hangs up is noticed.
LEMMA ChatterStepMapped ==
  ASSUME HistoryInv, RoomInv', RecordInbox, posts' = posts, ChatterStep
  PROVE  Room!Next \/ UNCHANGED Room!room
<1>0. /\ RoomInv /\ TypeOK /\ OneDescriptor /\ TypeOK'
      /\ \A c \in Clients : Seated(c) => conn[c] \notin {"idle", "refused"}
  BY DEF HistoryInv, RoomInv, IInv, OneDescriptor, Seated
<1>1. UNCHANGED <<fd_chats, numChats, sock, outbuff, j>>
  BY DEF ChatterStep, Connect, Arrive, Consume, Take, HangUp, RstArrives, server
<1>2. \A c \in Clients : Seated(c) => Behind(c)' = Behind(c)
  BY <1>0, <1>1, SeatsStay DEF Behind
<1>3. PICK c \in Clients : \/ Connect(c) \/ (\E s \in Says[c] : Arrive(c, s))
                           \/ Consume(c) \/ HangUp(c) \/ RstArrives(c)
  BY DEF ChatterStep
<1>4. \A d \in Clients : ~ GotLine(d)
  <2>1. \/ UNCHANGED outq
        \/ outq' = [outq EXCEPT ![c] = << >>]
        \/ \E n \in DOMAIN outq[c] : outq' = [outq EXCEPT ![c] = SubSeq(@, n + 1, Len(@))]
    BY <1>3 DEF Connect, Arrive, Consume, Take, HangUp, RstArrives
  <2> QED
    BY <1>0, <2>1, NoLine
<1>5. CASE HangUp(c) /\ Seated(c)
  <2>1. /\ conn[c] = "open" /\ conn'[c] \in {"closed", "reset"}
        /\ \A d \in Clients \ {c} : conn'[d] = conn[d]
    BY <1>0, <1>5 DEF HangUp, TypeOK
  <2>2. c \in Members \ GoneNow /\ Members' = Members /\ GoneNow' = GoneNow \cup {c}
    BY <1>0, <1>1, <1>5, <2>1, SeatsStay DEF Members, GoneNow, HungUp
  <2>3. DealtNow' = DealtNow
    BY <1>0, <1>1, <1>2, SeatsStay DEF DealtNow
  <2>4. inbox' = inbox
    BY <1>0, <1>1, <1>4, SeatsStay DEF RecordInbox, HistoryInv, HistoryFits
  <2>5. Room!HangUp(c)
    BY <2>2, <2>3, <2>4 DEF Room!HangUp, Members, GoneNow, DealtNow
  <2> QED
    BY <2>5 DEF Room!Next
<1>6. CASE ~ (HangUp(c) /\ Seated(c))
  <2>1. \A d \in Clients : Seated(d) => HungUp(d)' = HungUp(d)
    <3>1. CASE Connect(c)
      BY <1>0, <3>1 DEF Connect, HungUp, TypeOK
    <3>2. CASE (\E s \in Says[c] : Arrive(c, s)) \/ Consume(c)
      BY <1>0, <3>2 DEF Arrive, Consume, Take, HungUp
    <3>3. CASE HangUp(c)
      BY <1>0, <1>6, <3>3 DEF HangUp, HungUp, TypeOK
    <3>4. CASE RstArrives(c)
      BY <1>0, <3>4 DEF RstArrives, HungUp, TypeOK
    <3> QED
      BY <1>3, <3>1, <3>2, <3>3, <3>4
  <2> QED
    BY <1>1, <1>2, <1>4, <2>1, StepUnseen
<1> QED
  BY <1>5, <1>6

LEMMA AddIsJoin ==
  ASSUME FewChatters, HistoryInv, RoomInv', RecordInbox, posts' = posts,
         NEW c \in Clients, AddChatter(c)
  PROVE  Room!Join(c)
<1>0. RoomInv /\ TypeOK /\ IInv /\ inbox \in [Clients -> Seq(Room!Post)]
      /\ \A d \in Clients : ~ Seated(d) => inbox[d] = << >>
  BY DEF HistoryInv, HistoryFits, RoomInv, IInv
<1>1. /\ pc = "accept" /\ backlog' = Tail(backlog) /\ Accepted(c)
      /\ Write(c, Welcome) /\ UNCHANGED <<outbuff, j>>
  BY DEF AddChatter
<1>2. PICK f \in Fds : LowestFree(f) /\ sock' = [sock EXCEPT ![f] = c]
  BY DEF AddChatter
<1>3. f \notin OpenFds /\ Waits(c) /\ \A g \in Fds : sock[g] # c
  BY <1>0, <1>1, <1>2, AcceptEffect DEF LowestFree, IInv, OneDescriptor
<1>4. /\ \A d \in Clients : Seated(d)' <=> Seated(d) \/ d = c
      /\ ~ Seated(c)
  BY <1>0, <1>2, <1>3, ConstantsAssumption DEF Seated, OpenFds, TypeOK
<1>5. Welcome \in Message /\ Welcome.kind # "chat"
  BY DEF Welcome, Message
<1>6. \A d \in Clients : ~ GotLine(d)
  BY <1>0, <1>1, <1>5, NoLine
<1>7. \A d \in Clients \ {c} : conn'[d] = conn[d]
  BY <1>0, <1>1, <1>5, WriteEffect
<1>8. ~ Relayed /\ ~ Relayed'
  BY <1>1 DEF HistoryInv, RelayFits, Relayed
<1>9. Members' = Members \cup {c} /\ c \notin Members
  BY <1>4 DEF Members
<1>10. GoneNow' \in {GoneNow, GoneNow \cup {c}}
  BY <1>4, <1>7 DEF GoneNow, HungUp
<1>11. DealtNow' = [DealtNow EXCEPT ![c] = Len(posts)]
  BY <1>4, <1>8 DEF DealtNow, Behind, Relayed
<1>12. inbox' = inbox
  BY <1>0, <1>4, <1>6 DEF RecordInbox
<1> QED
  BY <1>9, <1>10, <1>11, <1>12 DEF Room!Join, Members, GoneNow, DealtNow

LEMMA ReadIsSpeak ==
  ASSUME AnyBody, HistoryInv, RoomInv', RecordInbox, RecordPost, ReadChat
  PROVE  Room!Speak(Chatter(i))
<1> DEFINE c == Chatter(i)
<1>0. RoomInv /\ TypeOK /\ inbox \in [Clients -> Seq(Room!Post)] /\ posts \in Seq(Room!Post)
      /\ \A d \in Clients : ~ Seated(d) => inbox[d] = << >>
  BY DEF HistoryInv, HistoryFits, RoomInv, IInv
<1>1. /\ pc = "scan" /\ pc' = "relay" /\ i \in Seats /\ j' = 0
      /\ outbuff' = Chat(c, name_chats[i], Buffer)
      /\ UNCHANGED <<fd_chats, numChats, sock, conn, outq>>
  BY DEF ReadChat, Reading
<1>2. c \in Clients /\ Seated(c)
  BY <1>0, <1>1, SeatOpen, SeatFound DEF SeatsFound
<1>3. /\ posts' = Append(posts, PostOf(outbuff')) /\ PostOf(outbuff') = [by |-> c, body |-> Buffer]
      /\ Relayed'
  BY <1>1 DEF RecordPost, PostOf, Chat, Relayed
<1>4. Buffer \in Bodies
  <2>1. outbuff' \in Message \cup {NoMsg}
    BY DEF RoomInv, IInv, TypeOK
  <2>2. outbuff'.body = Buffer /\ outbuff'.kind = "chat"
    BY <1>1 DEF Chat
  <2> QED
    BY <2>1, <2>2 DEF Message, NoMsg, AnyBody
<1>5. \A d \in Clients : Seated(d)' = Seated(d)
  BY <1>0, <1>1, SeatsStay
<1>6. Members' = Members /\ GoneNow' = GoneNow /\ c \in Members
  BY <1>1, <1>2, <1>5 DEF Members, GoneNow, HungUp
<1>7. inbox' = inbox
  BY <1>0, <1>1, <1>5, NoLine DEF RecordInbox
<1>8. DealtNow' = DealtNow
  <2>1. \A d \in Clients : Seated(d) => Behind(d)' /\ ~ Behind(d)
    <3>1. \A d \in Clients : Seated(d) => ~ Behind(d)
      BY <1>1, NoneBehind
    <3>2. ASSUME NEW d \in Clients, Seated(d) PROVE Behind(d)'
      <4>1. SeatOf(d)' \in Seats'
        BY <1>5, <3>2, SeatFoundNext DEF SeatsFound
      <4>2. SeatOf(d)' >= 0
        BY <4>1 DEF Seats
      <4> QED
        BY <1>1, <1>3, <4>2 DEF Behind, Relayed
    <3> QED
      BY <3>1, <3>2
  <2>2. Len(posts') - 1 = Len(posts)
    BY <1>0, <1>2, <1>3, <1>4 DEF Room!Post
  <2> QED
    BY <1>5, <2>1, <2>2 DEF DealtNow
<1> QED
  BY <1>3, <1>4, <1>6, <1>7, <1>8 DEF Room!Speak, Members, GoneNow, DealtNow

LEMMA RemoveIsLeave ==
  ASSUME HistoryInv, RoomInv', RecordInbox, posts' = posts, RemoveChatter
  PROVE  Room!Leave(Chatter(i))
<1> DEFINE c == Chatter(i)
<1>0. RoomInv /\ TypeOK /\ inbox \in [Clients -> Seq(Room!Post)]
      /\ \A d \in Clients : ~ Seated(d) => inbox[d] = << >>
  BY DEF HistoryInv, HistoryFits, RoomInv, IInv
<1>1. /\ pc = "scan" /\ pc' = "scan" /\ i \in Seats /\ HungUp(c) /\ UNCHANGED <<outbuff, j>>
      /\ numChats' = numChats - 1
      /\ sock' = [sock EXCEPT ![FdAt(i)] = NoClient]
      /\ conn' = [conn EXCEPT ![c] = "idle"] /\ outq' = [outq EXCEPT ![c] = << >>]
  BY DEF RemoveChatter, Reading
<1>2. c \in Clients /\ Seated(c) /\ FdAt(i) \in OpenFds
  BY <1>0, <1>1, SeatOpen, SeatFound DEF SeatsFound
<1>3. \A f, g \in OpenFds : sock[f] = sock[g] => f = g
  BY DEF HistoryInv, RoomInv, IInv, OneDescriptor
<1>4. \A d \in Clients : Seated(d)' <=> Seated(d) /\ d # c
  <2>1. \A f \in Fds : sock[f] = c => f = FdAt(i)
    BY <1>2, <1>3, ConstantsAssumption DEF OpenFds, Chatter
  <2>2. \A f \in Fds : sock'[f] = IF f = FdAt(i) THEN NoClient ELSE sock[f]
    BY <1>0, <1>1, <1>2 DEF TypeOK, OpenFds
  <2>3. sock[FdAt(i)] = c
    BY DEF Chatter
  <2> QED
    BY <2>1, <2>2, <2>3, ConstantsAssumption DEF Seated
<1>5. \A d \in Clients : ~ GotLine(d)
  BY <1>0, <1>1, <1>2, NoLine
<1>6. Members' = Members \ {c}
  BY <1>4 DEF Members
<1>7. c \in GoneNow /\ GoneNow' = GoneNow \ {c}
  <2>1. \A d \in Clients \ {c} : conn'[d] = conn[d]
    BY <1>0, <1>1 DEF TypeOK
  <2> QED
    BY <1>1, <1>2, <1>4, <2>1 DEF GoneNow, HungUp
<1>8. inbox' = [inbox EXCEPT ![c] = << >>]
  BY <1>0, <1>4, <1>5 DEF RecordInbox
<1>9. DealtNow' = [DealtNow EXCEPT ![c] = 0]
  <2>1. \A d \in Clients : Seated(d) => ~ Behind(d)
    BY <1>1, NoneBehind
  <2>2. ASSUME NEW d \in Clients, Seated(d)', Relayed PROVE ~ (SeatOf(d)' >= j)
    <3>1. SeatOf(d)' \in 0 .. (numChats - 2) /\ numChats \in Nat
      BY <1>0, <1>1, <2>2, SeatFoundNext, ConstantsAssumption DEF SeatsFound, Seats, TypeOK
    <3>2. j >= numChats /\ j \in Nat
      BY <1>0, <1>1, <2>2, ConstantsAssumption DEF HistoryInv, RelayFits, TypeOK
    <3> QED
      BY <3>1, <3>2
  <2>3. \A d \in Clients : Seated(d)' => ~ Behind(d)'
    BY <1>1, <2>2 DEF Behind, Relayed
  <2> QED
    BY <1>2, <1>4, <2>1, <2>3 DEF DealtNow
<1> QED
  BY <1>6, <1>7, <1>8, <1>9 DEF Room!Leave, Members, GoneNow, DealtNow

\* Whether the line is written or not, the loop has dealt with the seat at j.
LEMMA SeatDealtWith ==
  ASSUME HistoryInv, RoomInv', posts' = posts, pc = "relay", j \in Seats, j' = j + 1,
         UNCHANGED <<fd_chats, numChats, sock, outbuff>>
  PROVE  /\ Chatter(j) \in Clients /\ Seated(Chatter(j))
         /\ \A d \in Clients : Seated(d)' = Seated(d)
         /\ DealtNow[Chatter(j)] = Len(posts) - 1 /\ Len(posts) \in Nat \ {0}
         /\ posts[DealtNow[Chatter(j)] + 1] = PostOf(outbuff)
         /\ PostOf(outbuff).by = Chatter(i)
         /\ DealtNow' = [DealtNow EXCEPT ![Chatter(j)] = @ + 1]
<1>0. RoomInv /\ TypeOK /\ j \in Nat
  BY ConstantsAssumption DEF HistoryInv, RoomInv, IInv, TypeOK
<1>a. PICK c \in Clients : c = Chatter(j)
  BY <1>0, SeatOpen
<1>1. Seated(c) /\ SeatOf(c) = j
  BY <1>0, <1>a, SeatFound DEF SeatsFound
<1>2. /\ \A d \in Clients : Seated(d)' = Seated(d)
      /\ \A d \in Clients : Seated(d) => SeatOf(d)' = SeatOf(d)
  BY <1>0, SeatsStay
<1>3. /\ Relayed /\ Relayed' /\ outbuff.by = Chatter(i)
      /\ posts \in Seq(Room!Post) /\ posts # << >> /\ posts[Len(posts)] = PostOf(outbuff)
  BY DEF HistoryInv, RelayFits, HistoryFits, Relayed
<1>4. Len(posts) \in Nat \ {0} /\ Len(posts) - 1 + 1 = Len(posts)
  BY <1>3
<1>5. Behind(c) /\ DealtNow[c] = Len(posts) - 1
  BY <1>0, <1>1, <1>3 DEF Behind, Relayed, DealtNow
<1>6. PostOf(outbuff).by = Chatter(i)
  BY <1>3 DEF PostOf
<1>7. ~ Behind(c)'
  BY <1>0, <1>1, <1>2 DEF Behind
<1>8. ASSUME NEW d \in Clients \ {c}, Seated(d) PROVE Behind(d)' = Behind(d)
  <2>1. SeatOf(d) # j /\ SeatOf(d) \in Nat
    BY <1>0, <1>a, <1>8, SeatFound DEF SeatsFound, Seats
  <2>2. SeatOf(d) >= j + 1 <=> SeatOf(d) >= j
    BY <1>0, <2>1
  <2> QED
    BY <1>2, <1>8, <2>2 DEF Behind
<1>9. \A d \in Clients : DealtNow'[d] = IF d = c THEN DealtNow[c] + 1 ELSE DealtNow[d]
  BY <1>1, <1>2, <1>4, <1>5, <1>7, <1>8 DEF DealtNow
<1>10. DealtNow' = [DealtNow EXCEPT ![c] = @ + 1]
  BY <1>9 DEF DealtNow
<1> QED
  BY <1>a, <1>1, <1>2, <1>3, <1>4, <1>5, <1>6, <1>10

LEMMA RelayIsDeliver ==
  ASSUME HistoryInv, RoomInv', RecordInbox, posts' = posts, RelaySkip \/ RelayWrite
  PROVE  Room!Deliver(Chatter(j))
<1> DEFINE c == Chatter(j)
<1>0. /\ RoomInv /\ TypeOK /\ inbox \in [Clients -> Seq(Room!Post)] /\ i \in Seats
      /\ \A d \in Clients : ~ Seated(d) => inbox[d] = << >>
  BY DEF HistoryInv, HistoryFits, RoomInv, IInv, LocalsSet, RelaySkip, RelayWrite, RelayTarget
<1>1. /\ pc = "relay" /\ j \in Seats /\ j' = j + 1
      /\ UNCHANGED <<fd_chats, numChats, sock, outbuff>>
  BY DEF RelaySkip, RelayWrite, RelayTarget, kernel
<1>2. /\ c \in Clients /\ Seated(c)
      /\ \A d \in Clients : Seated(d)' = Seated(d)
      /\ DealtNow[c] = Len(posts) - 1 /\ Len(posts) \in Nat \ {0}
      /\ posts[DealtNow[c] + 1] = PostOf(outbuff)
      /\ PostOf(outbuff).by = Chatter(i)
      /\ DealtNow' = [DealtNow EXCEPT ![c] = @ + 1]
  BY <1>1, SeatDealtWith
<1>3. Members' = Members /\ c \in Members /\ DealtNow[c] < Len(posts)
  BY <1>2 DEF Members
<1>4. CASE RelaySkip
  <2>1. j = i /\ UNCHANGED <<conn, outq>>
    BY <1>0, <1>1, <1>4, SeatOpen DEF RelaySkip, kernel
  <2>2. GoneNow' = GoneNow
    BY <1>2, <2>1 DEF GoneNow, HungUp
  <2>3. inbox' = inbox
    BY <1>0, <1>2, <2>1, NoLine DEF RecordInbox
  <2>4. posts[DealtNow[c] + 1].by = c
    BY <1>2, <2>1
  <2> QED
    BY <1>2, <1>3, <2>2, <2>3, <2>4 DEF Room!Deliver, Members, GoneNow, DealtNow
<1>5. CASE RelayWrite
  <2>1. Write(c, outbuff) /\ j # i /\ outbuff \in Message /\ outbuff.kind = "chat"
    BY <1>0, <1>5 DEF RelayWrite, RelayTarget, HistoryInv, RelayFits, Relayed, RoomInv, IInv, LocalsSet
  <2>2. c # Chatter(i)
    BY <1>0, <1>1, <2>1, SeatFound DEF SeatsFound
  <2>3. \A d \in Clients : HungUp(d)' = HungUp(d)
    BY <1>0, <1>2, <2>1 DEF Write, HungUp, TypeOK
  <2>4. GoneNow' = GoneNow
    BY <1>2, <2>3 DEF GoneNow
  <2>5. CASE conn[c] # "open" /\ UNCHANGED outq
    <3>1. inbox' = inbox
      BY <1>0, <1>2, <2>5, NoLine DEF RecordInbox
    <3>2. c \in GoneNow
      BY <1>2, <2>1, <2>5 DEF GoneNow, HungUp, Write
    <3> QED
      BY <1>2, <1>3, <2>4, <3>1, <3>2 DEF Room!Deliver, Members, GoneNow, DealtNow
  <2>6. CASE outq' = [outq EXCEPT ![c] = Append(@, outbuff)]
    <3>1. outq \in [Clients -> Seq(Message)] /\ outq[c] \in Seq(Message)
      BY <1>0, <1>2 DEF TypeOK
    <3>2. outq'[c] = Append(outq[c], outbuff) /\ \A d \in Clients \ {c} : outq'[d] = outq[d]
      BY <1>2, <2>6, <3>1
    <3>3. /\ Len(outq'[c]) = Len(outq[c]) + 1 /\ Len(outq[c]) \in Nat
          /\ outq'[c][Len(outq'[c])] = outbuff
      BY <2>1, <3>1, <3>2
    <3>4. GotLine(c)
      BY <2>1, <3>3 DEF GotLine
    <3>5. \A d \in Clients \ {c} : ~ GotLine(d)
      BY <1>0, <3>2 DEF GotLine, TypeOK
    <3>6. inbox' = [inbox EXCEPT ![c] = Append(@, PostOf(outbuff))]
      BY <1>0, <1>2, <3>3, <3>4, <3>5 DEF RecordInbox
    <3> QED
      BY <1>2, <1>3, <2>2, <2>4, <3>6 DEF Room!Deliver, Members, GoneNow, DealtNow
  <2> QED
    BY <2>1, <2>5, <2>6 DEF Write
<1> QED
  BY <1>4, <1>5

LEMMA StepIsRoomStep ==
  ASSUME FewChatters, AnyBody, HistoryInv, RoomInv', HNext
  PROVE  Room!Next \/ UNCHANGED Room!room
<1>0. Next /\ RecordPost /\ RecordInbox
  BY DEF HNext
<1>1. CASE ReadChat
  <2>1. Chatter(i) \in Clients
    BY <1>1, SeatOpen DEF ReadChat, Reading, HistoryInv
  <2> QED
    BY <1>0, <1>1, <2>1, ReadIsSpeak DEF Room!Next
<1>2. CASE ~ ReadChat
  <2>1. posts' = posts
    BY <1>0, <1>2, RelayStaysFit DEF RecordPost
  <2>2. CASE ChatterStep
    BY <1>0, <2>1, <2>2, ChatterStepMapped
  <2>3. CASE \/ SelectReturns \/ WildDescriptor \/ ScanSkip \/ ScanDone
             \/ ReadName \/ Reply \/ RelayDone \/ SigPipe
    BY <1>0, <2>1, <2>3, ServerStepUnseen
  <2>4. ASSUME NEW c \in Clients, RejectChatter(c) PROVE FALSE
    BY <2>4, ConstantsAssumption DEF RejectChatter, RoomFull, HistoryInv, RoomInv, IInv, TypeOK
  <2>5. ASSUME NEW c \in Clients, AddChatter(c) PROVE Room!Next
    BY <1>0, <2>1, <2>5, AddIsJoin DEF Room!Next
  <2>6. CASE RemoveChatter
    <3>1. Chatter(i) \in Clients
      BY <2>6, SeatOpen DEF RemoveChatter, Reading, HistoryInv
    <3> QED
      BY <1>0, <2>1, <2>6, <3>1, RemoveIsLeave DEF Room!Next
  <2>7. CASE RelaySkip \/ RelayWrite
    <3>1. Chatter(j) \in Clients
      BY <2>7, SeatOpen DEF RelaySkip, RelayWrite, RelayTarget, HistoryInv
    <3> QED
      BY <1>0, <2>1, <2>7, <3>1, RelayIsDeliver DEF Room!Next
  <2> QED
    BY <1>0, <1>2, <2>2, <2>3, <2>4, <2>5, <2>6, <2>7 DEF Next, ServerStep
<1> QED
  BY <1>1, <1>2

\* Refinement: with as many seats as chatters, the server is the room of
\* ChatRoom.  Each line is sent once to every chatter seated but its author, in
\* one order for all, while seats empty, move up and are taken again between
\* two of the writes, and until a write() ends the server.
THEOREM ServerIsTheRoom ==
  ASSUME FewChatters, AnyBody
  PROVE  HSpec => ImplementsRoom
<1>1. HInit => Room!Init
  <2> SUFFICES ASSUME HInit PROVE Room!Init
    OBVIOUS
  <2>1. \A c \in Clients : ~ Seated(c)
    BY ConstantsAssumption DEF HInit, Init, Seated
  <2> QED
    BY <2>1 DEF HInit, Room!Init
<1>2. HistoryInv /\ HistoryInv' /\ [HNext]_hvars => [Room!Next]_(Room!room)
  <2> SUFFICES ASSUME HistoryInv, HistoryInv', [HNext]_hvars
               PROVE  Room!Next \/ UNCHANGED Room!room
    OBVIOUS
  <2>1. CASE HNext
    BY <2>1, StepIsRoomStep DEF HistoryInv
  <2>2. CASE UNCHANGED hvars
    <3>1. /\ UNCHANGED <<fd_chats, name_chats, numChats, sock, j, outbuff, conn, posts, inbox>>
          /\ Seats' = Seats
      BY <2>2 DEF hvars, vars, server, kernel, Seats
    <3>2. /\ \A c \in Clients : Seated(c)' = Seated(c) /\ HungUp(c)' = HungUp(c)
          /\ \A c \in Clients : Seated(c) => Behind(c)' = Behind(c)
      BY <3>1, SeatsStay DEF HistoryInv, Seated, HungUp, Behind
    <3>3. Members' = Members /\ GoneNow' = GoneNow /\ DealtNow' = DealtNow
      BY <3>1, <3>2 DEF Members, GoneNow, DealtNow
    <3> QED
      BY <3>1, <3>3 DEF Room!room, Members, GoneNow, DealtNow
  <2> QED
    BY <2>1, <2>2
<1> QED
  BY <1>1, <1>2, HistoryHolds, PTL DEF HSpec, ImplementsRoom, Room!Spec

-----------------------------------------------------------------------------
(* The real clients: every step of ChatClients is a step of ChatServer or   *)
(* none, so that the theorems about ChatServer carry over.                  *)

LEMMA ClientStepIsChatterStep ==
  ASSUME TypeOK, NEW c \in Clients,
         ClientStarts(c) \/ ChatUser(c) \/ UserQuits(c)
  PROVE  ChatterStep \/ UNCHANGED vars
<1>1. CASE ClientStarts(c)
  BY <1>1 DEF ClientStarts, ChatterStep
<1>2. CASE ClientReadsSocket(c)
  <2>1. Len(outq[c]) \in DOMAIN outq[c]
    BY <1>2 DEF TypeOK, ClientReadsSocket
  <2> QED
    BY <1>2, <2>1 DEF ClientReadsSocket, Consume, ChatterStep
<1>3. CASE ClientWrites(c)
  BY <1>3, LineAssumption DEF ClientWrites, ChatterStep
<1>4. CASE ClientWritesInVain(c) \/ UserQuits(c)
  BY <1>4 DEF ClientWritesInVain, UserQuits, ChatterStep
<1>5. CASE ClientReadsStdin(c)
  BY <1>5 DEF ClientReadsStdin
<1> QED
  BY <1>1, <1>2, <1>3, <1>4, <1>5 DEF ChatUser, ClientReadsSocket

LEMMA StepIsServerStep == TypeOK /\ [ClientsNext]_cvars => [Next]_vars
<1> SUFFICES ASSUME TypeOK, ClientsNext PROVE Next \/ UNCHANGED vars
  BY DEF cvars
<1>1. CASE ServerStep
  BY <1>1 DEF Next
<1>2. ASSUME NEW c \in Clients, RstArrives(c) PROVE Next
  BY <1>2 DEF Next, ChatterStep
<1>3. ASSUME NEW c \in Clients, ClientStarts(c) \/ ChatUser(c) \/ UserQuits(c)
      PROVE  Next \/ UNCHANGED vars
  BY <1>3, ClientStepIsChatterStep DEF Next
<1> QED
  BY <1>1, <1>2, <1>3 DEF ClientsNext

\* chatclient.c is one of the chatters ChatServer allows for.
LEMMA ClientsAreChatters == ClientsSpec => Spec
<1>1. ClientsInit => Init /\ IInv
  BY InitIInv DEF ClientsInit
<1>2. IInv /\ [ClientsNext]_cvars => [Next]_vars /\ IInv'
  <2>1. IInv => TypeOK
    BY DEF IInv
  <2> QED
    BY <2>1, StepIsServerStep, NextKeepsIInv
<1> QED
  BY <1>1, <1>2, PTL DEF ClientsSpec, Spec

\* Whatever its clients do, the server's read() does not block: what can stop
\* it is write().
THEOREM ReadsReturnToo == ClientsSpec => []ReadNeverBlocks
  BY ClientsAreChatters, ReadsReturn, PTL

-----------------------------------------------------------------------------
(* When the kernel holds all that a user types, server and client cannot    *)
(* wait for each other.                                                     *)

\* What c's user typed and the server has not read.
Unread(c) == Len(inq[c]) + (IF cpc[c] = "write" THEN Len(Line[c]) ELSE 0)

RoomForAll == \A c \in Clients : MaxTyped[c] * Len(Line[c]) <= RCVBUF

LinesFit ==
  /\ typed \in [Clients -> Nat]
  /\ cpc \in [Clients -> {"off", "select", "write"}]
  /\ \A c \in Clients : Unread(c) + typed[c] * Len(Line[c]) <= RCVBUF

LEMMA LineLength == \A c \in Clients : Len(Line[c]) \in Nat \ {0}
  BY ConstantsAssumption, LineAssumption

\* The server only takes out of what it was sent.
LEMMA ServerOnlyReads ==
  ASSUME TypeOK, ServerStep, NEW c \in Clients
  PROVE  inq'[c] = inq[c] \/ inq'[c] = << >>
<1>1. CASE ReadName \/ ReadChat
  BY <1>1 DEF ReadName, ReadChat, TypeOK
<1>2. CASE \E d \in Clients : RejectChatter(d) \/ AddChatter(d)
  BY <1>2 DEF RejectChatter, AddChatter, TypeOK
<1>3. CASE \/ SelectReturns \/ WildDescriptor \/ ScanSkip \/ ScanDone \/ RemoveChatter
           \/ Reply \/ RelaySkip \/ RelayWrite \/ RelayDone \/ SigPipe
  BY <1>3 DEF SelectReturns, WildDescriptor, ScanSkip, ScanDone, RemoveChatter,
              Reply, RelaySkip, RelayWrite, RelayDone, SigPipe, kernel
<1> QED
  BY <1>1, <1>2, <1>3 DEF ServerStep

\* One line less to type is one line more to be read.
LEMMA OneLineLess ==
  \A t \in Nat \ {0}, len \in Nat : (t - 1) * len + len = t * len
  OBVIOUS

LEMMA TimesNat == \A t, len \in Nat : t * len \in Nat
  OBVIOUS

LEMMA ClientKeepsLinesFit ==
  ASSUME TypeOK, LinesFit, NEW c \in Clients,
         ClientStarts(c) \/ ChatUser(c) \/ UserQuits(c)
  PROVE  LinesFit'
<1> DEFINE L == Len(Line[c])
           Held == Unread(c) + typed[c] * L
<1>0. /\ L \in Nat \ {0} /\ Line[c] \in Seq(Chunk) /\ RCVBUF \in Nat
      /\ inq \in [Clients -> Seq(Chunk)] /\ Len(inq[c]) \in Nat
  <2>1. inq \in [Clients -> Seq(Chunk)] /\ Len(inq[c]) \in Nat
    BY DEF TypeOK
  <2>2. Line[c] \in Seq(Chunk) /\ RCVBUF \in Nat
    BY ConstantsAssumption, LineAssumption
  <2> QED
    BY <2>1, <2>2, LineLength
<1>1. /\ typed \in [Clients -> Nat] /\ cpc \in [Clients -> {"off", "select", "write"}]
      /\ \A d \in Clients : Unread(d) + typed[d] * Len(Line[d]) <= RCVBUF
  BY DEF LinesFit
<1>2. SUFFICES
        /\ typed' \in [Clients -> Nat] /\ cpc' \in [Clients -> {"off", "select", "write"}]
        /\ \A d \in Clients \ {c} :
             typed'[d] = typed[d] /\ cpc'[d] = cpc[d] /\ inq'[d] = inq[d]
        /\ Held' <= RCVBUF
  <2>1. \A d \in Clients \ {c} :
          typed'[d] = typed[d] /\ cpc'[d] = cpc[d] /\ inq'[d] = inq[d]
            => Unread(d)' = Unread(d)
    BY DEF Unread
  <2> QED
    BY <1>1, <2>1 DEF LinesFit
<1>3. CASE ClientReadsStdin(c)
  <2>1. CASE typed[c] > 0
    <3>1. /\ typed' = [typed EXCEPT ![c] = @ - 1] /\ cpc[c] = "select"
          /\ cpc' = [cpc EXCEPT ![c] = "write"] /\ inq' = inq
      BY <1>3, <2>1 DEF ClientReadsStdin, vars, kernel
    <3>2. /\ typed[c] \in Nat \ {0} /\ typed'[c] = typed[c] - 1
          /\ Unread(c) = Len(inq[c]) /\ Unread(c)' = Len(inq[c]) + L
      BY <1>1, <2>1, <3>1 DEF Unread
    <3>3. PICK p \in Nat, q \in Nat :
            p = typed[c] * L /\ q = (typed[c] - 1) * L /\ q + L = p
      <4>1. (typed[c] - 1) * L + L = typed[c] * L
        BY <1>0, <3>2, OneLineLess
      <4>2. typed[c] - 1 \in Nat /\ typed[c] \in Nat /\ L \in Nat
        BY <1>0, <3>2
      <4>3. (typed[c] - 1) * L \in Nat
        BY <4>2, TimesNat
      <4>4. typed[c] * L \in Nat
        BY <4>2, TimesNat
      <4> QED
        BY <4>1, <4>3, <4>4
    <3>4. Held = Len(inq[c]) + p /\ Held' = Len(inq[c]) + L + q
      BY <3>2, <3>3
    <3>5. Held' = Held
      BY <1>0, <3>3, <3>4
    <3>6. Held <= RCVBUF
      BY <1>1
    <3>7. Held' <= RCVBUF
      BY <3>5, <3>6
    <3>8. typed[c] - 1 \in Nat
      BY <3>2
    <3> HIDE DEF Held
    <3> QED
      BY <1>1, <3>1, <3>7, <3>8
  <2>2. CASE ~ typed[c] > 0
    BY <1>1, <1>3, <2>2 DEF ClientReadsStdin, Unread, vars, kernel
  <2> QED
    BY <2>1, <2>2
<1>4. CASE ClientWrites(c)
  <2>1. /\ typed' = typed /\ cpc' = [cpc EXCEPT ![c] = "select"] /\ cpc[c] = "write"
        /\ inq' = [inq EXCEPT ![c] = @ \o Line[c]]
    BY <1>4 DEF ClientWrites, Arrive
  <2>2. Unread(c)' = Unread(c)
    <3>1. inq'[c] = inq[c] \o Line[c] /\ Len(inq[c] \o Line[c]) = Len(inq[c]) + L
      BY <1>0, <2>1
    <3>2. cpc'[c] = "select"
      BY <1>1, <2>1
    <3>3. Unread(c) = Len(inq[c]) + L
      BY <2>1 DEF Unread
    <3>4. Unread(c)' = Len(inq'[c]) + 0
      BY <3>2 DEF Unread
    <3> QED
      BY <1>0, <3>1, <3>3, <3>4
  <2> QED
    BY <1>0, <1>1, <2>1, <2>2
<1>5. CASE ClientStarts(c) \/ ClientReadsSocket(c) \/ ClientWritesInVain(c) \/ UserQuits(c)
  <2>1. /\ typed' = typed /\ inq' = inq
        /\ cpc' \in {cpc, [cpc EXCEPT ![c] = "select"], [cpc EXCEPT ![c] = "off"]}
    BY <1>5 DEF ClientStarts, Connect, ClientReadsSocket, Take, ClientWritesInVain, UserQuits,
                HangUp, user, vars, kernel
  <2>2. /\ cpc' \in [Clients -> {"off", "select", "write"}]
        /\ cpc'[c] = "write" => cpc[c] = "write"
        /\ \A d \in Clients \ {c} : cpc'[d] = cpc[d]
    BY <1>1, <2>1
  <2>3. /\ Unread(c)' \in Nat /\ Unread(c) \in Nat /\ Unread(c)' <= Unread(c)
    BY <1>0, <1>1, <2>1, <2>2 DEF Unread
  <2>4. PICK p \in Nat : p = typed[c] * L
    <3>1. typed[c] \in Nat /\ L \in Nat
      BY <1>0, <1>1
    <3> QED
      BY <3>1, TimesNat
  <2>5. Held = Unread(c) + p /\ Held' = Unread(c)' + p /\ Held <= RCVBUF
    BY <1>1, <2>1, <2>4
  <2> QED
    BY <1>0, <1>1, <2>1, <2>2, <2>3, <2>4, <2>5
<1> QED
  BY <1>3, <1>4, <1>5 DEF ChatUser

LEMMA StepKeepsLinesFit == TypeOK /\ LinesFit /\ [ClientsNext]_cvars => LinesFit'
<1> SUFFICES ASSUME TypeOK, LinesFit, [ClientsNext]_cvars PROVE LinesFit'
  OBVIOUS
<1>1. ASSUME ServerStep, UNCHANGED user PROVE LinesFit'
  <2>1. typed' = typed /\ cpc' = cpc
    BY <1>1 DEF user
  <2>2. ASSUME NEW c \in Clients
        PROVE  Unread(c)' + typed'[c] * Len(Line[c]) <= RCVBUF
    <3>1. /\ Len(inq[c]) \in Nat
          /\ inq'[c] = inq[c] \/ inq'[c] = << >>
          /\ Len(Line[c]) \in Nat /\ RCVBUF \in Nat
      BY <1>1, ServerOnlyReads, LineLength, ConstantsAssumption DEF TypeOK
    <3>2. Len(inq'[c]) \in Nat /\ Len(inq'[c]) <= Len(inq[c])
      BY <3>1
    <3>3. Unread(c)' \in Nat /\ Unread(c) \in Nat /\ Unread(c)' <= Unread(c)
      <4>1. PICK w \in Nat : Unread(c) = Len(inq[c]) + w /\ Unread(c)' = Len(inq'[c]) + w
        BY <2>1, <3>1 DEF Unread
      <4> QED
        BY <3>1, <3>2, <4>1
    <3>4. typed[c] \in Nat /\ Unread(c) + typed[c] * Len(Line[c]) <= RCVBUF
      BY DEF LinesFit
    <3>5. PICK p \in Nat : p = typed[c] * Len(Line[c])
      BY <3>1, <3>4, TimesNat
    <3> QED
      BY <2>1, <3>1, <3>3, <3>4, <3>5
  <2> QED
    BY <2>1, <2>2 DEF LinesFit
<1>2. ASSUME NEW c \in Clients, RstArrives(c), UNCHANGED user PROVE LinesFit'
  BY <1>2 DEF RstArrives, user, LinesFit, Unread
<1>3. CASE UNCHANGED cvars
  BY <1>3 DEF cvars, vars, kernel, user, LinesFit, Unread
<1> QED
  BY <1>1, <1>2, <1>3, ClientKeepsLinesFit DEF ClientsNext

LEMMA LinesFitNoDeadlock == IInv /\ LinesFit => ~ BothWrite
<1> SUFFICES ASSUME IInv, LinesFit, NEW k \in Seats, FdAt(k) # WildFd, Wedged(Chatter(k))
             PROVE  FALSE
  BY DEF BothWrite, RelayTarget, IInv, LocalsSet
<1> DEFINE c == Chatter(k)
<1>1. c \in Clients
  BY SeatChatter
<1>2. /\ Len(Line[c]) \in Nat \ {0} /\ RCVBUF \in Nat /\ Len(inq[c]) \in Nat
      /\ typed[c] \in Nat
      /\ Unread(c) + typed[c] * Len(Line[c]) <= RCVBUF
  BY <1>1, LineLength, ConstantsAssumption DEF IInv, TypeOK, LinesFit
<1>3. PICK p \in Nat : p = typed[c] * Len(Line[c])
  BY <1>2, TimesNat
<1>4. Unread(c) = Len(inq[c]) + Len(Line[c]) /\ Len(inq[c]) + Len(Line[c]) > RCVBUF
  BY DEF Wedged, Unread
<1>5. Unread(c) + p <= RCVBUF
  BY <1>2, <1>3
<1>6. Len(Line[c]) \in Nat /\ RCVBUF \in Nat /\ Len(inq[c]) \in Nat /\ p \in Nat
  BY <1>2, <1>3
<1>7. \A m, n, q, r \in Nat : m + n + q <= r => ~ m + n > r
  OBVIOUS
<1> QED
  BY <1>4, <1>5, <1>6, <1>7

\* The deadlock needs a user who types more than the kernel holds: when all
\* that each user types fits into the receive buffer of the server, the server
\* and a client never wait in write() for each other, however many clients
\* there are and however small the buffers for what the server sends.
THEOREM NoDeadlockWithRoom ==
  ASSUME RoomForAll
  PROVE  ClientsSpec => []~ BothWrite
<1>1. ClientsInit => LinesFit
  BY LineLength, LineAssumption DEF ClientsInit, Init, LinesFit, Unread, RoomForAll
<1>2. IInv => TypeOK
  BY DEF IInv
<1> QED
  BY <1>1, <1>2, ClientsAreChatters, IInvHolds, StepKeepsLinesFit, LinesFitNoDeadlock, PTL DEF ClientsSpec
=============================================================================
