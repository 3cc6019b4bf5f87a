-------------------------- MODULE IcmpDaemonProofs ---------------------------
(***************************************************************************)
(* What the ICMP daemon guarantees for every number of clients, every set  *)
(* of ports and all sizes of client[] and of the kernel's buffers.         *)
(***************************************************************************)
EXTENDS IcmpDaemon, FiniteSetTheorems, WellFoundedInduction, TLAPS

Descriptors == {"listenfd", "fd4", "fd6"}

\* The clients whose connection has an entry of client[].
Held == {connfd[s] : s \in Used}

TypeOK ==
  /\ cpc \in [Clients -> {"off", "connected", "registering", "fgets", "select", "left"}]
  /\ port \in [Clients -> Ports \cup {0}]
  /\ passed \subseteq Clients
  /\ unread \in [Clients -> Seq(Ports \cup {OK, NO})]
  /\ conn \in [Clients -> {"none", "open", "closed"}]
  /\ backlog \in Seq(Clients)
  /\ raw \in [{"fd4", "fd6"} -> Seq(Ports \cup {Short})]
  /\ connfd \in [Slots -> Clients \cup {NoClient}]
  /\ lport \in [Slots -> Ports \cup {0}]
  /\ maxi \in 0 .. FD_SETSIZE
  /\ dpc \in {"select", "listenfd", "fd4", "fd6", "conns", "down"}
  /\ rset \subseteq Clients \cup Descriptors
  /\ nready \in Nat
  /\ i \in 1 .. (FD_SETSIZE + 1)
  /\ report \in Ports \cup {0}
  /\ known \subseteq Clients

\* A connection is new, waits for accept(), has an entry or has been closed;
\* who has registered does not wait.
ConnectionsFit ==
  /\ \A m, n \in DOMAIN backlog : backlog[m] = backlog[n] => m = n
  /\ \A n \in DOMAIN backlog :
       conn[backlog[n]] = "open" /\ backlog[n] \notin Held \cup known
  /\ \A s \in Used : conn[connfd[s]] = "open"
  /\ \A c \in known : conn[c] # "none"
  /\ \A c \in Clients : cpc[c] = "off" <=> conn[c] = "none"
  /\ \A c \in Clients : IF cpc[c] = "off" THEN unread[c] = << >> ELSE port[c] \in Ports

\* Where the loop is; no connection is in the set select() returned before it
\* has an entry, and what the set promises is there when the loop comes to it.
LoopFits ==
  /\ dpc \in Descriptors /\ report = 0 => i = 1
  /\ report # 0 => dpc = "down" \/ (dpc \in {"fd4", "fd6"} /\ dpc \in rset)
  /\ dpc = "listenfd" => rset \cap Clients \subseteq Held
  /\ "listenfd" \in rset \cap Later => backlog # << >>
  /\ \A f \in {"fd4", "fd6"} : f \in rset \cap Later => raw[f] # << >> \/ (f = dpc /\ report # 0)

IInv == TypeOK /\ ConnectionsFit /\ LoopFits /\ TableAgrees

\* The parts of TableAgrees.
EntriesFit ==
  /\ \A s, t \in Used : connfd[s] = connfd[t] => s = t
  /\ \A s \in Used : s <= maxi /\ (connfd[s] \in known => lport[s] = port[connfd[s]])

ToCome == rset \cap (Later \cup {connfd[s] : s \in {t \in Used : t \in Ahead}})

CountFits == dpc \notin {"select", "down"} => nready = Cardinality(ToCome)

LEMMA PartsOfTable == TableAgrees <=> EntriesFit /\ CountFits
  BY Zenon DEF TableAgrees, EntriesFit, CountFits, ToCome

-----------------------------------------------------------------------------
(* The operators of the model.                                              *)

LEMMA LowestIn ==
  ASSUME NEW S \in SUBSET Nat, S # {}
  PROVE  Lowest(S) \in S
<1> DEFINE below == {p \in Nat \X Nat : p[1] < p[2]}
<1>1. IsWellFoundedOn(below, Nat)
  BY NatLessThanWellFounded, Zenon DEF OpToRel
<1>2. \A s, t \in Nat : <<t, s>> \in below <=> t < s
  OBVIOUS
<1> HIDE DEF below
<1>3. PICK s \in S : \A t \in S : ~ (<<t, s>> \in below)
  BY <1>1, WFMin
<1>4. \A t \in S : t \in Nat /\ s \in Nat /\ ~ (t < s)
  BY <1>2, <1>3, Zenon
<1>5. \A t \in S : s <= t
  BY <1>4
<1> QED
  BY <1>5 DEF Lowest

LEMMA AllFinite == IsFiniteSet(Clients \cup Descriptors)
<1>1. Descriptors = {"listenfd"} \cup ({"fd4"} \cup {"fd6"})
  BY DEF Descriptors
<1>2. IsFiniteSet({"listenfd"}) /\ IsFiniteSet({"fd4"}) /\ IsFiniteSet({"fd6"})
  BY FS_Singleton
<1> QED
  BY <1>1, <1>2, FS_Union, ConstantsAssumption

\* What the loop has still to look at is finite, and one fewer when it has
\* looked at one of it.
LEMMA OneFewer ==
  ASSUME TypeOK, NEW x \in ToCome
  PROVE  /\ Cardinality(ToCome) \in Nat \ {0}
         /\ Cardinality(ToCome \ {x}) = Cardinality(ToCome) - 1
<1>1. IsFiniteSet(Clients \cup Descriptors)
  BY AllFinite
<1>2. IsFiniteSet(ToCome)
  BY <1>1, FS_Subset DEF TypeOK, ToCome
<1>3. Cardinality(ToCome \ {x}) = Cardinality(ToCome) - 1 /\ Cardinality(ToCome) \in Nat
  BY <1>2, FS_RemoveElement, FS_CardinalityType
<1>4. Cardinality(ToCome \ {x}) \in Nat
  BY <1>2, FS_Subset, FS_CardinalityType
<1> QED
  BY <1>3, <1>4

LEMMA TableStays ==
  ASSUME UNCHANGED <<connfd, maxi>>
  PROVE  Used' = Used /\ Held' = Held
  BY DEF Used, Held, Slots

\* A step that handles x of what is to come keeps the count.
LEMMA Handling ==
  ASSUME TypeOK, CountFits, dpc \notin {"select", "down"}, NEW x \in ToCome, NEW next,
         Handled(next), dpc' # "select" => ToCome' = ToCome \ {x}
  PROVE  CountFits' /\ nready' \in Nat /\ dpc' \in {"select", next} /\ rset' = rset
<1>1. nready' = nready - 1 /\ nready = Cardinality(ToCome)
  BY DEF Handled, CountFits
<1>2. nready' \in Nat /\ nready' = Cardinality(ToCome \ {x})
  BY <1>1, OneFewer
<1> QED
  BY <1>2 DEF CountFits, Handled

-----------------------------------------------------------------------------
(* The clients.                                                             *)

THEOREM InitIInv == Init => IInv
<1> SUFFICES ASSUME Init PROVE IInv
  OBVIOUS
<1>1. Used = {} /\ backlog = << >> /\ known = {}
  BY DEF Init, Used
<1>2. TypeOK
  BY ConstantsAssumption DEF Init, TypeOK, Ports, OK
<1>3. ConnectionsFit /\ LoopFits
  BY <1>1 DEF Init, ConnectionsFit, LoopFits, Descriptors
<1>4. TableAgrees
  BY <1>1 DEF Init, TableAgrees
<1> QED
  BY <1>2, <1>3, <1>4 DEF IInv

\* The clients leave client[] and the loop alone.
LEMMA LoopStays ==
  ASSUME IInv, UNCHANGED <<table, turn>>,
         \A c \in Held : port'[c] = port[c] /\ (c \in known' => c \in known),
         backlog # << >> => backlog' # << >>,
         \A f \in {"fd4", "fd6"} : raw[f] # << >> => raw'[f] # << >>
  PROVE  LoopFits' /\ TableAgrees'
<1>1. UNCHANGED <<connfd, lport, maxi, dpc, rset, nready, i, report>>
  BY DEF table, turn
<1>2. Used' = Used /\ Held' = Held /\ ToCome' = ToCome
  BY <1>1, TableStays DEF ToCome, Later, Ahead, Slots
<1>3. \A s \in Used : connfd[s] \in Held
  BY DEF Held
<1>4. EntriesFit' /\ CountFits'
  BY <1>1, <1>2, <1>3, PartsOfTable DEF IInv, EntriesFit, CountFits
<1>5. LoopFits'
  BY <1>1, <1>2 DEF IInv, LoopFits, Later
<1>6. TableAgrees'
  BY <1>4, PartsOfTable, PTL
<1> QED
  BY <1>5, <1>6

\* Whoever is in client[] is connected.
LEMMA HeldOpen ==
  ASSUME IInv, NEW c \in Held
  PROVE  c \in Clients /\ conn[c] = "open" /\ cpc[c] # "off"
  BY DEF IInv, TypeOK, ConnectionsFit, Held, Used

LEMMA ConnectKeeps == IInv /\ (\E c \in Clients : Connect(c)) => IInv'
<1> SUFFICES ASSUME IInv, NEW c \in Clients, Connect(c) PROVE IInv'
  OBVIOUS
<1>1. PICK p \in Ports : port' = [port EXCEPT ![c] = p]
  BY DEF Connect
<1>2. /\ cpc[c] = "off" /\ cpc' = [cpc EXCEPT ![c] = "connected"]
      /\ conn' = [conn EXCEPT ![c] = "open"] /\ backlog' = Append(backlog, c)
      /\ UNCHANGED <<passed, unread, raw, table, turn, known>>
  BY DEF Connect
<1>3. UNCHANGED <<connfd, lport, maxi, dpc, rset, nready, i, report>>
  BY <1>2 DEF table, turn
<1>4. conn[c] = "none" /\ unread[c] = << >> /\ c \notin Held /\ c \notin known
  BY <1>2, HeldOpen DEF IInv, ConnectionsFit
<1>5. TypeOK'
  BY <1>1, <1>2, <1>3 DEF IInv, TypeOK
<1>6. ConnectionsFit'
  <2>1. /\ backlog \in Seq(Clients) /\ Len(backlog) \in Nat
        /\ DOMAIN backlog' = 1 .. (Len(backlog) + 1) /\ DOMAIN backlog = 1 .. Len(backlog)
        /\ \A n \in DOMAIN backlog : backlog'[n] = backlog[n] /\ backlog[n] \in Clients \ {c}
        /\ backlog'[Len(backlog) + 1] = c
    BY <1>2, <1>4 DEF IInv, TypeOK, ConnectionsFit
  <2>2. /\ \A m, n \in DOMAIN backlog' : backlog'[m] = backlog'[n] => m = n
        /\ \A n \in DOMAIN backlog' : n \in DOMAIN backlog \/ n = Len(backlog) + 1
    BY <2>1 DEF IInv, ConnectionsFit
  <2>3. Used' = Used /\ Held' = Held /\ \A s \in Used : connfd[s] \in Clients \ {c}
    BY <1>3, <1>4, TableStays DEF Held, IInv, TypeOK, Used
  <2>4. \A n \in DOMAIN backlog' : conn'[backlog'[n]] = "open" /\ backlog'[n] \notin Held' \cup known'
    BY <1>2, <1>4, <2>1, <2>2, <2>3 DEF IInv, TypeOK, ConnectionsFit
  <2>5. /\ \A s \in Used' : conn'[connfd'[s]] = "open"
        /\ \A d \in known' : conn'[d] # "none"
        /\ \A d \in Clients : cpc'[d] = "off" <=> conn'[d] = "none"
        /\ \A d \in Clients : IF cpc'[d] = "off" THEN unread'[d] = << >> ELSE port'[d] \in Ports
    BY <1>1, <1>2, <1>3, <1>4, <2>3 DEF IInv, TypeOK, ConnectionsFit
  <2> QED
    BY <2>2, <2>4, <2>5 DEF ConnectionsFit
<1>7. LoopFits' /\ TableAgrees'
  <2>1. \A d \in Held : port'[d] = port[d] /\ known' = known
    BY <1>1, <1>2, <1>4, HeldOpen DEF IInv, TypeOK
  <2>2. backlog' # << >>
    BY <1>2 DEF IInv, TypeOK
  <2> QED
    BY <1>2, <2>1, <2>2, LoopStays
<1> QED
  BY <1>5, <1>6, <1>7 DEF IInv

LEMMA AgainKeeps == IInv /\ (\E c \in Clients : Again(c)) => IInv'
<1> SUFFICES ASSUME IInv, NEW c \in Clients, Again(c) PROVE IInv'
  OBVIOUS
<1>1. /\ conn[c] = "closed" /\ cpc' = [cpc EXCEPT ![c] = "off"]
      /\ port' = [port EXCEPT ![c] = 0] /\ unread' = [unread EXCEPT ![c] = <<>>]
      /\ conn' = [conn EXCEPT ![c] = "none"] /\ known' = known \ {c}
      /\ UNCHANGED <<passed, backlog, raw, table, turn>>
  BY DEF Again, Go
<1>2. UNCHANGED <<connfd, lport, maxi, dpc, rset, nready, i, report>>
  BY <1>1 DEF table, turn
<1>3. c \notin Held
  BY <1>1, HeldOpen
<1>4. TypeOK'
  BY <1>1, <1>2 DEF IInv, TypeOK
<1>5. ConnectionsFit'
  <2>1. Used' = Used /\ Held' = Held
    BY <1>2, TableStays
  <2>2. /\ \A s \in Used : connfd[s] \in Clients \ {c}
        /\ \A n \in DOMAIN backlog : backlog[n] \in Clients \ {c}
    BY <1>1, <1>3 DEF Held, IInv, TypeOK, Used, ConnectionsFit
  <2>3. /\ \A d \in Clients : cpc'[d] = IF d = c THEN "off" ELSE cpc[d]
        /\ \A d \in Clients : conn'[d] = IF d = c THEN "none" ELSE conn[d]
        /\ \A d \in Clients : unread'[d] = IF d = c THEN << >> ELSE unread[d]
        /\ \A d \in Clients : d # c => port'[d] = port[d]
    BY <1>1 DEF IInv, TypeOK
  <2> QED
    BY <1>1, <1>2, <2>1, <2>2, <2>3 DEF IInv, TypeOK, ConnectionsFit
<1>6. LoopFits' /\ TableAgrees'
  <2>1. \A d \in Held : port'[d] = port[d] /\ (d \in known' => d \in known)
    BY <1>1, <1>3, HeldOpen DEF IInv, TypeOK
  <2> QED
    BY <1>1, <2>1, LoopStays
<1> QED
  BY <1>4, <1>5, <1>6 DEF IInv

\* What a client has been written, after it has read the first of it.
LEMMA ReadingKeepsOwn ==
  ASSUME IInv, NEW c \in Clients, unread[c] # << >>
  PROVE  /\ Tail(unread[c]) \in Seq(Ports \cup {OK, NO})
         /\ \A k \in 1 .. Len(Tail(unread[c])) :
              k + 1 \in 1 .. Len(unread[c]) /\ Tail(unread[c])[k] = unread[c][k + 1]
<1>1. unread[c] \in Seq(Ports \cup {OK, NO})
  BY DEF IInv, TypeOK
<1> QED
  BY <1>1

LEMMA ClientKeeps == IInv /\ (\E c \in Clients : ClientStep(c) \/ Leave(c)) => IInv'
<1> SUFFICES ASSUME IInv, NEW c \in Clients, ClientStep(c) \/ Leave(c) PROVE IInv'
  OBVIOUS
<1> USE DEF ClientStep, Go
<1>1. /\ UNCHANGED <<port, conn, backlog, table, turn, known>>
      /\ cpc[c] # "off"
      /\ \E place \in {"connected", "registering", "fgets", "select", "left"} :
           cpc' = [cpc EXCEPT ![c] = place]
      /\ passed' \in {passed, passed \cup {c}}
      /\ \/ unread' = unread
         \/ unread[c] # <<>> /\ unread' = [unread EXCEPT ![c] = Tail(@)]
  <2>1. CASE WriteFd(c) \/ Leave(c)
    BY <2>1 DEF WriteFd, Leave, wires
  <2>2. CASE ReadAnswer(c)
    BY <2>2 DEF ReadAnswer
  <2>3. CASE Ask(c)
    BY <2>3 DEF Ask, wires
  <2>4. CASE SelectReturns(c)
    BY <2>4 DEF SelectReturns
  <2> QED
    BY <2>1, <2>2, <2>3, <2>4
<1>2. UNCHANGED <<connfd, lport, maxi, dpc, rset, nready, i, report>>
  BY <1>1 DEF table, turn
<1>3. /\ raw' \in [{"fd4", "fd6"} -> Seq(Ports \cup {Short})]
      /\ \A f \in {"fd4", "fd6"} : raw[f] # << >> => raw'[f] # << >>
  <2>1. CASE UNCHANGED raw
    BY <2>1 DEF IInv, TypeOK
  <2>2. CASE raw' = [raw EXCEPT ![Family(port[c])] = Append(@, port[c])]
    <3>1. Family(port[c]) \in {"fd4", "fd6"} /\ raw \in [{"fd4", "fd6"} -> Seq(Ports \cup {Short})]
      BY DEF Family, IInv, TypeOK
    <3>2. port[c] \in Ports
      BY <1>1 DEF IInv, ConnectionsFit
    <3> QED
      BY <2>2, <3>1, <3>2
  <2> QED
    BY <2>1, <2>2 DEF WriteFd, ReadAnswer, Ask, SelectReturns, Leave
<1>4. /\ unread' \in [Clients -> Seq(Ports \cup {OK, NO})]
      /\ \A d \in Clients : d # c => unread'[d] = unread[d]
  <2>1. unread \in [Clients -> Seq(Ports \cup {OK, NO})]
    BY DEF IInv, TypeOK
  <2>2. ASSUME unread[c] # << >>, unread' = [unread EXCEPT ![c] = Tail(@)]
        PROVE  /\ unread' \in [Clients -> Seq(Ports \cup {OK, NO})]
               /\ \A d \in Clients : d # c => unread'[d] = unread[d]
    <3>1. Tail(unread[c]) \in Seq(Ports \cup {OK, NO})
      BY <2>2, ReadingKeepsOwn
    <3> QED
      BY <2>1, <2>2, <3>1
  <2> QED
    BY <1>1, <2>1, <2>2
<1>5. TypeOK'
  <2>1. /\ cpc' \in [Clients -> {"off", "connected", "registering", "fgets", "select", "left"}]
        /\ passed' \subseteq Clients
    BY <1>1 DEF IInv, TypeOK
  <2> QED
    BY <1>1, <1>2, <1>3, <1>4, <2>1 DEF IInv, TypeOK
<1>6. ConnectionsFit'
  <2>1. Used' = Used /\ Held' = Held
    BY <1>2, TableStays
  <2>2. \A d \in Clients : cpc'[d] = "off" <=> cpc[d] = "off"
    BY <1>1 DEF IInv, TypeOK
  <2>3. \A d \in Clients : cpc'[d] = "off" => unread'[d] = << >>
    BY <1>1, <1>4, <2>2 DEF IInv, ConnectionsFit
  <2> QED
    BY <1>1, <1>2, <2>1, <2>2, <2>3 DEF IInv, ConnectionsFit
<1>7. LoopFits' /\ TableAgrees'
  BY <1>1, <1>3, LoopStays
<1> QED
  BY <1>5, <1>6, <1>7 DEF IInv

LEMMA ShortKeeps == IInv /\ (\E f \in Shorts : ShortArrives(f)) => IInv'
<1> SUFFICES ASSUME IInv, NEW f \in Shorts, ShortArrives(f) PROVE IInv'
  OBVIOUS
<1>1. raw' = [raw EXCEPT ![f] = Append(@, Short)] /\ UNCHANGED <<clients, wires, table, turn, known>>
  BY DEF ShortArrives
<1>2. UNCHANGED <<cpc, port, passed, unread, conn, backlog, connfd, lport, maxi, dpc, rset, nready, i, report>>
  BY <1>1 DEF clients, wires, table, turn
<1>3. /\ raw' \in [{"fd4", "fd6"} -> Seq(Ports \cup {Short})]
      /\ \A g \in {"fd4", "fd6"} : raw[g] # << >> => raw'[g] # << >>
  <2>1. f \in {"fd4", "fd6"} /\ raw \in [{"fd4", "fd6"} -> Seq(Ports \cup {Short})]
    BY ConstantsAssumption DEF IInv, TypeOK
  <2>2. raw[f] \in Seq(Ports \cup {Short})
    BY <2>1
  <2>3. Append(raw[f], Short) \in Seq(Ports \cup {Short}) /\ Append(raw[f], Short) # << >>
    BY <2>2
  <2> QED
    BY <1>1, <2>1, <2>3
<1>4. TypeOK'
  BY <1>1, <1>2, <1>3 DEF IInv, TypeOK
<1>5. ConnectionsFit'
  <2>1. Used' = Used /\ Held' = Held
    BY <1>2, TableStays
  <2> QED
    BY <1>1, <1>2, <2>1 DEF IInv, ConnectionsFit
<1>6. LoopFits' /\ TableAgrees'
  BY <1>1, <1>2, <1>3, LoopStays
<1> QED
  BY <1>4, <1>5, <1>6 DEF IInv

-----------------------------------------------------------------------------
(* The daemon.                                                              *)

LEMMA SelectKeeps == IInv /\ Select => IInv'
<1> SUFFICES ASSUME IInv, Select PROVE IInv'
  OBVIOUS
<1>1. /\ rset' = Readable /\ nready' = Cardinality(Readable) /\ dpc' = "listenfd" /\ i' = 1
      /\ dpc = "select" /\ UNCHANGED <<clients, wires, raw, table, report, known>>
  BY DEF Select
<1>2. UNCHANGED <<cpc, port, passed, unread, conn, backlog, connfd, lport, maxi>>
  BY <1>1 DEF clients, wires, table
<1>3. Used' = Used /\ Held' = Held
  BY <1>2, TableStays
<1>4. Readable \subseteq Descriptors \cup Held /\ Held \subseteq Clients
  BY HeldOpen DEF Readable, Held, Descriptors
<1>5. Cardinality(Readable) \in Nat
  <2>1. IsFiniteSet(Clients \cup Descriptors)
    BY AllFinite
  <2> QED
    BY <1>4, <2>1, FS_Subset, FS_CardinalityType
<1>6. TypeOK'
  BY <1>1, <1>2, <1>4, <1>5, ConstantsAssumption DEF IInv, TypeOK
<1>7. ConnectionsFit'
  BY <1>1, <1>2, <1>3 DEF IInv, ConnectionsFit
<1>8. LoopFits'
  <2>1. /\ "listenfd" \in Readable => backlog # << >>
        /\ \A f \in {"fd4", "fd6"} : f \in Readable => raw[f] # << >>
    BY HeldOpen, ConstantsAssumption DEF Readable, Held
  <2> QED
    BY <1>1, <1>2, <1>3, <1>4, <2>1, ConstantsAssumption DEF IInv, LoopFits, Descriptors
<1>9. TableAgrees'
  <2>1. ToCome' = rset' \cap (Descriptors \cup Held)
    BY <1>1, <1>2, <1>3 DEF ToCome, Later, Ahead, Descriptors, Held, Used
  <2>2. CountFits'
    BY <1>1, <1>4, <2>1 DEF CountFits
  <2>3. EntriesFit'
    BY <1>1, <1>2, <1>3, PartsOfTable DEF IInv, EntriesFit
  <2> QED
    BY <2>2, <2>3, PartsOfTable, PTL
<1> QED
  BY <1>6, <1>7, <1>8, <1>9 DEF IInv

\* A step that only goes on with the loop.
LEMMA GoesOn ==
  ASSUME IInv, UNCHANGED <<clients, wires, raw, table, rset, nready, report, known>>, report = 0,
         dpc' \in {"select", "fd4", "fd6", "conns"}, i' \in 1 .. (FD_SETSIZE + 1),
         dpc' \in Descriptors => i' = 1,
         dpc \notin {"select", "down"} /\ (dpc' = "select" \/ ToCome' = ToCome),
         Later' \subseteq Later, dpc' # "listenfd"
  PROVE  IInv'
<1>1. UNCHANGED <<cpc, port, passed, unread, conn, backlog, connfd, lport, maxi, raw, rset, nready, report, known>>
  BY DEF clients, wires, table
<1>2. Used' = Used /\ Held' = Held
  BY <1>1, TableStays
<1>3. TypeOK'
  BY <1>1 DEF IInv, TypeOK
<1>4. ConnectionsFit' /\ LoopFits'
  BY <1>1, <1>2 DEF IInv, ConnectionsFit, LoopFits
<1>5. EntriesFit' /\ CountFits'
  BY <1>1, <1>2, PartsOfTable DEF IInv, EntriesFit, CountFits
<1>6. TableAgrees'
  BY <1>5, PartsOfTable, PTL
<1> QED
  BY <1>3, <1>4, <1>6 DEF IInv

\* When the loop over the connections begins, they are all ahead.
LEMMA AllAhead ==
  ASSUME IInv, dpc \in Descriptors, UNCHANGED <<connfd, maxi>>, dpc' = After(dpc), i' = 1
  PROVE  {connfd'[s] : s \in {t \in Used' : t \in Ahead'}} = {connfd[s] : s \in {t \in Used : t \in Ahead}}
<1>1. Ahead = Slots
  BY DEF Ahead, Descriptors
<1>2. \A t \in Used : t \in Slots /\ t <= maxi /\ t \in Nat /\ 1 <= t /\ maxi \in Nat
  BY PartsOfTable DEF IInv, EntriesFit, Used, Slots, TypeOK
<1>3. Ahead' = (IF dpc = "fd6" THEN 1 .. maxi ELSE Slots)
  BY DEF Ahead, After, Descriptors, Slots
<1>4. \A t \in Used : t \in Ahead'
  BY <1>2, <1>3
<1>5. \A t \in Used : t \in Ahead
  BY <1>1, <1>2
<1>6. Used' = Used
  BY TableStays
<1> QED
  BY <1>4, <1>5, <1>6

LEMMA SkipKeeps == IInv /\ (\E f \in Descriptors : Skip(f)) => IInv'
<1> SUFFICES ASSUME IInv, NEW f \in Descriptors, Skip(f) PROVE IInv'
  OBVIOUS
<1>1. /\ dpc = f /\ f \notin rset /\ dpc' = After(f)
      /\ UNCHANGED <<clients, wires, raw, table, rset, nready, i, report, known>>
  BY DEF Skip
<1>2. i' \in 1 .. (FD_SETSIZE + 1) /\ i' = 1 /\ report = 0
  <2>1. report = 0
    BY <1>1 DEF IInv, LoopFits, Descriptors
  <2>2. i = 1
    BY <1>1, <2>1 DEF IInv, LoopFits
  <2> QED
    BY <1>1, <2>1, <2>2 DEF IInv, TypeOK
<1>3. {connfd'[s] : s \in {t \in Used' : t \in Ahead'}} = {connfd[s] : s \in {t \in Used : t \in Ahead}}
  BY <1>1, <1>2, AllAhead DEF table
<1>4. Later = {f} \cup Later'
  BY <1>1 DEF Later, After, Descriptors
<1>5. ToCome' = ToCome
  BY <1>1, <1>3, <1>4 DEF ToCome
<1>6. dpc' \in {"fd4", "fd6", "conns"}
  BY <1>1 DEF After, Descriptors
<1> QED
  BY <1>1, <1>4, <1>5, <1>6, <1>2, GoesOn DEF Descriptors

LEMMA OtherKeeps == IInv /\ OtherConn => IInv'
<1> SUFFICES ASSUME IInv, OtherConn PROVE IInv'
  OBVIOUS
<1>1. /\ dpc = "conns" /\ UNCHANGED <<clients, wires, raw, table, rset, nready, report, known>>
      /\ \/ dpc' = "select" /\ i' = i
         \/ i <= maxi /\ connfd[i] \notin rset /\ i' = i + 1 /\ dpc' = "conns"
  BY DEF OtherConn, IInv, TypeOK
<1>2. i \in 1 .. (FD_SETSIZE + 1) /\ maxi \in 0 .. FD_SETSIZE /\ FD_SETSIZE \in Nat
  BY ConstantsAssumption DEF IInv, TypeOK
<1>3. report = 0
  BY <1>1 DEF IInv, LoopFits
<1>4. CASE dpc' = "select" /\ i' = i
  BY <1>1, <1>2, <1>4, <1>3, GoesOn DEF Descriptors, Later
<1>5. CASE i <= maxi /\ connfd[i] \notin rset /\ i' = i + 1 /\ dpc' = "conns"
  <2>1. Used' = Used /\ connfd' = connfd /\ maxi' = maxi /\ rset' = rset
    BY <1>1, TableStays DEF table
  <2>2. \A t \in Used : t \in Ahead <=> t \in Ahead' \/ t = i
    BY <1>1, <1>2, <1>5, <2>1 DEF Ahead, Used, Slots
  <2>3. Later = {} /\ Later' = {}
    BY <1>1, <1>5 DEF Later
  <2>4. ToCome' = ToCome
    BY <1>5, <2>1, <2>2, <2>3 DEF ToCome
  <2> QED
    BY <1>1, <1>2, <1>5, <1>3, <2>3, <2>4, GoesOn DEF Descriptors
<1> QED
  BY <1>1, <1>4, <1>5

LEMMA ListenKeeps == IInv /\ readable_listen => IInv'
<1> SUFFICES ASSUME IInv, readable_listen PROVE IInv'
  OBVIOUS
<1> DEFINE c == backlog[1]
           s == Lowest(Slots \ Used)
<1>0. /\ dpc = "listenfd" /\ "listenfd" \in rset /\ Handled("fd4")
      /\ backlog' = Tail(backlog)
      /\ UNCHANGED <<clients, passed, unread, raw, lport, i, report, known>>
  BY DEF readable_listen
<1>1. backlog # << >> /\ 1 \in DOMAIN backlog /\ c = Head(backlog) /\ c \in Clients
  <2>1. backlog # << >>
    BY <1>0 DEF IInv, LoopFits, Later
  <2> QED
    BY <2>1 DEF IInv, TypeOK
<1>2. c \notin Held \cup known /\ conn[c] = "open"
  BY <1>1 DEF IInv, ConnectionsFit
<1>3. /\ backlog' \in Seq(Clients)
      /\ \A n \in DOMAIN backlog' : /\ n + 1 \in DOMAIN backlog /\ n + 1 # 1 /\ n \in Nat
                                   /\ backlog'[n] = backlog[n + 1]
  BY <1>0, <1>1 DEF IInv, TypeOK
<1>4. UNCHANGED <<cpc, port>>
  BY <1>0 DEF clients
<1>5. \/ conn' = [conn EXCEPT ![c] = "closed"] /\ UNCHANGED <<connfd, maxi>>
      \/ /\ s \in Slots \ Used /\ connfd' = [connfd EXCEPT ![s] = c]
         /\ maxi' = Greater(s, maxi) /\ UNCHANGED conn
  <2>1. Used # Slots => Slots \ Used # {} /\ Slots \ Used \in SUBSET Nat
    BY DEF Used, Slots
  <2>2. Used # Slots => s \in Slots \ Used
    BY <2>1, LowestIn
  <2> QED
    BY <1>1, <2>2 DEF readable_listen
<1> HIDE DEF c, s
<1>6. /\ \/ Used' = Used /\ Held' = Held /\ UNCHANGED <<connfd, maxi>>
         \/ /\ s \in Slots \ Used /\ Used' = Used \cup {s} /\ Held' = Held \cup {c}
            /\ connfd'[s] = c /\ \A t \in Used : connfd'[t] = connfd[t]
            /\ maxi' = Greater(s, maxi)
      /\ Held \subseteq Clients
      /\ connfd' \in [Slots -> Clients \cup {NoClient}]
      /\ maxi' \in 0 .. FD_SETSIZE
  <2>1. /\ connfd \in [Slots -> Clients \cup {NoClient}] /\ c # NoClient
        /\ maxi \in 0 .. FD_SETSIZE /\ FD_SETSIZE \in Nat
    BY <1>1, ConstantsAssumption DEF IInv, TypeOK
  <2>2. CASE UNCHANGED <<connfd, maxi>>
    BY <2>1, <2>2, TableStays, HeldOpen
  <2>3. CASE /\ s \in Slots \ Used /\ connfd' = [connfd EXCEPT ![s] = c]
             /\ maxi' = Greater(s, maxi)
    <3>1. connfd' \in [Slots -> Clients \cup {NoClient}] /\ connfd'[s] = c
          /\ \A t \in Slots : t # s => connfd'[t] = connfd[t]
      BY <1>1, <2>1, <2>3
    <3>2. Used' = Used \cup {s}
      BY <2>1, <2>3, <3>1 DEF Used, Slots
    <3>3. Held' = Held \cup {c}
      BY <2>3, <3>1, <3>2 DEF Held, Used
    <3>4. maxi' \in 0 .. FD_SETSIZE
      BY <2>1, <2>3 DEF Greater, Slots
    <3> QED
      BY <2>3, <3>1, <3>2, <3>3, <3>4, HeldOpen DEF Used
  <2> QED
    BY <1>5, <2>2, <2>3
<1>7. /\ conn' \in [Clients -> {"none", "open", "closed"}]
      /\ \A d \in Clients \ {c} : conn'[d] = conn[d]
      /\ conn'[c] = "closed" \/ (conn'[c] = "open" /\ conn' = conn)
      /\ conn'[c] = "closed" => Held' = Held /\ Used' = Used /\ UNCHANGED connfd
  BY <1>1, <1>2, <1>5, TableStays DEF IInv, TypeOK
<1>8. ToCome' = ToCome \ {"listenfd"} \/ dpc' = "select"
  <2> SUFFICES ASSUME dpc' = "fd4" PROVE ToCome' = ToCome \ {"listenfd"}
    BY <1>0 DEF Handled
  <2>1. rset' = rset
    BY <1>0 DEF Handled
  <2>2. ToCome = rset \cap (Descriptors \cup Held)
    BY <1>0 DEF ToCome, Later, Ahead, Held, Used, Descriptors
  <2>3. ToCome' = rset \cap ({"fd4", "fd6"} \cup Held')
    BY <2>1 DEF ToCome, Later, Ahead, Held, Used, Slots
  <2>4. c \notin rset
    BY <1>0, <1>1, <1>2 DEF IInv, LoopFits
  <2>5. "listenfd" \notin Held
    BY <1>6, ConstantsAssumption
  <2> QED
    BY <1>6, <2>2, <2>3, <2>4, <2>5 DEF Descriptors
<1>9. CountFits' /\ nready' \in Nat /\ dpc' \in {"select", "fd4"} /\ rset' = rset
  <2>1. "listenfd" \in ToCome
    BY <1>0 DEF ToCome, Later
  <2> QED
    BY <1>0, <1>8, <2>1, Handling, PartsOfTable DEF IInv
<1>10. TypeOK'
  BY <1>0, <1>3, <1>4, <1>6, <1>7, <1>9 DEF IInv, TypeOK
<1>11. ConnectionsFit'
  <2>1. \A n \in DOMAIN backlog' : backlog'[n] \in Clients \ {c}
    BY <1>1, <1>3 DEF IInv, TypeOK, ConnectionsFit, c
  <2>2. \A m, n \in DOMAIN backlog' : backlog'[m] = backlog'[n] => m = n
    <3> SUFFICES ASSUME NEW m \in DOMAIN backlog', NEW n \in DOMAIN backlog', backlog'[m] = backlog'[n]
                 PROVE  m = n
      OBVIOUS
    <3>1. m + 1 = n + 1 /\ m \in Nat /\ n \in Nat
      BY <1>3 DEF IInv, ConnectionsFit
    <3> QED
      BY <3>1
  <2>3. \A n \in DOMAIN backlog' : conn'[backlog'[n]] = "open" /\ backlog'[n] \notin Held' \cup known'
    BY <1>0, <1>3, <1>6, <1>7, <2>1 DEF IInv, ConnectionsFit
  <2>4. \A t \in Used' : conn'[connfd'[t]] = "open"
    <3>1. \A t \in Used : connfd[t] \in Clients \ {c} /\ conn[connfd[t]] = "open"
      BY <1>2, HeldOpen DEF Held
    <3> QED
      BY <1>6, <1>7, <3>1
  <2>5. /\ \A d \in known' : conn'[d] # "none"
        /\ \A d \in Clients : cpc'[d] = "off" <=> conn'[d] = "none"
        /\ \A d \in Clients : IF cpc'[d] = "off" THEN unread'[d] = << >> ELSE port'[d] \in Ports
    BY <1>0, <1>1, <1>2, <1>4, <1>7 DEF IInv, TypeOK, ConnectionsFit
  <2> QED
    BY <2>2, <2>3, <2>4, <2>5 DEF ConnectionsFit
<1>12. LoopFits'
  BY <1>0, <1>9 DEF IInv, LoopFits, Later, Descriptors
<1>13. EntriesFit'
  <2>1. EntriesFit /\ maxi \in Nat /\ \A t \in Used : t \in Nat /\ connfd[t] \in Held
    BY PartsOfTable DEF IInv, TypeOK, Used, Slots, Held
  <2>2. CASE Used' = Used /\ UNCHANGED <<connfd, maxi>>
    BY <1>0, <1>4, <2>1, <2>2 DEF EntriesFit
  <2>3. CASE /\ s \in Slots \ Used /\ Used' = Used \cup {s}
             /\ connfd'[s] = c /\ \A t \in Used : connfd'[t] = connfd[t]
             /\ maxi' = Greater(s, maxi)
    <3>1. s <= maxi' /\ \A t \in Used : t <= maxi'
      BY <2>1, <2>3 DEF Greater, Slots, EntriesFit
    <3>2. \A t \in Used : connfd'[t] # c
      BY <1>2, <2>1, <2>3
    <3> QED
      BY <1>0, <1>2, <1>4, <2>1, <2>3, <3>1, <3>2 DEF EntriesFit
  <2> QED
    BY <1>6, <2>2, <2>3
<1>14. TableAgrees'
  <2>1. TableAgrees'
    BY <1>9, <1>13, PartsOfTable, PTL
  <2> QED
    BY <2>1
<1> QED
  BY <1>10, <1>11, <1>12, <1>14 DEF IInv

\* The daemon ends.
LEMMA EndKeeps ==
  ASSUME IInv, dpc' = "down",
         UNCHANGED <<cpc, port, unread, conn, backlog, connfd, lport, maxi, rset, nready, known>>,
         passed' \subseteq Clients, raw' \in [{"fd4", "fd6"} -> Seq(Ports \cup {Short})],
         i' \in 1 .. (FD_SETSIZE + 1), report' = report
  PROVE  IInv'
<1>1. Used' = Used /\ Held' = Held
  BY TableStays
<1>2. TypeOK'
  BY DEF IInv, TypeOK
<1>3. ConnectionsFit'
  BY <1>1 DEF IInv, ConnectionsFit
<1>4. LoopFits' /\ CountFits'
  BY DEF LoopFits, CountFits, Later, Descriptors
<1>5. EntriesFit'
  BY <1>1, PartsOfTable DEF IInv, EntriesFit
<1>6. TableAgrees'
  BY <1>4, <1>5, PartsOfTable, PTL
<1> QED
  BY <1>2, <1>3, <1>4, <1>6 DEF IInv

LEMMA WriteFits ==
  ASSUME TypeOK, NEW c \in Clients, NEW what \in Ports \cup {OK, NO}, Write(c, what)
  PROVE  /\ unread' \in [Clients -> Seq(Ports \cup {OK, NO})]
         /\ \A d \in Clients : d # c => unread'[d] = unread[d]
         /\ Left(c) => unread' = unread
         /\ ~ Left(c) => unread'[c] = Append(unread[c], what)
<1>1. unread \in [Clients -> Seq(Ports \cup {OK, NO})]
  BY DEF TypeOK
<1>2. unread[c] \in Seq(Ports \cup {OK, NO}) /\ Append(unread[c], what) \in Seq(Ports \cup {OK, NO})
  BY <1>1
<1> QED
  BY <1>1, <1>2 DEF Write

LEMMA ReadIcmpKeeps == IInv /\ (\E f \in {"fd4", "fd6"} : ReadIcmp(f)) => IInv'
<1> SUFFICES ASSUME IInv, NEW f \in {"fd4", "fd6"}, ReadIcmp(f) PROVE IInv'
  OBVIOUS
<1>1. /\ dpc = f /\ f \in rset /\ report = 0
      /\ raw' = [raw EXCEPT ![f] = Tail(@)]
      /\ UNCHANGED <<clients, wires, table, rset, nready, i, known>>
  BY DEF ReadIcmp
<1>2. UNCHANGED <<cpc, port, passed, unread, conn, backlog, connfd, lport, maxi>>
  BY <1>1 DEF clients, wires, table
<1>3. /\ raw[f] # << >> /\ Head(raw[f]) \in Ports \cup {Short}
      /\ raw' \in [{"fd4", "fd6"} -> Seq(Ports \cup {Short})]
      /\ \A g \in {"fd4", "fd6"} : g # f => raw'[g] = raw[g]
  <2>1. raw \in [{"fd4", "fd6"} -> Seq(Ports \cup {Short})] /\ raw[f] # << >>
    BY <1>1 DEF IInv, TypeOK, LoopFits, Later
  <2>2. /\ raw[f] \in Seq(Ports \cup {Short}) /\ Head(raw[f]) \in Ports \cup {Short}
        /\ Tail(raw[f]) \in Seq(Ports \cup {Short})
    BY <2>1
  <2> QED
    BY <1>1, <2>1, <2>2
<1>4. CASE Head(raw[f]) = Short
  <2>1. dpc' = "down" /\ report' = report
    BY <1>4 DEF ReadIcmp
  <2> QED
    BY <1>1, <1>2, <1>3, <2>1, EndKeeps DEF IInv, TypeOK
<1>5. CASE Head(raw[f]) # Short
  <2>1. report' \in Ports /\ report' # 0 /\ dpc' = dpc
    <3>1. report' = Head(raw[f]) /\ dpc' = dpc
      BY <1>5 DEF ReadIcmp
    <3> QED
      BY <1>3, <1>5, <3>1 DEF Short
  <2>2. Used' = Used /\ Held' = Held
    BY <1>2, TableStays
  <2>3. TypeOK'
    BY <1>1, <1>2, <1>3, <2>1 DEF IInv, TypeOK
  <2>4. ConnectionsFit'
    BY <1>1, <1>2, <2>2 DEF IInv, ConnectionsFit
  <2>5. LoopFits'
    BY <1>1, <1>2, <1>3, <2>1, <2>2 DEF IInv, LoopFits, Later
  <2>6. EntriesFit' /\ CountFits'
    <3>1. ToCome' = ToCome
      BY <1>1, <1>2, <2>1, <2>2 DEF ToCome, Later, Ahead, Slots
    <3> QED
      BY <1>1, <1>2, <2>1, <2>2, <3>1, PartsOfTable DEF IInv, EntriesFit, CountFits
  <2>7. TableAgrees'
    BY <2>6, PartsOfTable, PTL
  <2> QED
    BY <2>3, <2>4, <2>5, <2>7 DEF IInv
<1> QED
  BY <1>4, <1>5

\* The entry an error is written to next.
LEMMA NextTarget ==
  ASSUME IInv, Targets # {}
  PROVE  /\ Lowest(Targets) \in Targets /\ Lowest(Targets) \in Slots
         /\ connfd[Lowest(Targets)] \in Held /\ connfd[Lowest(Targets)] \in Clients
         /\ connfd[Lowest(Targets)] \in known => port[connfd[Lowest(Targets)]] = report
<1>1. Targets \subseteq Used /\ Targets \in SUBSET Nat
  BY DEF Targets, Used, Slots
<1>2. Lowest(Targets) \in Targets
  BY <1>1, LowestIn
<1>3. lport[Lowest(Targets)] = report /\ Lowest(Targets) \in Used /\ Lowest(Targets) \in Slots
  BY <1>2 DEF Targets, Used
<1>4. connfd[Lowest(Targets)] \in Held
  BY <1>3 DEF Held
<1> QED
  BY <1>2, <1>3, <1>4, HeldOpen, PartsOfTable DEF IInv, EntriesFit

LEMMA TellKeeps == IInv /\ (\E f \in {"fd4", "fd6"} : Tell(f)) => IInv'
<1> SUFFICES ASSUME IInv, NEW f \in {"fd4", "fd6"}, Tell(f) PROVE IInv'
  OBVIOUS
<1> DEFINE s == Lowest(Targets)
           c == connfd[s]
<1>1. /\ dpc = f /\ report # 0 /\ Targets # {} /\ Write(c, report)
      /\ UNCHANGED <<clients, passed, conn, backlog, raw, table, rset, nready, report, known>>
      /\ IF Left(c) THEN dpc' = "down" /\ i' = i ELSE i' = s + 1 /\ dpc' = dpc
  BY DEF Tell
<1>2. UNCHANGED <<cpc, port, connfd, lport, maxi>>
  BY <1>1 DEF clients, table
<1>3. s \in Slots /\ c \in Held /\ c \in Clients /\ cpc[c] # "off"
  BY <1>1, NextTarget, HeldOpen
<1> HIDE DEF s, c
<1>4. report \in Ports \cup {OK, NO}
  BY <1>1 DEF IInv, TypeOK
<1>5. /\ unread' \in [Clients -> Seq(Ports \cup {OK, NO})]
      /\ \A d \in Clients : d # c => unread'[d] = unread[d]
      /\ Left(c) => unread' = unread
  BY <1>1, <1>3, <1>4, WriteFits DEF IInv
<1>6. CASE Left(c)
  BY <1>1, <1>2, <1>5, <1>6, EndKeeps DEF IInv, TypeOK
<1>7. CASE ~ Left(c)
  <2>1. i' \in 1 .. (FD_SETSIZE + 1) /\ dpc' = dpc
    BY <1>1, <1>3, <1>7, ConstantsAssumption DEF Slots
  <2>2. Used' = Used /\ Held' = Held
    BY <1>2, TableStays
  <2>3. TypeOK'
    BY <1>1, <1>2, <1>5, <2>1 DEF IInv, TypeOK
  <2>4. ConnectionsFit'
    <3>1. \A d \in Clients : cpc'[d] = "off" => unread'[d] = << >>
      BY <1>2, <1>3, <1>5 DEF IInv, ConnectionsFit
    <3> QED
      BY <1>1, <1>2, <2>2, <3>1 DEF IInv, ConnectionsFit
  <2>5. LoopFits'
    BY <1>1, <1>2, <2>1, <2>2 DEF IInv, LoopFits, Later
  <2>6. EntriesFit' /\ CountFits'
    <3>1. ToCome' = ToCome
      BY <1>1, <1>2, <2>1, <2>2 DEF ToCome, Later, Ahead, Slots
    <3> QED
      BY <1>1, <1>2, <2>1, <2>2, <3>1, PartsOfTable DEF IInv, EntriesFit, CountFits
  <2>7. TableAgrees'
    BY <2>6, PartsOfTable, PTL
  <2> QED
    BY <2>3, <2>4, <2>5, <2>7 DEF IInv
<1> QED
  BY <1>6, <1>7

LEMMA AllToldKeeps == IInv /\ (\E f \in {"fd4", "fd6"} : AllTold(f)) => IInv'
<1> SUFFICES ASSUME IInv, NEW f \in {"fd4", "fd6"}, AllTold(f) PROVE IInv'
  OBVIOUS
<1>1. /\ dpc = f /\ report # 0 /\ report' = 0 /\ i' = 1 /\ Handled(After(f))
      /\ UNCHANGED <<clients, wires, raw, table, known>>
  BY DEF AllTold
<1>2. UNCHANGED <<cpc, port, passed, unread, conn, backlog, connfd, lport, maxi>>
  BY <1>1 DEF clients, wires, table
<1>3. Used' = Used /\ Held' = Held /\ f \in rset
  BY <1>1, <1>2, TableStays DEF IInv, LoopFits
<1>4. ToCome' = ToCome \ {f} \/ dpc' = "select"
  <2> SUFFICES ASSUME dpc' = After(f) PROVE ToCome' = ToCome \ {f}
    BY <1>1 DEF Handled
  <2>1. rset' = rset
    BY <1>1 DEF Handled
  <2>2. {connfd'[s] : s \in {t \in Used' : t \in Ahead'}} = {connfd[s] : s \in {t \in Used : t \in Ahead}}
    BY <1>1, <1>2, AllAhead DEF Descriptors
  <2>3. Later = {f} \cup Later' /\ f \notin Later'
    BY <1>1 DEF Later, After
  <2>4. f \notin {connfd[s] : s \in {t \in Used : t \in Ahead}}
    BY HeldOpen, ConstantsAssumption DEF Held
  <2> QED
    BY <2>1, <2>2, <2>3, <2>4 DEF ToCome
<1>5. CountFits' /\ nready' \in Nat /\ dpc' \in {"select", After(f)} /\ rset' = rset
  <2>1. f \in ToCome
    BY <1>1, <1>3 DEF ToCome, Later
  <2> QED
    BY <1>1, <1>4, <2>1, Handling, PartsOfTable DEF IInv
<1>6. dpc' \in {"select", "fd6", "conns"}
  BY <1>5 DEF After
<1>7. TypeOK'
  BY <1>1, <1>2, <1>5, <1>6, ConstantsAssumption DEF IInv, TypeOK
<1>8. ConnectionsFit'
  BY <1>1, <1>2, <1>3 DEF IInv, ConnectionsFit
<1>9. LoopFits'
  <2>1. \A g \in Later' : g = "fd6" /\ f = "fd4" /\ g \in Later
    BY <1>1, <1>5 DEF After, Later
  <2> QED
    BY <1>1, <1>5, <1>6, <2>1 DEF IInv, LoopFits
<1>10. EntriesFit'
  BY <1>1, <1>2, <1>3, PartsOfTable DEF IInv, EntriesFit
<1>11. TableAgrees'
  BY <1>5, <1>10, PartsOfTable, PTL
<1> QED
  BY <1>7, <1>8, <1>9, <1>11 DEF IInv

\* The loop over the connections looks at entry i, and it alone may change.
LEMMA LookedAt ==
  ASSUME IInv, dpc = "conns", i \in Used, i <= maxi, connfd[i] \in rset,
         i' = i + 1, maxi' = maxi,
         Used' \in {Used, Used \ {i}}, \A t \in Used : t # i => connfd'[t] = connfd[t]
  PROVE  /\ connfd[i] \in ToCome
         /\ dpc' = "conns" /\ rset' = rset => ToCome' = ToCome \ {connfd[i]}
<1>1. \A s, t \in Used : connfd[s] = connfd[t] => s = t
  BY DEF IInv, TableAgrees
<1>2. i \in Nat /\ maxi \in Nat /\ \A t \in Used : t \in Nat
  BY DEF IInv, TypeOK, Used, Slots
<1>3. Ahead = i .. maxi /\ Later = {}
  BY DEF Ahead, Later
<1>4. connfd[i] \in ToCome
  BY <1>2, <1>3 DEF ToCome
<1>5. ASSUME dpc' = "conns", rset' = rset PROVE ToCome' = ToCome \ {connfd[i]}
  <2>1. Ahead' = (i + 1) .. maxi /\ Later' = {}
    BY <1>5 DEF Ahead, Later
  <2>2. {t \in Used' : t \in Ahead'} = {t \in Used : t \in Ahead} \ {i}
    <3>1. \A t \in Used : t \in Ahead' <=> t \in Ahead /\ t # i
      BY <1>2, <1>3, <2>1
    <3>2. i \notin Ahead' /\ \A t \in Used : t # i => t \in Used'
      BY <1>2, <2>1
    <3> QED
      BY <3>1, <3>2
  <2>3. \A t \in {u \in Used : u \in Ahead} \ {i} : connfd'[t] = connfd[t] /\ connfd[t] # connfd[i]
    BY <1>1
  <2>4. {connfd'[t] : t \in {u \in Used' : u \in Ahead'}}
          = {connfd[t] : t \in {u \in Used : u \in Ahead}} \ {connfd[i]}
    BY <2>2, <2>3
  <2> QED
    BY <1>3, <1>5, <2>1, <2>4 DEF ToCome
<1> QED
  BY <1>4, <1>5

\* An entry becomes free, and its connection is closed.
LEMMA FreesKeeps ==
  ASSUME IInv, dpc = "conns", i \in Slots, connfd[i] \in Clients, i <= maxi, connfd[i] \in rset,
         i' = i + 1, UNCHANGED <<cpc, port, backlog, raw, lport, maxi, report, known>>,
         connfd' = [connfd EXCEPT ![i] = NoClient], conn' = [conn EXCEPT ![connfd[i]] = "closed"],
         passed' \subseteq Clients,
         unread' \in [Clients -> Seq(Ports \cup {OK, NO})],
         \A d \in Clients : d # connfd[i] => unread'[d] = unread[d],
         Handled("conns")
  PROVE  IInv'
<1> DEFINE c == connfd[i]
<1>1. /\ dpc = "conns" /\ i <= maxi /\ c \in rset /\ i' = i + 1 /\ Handled("conns")
      /\ UNCHANGED <<backlog, raw, lport, maxi, report, known>>
      /\ connfd' = [connfd EXCEPT ![i] = NoClient] /\ conn' = [conn EXCEPT ![c] = "closed"]
  OBVIOUS
<1>2. UNCHANGED <<cpc, port>> /\ report = 0
  BY DEF IInv, LoopFits
<1>3. i \in Slots /\ i' \in 1 .. (FD_SETSIZE + 1) /\ c \in Clients
  BY ConstantsAssumption DEF Slots
<1>4. i \in Used /\ c \in Held
  BY <1>3, ConstantsAssumption DEF Used, Held
<1>5. EntriesFit /\ CountFits /\ TypeOK
  BY PartsOfTable DEF IInv
<1>6. /\ connfd' \in [Slots -> Clients \cup {NoClient}] /\ connfd'[i] = NoClient
      /\ \A t \in Slots : t # i => connfd'[t] = connfd[t]
  BY <1>1, <1>3, <1>5 DEF TypeOK
<1>7. /\ conn' \in [Clients -> {"none", "open", "closed"}] /\ conn'[c] = "closed"
      /\ \A d \in Clients : d # c => conn'[d] = conn[d]
  BY <1>1, <1>3, <1>5 DEF TypeOK
<1>8. /\ Used' = Used \ {i} /\ \A t \in Used : t \in Slots
      /\ \A t \in Used' : connfd'[t] = connfd[t] /\ connfd[t] # c
  <2>1. Used' = Used \ {i} /\ \A t \in Used : t \in Slots
    BY <1>6 DEF Used, Slots
  <2> QED
    BY <1>4, <1>5, <1>6, <2>1 DEF EntriesFit
<1>9. Held' \subseteq Held
  BY <1>8 DEF Held
<1>10. c \in ToCome /\ (dpc' = "conns" /\ rset' = rset => ToCome' = ToCome \ {c})
  BY <1>1, <1>4, <1>6, <1>8, LookedAt
<1>11. CountFits' /\ nready' \in Nat /\ dpc' \in {"select", "conns"} /\ rset' = rset
  <2>1. rset' = rset /\ dpc' \in {"select", "conns"}
    BY <1>1 DEF Handled
  <2>2. dpc' # "select" => ToCome' = ToCome \ {c}
    BY <1>10, <2>1
  <2> QED
    BY <1>1, <1>5, <1>10, <2>2, Handling
<1>12. TypeOK'
  BY <1>1, <1>2, <1>3, <1>5, <1>6, <1>7, <1>11 DEF TypeOK
<1>13. ConnectionsFit'
  <2>1. cpc[c] # "off" /\ c \in Clients /\ \A n \in DOMAIN backlog : backlog[n] # c
    BY <1>4, HeldOpen DEF IInv, ConnectionsFit
  <2>2. \A n \in DOMAIN backlog : conn'[backlog[n]] = "open" /\ backlog[n] \notin Held' \cup known
    BY <1>5, <1>7, <1>9, <2>1 DEF IInv, TypeOK, ConnectionsFit
  <2>3. \A t \in Used' : conn'[connfd'[t]] = "open"
    BY <1>7, <1>8, HeldOpen DEF Held
  <2>4. /\ \A d \in known : conn'[d] # "none"
        /\ \A d \in Clients : cpc[d] = "off" <=> conn'[d] = "none"
    BY <1>5, <1>7, <2>1 DEF IInv, TypeOK, ConnectionsFit
  <2>5. \A d \in Clients : cpc[d] = "off" => unread'[d] = << >>
    BY <2>1 DEF IInv, ConnectionsFit
  <2> QED
    BY <1>1, <1>2, <2>2, <2>3, <2>4, <2>5 DEF IInv, ConnectionsFit
<1>14. LoopFits' /\ EntriesFit'
  <2>1. LoopFits'
    BY <1>1, <1>2, <1>11 DEF LoopFits, Later, Descriptors
  <2>2. EntriesFit'
    BY <1>1, <1>2, <1>5, <1>8 DEF EntriesFit
  <2> QED
    BY <2>1, <2>2
<1>15. TableAgrees'
  BY <1>11, <1>14, PartsOfTable, PTL
<1> QED
  BY <1>12, <1>13, <1>14, <1>15 DEF IInv

LEMMA RegistersKeeps == IInv /\ Registers => IInv'
<1> SUFFICES ASSUME IInv, Registers PROVE IInv'
  OBVIOUS
<1> DEFINE c == connfd[i]
<1>1. /\ dpc = "conns" /\ i <= maxi /\ c \in rset \cap passed /\ Write(c, OK)
      /\ passed' = passed \ {c} /\ i' = i + 1
      /\ UNCHANGED <<clients, conn, backlog, raw, connfd, maxi, report>>
      /\ IF Left(c) THEN dpc' = "down" /\ UNCHANGED <<lport, rset, nready, known>>
         ELSE /\ lport' = [lport EXCEPT ![i] = port[c]] /\ known' = known \cup {c}
              /\ Handled("conns")
  BY DEF Registers
<1>2. UNCHANGED <<cpc, port>>
  BY <1>1 DEF clients
<1>3. i \in Slots /\ i' \in 1 .. (FD_SETSIZE + 1) /\ c \in Clients
  <2>1. /\ i \in 1 .. (FD_SETSIZE + 1) /\ maxi \in 0 .. FD_SETSIZE /\ FD_SETSIZE \in Nat
        /\ c \in Clients
    BY <1>1, ConstantsAssumption DEF IInv, TypeOK
  <2> QED
    BY <1>1, <2>1 DEF Slots
<1>4. i \in Used /\ c \in Held
  BY <1>3, ConstantsAssumption DEF Used, Held
<1>5. Used' = Used /\ Held' = Held
  BY <1>1, TableStays
<1>6. c \in ToCome /\ (dpc' = "conns" /\ rset' = rset => ToCome' = ToCome \ {c})
  BY <1>1, <1>4, <1>5, LookedAt
<1>7. EntriesFit /\ CountFits /\ TypeOK
  BY PartsOfTable DEF IInv
<1>8. \A n \in DOMAIN backlog : backlog[n] # c
  BY <1>4 DEF IInv, ConnectionsFit
<1>9. conn[c] = "open" /\ cpc[c] # "off" /\ port[c] \in Ports
  BY <1>3, <1>4, HeldOpen DEF IInv, ConnectionsFit
<1>10. /\ unread' \in [Clients -> Seq(Ports \cup {OK, NO})]
       /\ \A d \in Clients : d # c => unread'[d] = unread[d]
       /\ Left(c) => unread' = unread
  BY <1>1, <1>3, <1>7, WriteFits
<1>11. report = 0
  BY <1>1 DEF IInv, LoopFits
<1>12. CASE Left(c)
  <2>1. passed' \subseteq Clients
    BY <1>1, <1>7 DEF TypeOK
  <2> QED
    BY <1>1, <1>2, <1>3, <1>7, <1>12, <1>10, <2>1, EndKeeps DEF TypeOK
<1>13. CASE ~ Left(c)
  <2>0. /\ lport' = [lport EXCEPT ![i] = port[c]] /\ known' = known \cup {c}
        /\ Handled("conns")
    BY <1>1, <1>13
  <2>1. CountFits' /\ nready' \in Nat /\ dpc' \in {"select", "conns"} /\ rset' = rset
    <3>1. rset' = rset /\ dpc' \in {"select", "conns"}
      BY <2>0 DEF Handled
    <3>2. dpc' # "select" => ToCome' = ToCome \ {c}
      BY <1>6, <3>1
    <3> QED
      BY <1>1, <1>6, <1>7, <2>0, <3>2, Handling
  <2>3. /\ lport' \in [Slots -> Ports \cup {0}] /\ lport'[i] = port[c]
        /\ \A t \in Slots : t # i => lport'[t] = lport[t]
    BY <1>3, <1>7, <1>9, <2>0 DEF TypeOK
  <2>4. TypeOK'
    <3>1. known' \subseteq Clients /\ passed' \subseteq Clients
      BY <1>1, <1>3, <1>7, <2>0 DEF TypeOK
    <3> QED
      BY <1>1, <1>2, <1>3, <1>7, <2>1, <1>10, <2>3, <3>1 DEF TypeOK
  <2>5. ConnectionsFit'
    <3>1. /\ \A d \in known' : conn[d] # "none"
          /\ \A d \in Clients : cpc[d] = "off" => unread'[d] = << >>
          /\ \A n \in DOMAIN backlog : backlog[n] \notin known'
      BY <1>8, <1>9, <2>0, <1>10 DEF IInv, ConnectionsFit
    <3> QED
      BY <1>1, <1>2, <1>5, <3>1 DEF IInv, ConnectionsFit
  <2>6. LoopFits'
    BY <1>1, <1>11, <2>1 DEF LoopFits, Later, Descriptors
  <2>7. EntriesFit'
    <3>1. \A t \in Used : t # i => connfd[t] # c /\ lport'[t] = lport[t]
      BY <1>4, <1>7, <2>3 DEF EntriesFit, Used
    <3>2. \A t \in Used : connfd[t] \in known' => lport'[t] = port[connfd[t]]
      BY <1>7, <2>0, <2>3, <3>1 DEF EntriesFit
    <3> QED
      BY <1>1, <1>2, <1>5, <1>7, <3>2 DEF EntriesFit
  <2>8. TableAgrees'
    BY <2>1, <2>7, PartsOfTable, PTL
  <2> QED
    BY <2>4, <2>5, <2>6, <2>8 DEF IInv
<1> QED
  BY <1>12, <1>13

LEMMA RejectsKeeps == IInv /\ Rejects => IInv'
<1> SUFFICES ASSUME IInv, Rejects PROVE IInv'
  OBVIOUS
<1> DEFINE c == connfd[i]
<1>1. /\ dpc = "conns" /\ i <= maxi /\ c \in rset \cap passed /\ Write(c, NO)
      /\ passed' = passed \ {c} /\ i' = i + 1
      /\ UNCHANGED <<clients, backlog, raw, lport, maxi, report, known>>
      /\ IF Left(c) THEN dpc' = "down" /\ UNCHANGED <<connfd, conn, rset, nready>>
         ELSE /\ connfd' = [connfd EXCEPT ![i] = NoClient] /\ conn' = [conn EXCEPT ![c] = "closed"]
              /\ Handled("conns")
  BY DEF Rejects
<1>2. UNCHANGED <<cpc, port>> /\ TypeOK
  BY <1>1 DEF clients, IInv
<1>3. i \in Slots /\ i' \in 1 .. (FD_SETSIZE + 1) /\ c \in Clients /\ passed' \subseteq Clients
  <2>1. /\ i \in 1 .. (FD_SETSIZE + 1) /\ maxi \in 0 .. FD_SETSIZE /\ FD_SETSIZE \in Nat
        /\ c \in Clients /\ passed' \subseteq Clients
    BY <1>1, ConstantsAssumption DEF IInv, TypeOK
  <2> QED
    BY <1>1, <2>1 DEF Slots
<1>4. /\ unread' \in [Clients -> Seq(Ports \cup {OK, NO})]
      /\ \A d \in Clients : d # c => unread'[d] = unread[d]
      /\ Left(c) => unread' = unread
  BY <1>1, <1>2, <1>3, WriteFits
<1>5. CASE Left(c)
  BY <1>1, <1>2, <1>3, <1>4, <1>5, EndKeeps DEF TypeOK
<1>6. CASE ~ Left(c)
  BY <1>1, <1>2, <1>3, <1>4, <1>6, FreesKeeps
<1> QED
  BY <1>5, <1>6

LEMMA UnregistersKeeps == IInv /\ Unregisters => IInv'
<1> SUFFICES ASSUME IInv, Unregisters PROVE IInv'
  OBVIOUS
<1> DEFINE c == connfd[i]
<1>1. /\ dpc = "conns" /\ i <= maxi /\ c \in rset \ passed /\ i' = i + 1
      /\ UNCHANGED <<clients, passed, unread, backlog, raw, lport, maxi, report, known>>
      /\ \/ /\ connfd' = [connfd EXCEPT ![i] = NoClient] /\ conn' = [conn EXCEPT ![c] = "closed"]
            /\ Handled("conns")
         \/ dpc' = "down" /\ UNCHANGED <<connfd, conn, rset, nready>>
  BY DEF Unregisters
<1>2. UNCHANGED <<cpc, port>> /\ TypeOK
  BY <1>1 DEF clients, IInv
<1>3. i \in Slots /\ i' \in 1 .. (FD_SETSIZE + 1) /\ c \in Clients
  <2>1. i \in 1 .. (FD_SETSIZE + 1) /\ maxi \in 0 .. FD_SETSIZE /\ FD_SETSIZE \in Nat
    BY ConstantsAssumption DEF IInv, TypeOK
  <2>2. i \in Slots
    BY <1>1, <2>1 DEF Slots
  <2>3. c \in Clients \cup {NoClient} /\ c \in Clients \cup Descriptors
    BY <1>1, <2>2 DEF IInv, TypeOK
  <2> QED
    BY <1>1, <2>1, <2>2, <2>3, ConstantsAssumption DEF Descriptors, Slots
<1>4. CASE dpc' = "down" /\ UNCHANGED <<connfd, conn, rset, nready>>
  BY <1>1, <1>2, <1>3, <1>4, EndKeeps DEF TypeOK
<1>5. CASE /\ connfd' = [connfd EXCEPT ![i] = NoClient] /\ conn' = [conn EXCEPT ![c] = "closed"]
           /\ Handled("conns")
  BY <1>1, <1>2, <1>3, <1>5, FreesKeeps DEF TypeOK
<1> QED
  BY <1>1, <1>4, <1>5

-----------------------------------------------------------------------------
(* What holds in every state.                                               *)

LEMMA NextKeeps == IInv /\ [Next]_vars => IInv'
<1> SUFFICES ASSUME IInv, [Next]_vars PROVE IInv'
  OBVIOUS
<1>1. CASE Daemon
  BY <1>1, SelectKeeps, ListenKeeps, OtherKeeps, RegistersKeeps, RejectsKeeps,
     UnregistersKeeps, SkipKeeps, ReadIcmpKeeps, TellKeeps, AllToldKeeps DEF Daemon, Descriptors, readable_icmp
<1>2. CASE \E c \in Clients : ClientStep(c) \/ Connect(c) \/ Leave(c) \/ Again(c)
  BY <1>2, ClientKeeps, ConnectKeeps, AgainKeeps
<1>3. CASE \E f \in Shorts : ShortArrives(f)
  BY <1>3, ShortKeeps
<1>4. CASE UNCHANGED vars
  <2>1. UNCHANGED <<cpc, port, passed, unread, conn, backlog, raw, connfd, lport, maxi,
                    dpc, rset, nready, i, report, known>>
    BY <1>4 DEF vars, clients, wires, table, turn
  <2>2. Used' = Used /\ Held' = Held /\ Later' = Later /\ Ahead' = Ahead
    BY <2>1, TableStays DEF Later, Ahead, Slots
  <2>3. TypeOK' /\ ConnectionsFit' /\ LoopFits'
    BY <2>1, <2>2 DEF IInv, TypeOK, ConnectionsFit, LoopFits
  <2>4. TableAgrees'
    BY <2>1, <2>2 DEF IInv, TableAgrees
  <2> QED
    BY <2>3, <2>4 DEF IInv
<1> QED
  BY <1>1, <1>2, <1>4, <1>3 DEF Next

THEOREM Inductive == Spec => []IInv
<1> QED
  BY InitIInv, NextKeeps, PTL DEF Spec

\* Every variable has its type: an entry of client[] holds a client or is free,
\* the loop of main() stays within the table, nready is never negative
\* (icmpd.c:30-70).
THEOREM TypeCorrect == Spec => []TypeOK
<1>1. IInv => TypeOK
  BY DEF IInv
<1> QED
  BY <1>1, Inductive, PTL

\* client[] agrees with the connections and with the ports that were
\* registered, and the count main() leaves its loop early by is exact: no
\* descriptor that is ready is left out (icmpd.c:39-63).
THEOREM TableIsRight == Spec => []TableAgrees
<1>1. IInv => TableAgrees
  BY DEF IInv
<1> QED
  BY <1>1, Inductive, PTL

-----------------------------------------------------------------------------
(* What a client is told.                                                   *)

\* OK comes to those who are registered, and only errors about their own port
\* come after it; a descriptor on its way is that of a client that is not.
Talk ==
  /\ TalkIsOwn
  /\ \A c \in Clients \ known : \A k \in 1 .. Len(unread[c]) : unread[c][k] # OK
  /\ \A c \in known : cpc[c] = "registering" =>
       \A j, k \in 1 .. Len(unread[c]) : unread[c][j] = OK /\ j < k => unread[c][k] = port[c]
  /\ \A c \in Clients : cpc[c] \in {"off", "connected"} => c \notin known
  /\ \A c \in passed : c \notin known /\ cpc[c] \in {"registering", "left"}

LEMMA InitTalk == Init => Talk
  BY DEF Init, Talk, TalkIsOwn

\* Nothing happens to what is said.
LEMMA Silence ==
  ASSUME Talk, UNCHANGED <<cpc, port, unread, known>>, passed' \subseteq passed
  PROVE  Talk'
  BY DEF Talk, TalkIsOwn

\* A client is written to: if it is registered, about its own port; if it gets
\* OK, it is registered from now on.
LEMMA Saying ==
  ASSUME IInv, Talk, UNCHANGED <<cpc, port>>, passed' \subseteq passed,
         NEW c \in Clients, NEW what \in Ports \cup {OK, NO},
         unread' \in [Clients -> Seq(Ports \cup {OK, NO})],
         unread'[c] = Append(unread[c], what), \A d \in Clients : d # c => unread'[d] = unread[d],
         \/ c \in known /\ known' = known /\ what = port[c]
         \/ c \notin known /\ known' = known /\ what # OK
         \/ c \notin known /\ known' = known \cup {c} /\ what = OK /\ c \notin passed' /\ cpc[c] = "registering"
  PROVE  Talk'
<1>1. /\ unread[c] \in Seq(Ports \cup {OK, NO}) /\ Len(unread[c]) \in Nat
      /\ Len(unread'[c]) = Len(unread[c]) + 1 /\ unread'[c][Len(unread[c]) + 1] = what
      /\ \A k \in 1 .. Len(unread[c]) : unread'[c][k] = unread[c][k]
      /\ \A k \in 1 .. Len(unread'[c]) : k \in 1 .. Len(unread[c]) \/ k = Len(unread[c]) + 1
  BY DEF IInv, TypeOK
<1>2. TalkIsOwn'
  BY <1>1 DEF Talk, TalkIsOwn
<1>3. \A d \in Clients \ known' : \A k \in 1 .. Len(unread'[d]) : unread'[d][k] # OK
  BY <1>1 DEF Talk
<1>4. ASSUME NEW d \in known', cpc[d] = "registering",
             NEW j \in 1 .. Len(unread'[d]), NEW k \in 1 .. Len(unread'[d]), unread'[d][j] = OK, j < k
      PROVE  unread'[d][k] = port[d]
  <2>1. CASE d # c
    <3>1. d \in known /\ d \in Clients
      BY <2>1, <1>4 DEF IInv, TypeOK
    <3> QED
      BY <1>4, <2>1, <3>1 DEF Talk
  <2>2. CASE d = c /\ c \in known
    <3>1. j \in 1 .. Len(unread[c]) /\ unread[c][j] = OK
      BY <1>1, <1>4, <2>2
    <3>2. CASE k \in 1 .. Len(unread[c])
      BY <1>1, <1>4, <2>2, <3>1, <3>2 DEF Talk
    <3>3. CASE k = Len(unread[c]) + 1
      BY <1>1, <1>4, <2>2, <3>3
    <3> QED
      BY <1>1, <1>4, <2>2, <3>2, <3>3
  <2>3. CASE d = c /\ c \notin known
    <3>1. j \in 1 .. Len(unread[c]) /\ unread[c][j] = OK
      BY <1>1, <1>4, <2>3
    <3> QED
      BY <2>3, <3>1 DEF Talk
  <2> QED
    BY <2>1, <2>2, <2>3
<1>5. /\ \A d \in Clients : cpc'[d] \in {"off", "connected"} => d \notin known'
      /\ \A d \in passed' : d \notin known' /\ cpc'[d] \in {"registering", "left"}
  BY DEF Talk
<1> QED
  BY <1>2, <1>3, <1>4, <1>5 DEF Talk

LEMMA DaemonTalks == IInv /\ Talk /\ Daemon => Talk'
<1> SUFFICES ASSUME IInv, Talk, Daemon PROVE Talk'
  OBVIOUS
<1>1. CASE Select \/ readable_listen \/ OtherConn \/ Unregisters
  BY <1>1, Silence DEF Select, readable_listen, OtherConn, Unregisters, clients, wires
<1>2. CASE \E f \in {"listenfd", "fd4", "fd6"} : Skip(f)
  BY <1>2, Silence DEF Skip, clients, wires
<1>3. CASE \E f \in {"fd4", "fd6"} : ReadIcmp(f) \/ AllTold(f)
  BY <1>3, Silence DEF ReadIcmp, AllTold, clients, wires
<1>4. ASSUME NEW f \in {"fd4", "fd6"}, Tell(f) PROVE Talk'
  <2> DEFINE c == connfd[Lowest(Targets)]
  <2>1. /\ c \in Clients /\ (c \in known => port[c] = report)
        /\ Write(c, report) /\ report # 0 /\ UNCHANGED <<cpc, port, passed, known>>
    BY <1>4, NextTarget DEF Tell, clients
  <2>2. report \in Ports \cup {OK, NO} /\ report # OK
    BY <2>1 DEF IInv, TypeOK, OK
  <2> HIDE DEF c
  <2>3. CASE Left(c)
    BY <2>1, <2>2, <2>3, WriteFits, Silence DEF IInv
  <2>4. CASE ~ Left(c)
    BY <2>1, <2>2, <2>4, WriteFits, Saying DEF IInv
  <2> QED
    BY <2>3, <2>4
<1>5. CASE Registers \/ Rejects
  <2> DEFINE c == connfd[i]
  <2>1. /\ c \in passed /\ c \in Clients /\ c \notin known /\ UNCHANGED <<cpc, port>>
        /\ cpc[c] \in {"registering", "left"} /\ passed' = passed \ {c}
    BY <1>5 DEF Registers, Rejects, clients, IInv, TypeOK, Talk
  <2>2. \/ Write(c, OK) /\ known' = (IF Left(c) THEN known ELSE known \cup {c})
        \/ Write(c, NO) /\ known' = known
    BY <1>5 DEF Registers, Rejects
  <2> HIDE DEF c
  <2>3. CASE Left(c)
    BY <2>1, <2>2, <2>3, WriteFits, Silence DEF IInv
  <2>4. CASE ~ Left(c)
    <3>1. cpc[c] = "registering" /\ NO # OK
      BY <2>1, <2>4 DEF Left, OK, NO
    <3>2. CASE Write(c, OK) /\ known' = known \cup {c}
      BY <2>1, <2>4, <3>1, <3>2, WriteFits, Saying DEF IInv
    <3>3. CASE Write(c, NO) /\ known' = known
      BY <2>1, <2>4, <3>1, <3>3, WriteFits, Saying DEF IInv
    <3> QED
      BY <2>2, <2>4, <3>2, <3>3
  <2> QED
    BY <2>3, <2>4
<1> QED
  BY <1>1, <1>2, <1>3, <1>4, <1>5 DEF Daemon, readable_icmp

LEMMA ClientsTalk ==
  IInv /\ Talk /\ (\E c \in Clients : ClientStep(c) \/ Connect(c) \/ Leave(c) \/ Again(c)) => Talk'
<1> SUFFICES ASSUME IInv, Talk, NEW c \in Clients, ClientStep(c) \/ Connect(c) \/ Leave(c) \/ Again(c)
             PROVE  Talk'
  OBVIOUS
<1> USE DEF Go, clients, wires
<1>1. /\ cpc \in [Clients -> {"off", "connected", "registering", "fgets", "select", "left"}]
      /\ port \in [Clients -> Ports \cup {0}] /\ unread \in [Clients -> Seq(Ports \cup {OK, NO})]
      /\ known \subseteq Clients /\ passed \subseteq Clients
  BY DEF IInv, TypeOK
\* The client moves, and perhaps reads; nobody else is concerned.
<1>2. ASSUME UNCHANGED <<port, known>>,
             NEW place \in {"fgets", "select", "left"}, cpc' = [cpc EXCEPT ![c] = place],
             passed' = passed, c \in passed => place = "left",
             \A d \in Clients : d # c => unread'[d] = unread[d],
             c \notin known => unread' = unread,
             place # "left" => c \in known /\ \A k \in 1 .. Len(unread'[c]) : unread'[c][k] = port[c]
      PROVE  Talk'
  <2>1. cpc'[c] = place /\ \A d \in Clients : d # c => cpc'[d] = cpc[d]
    BY <1>1, <1>2
  <2>2. TalkIsOwn'
    BY <1>2, <2>1 DEF Talk, TalkIsOwn
  <2>3. \A d \in Clients \ known' : \A k \in 1 .. Len(unread'[d]) : unread'[d][k] # OK
    BY <1>2 DEF Talk
  <2>4. \A d \in known' : cpc'[d] = "registering" =>
          \A j, k \in 1 .. Len(unread'[d]) : unread'[d][j] = OK /\ j < k => unread'[d][k] = port'[d]
    BY <1>1, <1>2, <2>1 DEF Talk
  <2>5. /\ \A d \in Clients : cpc'[d] \in {"off", "connected"} => d \notin known'
        /\ \A d \in passed' : d \notin known' /\ cpc'[d] \in {"registering", "left"}
    BY <1>1, <1>2, <2>1 DEF Talk
  <2> QED
    BY <2>2, <2>3, <2>4, <2>5 DEF Talk
<1>3. CASE WriteFd(c)
  <2>1. /\ cpc[c] = "connected" /\ c \notin known /\ UNCHANGED <<port, unread, known>>
        /\ \/ cpc' = [cpc EXCEPT ![c] = "left"] /\ passed' = passed
           \/ cpc' = [cpc EXCEPT ![c] = "registering"] /\ passed' = passed \cup {c}
    BY <1>3 DEF WriteFd, Talk
  <2>2. cpc'[c] \in {"left", "registering"} /\ \A d \in Clients : d # c => cpc'[d] = cpc[d]
    BY <1>1, <2>1
  <2>3. TalkIsOwn'
    BY <2>1, <2>2 DEF Talk, TalkIsOwn
  <2>4. \A d \in Clients \ known' : \A k \in 1 .. Len(unread'[d]) : unread'[d][k] # OK
    BY <2>1 DEF Talk
  <2>5. \A d \in known' : cpc'[d] = "registering" =>
          \A j, k \in 1 .. Len(unread'[d]) : unread'[d][j] = OK /\ j < k => unread'[d][k] = port'[d]
    <3>1. \A d \in known' : d # c /\ d \in Clients /\ d \in known
      BY <1>1, <2>1
    <3> QED
      BY <2>1, <2>2, <3>1 DEF Talk
  <2>6. /\ \A d \in Clients : cpc'[d] \in {"off", "connected"} => d \notin known'
        /\ \A d \in passed' : d \notin known' /\ cpc'[d] \in {"registering", "left"}
    <3>1. cpc'[c] = "registering" \/ c \notin passed' \/ cpc'[c] = "left"
      BY <2>2
    <3> QED
      BY <1>1, <2>1, <2>2, <3>1 DEF Talk
  <2> QED
    BY <2>3, <2>4, <2>5, <2>6 DEF Talk
<1>4. CASE ReadAnswer(c)
  <2>1. UNCHANGED <<port, passed, known>> /\ cpc[c] = "registering"
    BY <1>4 DEF ReadAnswer
  <2>2. CASE unread[c] # << >> /\ Head(unread[c]) = OK
    <3>1. cpc' = [cpc EXCEPT ![c] = "fgets"] /\ unread' = [unread EXCEPT ![c] = Tail(@)]
      BY <1>4, <2>2 DEF ReadAnswer
    <3>2. /\ 1 \in 1 .. Len(unread[c]) /\ unread[c][1] = OK
          /\ \A k \in 1 .. Len(Tail(unread[c])) :
               k + 1 \in 1 .. Len(unread[c]) /\ 1 < k + 1 /\ Tail(unread[c])[k] = unread[c][k + 1]
      <4>1. unread[c] \in Seq(Ports \cup {OK, NO})
        BY <1>1
      <4> QED
        BY <2>2, <4>1
    <3>3. c \in known /\ c \notin passed
      BY <3>2 DEF Talk
    <3>4. unread'[c] = Tail(unread[c]) /\ \A d \in Clients : d # c => unread'[d] = unread[d]
      BY <1>1, <3>1
    <3>5. \A k \in 1 .. Len(unread'[c]) : unread'[c][k] = port[c]
      BY <2>1, <3>2, <3>3, <3>4 DEF Talk
    <3> QED
      BY <1>2, <2>1, <3>1, <3>3, <3>4, <3>5
  <2>3. CASE ~ (unread[c] # << >> /\ Head(unread[c]) = OK)
    <3>1. cpc' = [cpc EXCEPT ![c] = "left"] /\ unread' = unread
      BY <1>4, <2>3 DEF ReadAnswer
    <3> QED
      BY <1>2, <2>1, <3>1
  <2> QED
    BY <2>2, <2>3
<1>5. CASE Ask(c)
  <2>1. /\ UNCHANGED <<port, passed, unread, known>> /\ cpc[c] = "fgets"
        /\ cpc' = [cpc EXCEPT ![c] = "select"]
    BY <1>5 DEF Ask
  <2>2. c \in known /\ c \notin passed /\ \A k \in 1 .. Len(unread[c]) : unread[c][k] = port[c]
    BY <2>1 DEF Talk, TalkIsOwn
  <2> QED
    BY <1>2, <2>1, <2>2
<1>6. CASE SelectReturns(c)
  <2>1. UNCHANGED <<port, passed, known>> /\ cpc[c] = "select"
    BY <1>6 DEF SelectReturns
  <2>2. c \in known /\ c \notin passed /\ \A k \in 1 .. Len(unread[c]) : unread[c][k] = port[c]
    BY <2>1 DEF Talk, TalkIsOwn
  <2>3. CASE unread[c] # << >>
    <3>1. cpc' = [cpc EXCEPT ![c] = "fgets"] /\ unread' = [unread EXCEPT ![c] = Tail(@)]
      BY <1>6, <2>3 DEF SelectReturns
    <3>2. \A k \in 1 .. Len(Tail(unread[c])) :
            k + 1 \in 1 .. Len(unread[c]) /\ Tail(unread[c])[k] = unread[c][k + 1]
      BY <2>3, ReadingKeepsOwn
    <3>3. unread'[c] = Tail(unread[c]) /\ \A d \in Clients : d # c => unread'[d] = unread[d]
      BY <1>1, <3>1
    <3> QED
      BY <1>2, <2>1, <2>2, <3>1, <3>2, <3>3
  <2>4. CASE unread[c] = << >>
    <3>1. unread' = unread /\ \E place \in {"left", "fgets"} : cpc' = [cpc EXCEPT ![c] = place]
      BY <1>6, <2>4 DEF SelectReturns
    <3> QED
      BY <1>2, <2>1, <2>2, <3>1
  <2> QED
    BY <2>3, <2>4
<1>7. CASE Leave(c)
  BY <1>2, <1>7 DEF Leave
<1>8. CASE Connect(c)
  <2>1. /\ cpc[c] = "off" /\ UNCHANGED <<passed, unread, known>> /\ cpc' = [cpc EXCEPT ![c] = "connected"]
        /\ \E p \in Ports : port' = [port EXCEPT ![c] = p]
    BY <1>8 DEF Connect
  <2>2. /\ cpc'[c] = "connected" /\ c \notin known /\ c \notin passed
        /\ \A d \in Clients : d # c => cpc'[d] = cpc[d] /\ port'[d] = port[d]
    BY <1>1, <2>1 DEF Talk
  <2>3. TalkIsOwn'
    BY <2>1, <2>2 DEF Talk, TalkIsOwn
  <2> QED
    BY <1>1, <2>1, <2>2, <2>3 DEF Talk
<1>9. CASE Again(c)
  <2>1. /\ cpc' = [cpc EXCEPT ![c] = "off"] /\ port' = [port EXCEPT ![c] = 0]
        /\ unread' = [unread EXCEPT ![c] = <<>>] /\ known' = known \ {c}
        /\ passed' = passed /\ c \notin passed
    BY <1>9 DEF Again
  <2>2. /\ cpc'[c] = "off" /\ unread'[c] = << >> /\ c \notin known'
        /\ \A d \in Clients : d # c => cpc'[d] = cpc[d] /\ port'[d] = port[d] /\ unread'[d] = unread[d]
    BY <1>1, <2>1
  <2>3. TalkIsOwn'
    BY <2>1, <2>2 DEF Talk, TalkIsOwn
  <2>4. \A d \in Clients \ known' : \A k \in 1 .. Len(unread'[d]) : unread'[d][k] # OK
    <3> SUFFICES ASSUME NEW d \in Clients \ known', NEW k \in 1 .. Len(unread'[d]) PROVE unread'[d][k] # OK
      OBVIOUS
    <3>1. d # c
      BY <2>2
    <3> QED
      BY <2>1, <2>2, <3>1 DEF Talk
  <2>5. \A d \in known' : cpc'[d] = "registering" =>
          \A j, k \in 1 .. Len(unread'[d]) : unread'[d][j] = OK /\ j < k => unread'[d][k] = port'[d]
    BY <1>1, <2>1, <2>2 DEF Talk
  <2>6. /\ \A d \in Clients : cpc'[d] \in {"off", "connected"} => d \notin known'
        /\ \A d \in passed' : d \notin known' /\ cpc'[d] \in {"registering", "left"}
    BY <1>1, <2>1, <2>2 DEF Talk
  <2> QED
    BY <2>3, <2>4, <2>5, <2>6 DEF Talk
<1> QED
  BY <1>3, <1>4, <1>5, <1>6, <1>7, <1>8, <1>9 DEF ClientStep

\* Whoever got the answer OK is registered, and all it can read after that are
\* errors about its own port, though its entry of client[] may still have had
\* another client's port when it was accepted (readable_v4.c:56-59,
\* readable_conn.c:34-42).
THEOREM ErrorsReachOwners == Spec => []TalkIsOwn
<1>1. IInv /\ Talk /\ [Next]_vars => Talk'
  <2> SUFFICES ASSUME IInv, Talk, [Next]_vars PROVE Talk'
    OBVIOUS
  <2>1. CASE UNCHANGED vars
    BY <2>1, Silence DEF vars, clients, wires
  <2>2. CASE \E f \in Shorts : ShortArrives(f)
    BY <2>2, Silence DEF ShortArrives, clients, wires
  <2> QED
    BY <2>1, <2>2, DaemonTalks, ClientsTalk DEF Next
<1>2. Talk => TalkIsOwn
  BY DEF Talk
<1> QED
  BY <1>1, <1>2, InitTalk, Inductive, PTL DEF Spec
=============================================================================
