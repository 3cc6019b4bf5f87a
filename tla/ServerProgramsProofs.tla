------------------------ MODULE ServerProgramsProofs -------------------------
(***************************************************************************)
(* What ServerPrograms guarantees for every number of connections and      *)
(* workers, every size of the ring and every choice of designs.            *)
(***************************************************************************)
EXTENDS ServerPrograms, FiniteSetTheorems, TLAPS

\* Where main() can be, and where a worker can be.
MainPlaces ==
  {"exit"} \cup
  CASE design \in Iterative                -> {"accept", "serve", "send", "close"}
    [] design \in Forking                  -> {"accept", "create", "close"}
    [] design \in Preforked                -> {"pause", "kill"}
    [] design = "serv05"                   -> {"select", "accept", "pass", "kill"}
    [] design \in {"serv06", "tcpserv01"}  -> {"accept", "create"}
    [] design \in {"serv07", "serv09"}     -> {"pause"}
    [] design = "serv08"                   -> {"accept", "store", "put", "release"}
    [] design \in Selecting                -> {"poll", "accept", "enter", "scan"}

WorkerPlaces ==
  {"none", "zombie"} \cup
  CASE design \in Iterative                -> {}
    [] design \in Forking \cup {"serv06", "tcpserv01"} -> {"serve", "close"}
    [] design \in Preforked \cup {"serv07", "serv09"}
                                           -> {"select", "lock", "accept", "release", "serve", "close"}
    [] design = "serv05"                   -> {"idle", "serve", "close", "tell", "dying"}
    [] design = "serv08"                   -> {"lock", "test", "wait", "release", "serve", "close"}
    [] design \in Selecting                -> {"flagged"}

PlacesFit == pc[Main] \in MainPlaces /\ \A w \in Workers : pc[w] \in WorkerPlaces

\* Who has a connection in hand, by place.
MainHolds   == {"create", "close", "serve", "send", "pass", "store", "put", "enter"}
WorkerHolds == {"serve", "close", "release", "dying"}
HandsFit ==
  /\ pc[Main] # "kill" => (hand[Main] # NoConn <=> pc[Main] \in MainHolds)
  /\ design \notin Selecting => \A w \in Workers : hand[w] # NoConn => pc[w] \in WorkerHolds
  /\ design \in Selecting => \A w \in Workers : pc[w] = "zombie" => hand[w] = NoConn

\* poll() or select() has flagged something that main() has not looked at.
ReadyCounts ==
  /\ pc[Main] \in {"enter", "scan"} => nready >= 1
  /\ pc[Main] = "accept" /\ design \in Selecting => nready >= 1

Typed == TypeOK /\ PlacesFit /\ HandsFit /\ ReadyCounts

-----------------------------------------------------------------------------
(* The loops, the queue and exit().                                         *)

\* Which programs have a place.
LEMMA WhoseMainPlace ==
  ASSUME design \in AllDesigns
  PROVE  /\ "exit" \in MainPlaces
         /\ {"none", "lock", "tell", "idle", "dying", "test", "wait", "flagged", "zombie"} \cap MainPlaces = {}
         /\ "serve" \in MainPlaces <=> design \in Iterative
         /\ "send" \in MainPlaces <=> design \in Iterative
         /\ "close" \in MainPlaces <=> design \in Iterative \cup Forking
         /\ "create" \in MainPlaces <=> design \in Forking \cup {"serv06", "tcpserv01"}
         /\ "pause" \in MainPlaces <=> design \in Preforked \cup {"serv07", "serv09"}
         /\ "kill" \in MainPlaces <=> design \in Parents
         /\ \A p \in {"select", "pass"} : p \in MainPlaces <=> design = "serv05"
         /\ \A p \in {"store", "put", "release"} : p \in MainPlaces <=> design = "serv08"
         /\ \A p \in {"poll", "enter", "scan"} : p \in MainPlaces <=> design \in Selecting
         /\ "accept" \in MainPlaces <=> design \notin Preforked \cup {"serv07", "serv09"}
  BY DEF AllDesigns, Iterative, Forking, Preforked, Selecting, Threaded, Parents, MainPlaces

LEMMA WhoseWorkerPlace ==
  ASSUME design \in AllDesigns
  PROVE  /\ "none" \in WorkerPlaces /\ "zombie" \in WorkerPlaces
         /\ {"create", "send", "pause", "pass", "store", "put", "poll", "enter", "scan", "kill", "exit"}
              \cap WorkerPlaces = {}
         /\ \A p \in {"serve", "close"} : p \in WorkerPlaces <=> design \notin Iterative \cup Selecting
         /\ \A p \in {"lock", "release"} :
              p \in WorkerPlaces <=> design \in Preforked \cup {"serv07", "serv08", "serv09"}
         /\ \A p \in {"accept", "select"} :
              p \in WorkerPlaces <=> design \in Preforked \cup {"serv07", "serv09"}
         /\ \A p \in {"idle", "tell", "dying"} : p \in WorkerPlaces <=> design = "serv05"
         /\ \A p \in {"test", "wait"} : p \in WorkerPlaces <=> design = "serv08"
         /\ "flagged" \in WorkerPlaces <=> design \in Selecting
  BY DEF AllDesigns, Iterative, Forking, Preforked, Selecting, Threaded, WorkerPlaces

\* The families have no program in common.
LEMMA Families ==
  /\ Iterative \cap (Forking \cup Preforked \cup Selecting \cup Threaded \cup {"serv05"}) = {}
  /\ Forking \cap (Preforked \cup Selecting \cup Threaded \cup {"serv05"}) = {}
  /\ Preforked \cap (Selecting \cup Threaded \cup {"serv05"}) = {}
  /\ Selecting \cap (Threaded \cup {"serv05"}) = {} /\ "serv05" \notin Threaded
  /\ {"serv06", "tcpserv01", "serv07", "serv08", "serv09"} = Threaded
  /\ "serv01" \in Forking /\ Parents = Preforked \cup {"serv05"}
  BY DEF Iterative, Forking, Preforked, Selecting, Threaded, Parents

\* Which places leave a connection in hand.
LEMMA Holding ==
  /\ MainHolds \subseteq Places /\ WorkerHolds \subseteq Places
  /\ {"accept", "pause", "select", "poll", "scan", "release", "kill", "exit"} \cap MainHolds = {}
  /\ {"none", "accept", "select", "lock", "test", "wait", "idle", "tell", "flagged", "zombie"} \cap WorkerHolds = {}
  BY DEF MainHolds, WorkerHolds, Places

LEMMA Loops ==
  ASSUME design \in AllDesigns
  PROVE  /\ Start(Main) \in MainPlaces \ (MainHolds \cup {"enter", "scan", "kill", "exit"})
         /\ AfterAccept(Main) \in MainPlaces \cup {"none"}
         /\ pc[Main] = "accept" /\ pc[Main] \in MainPlaces => AfterAccept(Main) \in MainPlaces \cap MainHolds
         /\ \A w \in Workers :
              /\ Start(w) \in WorkerPlaces \ (WorkerHolds \cup {"zombie"})
              /\ pc[w] = "accept" /\ pc[w] \in WorkerPlaces => AfterAccept(w) \in WorkerPlaces \cap WorkerHolds
              /\ pc[w] = "close" /\ pc[w] \in WorkerPlaces => AfterClose(w) \in WorkerPlaces \ (WorkerHolds \cup {"zombie"})
<1> USE DEF Start, AfterAccept, AfterClose, MainPlaces, WorkerPlaces, MainHolds, WorkerHolds,
            Main, Workers, MainLoop, WorkerLoop, Iterative, Forking, Preforked, Selecting
<1>1. CASE design = "serv00"
  BY <1>1 DEF serv00, NoLoop
<1>2. CASE design = "lab4"
  BY <1>2 DEF server_loop, NoLoop
<1>3. CASE design = "daytime"
  BY <1>3 DEF daytimetcpsrv, NoLoop
<1>4. CASE design = "serv01"
  BY <1>4 DEF serv01, NoLoop
<1>5. CASE design = "tcpserv02"
  BY <1>5 DEF tcpserv02, NoLoop
<1>6. CASE design = "serv02"
  BY <1>6 DEF serv02, child02
<1>7. CASE design = "serv02l"
  BY <1>7 DEF serv02, child02l
<1>8. CASE design = "serv03"
  BY <1>8 DEF serv03, child03
<1>9. CASE design = "serv04"
  BY <1>9 DEF serv04, child04
<1>10. CASE design = "serv05"
  BY <1>10 DEF serv05, child05
<1>11. CASE design = "serv06"
  BY <1>11 DEF serv06, NoLoop
<1>12. CASE design = "tcpserv01"
  BY <1>12 DEF tcpserv01, NoLoop
<1>13. CASE design = "serv07"
  BY <1>13 DEF serv07, pthread07
<1>14. CASE design = "serv08"
  BY <1>14 DEF serv08, pthread08
<1>15. CASE design = "serv09"
  BY <1>15 DEF serv09, pthread09
<1>16. CASE design = "poll"
  BY <1>16 DEF tcpservpoll01, NoLoop
<1>17. CASE design = "select"
  BY <1>17 DEF tcpservselect03, NoLoop
<1> QED
  BY <1>1, <1>2, <1>3, <1>4, <1>5, <1>6, <1>7, <1>8, <1>9, <1>10, <1>11, <1>12, <1>13, <1>14, <1>15, <1>16, <1>17 DEF AllDesigns, Threaded

\* Facts about the type of the state that most steps need.
LEMMA Basics ==
  ASSUME TypeOK
  PROVE  /\ Main \in Agents /\ Workers \subseteq Agents /\ \A w \in Workers : w # Main
         /\ NoConn \notin Conns /\ nworkers \in Nat \ {0} /\ MAXNCLI \in Nat \ {0, 1}
         /\ design \in AllDesigns /\ MSGLEN \in Nat
  BY ConstantsAssumption DEF TypeOK, Main, Workers, Agents

\* One agent goes to a place that fits what it has in hand.
LEMMA MoveKeeps ==
  ASSUME TypeOK, PlacesFit, HandsFit, UNCHANGED design,
         NEW a \in Agents, NEW p \in Places, NEW h \in Conns \cup {NoConn},
         pc' = [pc EXCEPT ![a] = p], hand' = [hand EXCEPT ![a] = h],
         a = Main => p \in MainPlaces /\ (p # "kill" => (h # NoConn <=> p \in MainHolds)),
         a # Main => p \in WorkerPlaces /\ IF design \in Selecting THEN p = "zombie" => h = NoConn
                                           ELSE h # NoConn => p \in WorkerHolds
  PROVE  /\ pc' \in [Agents -> Places] /\ hand' \in [Agents -> Conns \cup {NoConn}]
         /\ PlacesFit' /\ HandsFit'
<1>1. MainPlaces' = MainPlaces /\ WorkerPlaces' = WorkerPlaces
  BY DEF MainPlaces, WorkerPlaces
<1> QED
  BY <1>1, Basics DEF TypeOK, PlacesFit, HandsFit

\* exit() leaves the process empty-handed, and its agents at their ends.
LEMMA ExitKeeps ==
  ASSUME TypeOK, PlacesFit, HandsFit, UNCHANGED design, NEW a \in Agents, Exit(a)
  PROVE  /\ pc' \in [Agents -> Places] /\ hand' \in [Agents -> Conns \cup {NoConn}]
         /\ holders' \in [Conns -> SUBSET Agents] /\ sigchld' \in BOOLEAN
         /\ PlacesFit' /\ HandsFit'
         /\ pc'[Main] \in {pc[Main], "exit"}
<1>1. MainPlaces' = MainPlaces /\ WorkerPlaces' = WorkerPlaces
  BY DEF MainPlaces, WorkerPlaces
<1>2. /\ "exit" \in Places /\ "zombie" \in Places
      /\ "exit" \in MainPlaces /\ "exit" \notin MainHolds
      /\ "zombie" \in WorkerPlaces /\ "zombie" \notin WorkerHolds
  BY DEF Places, MainPlaces, WorkerPlaces, MainHolds, WorkerHolds
<1>3. pc' \in [Agents -> Places] /\ hand' \in [Agents -> Conns \cup {NoConn}]
      /\ pc'[Main] \in {pc[Main], "exit"}
  BY <1>2, Basics DEF TypeOK, Exit
<1>4. holders' \in [Conns -> SUBSET Agents] /\ sigchld' \in BOOLEAN
  BY DEF TypeOK, Exit
<1>5. PlacesFit'
  BY <1>1, <1>2, Basics DEF TypeOK, PlacesFit, Exit
<1>6. HandsFit'
  BY <1>1, <1>2, Basics DEF TypeOK, HandsFit, Exit
<1> QED
  BY <1>3, <1>4, <1>5, <1>6

LEMMA QueueMoves ==
  ASSUME acceptQ \in Seq(Conns)
  PROVE  /\ acceptQ # <<>> => Head(acceptQ) \in Conns /\ Tail(acceptQ) \in Seq(Conns)
         /\ \A c \in Conns : Append(acceptQ, c) \in Seq(Conns)
         /\ \A k \in DOMAIN acceptQ : Without(acceptQ, k) \in Seq(Conns)
  BY DEF Without

\* One agent goes to another place, with the same in hand.
LEMMA PlaceKeeps ==
  ASSUME TypeOK, PlacesFit, HandsFit, UNCHANGED <<design, hand>>,
         NEW a \in Agents, NEW p \in Places, pc' = [pc EXCEPT ![a] = p],
         a = Main => p \in MainPlaces /\ (p # "kill" => (hand[Main] # NoConn <=> p \in MainHolds)),
         a # Main => p \in WorkerPlaces /\ IF design \in Selecting THEN p # "zombie"
                                           ELSE hand[a] # NoConn => p \in WorkerHolds
  PROVE  pc' \in [Agents -> Places] /\ PlacesFit' /\ HandsFit'
<1>1. hand[a] \in Conns \cup {NoConn} /\ hand' = [hand EXCEPT ![a] = hand[a]]
  BY DEF TypeOK
<1>2. CASE a = Main
  BY <1>1, <1>2, MoveKeeps
<1>3. CASE a # Main
  BY <1>1, <1>3, MoveKeeps
<1> QED
  BY <1>2, <1>3

\* What poll() returned still counts unless main() comes to look at it.
LEMMA ReadyStays ==
  ASSUME ReadyCounts, UNCHANGED <<design, nready>>,
         pc'[Main] \in {pc[Main]} \/ pc'[Main] \notin {"enter", "scan", "accept"}
  PROVE  ReadyCounts'
  BY DEF ReadyCounts

-----------------------------------------------------------------------------
(* Types and places.                                                        *)

LEMMA PlacesAreFew ==
  ASSUME design \in AllDesigns
  PROVE  MainPlaces \subseteq Places /\ WorkerPlaces \subseteq Places
  BY DEF AllDesigns, Iterative, Forking, Preforked, Selecting, Threaded, MainPlaces, WorkerPlaces, Places

LEMMA InitTyped == Init => Typed
<1> SUFFICES ASSUME Init PROVE Typed
  OBVIOUS
<1>1. design \in AllDesigns
  BY ConstantsAssumption DEF Init
<1>2. \A a \in Agents : Start(a) \in Places
  <2>1. Start(Main) \in Places /\ \A w \in Workers : Start(w) \in Places
    BY <1>1, Loops, PlacesAreFew
  <2> QED
    BY <2>1 DEF Agents
<1>3. TypeOK
  <2>1. design \in Designs /\ kind \in [Conns -> Kinds] /\ pc \in [Agents -> Places]
    BY <1>2, ConstantsAssumption DEF Init
  <2>2. nworkers \in Nat /\ 0 \in 0 .. (MAXNCLI - 1) /\ 0 \in 0 .. (nworkers + 1)
    BY ConstantsAssumption
  <2>3. \A w \in Workers : <<>> \in Seq(Conns)
    OBVIOUS
  <2>4. /\ peer \in [Conns -> {"start", "connected", "asked", "answered", "closed", "failed"}]
        /\ inq \in [Conns -> {"nothing", "line", "eof", "reset"}]
        /\ acceptQ \in Seq(Conns) /\ holders \in [Conns -> SUBSET Agents]
        /\ hand \in [Agents -> Conns \cup {NoConn}]
    BY DEF Init
  <2>5. /\ inbox \in [Workers -> Seq(Conns)] /\ freed \in [Workers -> Nat]
        /\ child_status \in [Workers -> 0 .. 1]
    BY <2>3 DEF Init
  <2>6. clifd \in [0 .. (MAXNCLI - 1) -> Conns \cup {NoConn}]
    BY DEF Init
  <2>7. /\ lock \in Agents \cup {NoConn}
        /\ navail \in Int /\ iput \in 0 .. (MAXNCLI - 1) /\ iget \in 0 .. (MAXNCLI - 1)
        /\ nready \in 0 .. (nworkers + 1)
    BY <2>2 DEF Init
  <2>8. sigchld \in BOOLEAN
    BY DEF Init
  <2> QED
    BY <2>1, <2>4, <2>5, <2>6, <2>7, <2>8 DEF TypeOK
<1>4. /\ pc[Main] = Start(Main) /\ hand[Main] = NoConn
      /\ \A w \in Workers : pc[w] = Start(w) /\ hand[w] = NoConn
  BY <1>3, Basics DEF Init
<1>5. PlacesFit /\ HandsFit
  BY <1>1, <1>4, Loops DEF PlacesFit, HandsFit
<1>6. ReadyCounts
  <2>1. Start(Main) \notin {"enter", "scan"}
    BY <1>1, Loops
  <2>2. design \in Selecting => Start(Main) = "poll"
    BY DEF Selecting, Start, MainLoop, tcpservpoll01, tcpservselect03, Main
  <2> QED
    BY <1>4, <2>1, <2>2 DEF ReadyCounts
<1> QED
  BY <1>3, <1>5, <1>6 DEF Typed

LEMMA ClientTyped ==
  ASSUME Typed, NEW c \in Conns, ClientStep(c)
  PROVE  Typed'
<1>1. UNCHANGED <<fixed, holders, pc, hand, others>>
  BY DEF ClientStep, Connect, WriteRequest, CloseConn, ResetConn, ClientFails, kernel
<1>2. TypeOK'
  BY <1>1, QueueMoves
  DEF Typed, TypeOK, fixed, kernel, others, table, pipes, ring,
      ClientStep, Connect, WriteRequest, CloseConn, ResetConn, ClientFails
<1> QED
  BY <1>1, <1>2 DEF Typed, PlacesFit, HandsFit, ReadyCounts, MainPlaces, WorkerPlaces, fixed, others, ring

\* exit() with nothing else that matters here but an inbox that is emptied, and
\* a lock that is released.
LEMMA ExitTyped ==
  ASSUME Typed, NEW a \in Agents, Exit(a),
         UNCHANGED <<fixed, clients, acceptQ, table, ring>>,
         lock' \in Agents \cup {NoConn},
         inbox' \in [Workers -> Seq(Conns)], freed' \in [Workers -> Nat]
  PROVE  Typed'
<1>1. TypeOK'
  BY ExitKeeps DEF Typed, TypeOK, fixed, clients, table, ring
<1>2. ReadyCounts'
  BY ExitKeeps DEF Typed, ReadyCounts, ring, fixed
<1> QED
  BY <1>1, <1>2, ExitKeeps DEF Typed, fixed

\* What any agent does with a connection.
LEMMA AgentTyped ==
  ASSUME Typed, NEW a \in Agents, Accept(a) \/ WebChild(a)
  PROVE  Typed'
<1> USE DEF Typed
<1>0. design \in AllDesigns /\ a \in {Main} \cup Workers
  BY Basics DEF Agents
<1>1. CASE Accept(a)
  <2> USE <1>1 DEF Accept
  <2>1. /\ Head(acceptQ) \in Conns /\ Tail(acceptQ) \in Seq(Conns)
        /\ Process(a) \in Agents
    BY QueueMoves, Basics DEF TypeOK, Process
  <2>2. a = Main => AfterAccept(a) \in MainPlaces \cap MainHolds
    BY <1>0, Loops DEF PlacesFit
  <2>3. a # Main => AfterAccept(a) \in WorkerPlaces \cap WorkerHolds
    BY <1>0, Loops DEF PlacesFit
  <2>4. AfterAccept(a) \in Places
    BY <1>0, <2>2, <2>3, PlacesAreFew
  <2>a. UNCHANGED design /\ Head(acceptQ) # NoConn /\ (a # Main => design \notin Selecting)
    BY <2>1, Basics, <1>0, WhoseWorkerPlace, Families DEF fixed, PlacesFit
  <2>5. /\ pc' \in [Agents -> Places] /\ hand' \in [Agents -> Conns \cup {NoConn}]
        /\ PlacesFit' /\ HandsFit'
    BY <2>1, <2>2, <2>3, <2>4, <2>a, MoveKeeps
  <2>6. TypeOK'
    BY <2>1, <2>5 DEF TypeOK, fixed, clients, others, table, pipes, ring
  <2>7. ReadyCounts'
    <3>1. CASE a # Main
      <4>1. pc'[Main] = pc[Main]
        BY <3>1, Basics DEF TypeOK
      <4> QED
        BY <4>1, ReadyStays DEF fixed, others, ring
    <3>2. CASE a = Main
      <4>1. pc'[Main] = AfterAccept(Main) /\ UNCHANGED <<design, nready>>
        BY <3>2, Basics DEF TypeOK, fixed, others, ring
      <4>2. /\ AfterAccept(Main) \notin {"accept", "scan"}
            /\ AfterAccept(Main) = "enter" => design \in Selecting
        BY <3>2, <2>2, <1>0, WhoseMainPlace, Holding
      <4> QED
        BY <3>2, <4>1, <4>2 DEF ReadyCounts
    <3> QED
      BY <3>1, <3>2
  <2> QED
    BY <2>5, <2>6, <2>7
<1>2. CASE Answer(a)
  BY <1>2 DEF Answer, TypeOK, PlacesFit, HandsFit, ReadyCounts, MainPlaces, WorkerPlaces,
              fixed, kernel, others, table, pipes, ring
<1>3. CASE EndOfConn(a)
  <2> USE <1>3 DEF EndOfConn
  <2>1. "close" \in Places /\ "close" \in MainHolds /\ "close" \in WorkerHolds
        /\ "serve" \in MainHolds /\ "serve" \in WorkerHolds
    BY DEF Places, MainHolds, WorkerHolds
  <2>2. /\ a = Main => "close" \in MainPlaces
        /\ a # Main => "close" \in WorkerPlaces
    BY <1>0, WhoseMainPlace, WhoseWorkerPlace, Families DEF PlacesFit
  <2>3. pc' \in [Agents -> Places] /\ PlacesFit' /\ HandsFit'
    BY <2>1, <2>2, PlaceKeeps, <1>0 DEF HandsFit, fixed
  <2>4. ReadyCounts'
    <3>1. pc'[Main] = IF a = Main THEN "close" ELSE pc[Main]
      BY Basics DEF TypeOK
    <3> QED
      BY <3>1, <2>1 DEF ReadyCounts, fixed, others, ring
  <2> QED
    BY <2>3, <2>4 DEF TypeOK, fixed, clients, kernel, others, table, pipes, ring
<1>4. CASE Refuse(a) /\ design # "serv05"
  BY <1>4, ExitTyped DEF Refuse, TypeOK
<1>5. CASE Refuse(a) /\ design = "serv05"
  <2> USE <1>5 DEF Refuse
  <2>1. a # Main
    BY <1>0, WhoseMainPlace, Families DEF PlacesFit
  <2>2. "dying" \in Places /\ "dying" \in WorkerHolds /\ "serve" \in WorkerHolds /\ "dying" \in WorkerPlaces
    BY <1>0, WhoseWorkerPlace DEF Places, WorkerHolds
  <2>3. pc' \in [Agents -> Places] /\ PlacesFit' /\ HandsFit'
    <3>1. UNCHANGED <<design, hand>> /\ pc' = [pc EXCEPT ![a] = "dying"]
      BY <2>1, <2>2, <1>0, Families DEF HandsFit, fixed
    <3> QED
      BY <3>1, <2>1, <2>2, PlaceKeeps
  <2>4. ReadyCounts'
    <3>1. pc'[Main] = pc[Main]
      BY <2>1, Basics DEF TypeOK
    <3> QED
      BY <3>1, ReadyStays DEF fixed, ring
  <2>5. freed' \in [Workers -> Nat]
    <3>1. freed' = [freed EXCEPT ![a] = @ + MSGLEN] /\ freed \in [Workers -> Nat] /\ MSGLEN \in Nat
      BY Basics DEF TypeOK
    <3>2. a \in Workers /\ freed[a] \in Nat /\ freed[a] + MSGLEN \in Nat
      BY <3>1, <2>1, <1>0
    <3> QED
      BY <3>1, <3>2
  <2>6. UNCHANGED <<design, kind, peer, inq, acceptQ, holders, hand, lock, sigchld, navail,
                    child_status, inbox, clifd, iput, iget, nready>>
    BY DEF fixed, clients, table, ring
  <2> QED
    BY <2>3, <2>4, <2>5, <2>6 DEF TypeOK
<1>6. CASE CloseDone(a) /\ a # Main /\ design \in Forking
  BY <1>6, ExitTyped DEF CloseDone, TypeOK, pipes
<1>7. CASE CloseDone(a) /\ ~ (a # Main /\ design \in Forking)
  <2> USE <1>7 DEF CloseDone
  <2>1. a = Main => AfterClose(a) \in MainPlaces \ (MainHolds \cup {"enter", "scan", "kill", "exit"})
    BY <1>0, Loops DEF AfterClose, Start
  <2>2. a # Main => AfterClose(a) \in WorkerPlaces \ (WorkerHolds \cup {"zombie"})
    BY <1>0, Loops DEF PlacesFit
  <2>3. AfterClose(a) \in Places
    BY <1>0, <2>1, <2>2, PlacesAreFew
  <2>4. /\ pc' \in [Agents -> Places] /\ hand' \in [Agents -> Conns \cup {NoConn}]
        /\ PlacesFit' /\ HandsFit'
    <3>1. a # Main => design \notin Selecting
      BY <1>0, WhoseWorkerPlace DEF PlacesFit
    <3>2. UNCHANGED design /\ NoConn \in Conns \cup {NoConn} /\ hand' = [hand EXCEPT ![a] = NoConn]
          /\ pc' = [pc EXCEPT ![a] = AfterClose(a)]
      BY DEF fixed
    <3> QED
      BY <2>1, <2>2, <2>3, <3>1, <3>2, MoveKeeps
  <2>5. holders' \in [Conns -> SUBSET Agents]
    <3>1. holders' = [holders EXCEPT ![hand[a]] = @ \ {Process(a)}] /\ holders \in [Conns -> SUBSET Agents]
      BY DEF TypeOK
    <3> QED
      BY <3>1
  <2>6. ReadyCounts'
    <3>1. CASE a # Main
      <4>1. pc'[Main] = pc[Main]
        BY <3>1, Basics DEF TypeOK
      <4> QED
        BY <4>1, ReadyStays DEF fixed, ring
    <3>2. CASE a = Main
      <4>1. design \notin Selecting
        BY <3>2, <1>0, WhoseMainPlace, Families DEF PlacesFit
      <4>2. pc'[Main] = AfterClose(Main)
        BY <3>2, Basics DEF TypeOK
      <4> QED
        BY <3>2, <4>1, <4>2, <2>1 DEF ReadyCounts, fixed
    <3> QED
      BY <3>1, <3>2
  <2> QED
    BY <2>4, <2>5, <2>6 DEF TypeOK, fixed, clients, table, pipes, ring
<1> QED
  BY <1>1, <1>2, <1>3, <1>4, <1>5, <1>6, <1>7 DEF WebChild

\* The sending servers, SIGINT, and the children or threads of a client each.
LEMMA ForkersTyped ==
  ASSUME Typed,
         \/ Send \/ SendFails \/ CreateFails \/ Reap \/ Interrupt \/ WaitForChildren
         \/ \E w \in Workers : Fork(w) \/ CreateThread(w) \/ KillChild(w)
  PROVE  Typed'
<1> USE DEF Typed
<1>0. design \in AllDesigns /\ Main \in Agents /\ Workers \subseteq Agents /\ \A w \in Workers : w # Main
  BY Basics
<1>1. CASE Send
  <2> USE <1>1 DEF Send
  <2>1. "close" \in Places /\ "close" \in MainHolds /\ "close" \in MainPlaces /\ hand[Main] # NoConn
    BY <1>0, WhoseMainPlace DEF Places, MainHolds, PlacesFit, HandsFit
  <2>2. pc' \in [Agents -> Places] /\ PlacesFit' /\ HandsFit'
    BY <2>1, <1>0, PlaceKeeps DEF fixed
  <2>3. ReadyCounts'
    BY <2>1, <1>0, ReadyStays DEF TypeOK, fixed, others, ring
  <2> QED
    BY <2>2, <2>3 DEF TypeOK, fixed, kernel, others, table, pipes, ring
<1>2. CASE SendFails
  BY <1>0, <1>2, ExitTyped DEF SendFails, TypeOK, pipes
<1>3. CASE CreateFails
  BY <1>0, <1>3, ExitTyped DEF CreateFails, TypeOK, pipes
<1>4. CASE Reap
  <2> USE <1>4 DEF Reap
  <2>1. /\ UNCHANGED <<fixed, clients, kernel, hand, lock, table, pipes, ring>> /\ sigchld' = FALSE
        /\ pc'[Main] = pc[Main]
        /\ \A w \in Workers : pc'[w] = pc[w] \/ (pc[w] = "zombie" /\ pc'[w] = "none")
        /\ pc' = [a \in Agents |-> pc'[a]]
    BY <1>0 DEF Zombies
  <2>2. "none" \in Places /\ "none" \in WorkerPlaces /\ "none" \notin WorkerHolds
        /\ "zombie" \notin WorkerHolds /\ design \notin Selecting
    BY <1>0, WhoseWorkerPlace, Families DEF Places, WorkerHolds
  <2>3. \A a \in Agents : pc'[a] \in Places
    BY <2>1, <2>2 DEF TypeOK, Agents
  <2>4. pc' \in [Agents -> Places]
    BY <2>1, <2>3
  <2>5. MainPlaces' = MainPlaces /\ WorkerPlaces' = WorkerPlaces
    BY <2>1 DEF MainPlaces, WorkerPlaces, fixed
  <2>6. PlacesFit' /\ HandsFit'
    BY <2>1, <2>2, <2>5 DEF PlacesFit, HandsFit, fixed
  <2>7. ReadyCounts'
    BY <2>1, ReadyStays DEF fixed, ring
  <2>8. sigchld' \in BOOLEAN
    BY <2>1
  <2> QED
    BY <2>1, <2>4, <2>6, <2>7, <2>8 DEF TypeOK, fixed, clients, kernel, table, pipes, ring
<1>5. CASE Interrupt /\ design \notin Parents
  BY <1>0, <1>5, ExitTyped DEF Interrupt, TypeOK, pipes
<1>6. CASE Interrupt /\ design \in Parents
  <2> USE <1>6 DEF Interrupt
  <2>1. "kill" \in Places /\ "kill" \in MainPlaces
    BY <1>0, WhoseMainPlace DEF Places
  <2>2. pc' \in [Agents -> Places] /\ PlacesFit' /\ HandsFit'
    BY <2>1, <1>0, PlaceKeeps DEF fixed
  <2>3. ReadyCounts'
    BY <2>1, <1>0, ReadyStays DEF TypeOK, fixed, ring
  <2> QED
    BY <2>2, <2>3 DEF TypeOK, fixed, clients, table, pipes, ring
<1>7. CASE WaitForChildren
  <2> USE <1>7 DEF WaitForChildren
  <2>1. /\ pc'[Main] = "exit" /\ hand'[Main] = NoConn
        /\ \A w \in Workers : pc'[w] = "none" /\ hand'[w] = hand[w]
        /\ hand' \in [Agents -> Conns \cup {NoConn}] /\ UNCHANGED <<design, others>>
    BY <1>0 DEF TypeOK, fixed
  <2>2. \A w \in Workers : hand[w] = NoConn
    <3>1. design \notin Selecting
      BY <1>0, WhoseMainPlace, Families DEF PlacesFit
    <3>2. \A w \in Workers : pc[w] \in {"none", "zombie"}
      BY <1>0, WhoseWorkerPlace DEF Alive, Dead, PlacesFit
    <3> QED
      BY <3>1, <3>2, Holding DEF HandsFit
  <2>3. "none" \in Places /\ "none" \in WorkerPlaces /\ "none" \notin WorkerHolds
        /\ "exit" \in Places /\ "exit" \in MainPlaces /\ "exit" \notin MainHolds
    BY <1>0, WhoseMainPlace, WhoseWorkerPlace, Holding DEF Places
  <2>4. pc' \in [Agents -> Places]
    BY <2>3
  <2>5. MainPlaces' = MainPlaces /\ WorkerPlaces' = WorkerPlaces
    BY <2>1 DEF MainPlaces, WorkerPlaces
  <2>6. PlacesFit' /\ HandsFit'
    BY <2>1, <2>2, <2>3, <2>5 DEF PlacesFit, HandsFit
  <2>7. ReadyCounts'
    BY <2>1, ReadyStays DEF others, ring
  <2> QED
    BY <2>1, <2>4, <2>6, <2>7 DEF TypeOK, fixed, clients, others, table, pipes, ring
<1>8. ASSUME NEW w \in Workers, KillChild(w) PROVE Typed'
  <2>1. /\ lock' \in Agents \cup {NoConn} /\ inbox' \in [Workers -> Seq(Conns)]
        /\ freed' \in [Workers -> Nat]
    BY <1>8, <1>0 DEF TypeOK, KillChild
  <2> QED
    BY <1>8, <1>0, <2>1, ExitTyped DEF KillChild
<1>9. ASSUME NEW w \in Workers, Fork(w) \/ CreateThread(w) PROVE Typed'
  <2> DEFINE p == IF Fork(w) THEN "close" ELSE "accept"
             h == IF Fork(w) THEN hand[Main] ELSE NoConn
  <2>1. /\ pc[Main] = "create" /\ pc[w] = "none" /\ design \in Forking \cup Threaded
        /\ pc' = [pc EXCEPT ![Main] = p, ![w] = "serve"]
        /\ hand' = [hand EXCEPT ![w] = hand[Main], ![Main] = h]
        /\ UNCHANGED <<fixed, clients, acceptQ, others>> /\ holders' \in [Conns -> SUBSET Agents]
    <3>1. CASE Fork(w)
      BY <1>0, <3>1 DEF Fork, FreeSlots, TypeOK
    <3>2. CASE ~ Fork(w) /\ CreateThread(w)
      BY <1>0, <3>2 DEF CreateThread, FreeSlots, TypeOK, kernel
    <3> QED
      BY <1>9, <3>1, <3>2
  <2>2. hand[Main] \in Conns /\ (p = "close" <=> h # NoConn)
    BY <1>0, <2>1, Basics DEF TypeOK, HandsFit, MainHolds
  <2>3. p \in MainPlaces /\ (p \in MainHolds <=> h # NoConn) /\ p \in Places
    BY <1>0, <2>1, <2>2, WhoseMainPlace, Families, Holding DEF PlacesFit, MainHolds, Places, Fork
  <2>4. "serve" \in WorkerPlaces /\ "serve" \in WorkerHolds /\ "serve" \in Places
    BY <1>0, <2>1, WhoseWorkerPlace, Families DEF WorkerHolds, Places
  <2>5. /\ pc'[Main] = p /\ hand'[Main] = h /\ pc'[w] = "serve" /\ hand'[w] = hand[Main]
        /\ \A v \in Workers \ {w} : pc'[v] = pc[v] /\ hand'[v] = hand[v]
        /\ pc' \in [Agents -> Places] /\ hand' \in [Agents -> Conns \cup {NoConn}]
    BY <1>0, <2>1, <2>2, <2>3, <2>4 DEF TypeOK
  <2>6. MainPlaces' = MainPlaces /\ WorkerPlaces' = WorkerPlaces
    BY <2>1 DEF MainPlaces, WorkerPlaces, fixed
  <2>7. PlacesFit'
    BY <2>3, <2>4, <2>5, <2>6 DEF PlacesFit
  <2>8. HandsFit'
    BY <2>1, <2>2, <2>3, <2>4, <2>5, Basics, Families DEF HandsFit, fixed
  <2>9. ReadyCounts'
    BY <2>1, <2>5, Families DEF ReadyCounts, fixed, others, ring
  <2> QED
    BY <2>1, <2>5, <2>7, <2>8, <2>9 DEF TypeOK, fixed, clients, others, table, pipes, ring
<1> QED
  BY <1>1, <1>2, <1>3, <1>4, <1>5, <1>6, <1>7, <1>8, <1>9

\* Workers that wait for the lock or for input, and the lock itself.
LEMMA LockersTyped ==
  ASSUME Typed, NEW w \in Workers,
         \/ SelectListen(w) \/ TakeLock(w) \/ ReleaseLock(w) \/ ReleaseLock(Main) \/ LockRing
         \/ WaitForConn(w) \/ TakeConn(w)
  PROVE  Typed'
<1> USE DEF Typed
<1>0. design \in AllDesigns /\ Main \in Agents /\ w \in Agents /\ w # Main
  BY Basics
<1>a. {"accept", "test", "wait", "release", "serve", "put"} \subseteq Places
  BY DEF Places
<1>b. /\ "put" \in MainHolds /\ "store" \in MainHolds /\ "release" \in WorkerHolds /\ "serve" \in WorkerHolds
  BY DEF MainHolds, WorkerHolds
<1>1. CASE SelectListen(w)
  <2> USE <1>1 DEF SelectListen
  <2>1. "accept" \in WorkerPlaces /\ design \notin Selecting /\ pc'[Main] = pc[Main]
    BY <1>0, WhoseWorkerPlace, Families DEF TypeOK, Preforked, PlacesFit
  <2>2. pc' \in [Agents -> Places] /\ PlacesFit' /\ HandsFit'
    BY <1>0, <1>a, <2>1, Holding, PlaceKeeps DEF fixed, HandsFit
  <2>3. ReadyCounts'
    BY <2>1, ReadyStays DEF fixed, others, ring
  <2> QED
    BY <2>2, <2>3 DEF TypeOK, fixed, clients, kernel, others, table, pipes, ring
<1>2. CASE TakeLock(w)
  <2> DEFINE p == IF design = "serv08" THEN "test" ELSE "accept"
  <2> USE <1>2 DEF TakeLock
  <2>1. p \in WorkerPlaces /\ design \notin Selecting /\ pc'[Main] = pc[Main]
    BY <1>0, WhoseWorkerPlace, Families DEF TypeOK, PlacesFit
  <2>2. pc' \in [Agents -> Places] /\ PlacesFit' /\ HandsFit'
    <3>1. pc' = [pc EXCEPT ![w] = p] /\ p \in Places /\ UNCHANGED <<design, hand>>
          /\ hand[w] = NoConn /\ p \notin WorkerHolds
      BY <1>0, <1>a, <2>1, Holding DEF fixed, HandsFit
    <3> QED
      BY <1>0, <2>1, <3>1, PlaceKeeps
  <2>3. ReadyCounts'
    BY <2>1, ReadyStays DEF fixed, ring
  <2> QED
    BY <1>0, <2>2, <2>3 DEF TypeOK, fixed, clients, kernel, table, pipes, ring
<1>3. CASE ReleaseLock(w)
  <2> USE <1>3 DEF ReleaseLock
  <2>1. "serve" \in WorkerPlaces /\ design \notin Selecting /\ pc'[Main] = pc[Main]
    BY <1>0, WhoseWorkerPlace, Families DEF TypeOK, PlacesFit
  <2>2. pc' \in [Agents -> Places] /\ PlacesFit' /\ HandsFit'
    BY <1>0, <1>a, <1>b, <2>1, PlaceKeeps DEF fixed, HandsFit
  <2>3. ReadyCounts'
    BY <2>1, ReadyStays DEF fixed, ring
  <2> QED
    BY <1>0, <2>2, <2>3 DEF TypeOK, fixed, clients, kernel, table, pipes, ring
<1>4. CASE ReleaseLock(Main)
  <2> USE <1>4 DEF ReleaseLock
  <2>1. design = "serv08" /\ "accept" \in MainPlaces /\ pc' = [pc EXCEPT ![Main] = "accept"]
    BY <1>0, WhoseMainPlace, Families DEF PlacesFit, Preforked
  <2>2. pc' \in [Agents -> Places] /\ PlacesFit' /\ HandsFit'
    BY <1>0, <1>a, <2>1, Holding, PlaceKeeps DEF fixed, HandsFit
  <2>3. ReadyCounts'
    BY <1>0, <2>1, Families DEF ReadyCounts, TypeOK, fixed, ring
  <2> QED
    BY <1>0, <2>2, <2>3 DEF TypeOK, fixed, clients, kernel, table, pipes, ring
<1>5. CASE LockRing
  <2> USE <1>5 DEF LockRing
  <2>1. "put" \in MainPlaces
    BY <1>0, WhoseMainPlace
  <2>2. pc' \in [Agents -> Places] /\ PlacesFit' /\ HandsFit'
    BY <1>0, <1>a, <1>b, <2>1, PlaceKeeps DEF fixed, HandsFit
  <2>3. ReadyCounts'
    BY <1>0, ReadyStays DEF TypeOK, fixed, ring
  <2> QED
    BY <1>0, <2>2, <2>3 DEF TypeOK, fixed, clients, kernel, table, pipes, ring
<1>6. CASE WaitForConn(w)
  <2> USE <1>6 DEF WaitForConn
  <2>1. "wait" \in WorkerPlaces /\ design \notin Selecting /\ pc'[Main] = pc[Main]
    BY <1>0, WhoseWorkerPlace, Families DEF TypeOK, PlacesFit
  <2>2. pc' \in [Agents -> Places] /\ PlacesFit' /\ HandsFit'
    BY <1>0, <1>a, <2>1, Holding, PlaceKeeps DEF fixed, HandsFit
  <2>3. ReadyCounts'
    BY <2>1, ReadyStays DEF fixed, ring
  <2> QED
    BY <1>0, <2>2, <2>3 DEF TypeOK, fixed, clients, kernel, table, pipes, ring
<1>7. CASE TakeConn(w)
  <2> USE <1>7 DEF TakeConn
  <2>1. "release" \in WorkerPlaces /\ design \notin Selecting /\ pc'[Main] = pc[Main]
    BY <1>0, WhoseWorkerPlace, Families DEF TypeOK, PlacesFit
  <2>2. Succ(iget) \in 0 .. (MAXNCLI - 1)
    BY Basics DEF Succ, TypeOK
  <2>3. /\ pc' \in [Agents -> Places] /\ hand' \in [Agents -> Conns \cup {NoConn}]
        /\ PlacesFit' /\ HandsFit'
    <3>1. clifd[iget] \in Conns \cup {NoConn} /\ UNCHANGED design
      BY DEF TypeOK, fixed
    <3> QED
      BY <1>0, <1>a, <1>b, <2>1, <3>1, MoveKeeps
  <2>4. ReadyCounts'
    BY <2>1, ReadyStays DEF fixed
  <2> QED
    BY <2>2, <2>3, <2>4 DEF TypeOK, fixed, clients, kernel, table, pipes
<1> QED
  BY <1>1, <1>2, <1>3, <1>4, <1>5, <1>6, <1>7

\* serv05.
LEMMA PipesTyped ==
  ASSUME Typed, NEW w \in Workers,
         \/ SelectConn \/ PassConn(w) \/ NewlyAvailable(w) \/ ChildTerminated(w)
         \/ ReceiveConn(w) \/ TellParent(w) \/ ParentGone(w) \/ ChildDies(w)
  PROVE  Typed'
<1> USE DEF Typed
<1>0. design \in AllDesigns /\ Main \in Agents /\ w \in Agents /\ w # Main
  BY Basics
<1>a. {"accept", "select", "serve", "idle"} \subseteq Places
  BY DEF Places
<1>b. "pass" \in MainHolds /\ "serve" \in WorkerHolds
  BY DEF MainHolds, WorkerHolds
<1>1. CASE SelectConn
  <2> USE <1>1 DEF SelectConn
  <2>1. "accept" \in MainPlaces /\ design \notin Selecting
    BY <1>0, WhoseMainPlace, Families DEF PlacesFit, Preforked
  <2>2. pc' \in [Agents -> Places] /\ PlacesFit' /\ HandsFit'
    BY <1>0, <1>a, <2>1, Holding, PlaceKeeps DEF fixed, HandsFit
  <2>3. ReadyCounts'
    BY <1>0, <2>1 DEF ReadyCounts, TypeOK, fixed, others, ring
  <2> QED
    BY <2>2, <2>3 DEF TypeOK, fixed, clients, kernel, others, table, pipes, ring
<1>2. CASE PassConn(w)
  <2>1. /\ navail' \in Int /\ child_status' \in [Workers -> 0 .. 1]
        /\ UNCHANGED <<design, kind, peer, inq, acceptQ, lock, freed, clifd, iput, iget, nready>>
    <3>1. \/ UNCHANGED <<navail, child_status>>
          \/ navail' = navail - 1 /\ child_status' = [child_status EXCEPT ![w] = 1]
      BY <1>2 DEF PassConn, PassTo, table
    <3>2. navail \in Int /\ child_status \in [Workers -> 0 .. 1]
      BY DEF TypeOK
    <3>3. navail' \in Int /\ child_status' \in [Workers -> 0 .. 1]
      BY <3>1, <3>2
    <3>4. UNCHANGED <<design, kind, peer, inq, acceptQ, lock, freed, clifd, iput, iget, nready>>
      BY <1>2 DEF PassConn, fixed, clients, ring
    <3> QED
      BY <3>3, <3>4
  <2>2. hand[Main] \in Conns /\ "select" \in MainPlaces
    BY <1>0, <1>2, <1>b, WhoseMainPlace DEF PassConn, HandsFit, PlacesFit, TypeOK
  <2> DEFINE passed == Alive(w) /\ \E v \in Workers : child_status[v] = 0
  <2>3. CASE passed
    <3>1. /\ inbox' = [inbox EXCEPT ![w] = Append(@, hand[Main])]
          /\ holders' = [holders EXCEPT ![hand[Main]] = {w}]
          /\ hand' = [hand EXCEPT ![Main] = NoConn]
          /\ pc' = [pc EXCEPT ![Main] = "select"]
          /\ UNCHANGED sigchld
      BY <1>2, <2>3 DEF PassConn, PassTo
    <3>2. inbox' \in [Workers -> Seq(Conns)] /\ holders' \in [Conns -> SUBSET Agents]
      BY <1>0, <2>2, <3>1 DEF TypeOK
    <3>3. /\ pc' \in [Agents -> Places] /\ hand' \in [Agents -> Conns \cup {NoConn}]
          /\ PlacesFit' /\ HandsFit'
      BY <1>0, <1>a, <2>1, <2>2, <3>1, Holding, MoveKeeps
    <3>4. ReadyCounts'
      BY <1>0, <2>1, <3>1, ReadyStays DEF TypeOK
    <3> QED
      BY <2>1, <3>1, <3>2, <3>3, <3>4 DEF TypeOK
  <2>4. CASE ~ passed
    <3>1. Exit(Main) /\ UNCHANGED inbox
      BY <1>2, <2>4 DEF PassConn, PassTo
    <3>2. TypeOK'
      BY <1>0, <2>1, <3>1, ExitKeeps DEF TypeOK
    <3>3. ReadyCounts'
      BY <1>0, <2>1, <3>1, ExitKeeps DEF ReadyCounts
    <3> QED
      BY <1>0, <2>1, <3>1, <3>2, <3>3, ExitKeeps
  <2> QED
    BY <2>3, <2>4
<1>3. CASE NewlyAvailable(w)
  <2> USE <1>3 DEF NewlyAvailable
  <2>1. freed[w] \in Nat /\ freed[w] - 1 \in Nat /\ navail' \in Int
        /\ child_status' \in [Workers -> 0 .. 1] /\ freed' = [freed EXCEPT ![w] = freed[w] - 1]
    BY DEF TypeOK
  <2>2. freed' \in [Workers -> Nat]
    BY <2>1 DEF TypeOK
  <2>3. /\ UNCHANGED <<design, kind, peer, inq, acceptQ, holders, pc, hand, lock, sigchld, inbox,
                       clifd, iput, iget, nready>>
    BY DEF fixed, clients, kernel, ring
  <2> QED
    BY <2>1, <2>2, <2>3 DEF TypeOK, PlacesFit, HandsFit, ReadyCounts, MainPlaces, WorkerPlaces
<1>4. CASE ChildTerminated(w)
  BY <1>0, <1>4, ExitTyped DEF ChildTerminated, TypeOK, pipes
<1>5. CASE ReceiveConn(w)
  <2> USE <1>5 DEF ReceiveConn
  <2>1. "serve" \in WorkerPlaces /\ design \notin Selecting /\ pc'[Main] = pc[Main]
    BY <1>0, WhoseWorkerPlace, Families DEF TypeOK, PlacesFit
  <2>2. Head(inbox[w]) \in Conns /\ Tail(inbox[w]) \in Seq(Conns)
    BY DEF TypeOK
  <2>3. /\ pc' \in [Agents -> Places] /\ hand' \in [Agents -> Conns \cup {NoConn}]
        /\ PlacesFit' /\ HandsFit'
    BY <1>0, <1>a, <1>b, <2>1, <2>2, MoveKeeps DEF fixed
  <2>4. ReadyCounts'
    BY <2>1, ReadyStays DEF fixed, ring
  <2>5. inbox' \in [Workers -> Seq(Conns)]
    BY <2>2 DEF TypeOK
  <2> QED
    BY <2>3, <2>4, <2>5 DEF TypeOK, fixed, clients, kernel, table, ring
<1>6. CASE TellParent(w) /\ AllDeadAfter(w)
  BY <1>0, <1>6, ExitTyped DEF TellParent, TypeOK
<1>7. CASE TellParent(w) /\ ~ AllDeadAfter(w)
  <2> USE <1>7 DEF TellParent
  <2>1. "idle" \in WorkerPlaces /\ design \notin Selecting /\ pc'[Main] = pc[Main]
    BY <1>0, WhoseWorkerPlace, Families DEF TypeOK, PlacesFit
  <2>2. pc' \in [Agents -> Places] /\ PlacesFit' /\ HandsFit'
    BY <1>0, <1>a, <2>1, Holding, PlaceKeeps DEF fixed, HandsFit
  <2>3. ReadyCounts'
    BY <2>1, ReadyStays DEF fixed, ring
  <2>4. freed' \in [Workers -> Nat]
    <3>1. freed' = [freed EXCEPT ![w] = @ + 1] /\ freed \in [Workers -> Nat]
      BY DEF TypeOK
    <3> QED
      BY <3>1
  <2>5. UNCHANGED <<design, kind, peer, inq, acceptQ, holders, hand, lock, sigchld, navail,
                    child_status, inbox, clifd, iput, iget, nready>>
    BY DEF fixed, clients, table, ring
  <2> QED
    BY <2>2, <2>3, <2>4, <2>5 DEF TypeOK
<1>8. CASE ParentGone(w)
  BY <1>0, <1>8, ExitTyped DEF ParentGone, TypeOK, pipes
<1>9. CASE ChildDies(w)
  <2>1. inbox' \in [Workers -> Seq(Conns)] /\ lock' \in Agents \cup {NoConn} /\ freed' \in [Workers -> Nat]
    BY <1>9 DEF ChildDies, TypeOK
  <2> QED
    BY <1>0, <1>9, <2>1, ExitTyped DEF ChildDies
<1> QED
  BY <1>1, <1>2, <1>3, <1>4, <1>5, <1>6, <1>7, <1>8, <1>9

\* main() of serv08 puts a descriptor into the ring.
LEMMA RingTyped ==
  ASSUME Typed, PutConn
  PROVE  Typed'
<1> USE DEF Typed
<1>0. design = "serv08" /\ Main \in Agents /\ Workers \subseteq Agents /\ \A w \in Workers : w # Main
  <2>1. design \in AllDesigns /\ pc[Main] = "put" /\ pc[Main] \in MainPlaces
    BY Basics DEF PutConn, PlacesFit
  <2> QED
    BY <2>1, Basics, WhoseMainPlace
<1>1. /\ clifd' \in [0 .. (MAXNCLI - 1) -> Conns \cup {NoConn}]
      /\ iput' \in 0 .. (MAXNCLI - 1)
      /\ UNCHANGED <<design, kind, peer, inq, acceptQ, lock, navail, child_status, inbox, freed, iget, nready>>
  <2>1. Succ(iput) \in 0 .. (MAXNCLI - 1) /\ hand[Main] \in Conns \cup {NoConn}
    BY <1>0, Basics DEF Succ, TypeOK
  <2> QED
    BY <2>1 DEF PutConn, TypeOK, fixed, clients, table, pipes
<1>2. CASE RingFull(Succ(iput))
  <2>1. Exit(Main)
    BY <1>2 DEF PutConn
  <2>2. TypeOK'
    BY <1>0, <1>1, <2>1, ExitKeeps DEF TypeOK
  <2>3. ReadyCounts'
    BY <1>0, <1>1, <2>1, ExitKeeps DEF ReadyCounts
  <2> QED
    BY <1>0, <1>1, <2>1, <2>2, <2>3, ExitKeeps
<1>3. CASE ~ RingFull(Succ(iput))
  <2>1. /\ \/ \E w \in Workers : pc[w] = "wait" /\ pc' = [pc EXCEPT ![Main] = "release", ![w] = "lock"]
           \/ pc' = [pc EXCEPT ![Main] = "release"]
        /\ hand' = [hand EXCEPT ![Main] = NoConn]
        /\ UNCHANGED <<holders, sigchld>>
    BY <1>3 DEF PutConn
  <2>2. /\ {"release", "lock"} \subseteq Places /\ "release" \in MainPlaces /\ "lock" \in WorkerPlaces
        /\ design \notin Selecting
    <3>1. design \in AllDesigns /\ {"release", "lock"} \subseteq Places
      BY Basics DEF Places
    <3> QED
      BY <1>0, <3>1, WhoseMainPlace, WhoseWorkerPlace, Families
  <2>3. /\ pc' \in [Agents -> Places] /\ hand' \in [Agents -> Conns \cup {NoConn}]
        /\ pc'[Main] = "release" /\ hand'[Main] = NoConn
        /\ \A w \in Workers : hand'[w] = hand[w] /\ (pc'[w] = pc[w] \/ (pc[w] = "wait" /\ pc'[w] = "lock"))
    <3>1. hand' \in [Agents -> Conns \cup {NoConn}] /\ hand'[Main] = NoConn
          /\ \A w \in Workers : hand'[w] = hand[w]
      BY <1>0, <2>1 DEF TypeOK
    <3>2. CASE pc' = [pc EXCEPT ![Main] = "release"]
      BY <1>0, <2>2, <3>1, <3>2 DEF TypeOK
    <3>3. ASSUME NEW w \in Workers, pc[w] = "wait", pc' = [pc EXCEPT ![Main] = "release", ![w] = "lock"]
          PROVE  /\ pc' \in [Agents -> Places] /\ pc'[Main] = "release" /\ pc'[w] = "lock"
                 /\ \A v \in Workers \ {w} : pc'[v] = pc[v]
      BY <1>0, <2>2, <3>3 DEF TypeOK
    <3> QED
      BY <2>1, <3>1, <3>2, <3>3
  <2>4. MainPlaces' = MainPlaces /\ WorkerPlaces' = WorkerPlaces
    BY <1>1 DEF MainPlaces, WorkerPlaces
  <2>5. PlacesFit' /\ HandsFit'
    BY <1>1, <2>2, <2>3, <2>4, Holding DEF PlacesFit, HandsFit
  <2>6. ReadyCounts'
    BY <1>1, <2>3 DEF ReadyCounts
  <2> QED
    BY <1>1, <2>1, <2>3, <2>5, <2>6 DEF TypeOK
<1> QED
  BY <1>2, <1>3

\* tcpservpoll01 and tcpservselect03.
LEMMA PollersTyped ==
  ASSUME Typed,
         \/ PollReturns \/ TooManyClients
         \/ \E w \in Workers : Enter(w) \/ ReadFlagged(w) \/ ReadlineFails(w)
  PROVE  Typed'
<1> USE DEF Typed
<1>0. design \in AllDesigns /\ Main \in Agents /\ Workers \subseteq Agents /\ \A w \in Workers : w # Main
  BY Basics
<1>a. {"accept", "poll", "scan", "none", "flagged"} \subseteq Places
  BY DEF Places
<1>1. CASE PollReturns
  <2> USE <1>1 DEF PollReturns
  <2>1. /\ {"accept", "scan"} \subseteq MainPlaces /\ {"none", "flagged"} \subseteq WorkerPlaces
        /\ design \in Selecting
    <3>1. design \in Selecting
      BY <1>0, WhoseMainPlace DEF PlacesFit
    <3> QED
      BY <1>0, <3>1, WhoseMainPlace, WhoseWorkerPlace, Families
  <2>2. /\ pc' \in [Agents -> Places] /\ pc'[Main] \in {"accept", "scan"}
        /\ \A w \in Workers : pc'[w] \in {"none", "flagged"}
        /\ UNCHANGED <<design, hand>>
    BY <1>0, <1>a DEF TypeOK, fixed, Agents
  <2>3. MainPlaces' = MainPlaces /\ WorkerPlaces' = WorkerPlaces
    BY <2>2 DEF MainPlaces, WorkerPlaces
  <2>4. PlacesFit' /\ HandsFit'
    <3>1. hand[Main] = NoConn
      BY Holding DEF HandsFit
    <3> QED
      BY <2>1, <2>2, <2>3, <3>1, Holding DEF PlacesFit, HandsFit
  <2>5. nready' \in 1 .. (nworkers + 1)
    <3> DEFINE Flagged == {w \in Workers : HasInput(w)}
    <3>1. IsFiniteSet(Workers) /\ Cardinality(Workers) = nworkers
      BY Basics, FS_Interval DEF Workers
    <3>2. Cardinality(Flagged) \in Nat /\ Cardinality(Flagged) <= nworkers
      BY <3>1, FS_Subset, FS_CardinalityType
    <3>3. nready' = Cardinality(Flagged) + (IF acceptQ = <<>> THEN 0 ELSE 1) /\ nready' > 0
      OBVIOUS
    <3> QED
      BY <3>2, <3>3, Basics
  <2>6. nready' \in 0 .. (nworkers + 1) /\ ReadyCounts'
    BY <2>5, Basics DEF ReadyCounts
  <2> QED
    BY <2>2, <2>4, <2>6 DEF TypeOK, fixed, clients, kernel, table, pipes
<1>2. CASE TooManyClients
  BY <1>0, <1>2, ExitTyped DEF TooManyClients, TypeOK, pipes
<1>3. ASSUME NEW w \in Workers, ReadlineFails(w) PROVE Typed'
  BY <1>0, <1>3, ExitTyped DEF ReadlineFails, TypeOK, pipes
<1>4. ASSUME NEW w \in Workers, Enter(w) \/ ReadFlagged(w) PROVE Typed'
  <2>1. /\ pc[Main] \in {"enter", "scan"} /\ nready \in 1 .. (nworkers + 1) /\ nready' = nready - 1
    BY <1>4 DEF Enter, ReadFlagged, ReadyCounts, TypeOK
  <2>2. design \in Selecting
    BY <1>0, <2>1, WhoseMainPlace DEF PlacesFit
  <2>3. {"poll", "scan"} \subseteq MainPlaces /\ {"none", "flagged"} \subseteq WorkerPlaces
    BY <1>0, <2>2, WhoseMainPlace, WhoseWorkerPlace, Families
  <2>4. PICK flag \in {"none", "flagged"} :
          pc' = [pc EXCEPT ![w] = flag, ![Main] = IF nready > 1 THEN "scan" ELSE "poll"]
    BY <1>4 DEF Enter, ReadFlagged
  <2>5. /\ pc' \in [Agents -> Places] /\ pc'[Main] = (IF nready > 1 THEN "scan" ELSE "poll")
        /\ pc'[w] \in {"none", "flagged"} /\ \A v \in Workers \ {w} : pc'[v] = pc[v]
    BY <1>0, <1>a, <2>4 DEF TypeOK
  <2>6. /\ hand' \in [Agents -> Conns \cup {NoConn}] /\ hand'[Main] = NoConn
        /\ \A v \in Workers \ {w} : hand'[v] = hand[v]
        /\ holders' \in [Conns -> SUBSET Agents]
        /\ peer' \in [Conns -> {"start", "connected", "asked", "answered", "closed", "failed"}]
        /\ inq' \in [Conns -> {"nothing", "line", "eof", "reset"}]
        /\ UNCHANGED <<design, kind, acceptQ, lock, sigchld, navail, child_status, inbox, freed,
                       clifd, iput, iget>>
    <3>1. CASE Enter(w)
      BY <1>0, <3>1, <2>2 DEF Enter, TypeOK, fixed, clients, kernel, table, pipes
    <3>2. CASE ReadFlagged(w)
      <4>1. hand[Main] = NoConn
        BY <3>2, Holding DEF ReadFlagged, HandsFit
      <4>2. CASE inq[hand[w]] = "line"
        BY <1>0, <3>2, <4>1, <4>2 DEF ReadFlagged, TypeOK, fixed, table, pipes
      <4>3. CASE inq[hand[w]] # "line"
        BY <1>0, <3>2, <4>1, <4>3 DEF ReadFlagged, TypeOK, fixed, clients, table, pipes
      <4> QED
        BY <4>2, <4>3
    <3> QED
      BY <1>4, <3>1, <3>2
  <2>7. MainPlaces' = MainPlaces /\ WorkerPlaces' = WorkerPlaces
    BY <2>6 DEF MainPlaces, WorkerPlaces
  <2>8. PlacesFit' /\ HandsFit'
    BY <2>2, <2>3, <2>5, <2>6, <2>7, Holding DEF PlacesFit, HandsFit
  <2>9. nready' \in 0 .. (nworkers + 1) /\ ReadyCounts'
    BY <2>1, <2>5, Basics DEF ReadyCounts
  <2> QED
    BY <2>5, <2>6, <2>8, <2>9 DEF TypeOK
<1> QED
  BY <1>1, <1>2, <1>3, <1>4

LEMMA NextTyped == Typed /\ [Next]_vars => Typed'
<1> SUFFICES ASSUME Typed, [Next]_vars PROVE Typed'
  OBVIOUS
<1>0. Main \in Agents /\ Workers \subseteq Agents
  BY Basics DEF Typed
<1>1. CASE MainStep
  <2>1. CASE Accept(Main) \/ WebChild(Main)
    BY <1>0, <2>1, AgentTyped
  <2>2. CASE LockRing \/ ReleaseLock(Main) \/ SelectConn
    <3>1. 1 \in Workers
      BY Basics DEF Typed, Workers
    <3> QED
      BY <2>2, <3>1, LockersTyped, PipesTyped
  <2>3. CASE Send \/ WaitForChildren \/ CreateFails \/ Reap \/ PutConn \/ PollReturns \/ TooManyClients
    BY <2>3, ForkersTyped, RingTyped, PollersTyped
  <2>4. ASSUME NEW w \in Workers, Fork(w) \/ CreateThread(w) \/ KillChild(w) PROVE Typed'
    BY <2>4, ForkersTyped
  <2>5. ASSUME NEW w \in Workers, PassConn(w) \/ NewlyAvailable(w) \/ ChildTerminated(w) PROVE Typed'
    BY <2>5, PipesTyped
  <2>6. ASSUME NEW w \in Workers, Enter(w) \/ ReadFlagged(w) \/ ReadlineFails(w) PROVE Typed'
    BY <2>6, PollersTyped
  <2> QED
    BY <1>1, <2>1, <2>2, <2>3, <2>4, <2>5, <2>6 DEF MainStep
<1>2. ASSUME NEW w \in Workers, WorkerStep(w) PROVE Typed'
  BY <1>0, <1>2, AgentTyped, LockersTyped, PipesTyped DEF WorkerStep
<1>3. ASSUME NEW c \in Conns, ClientStep(c) PROVE Typed'
  BY <1>3, ClientTyped
<1>4. CASE SendFails \/ Interrupt
  BY <1>4, ForkersTyped
<1>5. CASE UNCHANGED vars
  BY <1>5 DEF vars, fixed, clients, kernel, others, table, pipes, ring, Typed, TypeOK, PlacesFit,
              HandsFit, ReadyCounts, MainPlaces, WorkerPlaces
<1> QED
  BY <1>1, <1>2, <1>3, <1>4, <1>5 DEF Next, Progress

THEOREM TypedHolds == Spec => []Typed
  BY InitTyped, NextTyped, PTL DEF Spec

\* The model is well-typed: the parent of serv05 has a connection to pass when
\* it comes to write_fd(), and the count of poll() stays within its bounds.
THEOREM TypeCorrect == Spec => []TypeOK
<1>1. Typed => TypeOK
  BY DEF Typed
<1> QED
  BY TypedHolds, <1>1, PTL

\* The program and the kinds of its clients stay.
LEMMA FixedStays == [Next]_vars => UNCHANGED fixed
<1> SUFFICES ASSUME Next PROVE UNCHANGED fixed
  BY DEF vars
<1>1. ASSUME NEW c \in Conns, ClientStep(c) PROVE UNCHANGED fixed
  BY <1>1 DEF ClientStep, Connect, WriteRequest, CloseConn, ResetConn, ClientFails
<1>2. ASSUME NEW a \in Agents, Accept(a) \/ WebChild(a) \/ ReleaseLock(a) PROVE UNCHANGED fixed
  BY <1>2 DEF Accept, WebChild, Answer, EndOfConn, Refuse, CloseDone, ReleaseLock
<1>3. ASSUME NEW w \in Workers,
             \/ Fork(w) \/ CreateThread(w) \/ PassConn(w) \/ NewlyAvailable(w) \/ ChildTerminated(w)
             \/ KillChild(w) \/ Enter(w) \/ ReadFlagged(w) \/ ReadlineFails(w)
      PROVE  UNCHANGED fixed
  BY <1>3 DEF Fork, CreateThread, PassConn, PassTo, NewlyAvailable, ChildTerminated, KillChild, Enter,
              ReadFlagged, ReadlineFails
<1>4. ASSUME NEW w \in Workers,
             \/ SelectListen(w) \/ TakeLock(w) \/ ReceiveConn(w) \/ TellParent(w) \/ ParentGone(w)
             \/ ChildDies(w) \/ WaitForConn(w) \/ TakeConn(w)
      PROVE  UNCHANGED fixed
  BY <1>4 DEF SelectListen, TakeLock, ReceiveConn, TellParent, ParentGone, ChildDies, WaitForConn, TakeConn
<1>5. CASE \/ Send \/ LockRing \/ PutConn \/ SelectConn \/ WaitForChildren \/ CreateFails \/ Reap
           \/ PollReturns \/ TooManyClients \/ SendFails \/ Interrupt
  BY <1>5 DEF Send, LockRing, PutConn, SelectConn, WaitForChildren, CreateFails, Reap, PollReturns,
              TooManyClients, SendFails, Interrupt
<1>6. Main \in Agents /\ Workers \subseteq Agents
  BY DEF Agents
<1> QED
  BY <1>1, <1>2, <1>3, <1>4, <1>5, <1>6 DEF Next, Progress, MainStep, WorkerStep

-----------------------------------------------------------------------------
(* Which programs take which steps.                                         *)

LEMMA MainStepDesigns ==
  ASSUME Typed
  PROVE  /\ Send \/ SendFails => design \in Iterative
         /\ CreateFails => design \in Forking \cup {"serv06", "tcpserv01"}
         /\ Reap => design \in Forking
         /\ SelectConn => design = "serv05"
         /\ WaitForChildren => design \in Parents
         /\ LockRing \/ PutConn \/ ReleaseLock(Main) => design = "serv08"
         /\ PollReturns \/ TooManyClients => design \in Selecting
         /\ Accept(Main) => design \notin Preforked \cup {"serv07", "serv09"}
         /\ WebChild(Main) => design \in Iterative \cup Forking
<1> USE DEF Typed
<1>0. design \in AllDesigns /\ pc[Main] \in MainPlaces
  BY Basics DEF PlacesFit
<1>1. Send \/ SendFails => design \in Iterative
  BY <1>0, WhoseMainPlace DEF Send, SendFails
<1>2. CreateFails => design \in Forking \cup {"serv06", "tcpserv01"}
  BY <1>0, WhoseMainPlace DEF CreateFails
<1>3. (Reap => design \in Forking) /\ (SelectConn => design = "serv05")
  BY <1>0, WhoseMainPlace DEF Reap, SelectConn
<1>4. WaitForChildren => design \in Parents
  BY <1>0, WhoseMainPlace DEF WaitForChildren
<1>5. LockRing \/ PutConn \/ ReleaseLock(Main) => design = "serv08"
  BY <1>0, WhoseMainPlace DEF LockRing, PutConn, ReleaseLock
<1>6. PollReturns \/ TooManyClients => design \in Selecting
  BY <1>0, WhoseMainPlace DEF PollReturns, TooManyClients
<1>7. Accept(Main) => design \notin Preforked \cup {"serv07", "serv09"}
  BY <1>0, WhoseMainPlace DEF Accept
<1>8. WebChild(Main) => design \in Iterative \cup Forking
  BY <1>0, WhoseMainPlace DEF WebChild, Answer, EndOfConn, Refuse, CloseDone
<1> QED
  BY <1>1, <1>2, <1>3, <1>4, <1>5, <1>6, <1>7, <1>8

LEMMA WorkerStepDesigns ==
  ASSUME Typed, NEW w \in Workers
  PROVE  /\ Fork(w) => design \in Forking
         /\ CreateThread(w) => design \in {"serv06", "tcpserv01"}
         /\ KillChild(w) => design \in Parents
         /\ PassConn(w) \/ NewlyAvailable(w) \/ ChildTerminated(w) => design = "serv05"
         /\ ReceiveConn(w) \/ TellParent(w) \/ ParentGone(w) \/ ChildDies(w) => design = "serv05"
         /\ Enter(w) \/ ReadFlagged(w) \/ ReadlineFails(w) => design \in Selecting
         /\ Accept(w) \/ SelectListen(w) => design \in Preforked \cup {"serv07", "serv09"}
         /\ TakeLock(w) \/ ReleaseLock(w) => design \in Preforked \cup {"serv07", "serv08", "serv09"}
         /\ WaitForConn(w) \/ TakeConn(w) => design = "serv08"
         /\ WebChild(w) => design \notin Iterative \cup Selecting
<1> USE DEF Typed
<1>0. design \in AllDesigns /\ pc[Main] \in MainPlaces /\ pc[w] \in WorkerPlaces
  BY Basics DEF PlacesFit
<1>1. (Fork(w) => design \in Forking) /\ (CreateThread(w) => design \in {"serv06", "tcpserv01"})
  BY <1>0, WhoseMainPlace, Families DEF Fork, CreateThread
<1>2. KillChild(w) => design \in Parents
  BY <1>0, WhoseMainPlace DEF KillChild
<1>3. PassConn(w) \/ NewlyAvailable(w) \/ ChildTerminated(w) => design = "serv05"
  BY <1>0, WhoseMainPlace DEF PassConn, NewlyAvailable, ChildTerminated
<1>4. ReceiveConn(w) \/ TellParent(w) \/ ParentGone(w) \/ ChildDies(w) => design = "serv05"
  BY <1>0, WhoseWorkerPlace DEF ReceiveConn, TellParent, ParentGone, ChildDies
<1>5. Enter(w) \/ ReadFlagged(w) \/ ReadlineFails(w) => design \in Selecting
  BY <1>0, WhoseMainPlace DEF Enter, ReadFlagged, ReadlineFails
<1>6. Accept(w) \/ SelectListen(w) => design \in Preforked \cup {"serv07", "serv09"}
  BY <1>0, WhoseWorkerPlace DEF Accept, SelectListen
<1>7. TakeLock(w) \/ ReleaseLock(w) => design \in Preforked \cup {"serv07", "serv08", "serv09"}
  BY <1>0, WhoseWorkerPlace DEF TakeLock, ReleaseLock
<1>8. WaitForConn(w) \/ TakeConn(w) => design = "serv08"
  BY <1>0, WhoseWorkerPlace DEF WaitForConn, TakeConn
<1>9. WebChild(w) => design \notin Iterative \cup Selecting
  BY <1>0, WhoseWorkerPlace DEF WebChild, Answer, EndOfConn, Refuse, CloseDone
<1> QED
  BY <1>1, <1>2, <1>3, <1>4, <1>5, <1>6, <1>7, <1>8, <1>9

-----------------------------------------------------------------------------
(* No zombie of serv01 without a SIGCHLD.                                   *)

\* The steps of serv01.
LEMMA ForkingSteps ==
  ASSUME Typed, design \in Forking, Next
  PROVE  \/ Accept(Main) \/ WebChild(Main) \/ CreateFails \/ Reap \/ Interrupt
         \/ \E w \in Workers : Fork(w) \/ WebChild(w)
         \/ \E c \in Conns : ClientStep(c)
<1>1. /\ design \notin Iterative \cup Selecting \cup Preforked \cup Parents
      /\ design \notin {"serv05", "serv06", "tcpserv01", "serv07", "serv08", "serv09"}
  BY Families
<1>2. CASE MainStep
  <2>1. ASSUME NEW w \in Workers,
               \/ Fork(w) \/ CreateThread(w) \/ PassConn(w) \/ NewlyAvailable(w) \/ ChildTerminated(w)
               \/ KillChild(w) \/ Enter(w) \/ ReadFlagged(w) \/ ReadlineFails(w)
        PROVE  Fork(w)
    BY <1>1, <2>1, WorkerStepDesigns
  <2> QED
    BY <1>1, <1>2, <2>1, MainStepDesigns DEF MainStep
<1>3. ASSUME NEW w \in Workers, WorkerStep(w) PROVE WebChild(w)
  BY <1>1, <1>3, WorkerStepDesigns DEF WorkerStep
<1>4. CASE SendFails
  BY <1>1, <1>4, MainStepDesigns
<1> QED
  BY <1>2, <1>3, <1>4 DEF Next, Progress

\* Only exit() makes a zombie, and only sig_chld(), after which there is none,
\* takes the signal.
LEMMA ZombiesKeep ==
  ASSUME Typed, ZombiesAreReaped, [Next]_vars
  PROVE  ZombiesAreReaped'
<1> SUFFICES ASSUME design' = "serv01", NEW v \in Workers, Alive(Main)', pc'[v] = "zombie"
             PROVE  sigchld'
  BY DEF ZombiesAreReaped, Zombies
<1>0. design \in AllDesigns /\ Main \in Agents /\ v \in Agents /\ \A w \in Workers : w \in Agents /\ w # Main
  BY Basics DEF Typed
<1>a. ASSUME UNCHANGED <<design, sigchld>>, pc[v] = "zombie", Alive(Main) PROVE sigchld'
  BY <1>a DEF ZombiesAreReaped, Zombies
<1>1. CASE UNCHANGED vars
  BY <1>1, <1>a DEF vars, fixed, others, Alive
<1> SUFFICES ASSUME Next PROVE sigchld'
  BY <1>1
<1>2. UNCHANGED design /\ design \in Forking
  BY FixedStays, Families DEF fixed
<1>3. CASE Accept(Main)
  <2>1. pc'[v] = pc[v] /\ Alive(Main) /\ UNCHANGED sigchld
    BY <1>0, <1>3 DEF Accept, Alive, Dead, others, Typed, TypeOK
  <2> QED
    BY <1>2, <1>a, <2>1
<1>4. ASSUME NEW a \in Agents, WebChild(a) PROVE sigchld'
  <2>1. ASSUME pc'[v] = pc[v], Alive(Main), UNCHANGED sigchld PROVE sigchld'
    BY <1>2, <1>a, <2>1
  <2>2. CASE Answer(a)
    BY <2>1, <2>2 DEF Answer, others, Alive
  <2>3. CASE EndOfConn(a)
    BY <1>0, <2>1, <2>3 DEF EndOfConn, others, Alive, Dead, Typed, TypeOK
  <2>4. CASE Exit(a)
    <3>1. a # Main
      BY <1>0, <2>4 DEF Exit, Alive, Dead
    <3> QED
      BY <1>2, <2>4, <3>1 DEF Exit
  <2>5. CASE CloseDone(a) /\ ~ Exit(a)
    <3>1. AfterClose(a) # "zombie"
      <4>1. a = Main => AfterClose(a) \in MainPlaces
        BY <1>0, Loops DEF AfterClose, Start
      <4> QED
        BY <1>0, <1>2, <4>1, <2>5, WhoseMainPlace DEF CloseDone
    <3> QED
      BY <1>0, <2>1, <2>5, <3>1 DEF CloseDone, Alive, Dead, Typed, TypeOK
  <2> QED
    BY <1>2, <1>4, <2>2, <2>3, <2>4, <2>5, Families DEF WebChild, Refuse
<1>5. CASE CreateFails
  BY <1>0, <1>5 DEF CreateFails, Exit, Alive, Dead
<1>6. CASE Interrupt
  BY <1>0, <1>2, <1>6, Families DEF Interrupt, Exit, Alive, Dead
<1>7. CASE Reap
  BY <1>0, <1>2, <1>7 DEF Reap, Reaps, Zombies
<1>8. ASSUME NEW w \in Workers, Fork(w) PROVE sigchld'
  <2>1. pc'[v] # "zombie" \/ pc'[v] = pc[v]
    BY <1>0, <1>8 DEF Fork, Typed, TypeOK
  <2> QED
    BY <1>2, <1>8, <1>a, <2>1 DEF Fork, others, Alive, Dead
<1>9. ASSUME NEW c \in Conns, ClientStep(c) PROVE sigchld'
  <2>1. UNCHANGED <<pc, others>>
    BY <1>9 DEF ClientStep, Connect, WriteRequest, CloseConn, ResetConn, ClientFails
  <2> QED
    BY <1>2, <1>a, <2>1 DEF others, Alive
<1> QED
  BY <1>0, <1>2, <1>3, <1>4, <1>5, <1>6, <1>7, <1>8, <1>9, ForkingSteps

\* serv01 collects every child: a zombie without a SIGCHLD to come is never seen.
THEOREM ServersReapZombies == Spec => []ZombiesAreReaped
<1>1. Init => ZombiesAreReaped
  <2> SUFFICES ASSUME Init, NEW w \in Workers, pc[w] = "zombie" PROVE FALSE
    BY DEF ZombiesAreReaped, Zombies
  <2>1. Typed /\ pc[w] = Start(w)
    BY InitTyped, Basics DEF Init, Typed
  <2> QED
    BY <2>1, Loops, Basics DEF Typed
<1> QED
  BY <1>1, TypedHolds, ZombiesKeep, PTL DEF Spec

-----------------------------------------------------------------------------
(* serv05's table of children.                                              *)

LEMMA PipeSteps ==
  ASSUME Typed, design = "serv05", Next
  PROVE  \/ Accept(Main) \/ SelectConn \/ Interrupt \/ WaitForChildren
         \/ \E w \in Workers : \/ PassConn(w) \/ NewlyAvailable(w) \/ ChildTerminated(w) \/ KillChild(w)
                               \/ WebChild(w) \/ ReceiveConn(w) \/ TellParent(w) \/ ParentGone(w)
                               \/ ChildDies(w)
         \/ \E c \in Conns : ClientStep(c)
<1>1. design \notin Iterative \cup Forking \cup Selecting \cup Preforked \cup Threaded
  BY Families
<1>2. CASE MainStep
  <2>1. ASSUME NEW w \in Workers,
               \/ Fork(w) \/ CreateThread(w) \/ PassConn(w) \/ NewlyAvailable(w) \/ ChildTerminated(w)
               \/ KillChild(w) \/ Enter(w) \/ ReadFlagged(w) \/ ReadlineFails(w)
        PROVE  PassConn(w) \/ NewlyAvailable(w) \/ ChildTerminated(w) \/ KillChild(w)
    BY <1>1, <2>1, WorkerStepDesigns
  <2> QED
    BY <1>1, <1>2, <2>1, MainStepDesigns DEF MainStep
<1>3. ASSUME NEW w \in Workers, WorkerStep(w)
      PROVE  WebChild(w) \/ ReceiveConn(w) \/ TellParent(w) \/ ParentGone(w) \/ ChildDies(w)
  BY <1>1, <1>3, WorkerStepDesigns DEF WorkerStep
<1>4. CASE SendFails
  BY <1>1, <1>4, MainStepDesigns
<1> QED
  BY <1>2, <1>3, <1>4 DEF Next, Progress

\* What AvailAgrees says of a child, and of the count.
Busy(w) == IF pc[w] = "idle" THEN 0 ELSE 1
ChildAgrees(w) == Len(inbox[w]) + freed[w] + Busy(w) = child_status[w]
Free == {w \in Workers : child_status[w] = 0}
CountAgrees == navail = Cardinality(Free)

LEMMA AvailKeeps ==
  ASSUME Typed, AvailAgrees, [Next]_vars
  PROVE  AvailAgrees'
<1> SUFFICES ASSUME design' = "serv05", InOrder'
             PROVE  CountAgrees' /\ \A w \in Workers : ChildAgrees(w)'
  BY DEF AvailAgrees, CountAgrees, Free, ChildAgrees, Busy
<1> USE DEF Typed
<1>0. /\ Main \in Agents /\ \A w \in Workers : w \in Agents /\ w # Main
      /\ IsFiniteSet(Workers)
  <2>1. IsFiniteSet(1 .. nworkers)
    BY ConstantsAssumption, FS_Interval
  <2> QED
    BY <2>1, Basics DEF Workers
<1>1. design = "serv05" /\ design \in AllDesigns /\ design \notin Forking \cup Preforked
  BY FixedStays, Families, Basics DEF fixed
<1>2. /\ Alive(Main)' /\ pc'[Main] # "kill"
      /\ \A w \in Workers : Alive(w)' /\ pc'[w] # "dying"
  <2>1. design' \notin Preforked
    BY <1>1, FixedStays DEF fixed
  <2> QED
    BY <2>1 DEF InOrder, ListenOpen
<1>3. ASSUME Alive(Main), pc[Main] # "kill", \A w \in Workers : Alive(w) /\ pc[w] # "dying"
      PROVE  /\ CountAgrees /\ \A w \in Workers : ChildAgrees(w)
             /\ \A w \in Workers : Len(inbox[w]) \in Nat /\ freed[w] \in Nat /\ child_status[w] \in {0, 1}
  BY <1>1, <1>3 DEF InOrder, ListenOpen, AvailAgrees, CountAgrees, Free, ChildAgrees, Busy, TypeOK
<1>4. ASSUME UNCHANGED <<table, pipes>>, Alive(Main), pc[Main] # "kill",
             \A w \in Workers : Alive(w) /\ pc[w] # "dying" /\ Busy(w)' = Busy(w)
      PROVE  CountAgrees' /\ \A w \in Workers : ChildAgrees(w)'
  BY <1>3, <1>4 DEF CountAgrees, Free, ChildAgrees, table, pipes
<1>5. CASE UNCHANGED vars
  BY <1>2, <1>4, <1>5 DEF vars, others, Alive, Busy
<1> SUFFICES ASSUME Next PROVE CountAgrees' /\ \A w \in Workers : ChildAgrees(w)'
  BY <1>5
<1>6. CASE Accept(Main) \/ SelectConn
  <2>1. /\ pc[Main] \in {"accept", "select"} /\ UNCHANGED <<table, pipes>>
        /\ \A w \in Workers : pc'[w] = pc[w]
    BY <1>0, <1>6 DEF Accept, SelectConn, others, TypeOK
  <2> QED
    BY <1>2, <1>4, <2>1 DEF Alive, Dead, Busy
<1>7. CASE Interrupt \/ WaitForChildren
  BY <1>0, <1>1, <1>2, <1>7, Families DEF Interrupt, WaitForChildren, Alive, Dead, TypeOK
<1>8. ASSUME NEW w \in Workers, ChildTerminated(w) \/ KillChild(w) \/ ParentGone(w) \/ ChildDies(w)
      PROVE  FALSE
  BY <1>0, <1>2, <1>8 DEF ChildTerminated, KillChild, ParentGone, ChildDies, Exit, Alive, Dead
<1>9. ASSUME NEW w \in Workers, WebChild(w) PROVE CountAgrees' /\ \A v \in Workers : ChildAgrees(v)'
  <2>1. /\ UNCHANGED <<table, pipes>> /\ pc'[Main] = pc[Main]
        /\ \A v \in Workers \ {w} : pc'[v] = pc[v]
        /\ pc[w] \in {"serve", "close"} /\ pc'[w] \in {"serve", "close", "tell"}
    <3>1. CASE Answer(w)
      BY <3>1 DEF Answer, others
    <3>2. CASE EndOfConn(w)
      BY <1>0, <3>2 DEF EndOfConn, others, TypeOK
    <3>3. CASE Refuse(w)
      BY <1>0, <1>1, <1>2, <3>3 DEF Refuse, TypeOK
    <3>4. CASE CloseDone(w)
      <4>1. AfterClose(w) = "tell"
        BY <1>0, <1>1 DEF AfterClose, WorkerLoop, child05
      <4> QED
        BY <1>0, <1>1, <3>4, <4>1 DEF CloseDone, TypeOK
    <3> QED
      BY <1>9, <3>1, <3>2, <3>3, <3>4 DEF WebChild
  <2> QED
    BY <1>2, <1>4, <2>1 DEF Alive, Dead, Busy
<1>10. ASSUME NEW c \in Conns, ClientStep(c) PROVE CountAgrees' /\ \A v \in Workers : ChildAgrees(v)'
  <2>1. UNCHANGED <<pc, others>>
    BY <1>10 DEF ClientStep, Connect, WriteRequest, CloseConn, ResetConn, ClientFails
  <2> QED
    BY <1>2, <1>4, <2>1 DEF others, Alive, Busy
<1>11. ASSUME NEW w \in Workers, PassConn(w) PROVE CountAgrees' /\ \A v \in Workers : ChildAgrees(v)'
  <2>1. Alive(w)
    BY <1>0, <1>2, <1>11 DEF PassConn, PassTo, Exit, Alive, Dead
  <2>2. /\ child_status[w] = 0 /\ child_status' = [child_status EXCEPT ![w] = 1] /\ navail' = navail - 1
        /\ inbox' = [inbox EXCEPT ![w] = Append(@, hand[Main])] /\ UNCHANGED freed
        /\ pc[Main] = "pass" /\ hand[Main] \in Conns
        /\ \A v \in Workers : pc'[v] = pc[v]
    BY <1>0, <1>2, <1>11, <2>1 DEF PassConn, PassTo, Exit, Available, HandsFit, MainHolds, TypeOK,
                                   Alive, Dead
  <2>3. CountAgrees /\ \A v \in Workers : ChildAgrees(v)
    BY <1>2, <1>3, <2>2 DEF Alive, Dead
  <2>4. Free' = Free \ {w} /\ w \in Free /\ IsFiniteSet(Free)
    BY <1>0, <2>2, FS_Subset DEF Free, TypeOK
  <2>5. CountAgrees'
    BY <2>2, <2>3, <2>4, FS_RemoveElement DEF CountAgrees
  <2>6. ChildAgrees(w)'
    <3>1. /\ inbox'[w] = Append(inbox[w], hand[Main]) /\ Len(Append(inbox[w], hand[Main])) = Len(inbox[w]) + 1
          /\ Len(inbox[w]) \in Nat /\ freed[w] \in Nat /\ child_status'[w] = 1
      BY <2>2 DEF TypeOK
    <3>2. Len(inbox[w]) + freed[w] + Busy(w) = 0 /\ Busy(w) \in Nat /\ Busy(w)' = Busy(w)
      BY <2>2, <2>3 DEF ChildAgrees, Busy
    <3> QED
      BY <2>2, <3>1, <3>2 DEF ChildAgrees
  <2>7. \A v \in Workers \ {w} : ChildAgrees(v)'
    BY <2>2, <2>3 DEF ChildAgrees, Busy, TypeOK
  <2> QED
    BY <2>5, <2>6, <2>7
<1>12. ASSUME NEW w \in Workers, NewlyAvailable(w) PROVE CountAgrees' /\ \A v \in Workers : ChildAgrees(v)'
  <2>1. /\ freed[w] \in Nat \ {0} /\ freed' = [freed EXCEPT ![w] = freed[w] - 1]
        /\ child_status' = [child_status EXCEPT ![w] = 0]
        /\ navail' = navail + 1 /\ UNCHANGED <<pc, inbox>> /\ pc[Main] = "select"
    BY <1>12 DEF NewlyAvailable, TypeOK
  <2>2. /\ CountAgrees /\ \A v \in Workers : ChildAgrees(v)
        /\ \A v \in Workers : Len(inbox[v]) \in Nat /\ freed[v] \in Nat /\ child_status[v] \in {0, 1}
    BY <1>2, <1>3, <2>1 DEF Alive, Dead
  <2>3. child_status[w] = 1 /\ Len(inbox[w]) = 0 /\ freed[w] = 1 /\ Busy(w) = 0
    BY <2>1, <2>2 DEF ChildAgrees, Busy
  <2>4. Free' = Free \cup {w} /\ w \notin Free /\ IsFiniteSet(Free)
    BY <1>0, <2>1, <2>3, FS_Subset DEF Free, TypeOK
  <2>5. CountAgrees'
    BY <2>1, <2>2, <2>4, FS_AddElement DEF CountAgrees
  <2>6. \A v \in Workers : ChildAgrees(v)'
    BY <2>1, <2>2, <2>3 DEF ChildAgrees, Busy, TypeOK
  <2> QED
    BY <2>5, <2>6
<1>13. ASSUME NEW w \in Workers, ReceiveConn(w) PROVE CountAgrees' /\ \A v \in Workers : ChildAgrees(v)'
  <2>1. /\ inbox' = [inbox EXCEPT ![w] = Tail(@)] /\ UNCHANGED <<freed, table>>
        /\ Len(Tail(inbox[w])) = Len(inbox[w]) - 1 /\ Len(inbox[w]) \in Nat
        /\ pc[w] = "idle" /\ pc'[w] = "serve" /\ \A a \in Agents \ {w} : pc'[a] = pc[a]
    BY <1>0, <1>13 DEF ReceiveConn, TypeOK
  <2>2. /\ CountAgrees /\ \A v \in Workers : ChildAgrees(v)
        /\ \A v \in Workers : Len(inbox[v]) \in Nat /\ freed[v] \in Nat /\ child_status[v] \in {0, 1}
    <3>1. pc'[Main] = pc[Main] /\ \A v \in Workers \ {w} : pc'[v] = pc[v]
      BY <1>0, <2>1
    <3>2. Alive(w) /\ pc[w] # "dying"
      BY <2>1 DEF Alive, Dead
    <3>3. Alive(Main) /\ pc[Main] # "kill" /\ \A v \in Workers : Alive(v) /\ pc[v] # "dying"
      BY <1>2, <3>1, <3>2 DEF Alive
    <3> QED
      BY <1>3, <3>3
  <2>3. \A v \in Workers : ChildAgrees(v)'
    <3>1. /\ inbox'[w] = Tail(inbox[w]) /\ \A v \in Workers \ {w} : inbox'[v] = inbox[v]
          /\ UNCHANGED <<freed, child_status>>
      BY <2>1 DEF TypeOK, table
    <3>2. Busy(w) = 0 /\ Busy(w)' = 1 /\ \A v \in Workers \ {w} : Busy(v)' = Busy(v)
      BY <1>0, <2>1 DEF Busy
    <3>3. Len(inbox'[w]) = Len(inbox[w]) - 1 /\ Len(inbox[w]) \in Nat /\ freed[w] \in Nat
      BY <2>1, <2>2, <3>1
    <3>4. ChildAgrees(w)'
      <4>1. Len(inbox[w]) + freed[w] + 0 = child_status[w]
        BY <2>2, <3>2 DEF ChildAgrees
      <4>2. Len(inbox'[w]) + freed[w] + 1 = child_status[w]
        BY <3>3, <4>1
      <4> QED
        BY <3>1, <3>2, <4>2 DEF ChildAgrees
    <3>5. \A v \in Workers \ {w} : ChildAgrees(v)'
      BY <2>2, <3>1, <3>2 DEF ChildAgrees
    <3> QED
      BY <3>4, <3>5
  <2> QED
    BY <2>1, <2>2, <2>3 DEF CountAgrees, Free, table
<1>14. ASSUME NEW w \in Workers, TellParent(w) PROVE CountAgrees' /\ \A v \in Workers : ChildAgrees(v)'
  <2>1. ~ AllDeadAfter(w)
    BY <1>0, <1>2, <1>14 DEF TellParent, AllDeadAfter, Exit, Alive, Dead
  <2>2. /\ freed' = [freed EXCEPT ![w] = @ + 1] /\ UNCHANGED <<inbox, table>>
        /\ pc[w] = "tell" /\ pc'[w] = "idle" /\ \A a \in Agents \ {w} : pc'[a] = pc[a]
    BY <1>0, <1>14, <2>1 DEF TellParent, TypeOK
  <2>3. /\ CountAgrees /\ \A v \in Workers : ChildAgrees(v)
        /\ \A v \in Workers : Len(inbox[v]) \in Nat /\ freed[v] \in Nat /\ child_status[v] \in {0, 1}
    <3>1. pc'[Main] = pc[Main] /\ \A v \in Workers \ {w} : pc'[v] = pc[v]
      BY <1>0, <2>2
    <3>2. Alive(w) /\ pc[w] # "dying"
      BY <2>2 DEF Alive, Dead
    <3>3. Alive(Main) /\ pc[Main] # "kill" /\ \A v \in Workers : Alive(v) /\ pc[v] # "dying"
      BY <1>2, <3>1, <3>2 DEF Alive
    <3> QED
      BY <1>3, <3>3
  <2>4. \A v \in Workers : ChildAgrees(v)'
    <3>1. /\ freed'[w] = freed[w] + 1 /\ \A v \in Workers \ {w} : freed'[v] = freed[v]
          /\ UNCHANGED <<inbox, child_status>>
      BY <2>2 DEF TypeOK, table
    <3>2. Busy(w) = 1 /\ Busy(w)' = 0 /\ \A v \in Workers \ {w} : Busy(v)' = Busy(v)
      BY <1>0, <2>2 DEF Busy
    <3> QED
      BY <2>2, <2>3, <3>1, <3>2 DEF ChildAgrees
  <2> QED
    BY <2>2, <2>3, <2>4 DEF CountAgrees, Free, table
<1> QED
  BY <1>1, <1>6, <1>7, <1>8, <1>9, <1>10, <1>11, <1>12, <1>13, <1>14, PipeSteps

\* serv05 knows how many children are free, and a child it calls free has
\* nothing to do, so that there is a child for each connection it accepts.
THEOREM TableOfChildren == Spec => []AvailAgrees
<1>1. Init => AvailAgrees
  <2> SUFFICES ASSUME Init, design = "serv05"
               PROVE  CountAgrees /\ \A w \in Workers : ChildAgrees(w)
    BY DEF AvailAgrees, CountAgrees, Free, ChildAgrees, Busy
  <2>1. Free = Workers
    BY DEF Init, Free
  <2>2. CountAgrees
    BY <2>1, ConstantsAssumption, FS_Interval DEF Init, CountAgrees, Workers
  <2>3. \A w \in Workers : pc[w] = "idle"
    BY InitTyped, Basics DEF Init, Typed, Start, WorkerLoop, child05
  <2> QED
    BY <2>2, <2>3 DEF Init, ChildAgrees, Busy
<1> QED
  BY <1>1, TypedHolds, AvailKeeps, PTL DEF Spec

-----------------------------------------------------------------------------
(* Every connection is in one place.                                        *)

\* Some agent has the connection in its connfd.
InHand(c) == \E a \in Agents : hand[a] = c

\* A connection is in the queue, in a pipe, in the ring or in somebody's hand,
\* and before its client has called connect() it is nowhere.
Apart(c) ==
  /\ Queued(c) => ~ InHand(c) /\ ~ Passed(c) /\ ~ InRing(c)
  /\ Passed(c) => ~ InHand(c) /\ design = "serv05"
  /\ InRing(c) => ~ InHand(c) /\ design = "serv08"
  /\ peer[c] = "start" => ~ Queued(c) /\ ~ InHand(c) /\ ~ Passed(c) /\ ~ InRing(c)

\* ... and there only once; but the parent of a child that serves it has it
\* until it closes it.
Has(s, c) == \E k \in DOMAIN s : s[k] = c
Once(s)   == \A j, k \in DOMAIN s : s[j] = s[k] => j = k

QueueOnce == Once(acceptQ)
PipesOnce ==
  /\ \A w \in Workers : Once(inbox[w])
  /\ \A v, w \in Workers, c \in Conns : Has(inbox[v], c) /\ Has(inbox[w], c) => v = w
RingOnce ==
  /\ \A k \in 0 .. (MAXNCLI - 1) : Filled(k) => clifd[k] \in Conns
  /\ \A j, k \in 0 .. (MAXNCLI - 1) : Filled(j) /\ Filled(k) /\ clifd[j] = clifd[k] => j = k
HandsOnce ==
  /\ \A v, w \in Workers : hand[v] = hand[w] /\ hand[v] # NoConn => v = w
  /\ \A w \in Workers : hand[w] = hand[Main] /\ hand[w] # NoConn => design \in Forking /\ pc[Main] = "close"

\* Threads do not outlive main(), and main() waits for children that listen.
MainOutlives == design \in Threaded \cup Preforked => \A w \in Workers : Alive(w) => Alive(Main)

OnePlace ==
  /\ QueueOnce /\ PipesOnce /\ RingOnce /\ HandsOnce /\ MainOutlives
  /\ \A c \in Conns : Apart(c)

-----------------------------------------------------------------------------
(* The steps of the pool, by what becomes of stage, server and order.       *)

Same(c) == StageOf(c)' = StageOf(c) /\ ServerOf(c)' = ServerOf(c)
Gone(c) == StageOf(c)' = "finished" /\ ServerOf(c)' = NoConn

LEMMA PoolSleeps ==
  ASSUME UNCHANGED kind, \A c \in Conns : Same(c), InOrder' <=> InOrder
  PROVE  UNCHANGED Pool!pool
<1>1. InOrder' = InOrder
  BY DEF InOrder
<1> QED
  BY <1>1 DEF Pool!pool, Same

LEMMA PoolStops ==
  ASSUME UNCHANGED kind, \A c \in Conns : Same(c) \/ Gone(c), ~ InOrder'
  PROVE  Pool!Next
<1>1. InOrder' = FALSE
  BY DEF InOrder
<1>2. Pool!Stop
  BY <1>1 DEF Pool!Stop, Same, Gone
<1> QED
  BY <1>2 DEF Pool!Next

LEMMA PoolArrives ==
  ASSUME UNCHANGED kind, InOrder' <=> InOrder, NEW c \in Conns,
         \A d \in Conns \ {c} : Same(d),
         StageOf(c) = "new", StageOf(c)' = "waiting", ServerOf(c)' = ServerOf(c)
  PROVE  Pool!Next
<1>1. InOrder' = InOrder
  BY DEF InOrder
<1>2. Pool!Arrive(c)
  BY <1>1 DEF Pool!Arrive, Same
<1> QED
  BY <1>2 DEF Pool!Next

LEMMA PoolAborts ==
  ASSUME UNCHANGED kind, InOrder' <=> InOrder, NEW c \in Conns, kind[c] = "reset",
         \A d \in Conns \ {c} : Same(d),
         StageOf(c) = "waiting", StageOf(c)' = "finished", ServerOf(c)' = ServerOf(c)
  PROVE  Pool!Next
<1>1. InOrder' = InOrder
  BY DEF InOrder
<1>2. Pool!Abort(c)
  BY <1>1 DEF Pool!Abort, Same
<1> QED
  BY <1>2 DEF Pool!Next

LEMMA PoolServes ==
  ASSUME UNCHANGED kind, InOrder' <=> InOrder, NEW c \in Conns, NEW a \in Agents,
         \A d \in Conns \ {c} : Same(d), \A d \in Conns : ServerOf(d) # a,
         StageOf(c) = "waiting", StageOf(c)' = "served", ServerOf(c)' = a
  PROVE  Pool!Next
<1>1. InOrder' = InOrder
  BY DEF InOrder
<1>2. Pool!Serve(c, a)
  BY <1>1 DEF Pool!Serve, Same
<1> QED
  BY <1>2 DEF Pool!Next

LEMMA PoolFinishes ==
  ASSUME UNCHANGED kind, InOrder' <=> InOrder, NEW c \in Conns,
         \A d \in Conns \ {c} : Same(d), StageOf(c) = "served", Gone(c)
  PROVE  Pool!Next
<1>1. InOrder' = InOrder
  BY DEF InOrder
<1>2. Pool!Finish(c)
  BY <1>1 DEF Pool!Finish, Same, Gone
<1> QED
  BY <1>2 DEF Pool!Next

-----------------------------------------------------------------------------
(* Stage and server of a connection.                                        *)

LEMMA OneServer ==
  ASSUME HandsOnce, NEW c \in Conns, NEW a \in ServedBy(c)
  PROVE  ServerOf(c) = a /\ StageOf(c) = "served"
<1>1. \A b \in ServedBy(c) : b = a
  BY ConstantsAssumption, Families DEF HandsOnce, ServedBy, Agents
<1>2. ServedBy(c) = {a} /\ a \in Agents
  BY <1>1 DEF ServedBy
<1>3. ServerOf(c) = a
  BY <1>2 DEF ServerOf
<1> QED
  BY <1>2, <1>3 DEF StageOf

LEMMA NoServer ==
  ASSUME NEW c \in Conns, ServedBy(c) = {}
  PROVE  /\ ServerOf(c) = NoConn
         /\ StageOf(c) = IF Waits(c) THEN "waiting" ELSE IF peer[c] = "start" THEN "new" ELSE "finished"
  BY DEF ServerOf, StageOf

\* Who has nothing in hand serves nobody.
LEMMA Idle ==
  ASSUME NEW a \in Agents, hand[a] = NoConn, HandsOnce
  PROVE  \A c \in Conns : ServerOf(c) # a
<1> SUFFICES ASSUME NEW c \in Conns PROVE ServerOf(c) # a
  OBVIOUS
<1>1. CASE ServedBy(c) = {}
  BY <1>1, NoServer, ConstantsAssumption
<1>2. ASSUME NEW b \in ServedBy(c) PROVE ServerOf(c) # a
  BY <1>2, OneServer, ConstantsAssumption DEF ServedBy
<1> QED
  BY <1>1, <1>2

LEMMA StaysPut ==
  ASSUME UNCHANGED design, NEW c \in Conns,
         \A a \in Agents : (a = Main => design \in Iterative) => (hand'[a] = c <=> hand[a] = c),
         ServedBy(c) = {} => (Waits(c)' <=> Waits(c)),
         peer'[c] = "start" <=> peer[c] = "start"
  PROVE  Same(c)
<1>1. ServedBy(c)' = ServedBy(c)
  BY DEF ServedBy
<1>2. ServerOf(c)' = ServerOf(c)
  BY <1>1 DEF ServerOf
<1>3. StageOf(c)' = StageOf(c)
  BY <1>1 DEF StageOf
<1> QED
  BY <1>2, <1>3 DEF Same

-----------------------------------------------------------------------------
(* Queues and the ring.                                                     *)

LEMMA AppendHas ==
  ASSUME NEW S, NEW s \in Seq(S), NEW x \in S
  PROVE  /\ \A c : Has(Append(s, x), c) <=> Has(s, c) \/ c = x
         /\ Once(s) /\ ~ Has(s, x) => Once(Append(s, x))
<1>1. /\ Append(s, x) \in Seq(S) /\ DOMAIN Append(s, x) = DOMAIN s \cup {Len(s) + 1}
      /\ Append(s, x)[Len(s) + 1] = x /\ Len(s) + 1 \notin DOMAIN s
      /\ \A k \in DOMAIN s : Append(s, x)[k] = s[k]
  OBVIOUS
<1> QED
  BY <1>1 DEF Has, Once

LEMMA TailHas ==
  ASSUME NEW S, NEW s \in Seq(S), s # <<>>
  PROVE  /\ Head(s) \in S /\ Has(s, Head(s)) /\ Tail(s) \in Seq(S)
         /\ Once(s) => Once(Tail(s)) /\ \A c : Has(Tail(s), c) <=> Has(s, c) /\ c # Head(s)
<1>1. /\ Head(s) = s[1] /\ Head(s) \in S /\ Tail(s) \in Seq(S) /\ 1 \in DOMAIN s
      /\ \A k \in DOMAIN Tail(s) : Tail(s)[k] = s[k + 1] /\ k + 1 \in DOMAIN s /\ k + 1 # 1 /\ k \in Nat
      /\ \A k \in DOMAIN s : k # 1 => k - 1 \in DOMAIN Tail(s) /\ Tail(s)[k - 1] = s[k]
  OBVIOUS
<1>2. Once(s) => Once(Tail(s))
  BY <1>1 DEF Once
<1>3. ASSUME Once(s), NEW c PROVE Has(Tail(s), c) <=> Has(s, c) /\ c # Head(s)
  <2>1. Has(Tail(s), c) => Has(s, c) /\ c # Head(s)
    BY <1>1, <1>3 DEF Once, Has
  <2>2. Has(s, c) /\ c # Head(s) => Has(Tail(s), c)
    BY <1>1 DEF Has
  <2> QED
    BY <2>1, <2>2
<1> QED
  BY <1>1, <1>2, <1>3 DEF Has

LEMMA SecondPart ==
  ASSUME NEW S, NEW p \in Seq(S), NEW q \in Seq(S), NEW j \in Int, j > Len(p), j <= Len(p) + Len(q)
  PROVE  (p \o q)[j] = q[j - Len(p)]
  OBVIOUS

LEMMA WithoutHas ==
  ASSUME NEW S, NEW s \in Seq(S), NEW k \in DOMAIN s, Once(s)
  PROVE  Once(Without(s, k)) /\ \A c : Has(Without(s, k), c) <=> Has(s, c) /\ c # s[k]
<1>0. k \in 1 .. Len(s) /\ Len(s) \in Nat
  OBVIOUS
<1>1. /\ SubSeq(s, 1, k - 1) \in Seq(S) /\ Len(SubSeq(s, 1, k - 1)) = k - 1
      /\ SubSeq(s, k + 1, Len(s)) \in Seq(S) /\ Len(SubSeq(s, k + 1, Len(s))) = Len(s) - k
      /\ \A j \in 1 .. (k - 1) : SubSeq(s, 1, k - 1)[j] = s[j]
      /\ \A j \in 1 .. (Len(s) - k) : SubSeq(s, k + 1, Len(s))[j] = s[k + j]
  BY <1>0
<1>2. DOMAIN Without(s, k) = 1 .. (Len(s) - 1)
  BY <1>0, <1>1 DEF Without
<1>3. \A j \in 1 .. (Len(s) - 1) : Without(s, k)[j] = s[IF j < k THEN j ELSE j + 1]
  <2> TAKE j \in 1 .. (Len(s) - 1)
  <2>1. CASE j < k
    BY <2>1, <1>0, <1>1 DEF Without
  <2>2. CASE j >= k
    <3>1. /\ j - (k - 1) \in 1 .. (Len(s) - k) /\ k + (j - (k - 1)) = j + 1 /\ j \in Int /\ j > k - 1
          /\ j <= (k - 1) + (Len(s) - k)
      BY <2>2, <1>0
    <3>2. SubSeq(s, k + 1, Len(s))[j - (k - 1)] = s[j + 1]
      BY <3>1, <1>1
    <3>3. Without(s, k)[j] = SubSeq(s, k + 1, Len(s))[j - (k - 1)]
      <4> DEFINE p == SubSeq(s, 1, k - 1)
                 q == SubSeq(s, k + 1, Len(s))
      <4>1. p \in Seq(S) /\ q \in Seq(S) /\ Len(p) = k - 1 /\ j > Len(p) /\ j <= Len(p) + Len(q)
        BY <3>1, <1>1
      <4>2. Without(s, k) = p \o q
        BY DEF Without
      <4> HIDE DEF p, q
      <4>3. (p \o q)[j] = q[j - Len(p)]
        BY <3>1, <4>1, SecondPart
      <4>4. Without(s, k)[j] = q[j - (k - 1)]
        BY <4>1, <4>2, <4>3
      <4> QED
        BY <4>4 DEF q
    <3> QED
      BY <2>2, <3>2, <3>3, <1>0
  <2> QED
    BY <2>1, <2>2, <1>0
<1>4. \A j \in DOMAIN Without(s, k) :
        \E i \in DOMAIN s : i # k /\ i = (IF j < k THEN j ELSE j + 1) /\ Without(s, k)[j] = s[i]
  BY <1>0, <1>2, <1>3
<1>5. \A i \in DOMAIN s \ {k} : \E j \in DOMAIN Without(s, k) : Without(s, k)[j] = s[i]
  <2> TAKE i \in DOMAIN s \ {k}
  <2>1. CASE i < k
    BY <2>1, <1>0, <1>2, <1>3
  <2>2. CASE i > k
    <3>1. i - 1 \in 1 .. (Len(s) - 1) /\ ~ (i - 1 < k) /\ (i - 1) + 1 = i
      BY <2>2, <1>0
    <3> QED
      BY <3>1, <1>2, <1>3
  <2> QED
    BY <1>0, <2>1, <2>2
<1>6. Once(Without(s, k))
  BY <1>0, <1>2, <1>4 DEF Once
<1>7. ASSUME NEW c PROVE Has(Without(s, k), c) <=> Has(s, c) /\ c # s[k]
  BY <1>4, <1>5 DEF Has, Once
<1> QED
  BY <1>6, <1>7

\* How far k is from g, going up and around.
LEMMA Around ==
  ASSUME NEW M \in Nat \ {0}, NEW k \in 0 .. (M - 1), NEW g \in 0 .. (M - 1)
  PROVE  /\ (k - g) % M = IF k >= g THEN k - g ELSE k - g + M
         /\ (k + 1) % M = IF k = M - 1 THEN 0 ELSE k + 1
<1>1. \A x \in 0 .. (M - 1) : x % M = x
  OBVIOUS
<1>2. CASE k >= g
  BY <1>1, <1>2
<1>3. CASE k < g
  BY <1>3
<1>4. (k + 1) % M = IF k = M - 1 THEN 0 ELSE k + 1
  BY <1>1
<1> QED
  BY <1>2, <1>3, <1>4

LEMMA RingEmpty ==
  ASSUME iput' \in 0 .. (MAXNCLI - 1), iput' = iget', NEW k \in 0 .. (MAXNCLI - 1)
  PROVE  ~ Filled(k)'
<1>1. ASSUME NEW M \in Nat \ {0}, NEW g \in 0 .. (M - 1), NEW j \in 0 .. (M - 1)
      PROVE  ~ (j - g) % M < (g - g) % M
  <2>1. (j - g) % M = IF j >= g THEN j - g ELSE j - g + M
    BY Around
  <2>2. (g - g) % M = IF g >= g THEN g - g ELSE g - g + M
    BY Around
  <2> QED
    BY <2>1, <2>2
<1> QED
  BY <1>1, ConstantsAssumption DEF Filled

LEMMA RingPut ==
  ASSUME TypeOK, iput' = Succ(iput), Succ(iput) # iget, UNCHANGED iget
  PROVE  /\ ~ Filled(iput)
         /\ \A k \in 0 .. (MAXNCLI - 1) : Filled(k)' <=> Filled(k) \/ k = iput
<1>1. /\ MAXNCLI \in Nat \ {0} /\ iput \in 0 .. (MAXNCLI - 1) /\ iget \in 0 .. (MAXNCLI - 1)
      /\ iput' = IF iput = MAXNCLI - 1 THEN 0 ELSE iput + 1
  BY Basics, Around DEF TypeOK, Succ
<1>2. iput' \in 0 .. (MAXNCLI - 1) /\ iput' # iget
  BY <1>1
<1>3. \A k \in 0 .. (MAXNCLI - 1) :
        /\ Filled(k) <=> (IF k >= iget THEN k - iget ELSE k - iget + MAXNCLI)
                           < (IF iput >= iget THEN iput - iget ELSE iput - iget + MAXNCLI)
        /\ Filled(k)' <=> (IF k >= iget THEN k - iget ELSE k - iget + MAXNCLI)
                           < (IF iput' >= iget THEN iput' - iget ELSE iput' - iget + MAXNCLI)
  BY <1>1, <1>2, Around DEF Filled
<1>4. ~ Filled(iput)
  BY <1>1, <1>3
<1>5. ASSUME NEW k \in 0 .. (MAXNCLI - 1) PROVE Filled(k)' <=> Filled(k) \/ k = iput
  <2> HIDE DEF Filled
  <2>1. CASE iput = MAXNCLI - 1
    BY <2>1, <1>1, <1>2, <1>3
  <2>2. CASE iput # MAXNCLI - 1
    BY <2>2, <1>1, <1>2, <1>3
  <2> QED
    BY <2>1, <2>2
<1> QED
  BY <1>4, <1>5

LEMMA RingTake ==
  ASSUME TypeOK, iget # iput, iget' = Succ(iget), UNCHANGED iput
  PROVE  /\ Filled(iget)
         /\ \A k \in 0 .. (MAXNCLI - 1) : Filled(k)' <=> Filled(k) /\ k # iget
<1>1. /\ MAXNCLI \in Nat \ {0} /\ iput \in 0 .. (MAXNCLI - 1) /\ iget \in 0 .. (MAXNCLI - 1)
      /\ iget' = IF iget = MAXNCLI - 1 THEN 0 ELSE iget + 1
  BY Basics, Around DEF TypeOK, Succ
<1>2. iget' \in 0 .. (MAXNCLI - 1)
  BY <1>1
<1>3. \A k \in 0 .. (MAXNCLI - 1) :
        /\ Filled(k) <=> (IF k >= iget THEN k - iget ELSE k - iget + MAXNCLI)
                           < (IF iput >= iget THEN iput - iget ELSE iput - iget + MAXNCLI)
        /\ Filled(k)' <=> (IF k >= iget' THEN k - iget' ELSE k - iget' + MAXNCLI)
                           < (IF iput >= iget' THEN iput - iget' ELSE iput - iget' + MAXNCLI)
  BY <1>1, <1>2, Around DEF Filled
<1>4. Filled(iget)
  BY <1>1, <1>3
<1>5. ASSUME NEW k \in 0 .. (MAXNCLI - 1) PROVE Filled(k)' <=> Filled(k) /\ k # iget
  <2>1. CASE iget = MAXNCLI - 1
    BY <2>1, <1>1, <1>2, <1>3
  <2>2. CASE iget # MAXNCLI - 1
    BY <2>2, <1>1, <1>2, <1>3
  <2> QED
    BY <2>1, <2>2
<1> QED
  BY <1>4, <1>5

-----------------------------------------------------------------------------
(* What the steps have in common.                                           *)

\* OnePlace is kept, and the pool makes a step or none.
Simulated == OnePlace' /\ (Pool!Next \/ UNCHANGED Pool!pool)

\* Nothing ends that others need, and nothing begins to end.
Steady ==
  /\ UNCHANGED fixed
  /\ Alive(Main)' <=> Alive(Main)
  /\ ListenOpen' <=> ListenOpen
  /\ InOrder' <=> InOrder
  /\ MainOutlives'

\* A connection is where it was.
Unmoved(c) ==
  /\ Queued(c)' <=> Queued(c)
  /\ Passed(c)' <=> Passed(c)
  /\ InRing(c)' <=> InRing(c)
  /\ \A a \in Agents : hand'[a] = c <=> hand[a] = c
  /\ hand[Main] = c /\ design \notin Iterative => (pc'[Main] = "close" <=> pc[Main] = "close")
  /\ peer'[c] = "start" <=> peer[c] = "start"

LEMMA UnmovedSame ==
  ASSUME Steady, NEW c \in Conns, Unmoved(c)
  PROVE  Same(c) /\ (Apart(c) => Apart(c)')
<1>1. Main \in Agents
  BY DEF Agents
<1>2. ServedBy(c) = {} => (Waits(c)' <=> Waits(c))
  BY <1>1 DEF Waits, ServedBy, Unmoved, Steady
<1>3. Same(c)
  BY <1>2, StaysPut DEF Unmoved, Steady, fixed
<1>4. Apart(c) => Apart(c)'
  BY DEF Apart, InHand, Unmoved, Steady, fixed
<1> QED
  BY <1>3, <1>4

\* The lemmas above, also for the state after a step.
ServersFit ==
  /\ \A c \in Conns : \A a \in Agents :
       HandsOnce /\ a \in ServedBy(c) => ServerOf(c) = a /\ StageOf(c) = "served"
  /\ \A c \in Conns : ServedBy(c) = {} =>
       /\ ServerOf(c) = NoConn
       /\ StageOf(c) = IF Waits(c) THEN "waiting" ELSE IF peer[c] = "start" THEN "new" ELSE "finished"

LEMMA NextServers == ServersFit /\ ServersFit'
<1>1. ServersFit
  BY OneServer, NoServer DEF ServersFit
<1> QED
  BY <1>1, PTL

LEMMA HandsKeep ==
  ASSUME HandsOnce, UNCHANGED design, \A a \in Agents : hand'[a] \in {hand[a], NoConn},
         design \in Forking /\ pc[Main] = "close" => pc'[Main] = "close" \/ hand'[Main] = NoConn
  PROVE  HandsOnce'
<1>1. Main \in Agents /\ Workers \subseteq Agents
  BY DEF Agents
<1> QED
  BY <1>1 DEF HandsOnce

LEMMA HandsTake ==
  ASSUME HandsOnce, UNCHANGED design, NEW a \in Agents, NEW c \in Conns, hand'[a] = c,
         \A b \in Agents \ {a} : hand'[b] \in {hand[b], NoConn} /\ hand'[b] # c,
         design \in Forking /\ pc[Main] = "close" => pc'[Main] = "close" \/ hand'[Main] = NoConn
  PROVE  HandsOnce'
<1>1. Main \in Agents /\ Workers \subseteq Agents /\ Main \notin Workers
  BY DEF Agents, Main, Workers
<1>2. \A v, w \in Workers : hand'[v] = hand'[w] /\ hand'[v] # NoConn => v = w
  BY <1>1 DEF HandsOnce
<1>3. \A w \in Workers : hand'[w] = hand'[Main] /\ hand'[w] # NoConn => design \in Forking /\ pc'[Main] = "close"
  BY <1>1 DEF HandsOnce
<1> QED
  BY <1>2, <1>3 DEF HandsOnce

\* Nothing that the pool sees.
LEMMA QuietStep ==
  ASSUME OnePlace, Steady, UNCHANGED <<acceptQ, hand, inbox, clifd, iput, iget>>,
         \A c \in Conns : peer'[c] = "start" <=> peer[c] = "start",
         hand[Main] # NoConn /\ design \notin Iterative => (pc'[Main] = "close" <=> pc[Main] = "close")
  PROVE  Simulated
<1>1. ASSUME NEW c \in Conns PROVE Unmoved(c)
  BY <1>1, ConstantsAssumption DEF Unmoved, Queued, Passed, InRing, Filled
<1>2. QueueOnce' /\ PipesOnce' /\ RingOnce' /\ MainOutlives'
  BY DEF OnePlace, QueueOnce, PipesOnce, RingOnce, Filled, Steady
<1>3. HandsOnce'
  BY Families, HandsKeep DEF OnePlace, Steady, fixed
<1>4. OnePlace'
  BY <1>1, <1>2, <1>3, UnmovedSame DEF OnePlace
<1>5. UNCHANGED Pool!pool
  BY <1>1, UnmovedSame, PoolSleeps DEF Steady, fixed
<1> QED
  BY <1>4, <1>5 DEF Simulated

\* An agent has nothing in hand any more.
LEMMA FreeStep ==
  ASSUME TypeOK, OnePlace, Steady, UNCHANGED <<peer, acceptQ, inbox, clifd, iput, iget>>,
         NEW a \in Agents, hand' = [hand EXCEPT ![a] = NoConn],
         a # Main /\ design \notin Iterative /\ hand[Main] # NoConn => (pc'[Main] = "close" <=> pc[Main] = "close"),
         a = Main => pc[Main] = "close"
  PROVE  Simulated
<1>1. CASE hand[a] = NoConn
  <2>1. hand' = hand
    BY <1>1 DEF TypeOK
  <2> QED
    BY <1>1, <2>1, QuietStep
<1>2. CASE hand[a] # NoConn
  <2>0. PICK c \in Conns : hand[a] = c
    BY <1>2 DEF TypeOK
  <2>1. hand[a] = c /\ Main \in Agents /\ NoConn \notin Conns
    BY <2>0, Basics
  <2>2. \A b \in Agents : hand'[b] = IF b = a THEN NoConn ELSE hand[b]
    BY DEF TypeOK
  <2>3. ASSUME NEW d \in Conns \ {c} PROVE Unmoved(d)
    BY <2>1, <2>2 DEF Unmoved, Queued, Passed, InRing, Filled
  <2>4. /\ InHand(c) /\ Apart(c) /\ HandsOnce
        /\ (Queued(c)' <=> Queued(c)) /\ (Passed(c)' <=> Passed(c)) /\ (InRing(c)' <=> InRing(c))
    BY <2>1 DEF InHand, OnePlace, Queued, Passed, InRing, Filled
  <2>5. ~ Queued(c)' /\ ~ Passed(c)' /\ ~ InRing(c)' /\ peer'[c] # "start"
    BY <2>4 DEF Apart
  <2>6. HandsOnce'
    <3>1. design \in Forking /\ pc[Main] = "close" => pc'[Main] = "close" \/ hand'[Main] = NoConn
      BY <2>1, <2>2, Families
    <3> QED
      BY <2>2, <2>4, <3>1, HandsKeep DEF Steady, fixed
  <2>7. OnePlace'
    <3>1. QueueOnce' /\ PipesOnce' /\ RingOnce' /\ MainOutlives'
      BY DEF OnePlace, QueueOnce, PipesOnce, RingOnce, Filled, Steady
    <3>2. Apart(c)'
      BY <2>5 DEF Apart
    <3>3. \A d \in Conns \ {c} : Apart(d)'
      BY <2>3, UnmovedSame DEF OnePlace
    <3> QED
      BY <2>6, <3>1, <3>2, <3>3 DEF OnePlace
  <2>8. \A d \in Conns \ {c} : Same(d)
    BY <2>3, UnmovedSame
  <2>9. CASE a = Main => design \in Iterative
    <3>1. a \in ServedBy(c)
      BY <2>1, <2>9 DEF ServedBy
    <3>2. StageOf(c) = "served" /\ \A b \in ServedBy(c) : b = a
      BY <2>1, <2>4, <3>1, OneServer
    <3>3. ServedBy(c)' = {}
      BY <2>1, <2>2, <3>2 DEF ServedBy, Steady, fixed
    <3>4. ~ Waits(c)'
      <4>1. hand'[Main] = c => pc'[Main] = "close"
        <5>1. ASSUME hand'[Main] = c PROVE a # Main /\ hand[Main] = c /\ a \in Workers
          BY <5>1, <2>1, <2>2 DEF Agents
        <5> QED
          BY <5>1, <2>1, <2>4, Families DEF HandsOnce
      <4> QED
        BY <2>5, <4>1 DEF Waits
    <3>5. Gone(c)
      BY <2>1, <2>5, <3>3, <3>4, NextServers DEF ServersFit, Gone
    <3>6. Pool!Next
      BY <2>1, <2>8, <3>2, <3>5, PoolFinishes DEF Steady, fixed
    <3> QED
      BY <2>7, <3>6 DEF Simulated
  <2>10. CASE a = Main /\ design \notin Iterative
    <3>1. hand'[Main] # c /\ pc[Main] = "close"
      BY <2>1, <2>2, <2>10
    <3>2. ~ Waits(c) /\ ~ Waits(c)'
      BY <2>4, <2>5, <3>1 DEF Waits, Apart
    <3>3. Same(c)
      <4>1. \A b \in Agents : (b = Main => design \in Iterative) => (hand'[b] = c <=> hand[b] = c)
        BY <2>2, <2>10
      <4> QED
        BY <2>1, <3>2, <4>1, StaysPut DEF Steady, fixed
    <3>4. UNCHANGED Pool!pool
      BY <2>8, <3>3, PoolSleeps DEF Steady, fixed
    <3> QED
      BY <2>7, <3>4 DEF Simulated
  <2> QED
    BY <2>9, <2>10
<1> QED
  BY <1>1, <1>2

\* Connections are only given up.
LetGo ==
  /\ UNCHANGED <<fixed, acceptQ>>
  /\ \A a \in Agents : hand'[a] \in {hand[a], NoConn}
  /\ \A w \in Workers : inbox'[w] \in {inbox[w], <<>>}
  /\ UNCHANGED <<clifd, iput, iget>> \/ (iput' = iget' /\ iput' \in 0 .. (MAXNCLI - 1))
  /\ \A c \in Conns : peer'[c] = "start" => peer[c] = "start"
  /\ pc[Main] = "close" => pc'[Main] = "close" \/ hand'[Main] = NoConn
  /\ ListenOpen' => ListenOpen
  /\ Alive(Main)' => Alive(Main)
  /\ MainOutlives'

LEMMA LetGoShrinks ==
  ASSUME LetGo, NEW c \in Conns
  PROVE  /\ Queued(c)' <=> Queued(c)
         /\ Passed(c)' => Passed(c)
         /\ InRing(c)' => InRing(c)
         /\ InHand(c)' => InHand(c)
         /\ peer'[c] = "start" => peer[c] = "start"
<1>1. Queued(c)' <=> Queued(c)
  BY DEF LetGo, Queued
<1>2. Passed(c)' => Passed(c)
  <2>1. ASSUME NEW w \in Workers, NEW k \in DOMAIN inbox'[w], inbox'[w][k] = c PROVE Passed(c)
    <3>1. inbox'[w] = inbox[w]
      <4>1. inbox'[w] # <<>>
        BY <2>1
      <4> QED
        BY <4>1 DEF LetGo
    <3> QED
      BY <2>1, <3>1 DEF Passed
  <2> QED
    BY <2>1 DEF Passed
<1>3. InRing(c)' => InRing(c)
  <2>1. CASE UNCHANGED <<clifd, iput, iget>>
    BY <2>1 DEF InRing, Filled
  <2>2. CASE iput' = iget' /\ iput' \in 0 .. (MAXNCLI - 1)
    BY <2>2, RingEmpty DEF InRing
  <2> QED
    BY <2>1, <2>2 DEF LetGo
<1>4. InHand(c)' => InHand(c)
  BY ConstantsAssumption DEF LetGo, InHand
<1> QED
  BY <1>1, <1>2, <1>3, <1>4 DEF LetGo

LEMMA LetGoKeeps ==
  ASSUME OnePlace, LetGo
  PROVE  OnePlace'
<1>1. QueueOnce'
  BY DEF OnePlace, QueueOnce, LetGo
<1>2. PipesOnce'
  <2>1. \A w \in Workers : Once(<<>>) /\ \A c : ~ Has(<<>>, c)
    BY DEF Once, Has
  <2> QED
    BY <2>1 DEF OnePlace, PipesOnce, LetGo
<1>3. RingOnce'
  <2>1. CASE UNCHANGED <<clifd, iput, iget>>
    BY <2>1 DEF OnePlace, RingOnce, Filled
  <2>2. CASE iput' = iget' /\ iput' \in 0 .. (MAXNCLI - 1)
    BY <2>2, RingEmpty DEF RingOnce
  <2> QED
    BY <2>1, <2>2 DEF LetGo
<1>4. HandsOnce'
  BY HandsKeep DEF OnePlace, LetGo, fixed
<1>5. \A c \in Conns : Apart(c)'
  BY LetGoShrinks DEF OnePlace, Apart, LetGo, fixed
<1> QED
  BY <1>1, <1>2, <1>3, <1>4, <1>5 DEF OnePlace, LetGo

LEMMA LetGoFalls ==
  ASSUME OnePlace, LetGo, NEW c \in Conns
  PROVE  Same(c) \/ Gone(c)
<1>0. HandsOnce /\ Apart(c) /\ HandsOnce' /\ Main \in Agents /\ NoConn \notin Conns
  BY LetGoKeeps, ConstantsAssumption DEF OnePlace, Agents
<1>1. ServedBy(c)' \subseteq ServedBy(c)
  BY <1>0 DEF ServedBy, LetGo, fixed
<1>2. Waits(c)' => Waits(c)
  <2>1. hand'[Main] = c => hand[Main] = c
    BY <1>0 DEF LetGo
  <2>2. hand'[Main] = c /\ pc'[Main] # "close" => pc[Main] # "close"
    BY <1>0 DEF LetGo
  <2>3. /\ Queued(c)' <=> Queued(c)
        /\ Passed(c)' => Passed(c)
        /\ InRing(c)' => InRing(c)
        /\ ListenOpen' => ListenOpen
        /\ Alive(Main)' => Alive(Main)
    BY LetGoShrinks DEF LetGo
  <2> QED
    BY <2>1, <2>2, <2>3 DEF Waits
<1>3. ASSUME NEW a \in ServedBy(c), a \in ServedBy(c)' PROVE Same(c)
  <2>1. a \in Agents
    BY DEF ServedBy
  <2> QED
    BY <1>0, <1>3, <2>1, NextServers DEF ServersFit, Same
<1>4. ASSUME NEW a \in ServedBy(c), a \notin ServedBy(c)' PROVE Gone(c)
  <2>1. a \in Agents /\ hand[a] = c /\ (a = Main => design \in Iterative) /\ InHand(c)
    BY DEF ServedBy, InHand
  <2>2. \A b \in ServedBy(c) : b = a
    BY <1>0, <2>1, OneServer
  <2>3. ServedBy(c)' = {}
    BY <1>1, <1>4, <2>2
  <2>4. peer'[c] # "start"
    BY <1>0, <2>1 DEF Apart, LetGo
  <2>5. ~ Waits(c)'
    <3>1. ~ Queued(c)' /\ ~ Passed(c)' /\ ~ InRing(c)'
      BY <1>0, <2>1, LetGoShrinks DEF Apart
    <3>2. hand'[Main] = c => pc'[Main] = "close"
      <4>1. hand'[a] = NoConn
        BY <1>4, <2>1 DEF ServedBy, LetGo, fixed
      <4>2. ASSUME hand'[Main] = c PROVE hand[Main] = c /\ a \in Workers
        BY <1>0, <2>1, <4>1, <4>2 DEF LetGo, Agents
      <4>3. ASSUME hand'[Main] = c PROVE pc[Main] = "close"
        BY <1>0, <2>1, <4>2, <4>3 DEF HandsOnce
      <4> QED
        BY <1>0, <4>3 DEF LetGo
    <3> QED
      BY <3>1, <3>2 DEF Waits
  <2> QED
    BY <2>3, <2>4, <2>5, NextServers DEF ServersFit, Gone
<1>5. CASE ServedBy(c) = {}
  <2>1. ServedBy(c)' = {}
    BY <1>1, <1>5
  <2>2. /\ ServerOf(c) = NoConn /\ ServerOf(c)' = NoConn
        /\ StageOf(c) = IF Waits(c) THEN "waiting" ELSE IF peer[c] = "start" THEN "new" ELSE "finished"
        /\ StageOf(c)' = IF Waits(c)' THEN "waiting" ELSE IF peer'[c] = "start" THEN "new" ELSE "finished"
    BY <1>5, <2>1, NextServers DEF ServersFit
  <2>3. Waits(c) => peer[c] # "start"
    BY <1>0 DEF Waits, Apart, InHand
  <2>4. peer'[c] = "start" => peer[c] = "start"
    BY DEF LetGo
  <2> QED
    BY <1>2, <2>2, <2>3, <2>4 DEF Same, Gone
<1> QED
  BY <1>3, <1>4, <1>5

\* The end of the server.
LEMMA StopStep ==
  ASSUME OnePlace, LetGo, ~ InOrder'
  PROVE  Simulated
BY LetGoKeeps, LetGoFalls, PoolStops DEF Simulated, LetGo, fixed

\* An agent begins to serve a connection that waited.
LEMMA ServeStep ==
  ASSUME OnePlace, OnePlace', Steady, NEW c \in Conns, NEW a \in Agents, a = Main => design \in Iterative,
         hand[a] = NoConn, hand'[a] = c, Waits(c),
         \A b \in Agents : hand[b] = c => b = Main /\ design \notin Iterative,
         \A d \in Conns \ {c} : Unmoved(d)
  PROVE  Simulated
<1>1. ServedBy(c) = {}
  BY DEF ServedBy
<1>2. StageOf(c) = "waiting"
  BY <1>1, NoServer
<1>3. a \in ServedBy(c)'
  BY DEF ServedBy, Steady, fixed
<1>4. StageOf(c)' = "served" /\ ServerOf(c)' = a
  BY <1>3, NextServers DEF ServersFit, OnePlace
<1>5. \A d \in Conns : ServerOf(d) # a
  BY Idle DEF OnePlace
<1>6. Pool!Next
  BY <1>2, <1>4, <1>5, UnmovedSame, PoolServes DEF Steady, fixed
<1> QED
  BY <1>6 DEF Simulated

\* A connection waits elsewhere.
LEMMA WaitStep ==
  ASSUME OnePlace', Steady, NEW c \in Conns, ServedBy(c) = {}, ServedBy(c)' = {}, Waits(c), Waits(c)',
         \A d \in Conns \ {c} : Unmoved(d)
  PROVE  Simulated
<1>1. Same(c)
  BY NextServers DEF ServersFit, Same
<1>2. UNCHANGED Pool!pool
  BY <1>1, UnmovedSame, PoolSleeps DEF Steady, fixed
<1> QED
  BY <1>2 DEF Simulated

\* Places at which an agent has ended or has to end.
Ends == Dead \cup {"kill", "dying"}

LEMMA SteadyMove ==
  ASSUME MainOutlives, UNCHANGED fixed,
         \A b \in Agents :
           \/ pc'[b] = pc[b]
           \/ pc[b] \notin Ends /\ pc'[b] \notin Ends
           \/ b # Main /\ design # "serv05" /\ (design \in Threaded \cup Preforked => Alive(Main))
  PROVE  Steady
<1>0. Main \in Agents /\ Workers \subseteq Agents /\ Main \notin Workers /\ design' = design
  BY DEF Agents, Main, Workers, fixed
<1>1. (Alive(Main)' <=> Alive(Main)) /\ (pc'[Main] = "kill" <=> pc[Main] = "kill")
  BY <1>0 DEF Alive, Ends
<1>2. ASSUME NEW w \in Workers, design = "serv05" \/ (design \in Threaded \cup Preforked /\ ~ Alive(Main))
      PROVE  (Alive(w)' <=> Alive(w)) /\ (pc'[w] = "dying" <=> pc[w] = "dying")
  BY <1>0, <1>2 DEF Alive, Ends
<1>3. MainOutlives'
  BY <1>0, <1>1, <1>2 DEF MainOutlives
<1>4. ListenOpen' <=> ListenOpen
  BY <1>0, <1>1, <1>2 DEF ListenOpen
<1>5. InOrder' <=> InOrder
  BY <1>0, <1>1, <1>2, <1>4 DEF InOrder
<1> QED
  BY <1>1, <1>3, <1>4, <1>5 DEF Steady

LEMMA QuietMove ==
  ASSUME TypeOK, OnePlace, UNCHANGED <<fixed, acceptQ, hand, inbox, clifd, iput, iget>>,
         \A c \in Conns : peer'[c] = "start" <=> peer[c] = "start",
         NEW a \in Agents, NEW p, pc' = [pc EXCEPT ![a] = p], pc[a] \notin Ends, p \notin Ends,
         a = Main /\ design \notin Iterative => pc[a] # "close" /\ p # "close"
  PROVE  Simulated
<1>1. \A b \in Agents : pc'[b] = IF b = a THEN p ELSE pc[b]
  BY DEF TypeOK
<1>2. Steady
  BY <1>1, SteadyMove DEF OnePlace
<1>3. design \notin Iterative => (pc'[Main] = "close" <=> pc[Main] = "close")
  BY <1>1 DEF Agents
<1> QED
  BY <1>2, <1>3, QuietStep

LEMMA QuietPause ==
  ASSUME OnePlace, UNCHANGED <<fixed, pc, acceptQ, hand, inbox, clifd, iput, iget>>,
         \A c \in Conns : peer'[c] = "start" <=> peer[c] = "start"
  PROVE  Simulated
<1>1. Steady
  BY SteadyMove DEF OnePlace
<1> QED
  BY <1>1, QuietStep

LEMMA ExitStops ==
  ASSUME Typed, OnePlace, NEW a \in Agents, Exit(a),
         \/ a = Main /\ design \notin Preforked
         \/ design \in Threaded \cup Selecting \cup {"serv05"}
         \/ pc[Main] = "kill" /\ a # Main,
         UNCHANGED <<fixed, peer, acceptQ>>,
         \A w \in Workers : inbox'[w] \in {inbox[w], <<>>},
         UNCHANGED <<clifd, iput, iget>> \/ (iput' = iget' /\ iput' \in 0 .. (MAXNCLI - 1))
  PROVE  Simulated
<1>0. /\ Main \in Agents /\ Workers \subseteq Agents /\ Main \notin Workers /\ design' = design
      /\ design \in AllDesigns
  BY Basics DEF Agents, Main, Workers, fixed, Typed
<1>1. \A b \in Agents : (b = a \/ Process(a) = Process(b)) =>
        hand'[b] = NoConn /\ pc'[b] = (IF b = Main THEN "exit" ELSE "zombie") /\ pc'[b] \in Dead
  BY DEF Exit, Dead
<1>2. \A b \in Agents : ~ (b = a \/ Process(a) = Process(b)) => hand'[b] = hand[b] /\ pc'[b] = pc[b]
  BY DEF Exit
<1>3. design \in Threaded \cup Selecting => \A b \in Agents : Process(a) = Process(b)
  BY DEF Process
<1>4. \A b \in Agents : Alive(b)' => Alive(b)
  BY <1>1, <1>2 DEF Alive
<1>5. MainOutlives'
  <2>1. CASE design \in Threaded
    BY <2>1, <1>0, <1>1, <1>3 DEF MainOutlives, Alive
  <2>2. CASE design \in Preforked
    <3>1. a # Main /\ Process(Main) = Main /\ Process(a) = a
      BY <2>2, <1>0, Families, WhoseMainPlace DEF Process
    <3>2. pc'[Main] = pc[Main]
      BY <1>0, <1>2, <3>1
    <3> QED
      BY <1>0, <1>4, <3>2 DEF MainOutlives, OnePlace, Alive
  <2> QED
    BY <1>0, <2>1, <2>2 DEF MainOutlives
<1>6. ListenOpen' => ListenOpen
  BY <1>0, <1>4 DEF ListenOpen
<1>7. pc[Main] = "close" => pc'[Main] = "close" \/ hand'[Main] = NoConn
  BY <1>0, <1>1, <1>2
<1>8. LetGo
  BY <1>0, <1>1, <1>2, <1>4, <1>5, <1>6, <1>7 DEF LetGo
<1>9. ~ InOrder'
  <2>1. CASE a = Main /\ design \notin Preforked
    BY <2>1, <1>0, <1>1 DEF InOrder, ListenOpen, Alive
  <2>2. CASE design \in Threaded \cup Selecting
    BY <2>2, <1>0, <1>1, <1>3, Families DEF InOrder, ListenOpen, Alive
  <2>3. CASE design = "serv05" /\ a # Main
    BY <2>3, <1>0, <1>1 DEF InOrder, Alive, Agents
  <2>4. CASE pc[Main] = "kill" /\ a # Main
    <3>1. CASE Process(a) = Process(Main)
      BY <3>1, <1>0, <1>3, <2>2, <2>4, Families DEF Process
    <3>2. CASE Process(a) # Process(Main)
      BY <3>2, <2>4, <1>0, <1>2 DEF InOrder
    <3> QED
      BY <3>1, <3>2
  <2>5. design = "serv05" => design \notin Preforked
    BY Families
  <2> QED
    BY <2>1, <2>2, <2>3, <2>4, <2>5
<1> QED
  BY <1>8, <1>9, StopStep

LEMMA ExitFrees ==
  ASSUME Typed, OnePlace, NEW w \in Workers, Alive(w), design \in Forking \cup Preforked, Exit(w),
         UNCHANGED <<fixed, peer, acceptQ, inbox, clifd, iput, iget>>
  PROVE  Simulated
<1>0. /\ Main \in Agents /\ w \in Agents /\ w # Main
      /\ \A b \in Agents : (b = w \/ Process(w) = Process(b)) <=> b = w
  BY Families DEF Agents, Main, Workers, Process
<1>1. hand' = [hand EXCEPT ![w] = NoConn]
  <2>1. hand \in [Agents -> Conns \cup {NoConn}]
    BY DEF Typed, TypeOK
  <2>2. hand' = [b \in Agents |-> IF b = w \/ Process(w) = Process(b) THEN NoConn ELSE hand[b]]
    BY DEF Exit
  <2>3. hand' = [b \in Agents |-> IF b = w THEN NoConn ELSE hand[b]]
    BY <1>0, <2>2
  <2> QED
    BY <1>0, <2>1, <2>3
<1>2. \A b \in Agents \ {w} : pc'[b] = pc[b]
  BY <1>0 DEF Exit
<1>3. design # "serv05" /\ (design \in Threaded \cup Preforked => Alive(Main))
  BY Families DEF OnePlace, MainOutlives
<1>4. Steady
  BY <1>0, <1>2, <1>3, SteadyMove DEF OnePlace
<1> QED
  BY <1>0, <1>1, <1>2, <1>4, FreeStep DEF Typed

-----------------------------------------------------------------------------
(* Clients, accept() and web_child() as steps of the pool.                  *)

\* A connection comes into the hand of one agent.
LEMMA TakeKeeps ==
  ASSUME OnePlace, Steady, NEW a \in Agents, NEW c \in Conns, hand'[a] = c,
         \A b \in Agents \ {a} : hand'[b] \in {hand[b], NoConn} /\ hand'[b] # c,
         design \in Forking /\ pc[Main] = "close" => pc'[Main] = "close" \/ hand'[Main] = NoConn,
         QueueOnce', PipesOnce', RingOnce',
         ~ Queued(c)', ~ Passed(c)', ~ InRing(c)', peer'[c] # "start",
         \A d \in Conns \ {c} : Unmoved(d)
  PROVE  OnePlace'
<1>1. HandsOnce'
  BY HandsTake DEF OnePlace, Steady, fixed
<1>2. Apart(c)'
  BY DEF Apart
<1>3. \A d \in Conns \ {c} : Apart(d)'
  BY UnmovedSame DEF OnePlace
<1> QED
  BY <1>1, <1>2, <1>3 DEF OnePlace, Steady

LEMMA ConnectSim ==
  ASSUME Typed, OnePlace, NEW c \in Conns, Connect(c)
  PROVE  Simulated
<1>1. /\ peer[c] = "start" /\ ListenOpen /\ acceptQ' = Append(acceptQ, c) /\ peer'[c] = "connected"
      /\ \A d \in Conns \ {c} : peer'[d] = peer[d]
      /\ UNCHANGED <<fixed, pc, hand, inbox, clifd, iput, iget>>
  BY DEF Connect, Typed, TypeOK, others, pipes, ring
<1>2. Steady
  BY <1>1, SteadyMove DEF OnePlace
<1>3. ~ Queued(c) /\ ~ InHand(c) /\ ~ Passed(c) /\ ~ InRing(c)
  BY <1>1 DEF OnePlace, Apart
<1>4. /\ \A d \in Conns : Queued(d)' <=> Queued(d) \/ d = c
      /\ QueueOnce'
  <2>1. acceptQ \in Seq(Conns)
    BY DEF Typed, TypeOK
  <2>2. \A d \in Conns : Has(acceptQ', d) <=> Has(acceptQ, d) \/ d = c
    BY <1>1, <2>1, AppendHas
  <2>3. Once(acceptQ')
    BY <1>1, <1>3, <2>1, AppendHas DEF OnePlace, QueueOnce, Queued, Has
  <2> QED
    BY <2>2, <2>3 DEF Queued, Has, QueueOnce
<1>5. \A d \in Conns : (Passed(d)' <=> Passed(d)) /\ (InRing(d)' <=> InRing(d))
  BY <1>1 DEF Passed, InRing, Filled
<1>6. ASSUME NEW d \in Conns \ {c} PROVE Unmoved(d)
  BY <1>1, <1>4, <1>5 DEF Unmoved
<1>7. OnePlace'
  <2>1. PipesOnce' /\ RingOnce' /\ HandsOnce'
    BY <1>1, HandsKeep DEF OnePlace, PipesOnce, RingOnce, Filled, fixed
  <2>2. Apart(c)'
    BY <1>1, <1>3, <1>5 DEF Apart, InHand
  <2>3. \A d \in Conns \ {c} : Apart(d)'
    BY <1>2, <1>6, UnmovedSame DEF OnePlace
  <2> QED
    BY <1>2, <1>4, <2>1, <2>2, <2>3 DEF OnePlace, Steady
<1>8. Pool!Next
  <2>1. ServedBy(c) = {} /\ ServedBy(c)' = {}
    BY <1>1, <1>3 DEF ServedBy, InHand, fixed
  <2>2. Main \in Agents
    BY DEF Agents
  <2>3. ~ Waits(c) /\ Waits(c)'
    BY <1>2, <1>1, <1>3, <1>4, <2>2 DEF Waits, InHand, Steady
  <2>4. StageOf(c) = "new" /\ StageOf(c)' = "waiting" /\ ServerOf(c)' = ServerOf(c)
    BY <1>1, <2>1, <2>3, NextServers DEF ServersFit
  <2> QED
    BY <1>2, <1>6, <2>4, UnmovedSame, PoolArrives DEF Steady, fixed
<1> QED
  BY <1>7, <1>8 DEF Simulated

LEMMA ResetSim ==
  ASSUME Typed, OnePlace, NEW c \in Conns, ResetConn(c)
  PROVE  Simulated
<1>1. /\ peer[c] = "connected" /\ kind[c] = "reset" /\ peer'[c] = "closed"
      /\ \A d \in Conns \ {c} : peer'[d] = peer[d]
      /\ UNCHANGED <<fixed, pc, hand, inbox, clifd, iput, iget>>
  BY DEF ResetConn, Typed, TypeOK, others, pipes, ring
<1>2. Steady
  BY <1>1, SteadyMove DEF OnePlace
<1>3. CASE UNCHANGED acceptQ
  BY <1>1, <1>3, QuietPause
<1>4. ASSUME NEW k \in DOMAIN acceptQ, acceptQ[k] = c, acceptQ' = Without(acceptQ, k) PROVE Simulated
  <2>1. Queued(c) /\ ~ InHand(c) /\ ~ Passed(c) /\ ~ InRing(c)
    BY <1>4 DEF Queued, OnePlace, Apart
  <2>2. (\A d \in Conns : Queued(d)' <=> Queued(d) /\ d # c) /\ QueueOnce'
    <3>1. acceptQ \in Seq(Conns) /\ Once(acceptQ)
      BY DEF Typed, TypeOK, OnePlace, QueueOnce
    <3>2. \A d \in Conns : Has(acceptQ', d) <=> Has(acceptQ, d) /\ d # c
      BY <1>4, <3>1, WithoutHas
    <3>3. Once(acceptQ')
      BY <1>4, <3>1, WithoutHas
    <3> QED
      BY <3>2, <3>3 DEF Queued, Has, QueueOnce
  <2>3. \A d \in Conns : (Passed(d)' <=> Passed(d)) /\ (InRing(d)' <=> InRing(d))
    BY <1>1 DEF Passed, InRing, Filled
  <2>4. ASSUME NEW d \in Conns \ {c} PROVE Unmoved(d)
    BY <1>1, <2>2, <2>3 DEF Unmoved
  <2>5. OnePlace'
    <3>1. PipesOnce' /\ RingOnce' /\ HandsOnce'
      BY <1>1, HandsKeep DEF OnePlace, PipesOnce, RingOnce, Filled, fixed
    <3>2. Apart(c)'
      BY <1>1, <2>1, <2>2, <2>3 DEF Apart, InHand
    <3>3. \A d \in Conns \ {c} : Apart(d)'
      BY <1>2, <2>4, UnmovedSame DEF OnePlace
    <3> QED
      BY <1>2, <2>2, <3>1, <3>2, <3>3 DEF OnePlace, Steady
  <2>6. ServedBy(c) = {} /\ ServedBy(c)' = {} /\ Main \in Agents
    BY <1>1, <2>1 DEF ServedBy, InHand, fixed, Agents
  <2>7. (Waits(c) <=> ListenOpen) /\ ~ Waits(c)'
    BY <1>1, <2>1, <2>2, <2>3, <2>6 DEF Waits, InHand
  <2>8. /\ ServerOf(c)' = ServerOf(c) /\ StageOf(c)' = "finished"
        /\ StageOf(c) = IF ListenOpen THEN "waiting" ELSE "finished"
    BY <1>1, <2>6, <2>7, NextServers DEF ServersFit
  <2>9. CASE ListenOpen
    <3>1. Pool!Next
      BY <1>1, <1>2, <2>4, <2>8, <2>9, UnmovedSame, PoolAborts DEF Steady, fixed
    <3> QED
      BY <2>5, <3>1 DEF Simulated
  <2>10. CASE ~ ListenOpen
    <3>1. UNCHANGED Pool!pool
      BY <1>2, <2>4, <2>8, <2>10, UnmovedSame, PoolSleeps DEF Steady, fixed, Same
    <3> QED
      BY <2>5, <3>1 DEF Simulated
  <2> QED
    BY <2>9, <2>10
<1> QED
  BY <1>3, <1>4 DEF ResetConn

LEMMA ClientSim ==
  ASSUME Typed, OnePlace, NEW c \in Conns, ClientStep(c)
  PROVE  Simulated
<1>1. CASE WriteRequest(c) \/ CloseConn(c)
  <2>1. UNCHANGED <<fixed, pc, acceptQ, hand, inbox, clifd, iput, iget>>
    BY <1>1 DEF WriteRequest, CloseConn, kernel, others, pipes, ring
  <2>2. \A d \in Conns : peer'[d] = "start" <=> peer[d] = "start"
    BY <1>1 DEF WriteRequest, CloseConn, Typed, TypeOK
  <2> QED
    BY <2>1, <2>2, QuietPause
<1>2. CASE ClientFails(c)
  <2>1. UNCHANGED <<fixed, pc, acceptQ, hand, inbox, clifd, iput, iget>>
    BY <1>2 DEF ClientFails, kernel, others, pipes, ring
  <2>2. \A d \in Conns : peer'[d] = IF d = c THEN "failed" ELSE peer[d]
    BY <1>2 DEF ClientFails, Typed, TypeOK
  <2>3. CASE peer[c] # "start"
    <3>1. \A d \in Conns : peer'[d] = "start" <=> peer[d] = "start"
      BY <2>2, <2>3
    <3> QED
      BY <2>1, <3>1, QuietPause
  <2>4. CASE peer[c] = "start"
    <3>1. ~ ListenOpen
      BY <1>2, <2>4 DEF ClientFails
    <3>2. Steady
      BY <2>1, SteadyMove DEF OnePlace
    <3>3. ~ InOrder'
      BY <3>1, <3>2 DEF Steady, InOrder
    <3>4. LetGo
      BY <2>1, <2>2, <3>2 DEF LetGo, Steady
    <3> QED
      BY <3>3, <3>4, StopStep
  <2> QED
    BY <2>3, <2>4
<1> QED
  BY <1>1, <1>2, ConnectSim, ResetSim DEF ClientStep

\* An agent at one of these places has nothing in hand.
LEMMA EmptyHanded ==
  ASSUME Typed, NEW a \in Agents, design \notin Selecting \/ a = Main,
         pc[a] \in {"none", "accept", "select", "lock", "test", "idle", "scan"}
  PROVE  hand[a] = NoConn
<1>1. CASE a = Main
  BY <1>1 DEF Typed, HandsFit, MainHolds
<1>2. CASE a # Main
  BY <1>2 DEF Typed, HandsFit, Agents, WorkerHolds
<1> QED
  BY <1>1, <1>2

LEMMA AcceptSim ==
  ASSUME Typed, OnePlace, NEW a \in Agents, Accept(a)
  PROVE  Simulated
<1>0. design \in AllDesigns /\ a \in {Main} \cup Workers /\ Main \in Agents
  BY Basics DEF Typed, Agents
<1>1. PICK c \in Conns : c = Head(acceptQ)
  BY QueueMoves DEF Typed, TypeOK, Accept
<1>2. /\ pc[a] = "accept" /\ acceptQ # <<>> /\ acceptQ' = Tail(acceptQ)
      /\ hand'[a] = c /\ \A b \in Agents \ {a} : hand'[b] = hand[b]
      /\ pc'[a] = AfterAccept(a) /\ \A b \in Agents \ {a} : pc'[b] = pc[b]
      /\ UNCHANGED <<fixed, peer, inbox, clifd, iput, iget>>
  BY <1>1 DEF Accept, Typed, TypeOK, clients, others, pipes, ring
<1>3. /\ \A d \in Conns : Queued(d)' <=> Queued(d) /\ d # c
      /\ Queued(c) /\ QueueOnce'
  <2>1. acceptQ \in Seq(Conns) /\ Once(acceptQ)
    BY DEF Typed, TypeOK, OnePlace, QueueOnce
  <2>2. (\A d \in Conns : Has(acceptQ', d) <=> Has(acceptQ, d) /\ d # c) /\ Has(acceptQ, c) /\ Once(acceptQ')
    BY <1>1, <1>2, <2>1, TailHas
  <2> QED
    BY <2>2 DEF Queued, Has, QueueOnce
<1>4. ~ InHand(c) /\ ~ Passed(c) /\ ~ InRing(c) /\ peer[c] # "start"
  BY <1>3 DEF OnePlace, Apart
<1>5. \A d \in Conns : (Passed(d)' <=> Passed(d)) /\ (InRing(d)' <=> InRing(d))
  BY <1>2 DEF Passed, InRing, Filled
<1>6. hand[a] = NoConn
  <2>1. a # Main => design \notin Selecting
    BY <1>0, <1>2, WhoseWorkerPlace, Families DEF Typed, PlacesFit
  <2> QED
    BY <1>2, <2>1, EmptyHanded
<1>7. AfterAccept(a) \notin Ends
  <2>1. CASE a = Main
    <3>1. AfterAccept(a) \in MainHolds
      BY <2>1, <1>0, <1>2, Loops DEF Typed, PlacesFit
    <3> QED
      BY <3>1 DEF MainHolds, Ends, Dead
  <2>2. CASE a # Main
    <3>1. AfterAccept(a) \in WorkerPlaces \cap WorkerHolds /\ pc[a] \in WorkerPlaces
      BY <2>2, <1>0, <1>2, Loops DEF Typed, PlacesFit
    <3>2. design # "serv05"
      BY <3>1, <1>0, <1>2, WhoseWorkerPlace, Families
    <3>3. AfterAccept(a) # "dying"
      BY <3>1, <3>2, <1>0, WhoseWorkerPlace
    <3> QED
      BY <3>1, <3>3 DEF WorkerHolds, Ends, Dead
  <2> QED
    BY <2>1, <2>2
<1>8. Steady
  <2>1. "accept" \notin Ends
    BY DEF Ends, Dead
  <2> QED
    BY <1>2, <1>7, <2>1, SteadyMove DEF OnePlace
<1>9. ListenOpen
  <2>1. Alive(a)
    BY <1>2 DEF Alive, Dead
  <2>2. CASE a # Main
    <3>1. design \in Preforked \cup {"serv07", "serv09"}
      BY <1>0, <1>2, <2>2, WhoseWorkerPlace DEF Typed, PlacesFit
    <3> QED
      BY <1>0, <2>1, <2>2, <3>1, Families DEF ListenOpen, MainOutlives, OnePlace
  <2> QED
    BY <2>1, <2>2 DEF ListenOpen
<1>10. \A d \in Conns \ {c} : Unmoved(d)
  <2>1. ASSUME NEW d \in Conns \ {c} PROVE Unmoved(d)
    <3>1. \A b \in Agents : hand'[b] = d <=> hand[b] = d
      BY <1>2, <1>6, ConstantsAssumption
    <3>2. hand[Main] = d => pc'[Main] = pc[Main]
      BY <1>0, <1>2, <1>6, ConstantsAssumption
    <3> QED
      BY <1>2, <1>3, <1>5, <3>1, <3>2 DEF Unmoved
  <2> QED
    BY <2>1
<1>11. OnePlace'
  <2>1. \A b \in Agents \ {a} : hand'[b] # c
    BY <1>2, <1>4 DEF InHand
  <2>2. PipesOnce' /\ RingOnce'
    BY <1>2 DEF OnePlace, PipesOnce, RingOnce, Filled
  <2>3. pc[Main] = "close" => pc'[Main] = "close"
    BY <1>0, <1>2
  <2>4. ~ Queued(c)' /\ ~ Passed(c)' /\ ~ InRing(c)' /\ peer'[c] # "start" /\ QueueOnce'
    BY <1>2, <1>3, <1>4, <1>5
  <2>5. hand'[a] = c /\ \A b \in Agents \ {a} : hand'[b] \in {hand[b], NoConn}
    BY <1>2
  <2> QED
    BY <1>8, <1>10, <2>1, <2>2, <2>3, <2>4, <2>5, TakeKeeps
<1>12. Waits(c)
  BY <1>3, <1>9 DEF Waits
<1>13. \A b \in Agents : hand[b] # c
  BY <1>4 DEF InHand
<1>14. CASE a = Main => design \in Iterative
  BY <1>2, <1>6, <1>8, <1>10, <1>11, <1>12, <1>13, <1>14, ServeStep
<1>15. CASE a = Main /\ design \notin Iterative
  <2>1. ServedBy(c) = {} /\ ServedBy(c)' = {}
    BY <1>2, <1>8, <1>13, <1>15 DEF ServedBy, Steady, fixed
  <2>2. AfterAccept(Main) # "close"
    <3>1. CASE design \in Forking
      BY <3>1 DEF Forking, AfterAccept, MainLoop, serv01, tcpserv02
    <3>2. CASE design \notin Forking
      <4>1. AfterAccept(Main) \in MainPlaces
        BY <1>0, <1>2, <1>15, Loops DEF Typed, PlacesFit
      <4> QED
        BY <1>0, <1>15, <3>2, <4>1, WhoseMainPlace
    <3> QED
      BY <3>1, <3>2
  <2>3. Waits(c)'
    BY <1>2, <1>15, <2>2 DEF Waits
  <2> QED
    BY <1>8, <1>10, <1>11, <1>12, <2>1, <2>3, WaitStep
<1> QED
  BY <1>14, <1>15

LEMMA WebChildSim ==
  ASSUME Typed, OnePlace, NEW a \in Agents, WebChild(a)
  PROVE  Simulated
<1>0. design \in AllDesigns /\ a \in {Main} \cup Workers /\ Main \in Agents /\ Main \notin Workers
  BY Basics DEF Typed, Agents
<1>1. pc[a] \in {"serve", "close"} /\ pc[a] \notin Ends /\ Alive(a)
  BY DEF WebChild, Answer, EndOfConn, Refuse, CloseDone, Ends, Dead, Alive
<1>2. a = Main => design \in Iterative \cup Forking
  BY <1>0, <1>1, WhoseMainPlace DEF Typed, PlacesFit
<1>3. a # Main => design \notin Iterative \cup Selecting
  BY <1>0, <1>1, WhoseWorkerPlace DEF Typed, PlacesFit
<1>4. a = Main /\ pc[a] = "serve" => design \in Iterative
  BY <1>0, WhoseMainPlace DEF Typed, PlacesFit
<1>5. CASE Answer(a)
  <2>1. \A c \in Conns : peer'[c] = "start" <=> peer[c] = "start"
    <3>1. ASSUME NEW c \in Conns PROVE peer'[c] = "start" <=> peer[c] = "start"
      <4>1. CASE hand[a] = c
        <5>1. peer[c] # "start"
          BY <4>1 DEF OnePlace, Apart, InHand
        <5>2. peer'[c] = "answered"
          BY <1>5, <4>1 DEF Answer, Typed, TypeOK
        <5> QED
          BY <5>1, <5>2
      <4>2. CASE hand[a] # c
        BY <1>5, <4>2 DEF Answer, Typed, TypeOK
      <4> QED
        BY <4>1, <4>2
    <3> QED
      BY <3>1
  <2> QED
    BY <1>5, <2>1, QuietPause DEF Answer, kernel, others, pipes, ring
<1>6. CASE EndOfConn(a)
  <2>1. "close" \notin Ends
    BY DEF Ends, Dead
  <2>2. UNCHANGED <<fixed, peer, acceptQ, hand, inbox, clifd, iput, iget>>
    BY <1>6 DEF EndOfConn, clients, kernel, others, pipes, ring
  <2> QED
    BY <1>1, <1>4, <1>6, <2>1, <2>2, QuietMove DEF EndOfConn, Typed
<1>7. CASE Refuse(a)
  <2>0. pc[a] = "serve" /\ UNCHANGED <<fixed, peer, acceptQ, inbox, clifd, iput, iget>>
    BY <1>7 DEF Refuse, clients, ring
  <2>1. CASE design = "serv05"
    <3>1. a \in Workers
      BY <1>0, <1>2, <2>1, Families
    <3>2. /\ UNCHANGED hand /\ \A b \in Agents : pc'[b] = IF b = a THEN "dying" ELSE pc[b]
      BY <1>7, <2>1 DEF Refuse, Typed, TypeOK
    <3>3. ~ InOrder'
      BY <2>0, <2>1, <3>1, <3>2, <1>0 DEF InOrder, fixed
    <3>4. \A b \in Agents : Alive(b)' <=> Alive(b)
      BY <1>1, <3>2 DEF Alive, Dead
    <3>5. LetGo
      <4>1. MainOutlives'
        BY <2>0, <2>1, Families DEF MainOutlives, fixed
      <4>2. ListenOpen' => ListenOpen
        BY <1>0, <2>0, <2>1, <3>4, Families DEF ListenOpen, fixed
      <4>3. pc'[Main] = pc[Main]
        BY <1>0, <3>1, <3>2
      <4> QED
        BY <1>0, <2>0, <3>2, <3>4, <4>1, <4>2, <4>3 DEF LetGo
    <3> QED
      BY <3>3, <3>5, StopStep
  <2>2. CASE design # "serv05" /\ (a = Main \/ design \in Threaded)
    <3>1. a = Main => design \notin Preforked
      BY <1>2, Families
    <3> QED
      BY <1>7, <2>0, <2>2, <3>1, ExitStops DEF Refuse
  <2>3. CASE design # "serv05" /\ a # Main /\ design \notin Threaded
    <3>1. design \in Forking \cup Preforked
      BY <1>0, <1>3, <2>3 DEF AllDesigns
    <3> QED
      BY <1>0, <1>1, <1>7, <2>0, <2>3, <3>1, ExitFrees DEF Refuse
  <2> QED
    BY <2>1, <2>2, <2>3
<1>8. CASE CloseDone(a)
  <2>0. pc[a] = "close" /\ UNCHANGED <<fixed, peer, acceptQ, inbox, clifd, iput, iget>>
    BY <1>8 DEF CloseDone, clients, pipes, ring
  <2>1. CASE a # Main /\ design \in Forking
    BY <1>0, <1>1, <1>8, <2>0, <2>1, ExitFrees DEF CloseDone
  <2>2. CASE ~ (a # Main /\ design \in Forking)
    <3>1. /\ hand' = [hand EXCEPT ![a] = NoConn]
          /\ pc' = [pc EXCEPT ![a] = AfterClose(a)]
      BY <1>8, <2>2 DEF CloseDone
    <3>2. \A b \in Agents : pc'[b] = IF b = a THEN AfterClose(a) ELSE pc[b]
      BY <3>1 DEF Typed, TypeOK
    <3>3. AfterClose(a) \notin Ends \/ (a # Main /\ design # "serv05" /\ (design \in Threaded \cup Preforked => Alive(Main)))
      <4>1. CASE a = Main
        <5>1. AfterClose(a) \in MainPlaces \ {"exit", "kill"}
          BY <4>1, <1>0, Loops DEF AfterClose, Start
        <5> QED
          BY <1>0, <5>1, WhoseMainPlace DEF Ends, Dead
      <4>2. CASE a # Main /\ design = "serv05"
        BY <4>2 DEF AfterClose, WorkerLoop, child05, Ends, Dead
      <4>3. CASE a # Main /\ design # "serv05"
        BY <4>3, <1>0, <1>1 DEF OnePlace, MainOutlives
      <4> QED
        BY <4>1, <4>2, <4>3
    <3>4. Steady
      BY <1>1, <2>0, <3>2, <3>3, SteadyMove DEF OnePlace
    <3>5. a # Main => pc'[Main] = pc[Main]
      BY <1>0, <3>2
    <3> QED
      BY <2>0, <3>1, <3>4, <3>5, FreeStep DEF Typed
  <2> QED
    BY <2>1, <2>2
<1> QED
  BY <1>5, <1>6, <1>7, <1>8 DEF WebChild

-----------------------------------------------------------------------------
(* The steps of each design as steps of the pool.                           *)

\* main() has a connection at these places, and nobody else has it.
LEMMA MainHolding ==
  ASSUME Typed, OnePlace, pc[Main] \in MainHolds, pc[Main] # "close"
  PROVE  /\ hand[Main] \in Conns
         /\ \A b \in Agents : hand[b] = hand[Main] => b = Main
         /\ ~ Queued(hand[Main]) /\ ~ Passed(hand[Main]) /\ ~ InRing(hand[Main])
         /\ peer[hand[Main]] # "start"
         /\ Waits(hand[Main])
<1>1. Main \in Agents /\ pc[Main] # "kill"
  BY DEF Agents, MainHolds
<1>2. hand[Main] \in Conns
  BY <1>1 DEF Typed, TypeOK, HandsFit
<1>3. \A b \in Agents : hand[b] = hand[Main] => b = Main
  BY <1>2, ConstantsAssumption DEF OnePlace, HandsOnce, Agents
<1> QED
  BY <1>1, <1>2, <1>3 DEF OnePlace, Apart, InHand, Waits

\* main() gives a connection to a thread or puts it into its array.
LEMMA HandOver ==
  ASSUME Typed, OnePlace, Steady, NEW w \in Workers, design \notin Iterative \cup Forking,
         pc[Main] \in MainHolds, pc[Main] # "close", hand[w] = NoConn,
         hand' = [hand EXCEPT ![w] = hand[Main], ![Main] = NoConn],
         UNCHANGED <<peer, acceptQ, inbox, clifd, iput, iget>>
  PROVE  Simulated
<1>1. PICK c \in Conns : c = hand[Main]
  BY MainHolding
<1>2. /\ \A b \in Agents : hand[b] = c => b = Main
      /\ ~ Queued(c) /\ ~ Passed(c) /\ ~ InRing(c) /\ peer[c] # "start" /\ Waits(c)
  BY <1>1, MainHolding
<1>3. w \in Agents /\ w # Main /\ Main \in Agents /\ NoConn \notin Conns
  BY Basics DEF Typed
<1>4. hand'[w] = c /\ hand'[Main] = NoConn /\ \A b \in Agents \ {w, Main} : hand'[b] = hand[b]
  BY <1>1, <1>3 DEF Typed, TypeOK
<1>5. \A d \in Conns : (Queued(d)' <=> Queued(d)) /\ (Passed(d)' <=> Passed(d)) /\ (InRing(d)' <=> InRing(d))
  BY DEF Queued, Passed, InRing, Filled
<1>6. ASSUME NEW d \in Conns \ {c} PROVE Unmoved(d)
  BY <1>1, <1>3, <1>4, <1>5 DEF Unmoved
<1>7. OnePlace'
  <2>1. QueueOnce' /\ PipesOnce' /\ RingOnce'
    BY DEF OnePlace, QueueOnce, PipesOnce, RingOnce, Filled
  <2>2. \A b \in Agents \ {w} : hand'[b] \in {hand[b], NoConn} /\ hand'[b] # c
    BY <1>2, <1>3, <1>4
  <2>3. ~ Queued(c)' /\ ~ Passed(c)' /\ ~ InRing(c)' /\ peer'[c] # "start"
    BY <1>2, <1>5
  <2> QED
    BY <1>3, <1>4, <1>6, <2>1, <2>2, <2>3, TakeKeeps
<1> QED
  BY <1>2, <1>3, <1>4, <1>6, <1>7, ServeStep

LEMMA ForkSim ==
  ASSUME Typed, OnePlace, NEW w \in Workers, Fork(w)
  PROVE  Simulated
<1>0. /\ design \in Forking /\ pc[Main] = "create" /\ pc[w] = "none" /\ w \in Agents /\ w # Main /\ Main \in Agents
      /\ NoConn \notin Conns /\ design \notin Iterative \cup Selecting \cup Threaded \cup Preforked \cup {"serv05"}
  BY Basics, Families DEF Fork, FreeSlots, Typed
<1>1. PICK c \in Conns : c = hand[Main]
  BY <1>0, MainHolding DEF MainHolds
<1>2. /\ \A b \in Agents : hand[b] = c => b = Main
      /\ ~ Queued(c) /\ ~ Passed(c) /\ ~ InRing(c) /\ peer[c] # "start" /\ Waits(c)
  BY <1>0, <1>1, MainHolding DEF MainHolds
<1>3. /\ hand'[w] = c /\ \A b \in Agents \ {w} : hand'[b] = hand[b]
      /\ pc'[Main] = "close" /\ \A b \in Agents \ {w, Main} : pc'[b] = pc[b]
      /\ UNCHANGED <<fixed, peer, acceptQ, inbox, clifd, iput, iget>>
  BY <1>0, <1>1 DEF Fork, Typed, TypeOK, clients, others, pipes, ring
<1>4. Steady
  <2>1. pc[Main] \notin Ends /\ pc'[Main] \notin Ends
    BY <1>0, <1>3 DEF Ends, Dead
  <2> QED
    BY <1>0, <1>3, <2>1, SteadyMove DEF OnePlace
<1>5. hand[w] = NoConn
  BY <1>0, EmptyHanded
<1>6. \A d \in Conns : (Queued(d)' <=> Queued(d)) /\ (Passed(d)' <=> Passed(d)) /\ (InRing(d)' <=> InRing(d))
  BY <1>3 DEF Queued, Passed, InRing, Filled
<1>7. ASSUME NEW d \in Conns \ {c} PROVE Unmoved(d)
  <2>1. \A b \in Agents : hand'[b] = d <=> hand[b] = d
    BY <1>0, <1>3, <1>5
  <2> QED
    BY <1>1, <1>3, <1>6, <2>1 DEF Unmoved
<1>8. OnePlace'
  <2>1. QueueOnce' /\ PipesOnce' /\ RingOnce'
    BY <1>3 DEF OnePlace, QueueOnce, PipesOnce, RingOnce, Filled
  <2>2. HandsOnce'
    <3>1. Workers \subseteq Agents /\ Main \notin Workers
      BY DEF Agents, Main, Workers
    <3>2. \A v \in Workers \ {w} : hand'[v] = hand[v] /\ hand[v] # c
      BY <1>2, <1>3, <3>1
    <3>3. \A u, v \in Workers : hand'[u] = hand'[v] /\ hand'[u] # NoConn => u = v
      BY <1>3, <3>2 DEF OnePlace, HandsOnce
    <3>4. design' \in Forking /\ pc'[Main] = "close"
      BY <1>0, <1>3 DEF fixed
    <3> QED
      BY <3>3, <3>4 DEF HandsOnce
  <2>3. Apart(c)'
    BY <1>2, <1>3, <1>6 DEF Apart
  <2>4. \A d \in Conns \ {c} : Apart(d)'
    BY <1>4, <1>7, UnmovedSame DEF OnePlace
  <2> QED
    BY <1>4, <2>1, <2>2, <2>3, <2>4 DEF OnePlace, Steady
<1>9. \A b \in Agents : hand[b] = c => b = Main /\ design \notin Iterative
  BY <1>0, <1>2
<1> QED
  BY <1>0, <1>2, <1>3, <1>4, <1>5, <1>7, <1>8, <1>9, ServeStep

LEMMA CreateSim ==
  ASSUME Typed, OnePlace, NEW w \in Workers, CreateThread(w)
  PROVE  Simulated
<1>1. /\ design \in Threaded /\ pc[Main] = "create" /\ pc[w] = "none" /\ w \in Agents /\ w # Main /\ Main \in Agents
      /\ design \notin Iterative \cup Selecting \cup Forking \cup Preforked \cup {"serv05"}
  BY Basics, Families DEF CreateThread, FreeSlots, Typed
<1>2. /\ pc'[Main] = "accept" /\ \A b \in Agents \ {w, Main} : pc'[b] = pc[b]
      /\ hand' = [hand EXCEPT ![w] = hand[Main], ![Main] = NoConn]
      /\ UNCHANGED <<fixed, peer, acceptQ, inbox, clifd, iput, iget>>
  BY <1>1 DEF CreateThread, Typed, TypeOK, clients, kernel, others, pipes, ring
<1>3. Steady
  <2>1. pc[Main] \notin Ends /\ pc'[Main] \notin Ends /\ Alive(Main)
    BY <1>1, <1>2 DEF Ends, Dead, Alive
  <2> QED
    BY <1>1, <1>2, <2>1, SteadyMove DEF OnePlace
<1>4. hand[w] = NoConn
  BY <1>1, EmptyHanded
<1>5. pc[Main] \in MainHolds
  BY <1>1 DEF MainHolds
<1> QED
  BY <1>1, <1>2, <1>3, <1>4, <1>5, HandOver

LEMMA MainEndsSim ==
  ASSUME Typed, OnePlace,
         SendFails \/ CreateFails \/ TooManyClients
           \/ \E w \in Workers : ChildTerminated(w) \/ ReadlineFails(w)
  PROVE  Simulated
<1>0. design \in AllDesigns /\ Main \in Agents
  BY Basics DEF Typed
<1>1. Exit(Main) /\ UNCHANGED <<fixed, peer, acceptQ, inbox, clifd, iput, iget>>
  BY DEF SendFails, CreateFails, TooManyClients, ChildTerminated, ReadlineFails, clients, pipes, ring
<1>2. pc[Main] \in {"send", "create", "enter", "select", "scan"}
  BY DEF SendFails, CreateFails, TooManyClients, ChildTerminated, ReadlineFails
<1>3. design \notin Preforked
  BY <1>0, <1>2, WhoseMainPlace, Families DEF Typed, PlacesFit
<1> QED
  BY <1>0, <1>1, <1>3, ExitStops

LEMMA SendSim ==
  ASSUME Typed, OnePlace, Send
  PROVE  Simulated
<1>1. pc[Main] = "send" /\ Main \in Agents /\ pc' = [pc EXCEPT ![Main] = "close"]
      /\ UNCHANGED <<fixed, acceptQ, hand, inbox, clifd, iput, iget>>
  BY Basics DEF Send, Typed, kernel, others, pipes, ring
<1>2. design \in Iterative
  BY <1>1, Basics, WhoseMainPlace DEF Typed, PlacesFit
<1>3. \A c \in Conns : peer'[c] = "start" <=> peer[c] = "start"
  <2>1. hand[Main] \in Conns /\ peer[hand[Main]] # "start"
    BY <1>1, MainHolding DEF MainHolds
  <2> QED
    BY <2>1 DEF Send, Typed, TypeOK
<1>4. pc[Main] \notin Ends /\ "close" \notin Ends
  BY <1>1 DEF Ends, Dead
<1> QED
  BY <1>1, <1>2, <1>3, <1>4, QuietMove DEF Typed

LEMMA ReapSim ==
  ASSUME Typed, OnePlace, Reap
  PROVE  Simulated
<1>1. design \in Forking /\ UNCHANGED <<fixed, peer, acceptQ, hand, inbox, clifd, iput, iget>>
  BY DEF Reap, clients, kernel, pipes, ring
<1>2. /\ Main \in Agents /\ Main \notin Workers
      /\ design \notin Threaded \cup Preforked \cup {"serv05"}
  BY <1>1, Families DEF Agents, Main, Workers
<1>3. pc'[Main] = pc[Main]
  BY <1>2 DEF Reap, Zombies
<1>4. Steady
  BY <1>1, <1>2, <1>3, SteadyMove DEF OnePlace
<1> QED
  BY <1>1, <1>3, <1>4, QuietStep

LEMMA LocksSim ==
  ASSUME Typed, OnePlace, NEW a \in Agents,
         SelectListen(a) \/ TakeLock(a) \/ ReleaseLock(a) \/ WaitForConn(a)
  PROVE  Simulated
<1>1. PICK p : /\ pc' = [pc EXCEPT ![a] = p] /\ p \in {"accept", "test", "serve", "wait"}
               /\ pc[a] \in {"select", "lock", "release", "test"}
  BY DEF SelectListen, TakeLock, ReleaseLock, WaitForConn
<1>2. UNCHANGED <<fixed, peer, acceptQ, hand, inbox, clifd, iput, iget>>
  BY DEF SelectListen, TakeLock, ReleaseLock, WaitForConn, clients, kernel, others, pipes, ring
<1>3. pc[a] \notin Ends /\ p \notin Ends /\ pc[a] # "close" /\ p # "close"
  BY <1>1 DEF Ends, Dead
<1> QED
  BY <1>1, <1>2, <1>3, QuietMove DEF Typed

LEMMA MainMovesSim ==
  ASSUME Typed, OnePlace, SelectConn \/ LockRing
  PROVE  Simulated
<1>1. PICK p : /\ pc' = [pc EXCEPT ![Main] = p] /\ p \in {"accept", "put"}
               /\ pc[Main] \in {"select", "store"}
  BY DEF SelectConn, LockRing
<1>2. UNCHANGED <<fixed, peer, acceptQ, hand, inbox, clifd, iput, iget>> /\ Main \in Agents
  BY Basics DEF Typed, SelectConn, LockRing, clients, kernel, others, pipes, ring
<1>3. pc[Main] \notin Ends /\ p \notin Ends /\ pc[Main] # "close" /\ p # "close"
  BY <1>1 DEF Ends, Dead
<1> QED
  BY <1>1, <1>2, <1>3, QuietMove DEF Typed

LEMMA PassSim ==
  ASSUME Typed, OnePlace, NEW w \in Workers, PassConn(w)
  PROVE  Simulated
<1>0. /\ pc[Main] = "pass" /\ Main \in Agents /\ NoConn \notin Conns /\ design = "serv05"
      /\ design \notin Iterative \cup Forking \cup Preforked
      /\ UNCHANGED <<fixed, peer, acceptQ, clifd, iput, iget>>
  BY Basics, WhoseMainPlace, Families DEF PassConn, Typed, PlacesFit, clients, ring
<1> DEFINE passed == Alive(w) /\ \E v \in Workers : child_status[v] = 0
<1>1. CASE ~ passed
  BY <1>0, <1>1, ExitStops DEF PassConn, PassTo
<1>2. CASE passed
  <2>1. PICK c \in Conns : c = hand[Main]
    BY <1>0, MainHolding DEF MainHolds
  <2>2. /\ \A b \in Agents : hand[b] = c => b = Main
        /\ ~ Queued(c) /\ ~ Passed(c) /\ ~ InRing(c) /\ peer[c] # "start" /\ Waits(c)
    BY <1>0, <2>1, MainHolding DEF MainHolds
  <2>3. /\ inbox' = [inbox EXCEPT ![w] = Append(inbox[w], c)]
        /\ hand'[Main] = NoConn /\ \A b \in Agents \ {Main} : hand'[b] = hand[b]
        /\ pc'[Main] = "select" /\ \A b \in Agents \ {Main} : pc'[b] = pc[b]
    BY <1>0, <1>2, <2>1 DEF PassConn, PassTo, Typed, TypeOK
  <2>4. Steady
    <3>1. pc[Main] \notin Ends /\ pc'[Main] \notin Ends
      BY <1>0, <2>3 DEF Ends, Dead
    <3> QED
      BY <1>0, <2>3, <3>1, SteadyMove DEF OnePlace
  <2>5. /\ \A v \in Workers \ {w} : inbox'[v] = inbox[v]
        /\ \A d \in Conns : Has(inbox'[w], d) <=> Has(inbox[w], d) \/ d = c
        /\ Once(inbox'[w])
    <3>1. inbox \in [Workers -> Seq(Conns)] /\ inbox[w] \in Seq(Conns)
      BY DEF Typed, TypeOK
    <3>2. inbox'[w] = Append(inbox[w], c) /\ \A v \in Workers \ {w} : inbox'[v] = inbox[v]
      BY <2>3, <3>1
    <3>3. Once(inbox[w]) /\ ~ Has(inbox[w], c)
      BY <2>2 DEF OnePlace, PipesOnce, Passed, Has
    <3>4. /\ \A d \in Conns : Has(Append(inbox[w], c), d) <=> Has(inbox[w], d) \/ d = c
          /\ Once(Append(inbox[w], c))
      BY <3>1, <3>3, AppendHas
    <3> QED
      BY <3>2, <3>4
  <2>6. \A d \in Conns : /\ Passed(d) <=> \E v \in Workers : Has(inbox[v], d)
                         /\ Passed(d)' <=> \E v \in Workers : Has(inbox'[v], d)
    BY DEF Passed, Has
  <2>7. \A d \in Conns : Passed(d)' <=> Passed(d) \/ d = c
    BY <2>5, <2>6
  <2>8. \A d \in Conns : (Queued(d)' <=> Queued(d)) /\ (InRing(d)' <=> InRing(d))
    BY <1>0 DEF Queued, InRing, Filled
  <2>9. ASSUME NEW d \in Conns \ {c} PROVE Unmoved(d)
    <3>1. \A b \in Agents : hand'[b] = d <=> hand[b] = d
      BY <1>0, <2>1, <2>3
    <3> QED
      BY <1>0, <2>1, <2>7, <2>8, <3>1 DEF Unmoved
  <2>10. PipesOnce'
    <3>1. ASSUME NEW v \in Workers, NEW d \in Conns, Has(inbox'[v], d)
          PROVE  Has(inbox[v], d) \/ (v = w /\ d = c)
      BY <2>5, <3>1
    <3>2. ASSUME NEW v \in Workers PROVE ~ Has(inbox[v], c)
      BY <2>2, <2>6
    <3>3. \A v \in Workers : Once(inbox'[v])
      BY <2>5 DEF OnePlace, PipesOnce
    <3>4. ASSUME NEW u \in Workers, NEW v \in Workers, NEW d \in Conns, Has(inbox'[u], d), Has(inbox'[v], d)
          PROVE  u = v
      BY <3>1, <3>2, <3>4 DEF OnePlace, PipesOnce
    <3> QED
      BY <3>3, <3>4 DEF PipesOnce
  <2>11. OnePlace'
    <3>1. QueueOnce' /\ RingOnce'
      BY <1>0 DEF OnePlace, QueueOnce, RingOnce, Filled
    <3>2. HandsOnce'
      BY <1>0, <2>3, HandsKeep DEF OnePlace, fixed
    <3>3. ~ InHand(c)'
      BY <1>0, <2>2, <2>3 DEF InHand
    <3>4. Apart(c)'
      BY <1>0, <2>2, <2>7, <2>8, <3>3 DEF Apart, fixed
    <3>5. \A d \in Conns \ {c} : Apart(d)'
      BY <2>4, <2>9, UnmovedSame DEF OnePlace
    <3> QED
      BY <2>4, <2>10, <3>1, <3>2, <3>4, <3>5 DEF OnePlace, Steady
  <2>12. ServedBy(c) = {} /\ ServedBy(c)' = {} /\ Waits(c)'
    <3>1. ServedBy(c) = {}
      BY <1>0, <2>2 DEF ServedBy
    <3>2. ServedBy(c)' = {}
      BY <1>0, <2>2, <2>3 DEF ServedBy, fixed
    <3>3. Waits(c)'
      BY <2>7 DEF Waits
    <3> QED
      BY <3>1, <3>2, <3>3
  <2> QED
    BY <2>2, <2>4, <2>9, <2>11, <2>12, WaitStep
<1> QED
  BY <1>1, <1>2

LEMMA ReceiveSim ==
  ASSUME Typed, OnePlace, NEW w \in Workers, ReceiveConn(w)
  PROVE  Simulated
<1>0. /\ pc[w] = "idle" /\ inbox[w] # <<>> /\ w \in Agents /\ w # Main /\ Main \in Agents
      /\ design = "serv05" /\ design \notin Iterative \cup Selecting
      /\ inbox \in [Workers -> Seq(Conns)] /\ inbox[w] \in Seq(Conns)
      /\ UNCHANGED <<fixed, peer, acceptQ, clifd, iput, iget>>
  BY Basics, WhoseWorkerPlace, Families
  DEF ReceiveConn, Typed, TypeOK, PlacesFit, clients, kernel, ring
<1>1. PICK c \in Conns : c = Head(inbox[w])
  BY <1>0, TailHas
<1>2. /\ hand'[w] = c /\ \A b \in Agents \ {w} : hand'[b] = hand[b]
      /\ pc'[w] = "serve" /\ \A b \in Agents \ {w} : pc'[b] = pc[b]
      /\ inbox'[w] = Tail(inbox[w]) /\ \A v \in Workers \ {w} : inbox'[v] = inbox[v]
  BY <1>0, <1>1 DEF ReceiveConn, Typed, TypeOK
<1>3. hand[w] = NoConn
  BY <1>0, EmptyHanded
<1>4. Steady
  <2>1. pc[w] \notin Ends /\ pc'[w] \notin Ends
    BY <1>0, <1>2 DEF Ends, Dead
  <2> QED
    BY <1>0, <1>2, <2>1, SteadyMove DEF OnePlace
<1>5. /\ Has(inbox[w], c) /\ Once(inbox'[w])
      /\ \A d \in Conns : Has(inbox'[w], d) <=> Has(inbox[w], d) /\ d # c
  <2>1. Once(inbox[w])
    BY DEF OnePlace, PipesOnce
  <2> QED
    BY <1>0, <1>1, <1>2, <2>1, TailHas
<1>6. \A d \in Conns : /\ Passed(d) <=> \E v \in Workers : Has(inbox[v], d)
                       /\ Passed(d)' <=> \E v \in Workers : Has(inbox'[v], d)
  BY DEF Passed, Has
<1>7. \A v \in Workers \ {w} : ~ Has(inbox[v], c)
  BY <1>5 DEF OnePlace, PipesOnce
<1>8. Passed(c) /\ \A d \in Conns : Passed(d)' <=> Passed(d) /\ d # c
  BY <1>2, <1>5, <1>6, <1>7
<1>9. ~ Queued(c) /\ ~ InHand(c) /\ ~ InRing(c) /\ peer[c] # "start"
  BY <1>8 DEF OnePlace, Apart
<1>10. \A d \in Conns : (Queued(d)' <=> Queued(d)) /\ (InRing(d)' <=> InRing(d))
  BY <1>0 DEF Queued, InRing, Filled
<1>11. ASSUME NEW d \in Conns \ {c} PROVE Unmoved(d)
  <2>1. \A b \in Agents : hand'[b] = d <=> hand[b] = d
    BY <1>0, <1>2, <1>3, ConstantsAssumption
  <2> QED
    BY <1>0, <1>2, <1>8, <1>10, <2>1 DEF Unmoved
<1>12. OnePlace'
  <2>1. QueueOnce' /\ RingOnce'
    BY <1>0 DEF OnePlace, QueueOnce, RingOnce, Filled
  <2>2. PipesOnce'
    <3>1. \A v \in Workers : Once(inbox'[v])
      BY <1>2, <1>5 DEF OnePlace, PipesOnce
    <3>2. \A v \in Workers, d \in Conns : Has(inbox'[v], d) => Has(inbox[v], d)
      BY <1>2, <1>5
    <3> QED
      BY <3>1, <3>2 DEF OnePlace, PipesOnce
  <2>3. \A b \in Agents \ {w} : hand'[b] # c
    BY <1>2, <1>9 DEF InHand
  <2>4. pc'[Main] = pc[Main]
    BY <1>0, <1>2
  <2>5. ~ Queued(c)' /\ ~ Passed(c)' /\ ~ InRing(c)' /\ peer'[c] # "start"
    BY <1>0, <1>8, <1>9, <1>10
  <2>6. w \in Agents /\ hand'[w] = c /\ \A b \in Agents \ {w} : hand'[b] \in {hand[b], NoConn}
    BY <1>0, <1>2
  <2> QED
    BY <1>4, <1>11, <2>1, <2>2, <2>3, <2>4, <2>5, <2>6, TakeKeeps
<1>13. Waits(c)
  BY <1>8 DEF Waits
<1>14. \A b \in Agents : hand[b] # c
  BY <1>9 DEF InHand
<1> QED
  BY <1>0, <1>2, <1>3, <1>4, <1>11, <1>12, <1>13, <1>14, ServeStep

LEMMA TellSim ==
  ASSUME Typed, OnePlace, NEW w \in Workers, NewlyAvailable(w) \/ TellParent(w)
  PROVE  Simulated
<1>1. CASE NewlyAvailable(w)
  BY <1>1, QuietPause DEF NewlyAvailable, clients, kernel, ring
<1>2. CASE TellParent(w)
  <2>0. /\ pc[w] = "tell" /\ w \in Agents /\ w # Main /\ design = "serv05"
        /\ UNCHANGED <<fixed, peer, acceptQ, inbox, clifd, iput, iget>>
    BY <1>2, Basics, WhoseWorkerPlace, Families DEF TellParent, Typed, PlacesFit, clients, ring
  <2>1. CASE AllDeadAfter(w)
    BY <1>2, <2>0, <2>1, ExitStops DEF TellParent
  <2>2. CASE ~ AllDeadAfter(w)
    <3>1. pc' = [pc EXCEPT ![w] = "idle"] /\ UNCHANGED hand
      BY <1>2, <2>2 DEF TellParent
    <3>2. pc[w] \notin Ends /\ "idle" \notin Ends
      BY <2>0 DEF Ends, Dead
    <3> QED
      BY <2>0, <3>1, <3>2, QuietMove DEF Typed
  <2> QED
    BY <2>1, <2>2
<1> QED
  BY <1>1, <1>2

LEMMA ChildEndsSim ==
  ASSUME Typed, OnePlace, NEW w \in Workers, ParentGone(w) \/ ChildDies(w)
  PROVE  Simulated
<1>1. design = "serv05" /\ w \in Agents
  BY Basics, WhoseWorkerPlace DEF ParentGone, ChildDies, Typed, PlacesFit
<1>2. /\ Exit(w) /\ UNCHANGED <<fixed, peer, acceptQ, clifd, iput, iget>>
      /\ \A v \in Workers : inbox'[v] \in {inbox[v], <<>>}
  BY DEF ParentGone, ChildDies, Typed, TypeOK, clients, pipes, ring
<1> QED
  BY <1>1, <1>2, ExitStops

LEMMA PutSim ==
  ASSUME Typed, OnePlace, PutConn
  PROVE  Simulated
<1>0. /\ pc[Main] = "put" /\ Main \in Agents /\ Main \notin Workers /\ NoConn \notin Conns /\ design = "serv08"
      /\ design \notin Iterative \cup Forking \cup Preforked /\ design # "serv05"
      /\ TypeOK /\ iput \in 0 .. (MAXNCLI - 1) /\ iget \in 0 .. (MAXNCLI - 1)
      /\ clifd \in [0 .. (MAXNCLI - 1) -> Conns \cup {NoConn}]
      /\ iput' = Succ(iput) /\ UNCHANGED <<fixed, peer, acceptQ, inbox, iget>>
  BY Basics, WhoseMainPlace, Families DEF PutConn, Typed, TypeOK, PlacesFit, clients, pipes, Workers, Main
<1>1. CASE Succ(iput) = iget
  <2>1. Exit(Main)
    BY <1>1 DEF PutConn, RingFull
  <2>2. iput' = iget' /\ iput' \in 0 .. (MAXNCLI - 1)
    BY <1>0, <1>1
  <2> QED
    BY <1>0, <2>1, <2>2, ExitStops
<1>2. CASE Succ(iput) # iget
  <2>1. PICK c \in Conns : c = hand[Main]
    BY <1>0, MainHolding DEF MainHolds
  <2>2. /\ \A b \in Agents : hand[b] = c => b = Main
        /\ ~ Queued(c) /\ ~ Passed(c) /\ ~ InRing(c) /\ peer[c] # "start" /\ Waits(c)
    BY <1>0, <2>1, MainHolding DEF MainHolds
  <2>3. /\ hand'[Main] = NoConn /\ \A b \in Agents \ {Main} : hand'[b] = hand[b]
        /\ pc'[Main] = "release"
        /\ \A b \in Agents \ {Main} : pc'[b] = pc[b] \/ (pc[b] = "wait" /\ pc'[b] = "lock")
    BY <1>0, <1>2 DEF PutConn, RingFull, Typed, TypeOK
  <2>4. Steady
    <3>1. {"put", "release", "wait", "lock"} \cap Ends = {}
      BY DEF Ends, Dead
    <3> QED
      BY <1>0, <2>3, <3>1, SteadyMove DEF OnePlace
  <2>5. /\ ~ Filled(iput)
        /\ \A k \in 0 .. (MAXNCLI - 1) : Filled(k)' <=> Filled(k) \/ k = iput
    BY <1>0, <1>2, RingPut
  <2>6. /\ clifd'[iput] = c
        /\ \A k \in 0 .. (MAXNCLI - 1) : k # iput => clifd'[k] = clifd[k]
    BY <1>0, <2>1 DEF PutConn
  <2>7. \A d \in Conns : InRing(d)' <=> InRing(d) \/ d = c
    <3>1. ASSUME NEW d \in Conns PROVE InRing(d)' <=> InRing(d) \/ d = c
      <4>1. InRing(d)' <=> \E k \in 0 .. (MAXNCLI - 1) : clifd'[k] = d /\ Filled(k)'
        BY DEF InRing
      <4>2. InRing(d) <=> \E k \in 0 .. (MAXNCLI - 1) : clifd[k] = d /\ Filled(k)
        BY DEF InRing
      <4> QED
        BY <1>0, <2>5, <2>6, <4>1, <4>2
    <3> QED
      BY <3>1
  <2>8. \A d \in Conns : (Queued(d)' <=> Queued(d)) /\ (Passed(d)' <=> Passed(d))
    BY <1>0 DEF Queued, Passed
  <2>9. ASSUME NEW d \in Conns \ {c} PROVE Unmoved(d)
    <3>1. \A b \in Agents : hand'[b] = d <=> hand[b] = d
      BY <1>0, <2>1, <2>3
    <3> QED
      BY <1>0, <2>1, <2>7, <2>8, <3>1 DEF Unmoved
  <2>10. RingOnce'
    <3>1. \A k \in 0 .. (MAXNCLI - 1) : Filled(k) => clifd[k] \in Conns /\ clifd[k] # c
      BY <2>2 DEF OnePlace, RingOnce, InRing
    <3>2. \A k \in 0 .. (MAXNCLI - 1) : Filled(k)' => clifd'[k] \in Conns
      BY <2>5, <2>6, <3>1
    <3>3. ASSUME NEW j \in 0 .. (MAXNCLI - 1), NEW k \in 0 .. (MAXNCLI - 1), Filled(j)', Filled(k)', clifd'[j] = clifd'[k]
          PROVE  j = k
      <4>1. (Filled(j) \/ j = iput) /\ (Filled(k) \/ k = iput)
        BY <2>5, <3>3
      <4>2. CASE j = iput
        BY <2>6, <3>1, <3>3, <4>1, <4>2
      <4>3. CASE k = iput
        BY <2>6, <3>1, <3>3, <4>1, <4>3
      <4>4. CASE j # iput /\ k # iput
        BY <2>6, <3>3, <4>1, <4>4 DEF OnePlace, RingOnce
      <4> QED
        BY <4>2, <4>3, <4>4
    <3> QED
      BY <3>2, <3>3 DEF RingOnce
  <2>11. OnePlace'
    <3>1. QueueOnce' /\ PipesOnce'
      BY <1>0 DEF OnePlace, QueueOnce, PipesOnce
    <3>2. HandsOnce'
      BY <1>0, <2>3, HandsKeep DEF OnePlace, fixed
    <3>3. ~ InHand(c)'
      BY <1>0, <2>2, <2>3 DEF InHand
    <3>4. Apart(c)'
      BY <1>0, <2>2, <2>7, <2>8, <3>3 DEF Apart, fixed
    <3>5. \A d \in Conns \ {c} : Apart(d)'
      BY <2>4, <2>9, UnmovedSame DEF OnePlace
    <3> QED
      BY <2>4, <2>10, <3>1, <3>2, <3>4, <3>5 DEF OnePlace, Steady
  <2>12. ServedBy(c) = {} /\ ServedBy(c)' = {} /\ Waits(c)'
    <3>1. ServedBy(c) = {}
      BY <1>0, <2>2 DEF ServedBy
    <3>2. ServedBy(c)' = {}
      BY <1>0, <2>2, <2>3 DEF ServedBy, fixed
    <3>3. Waits(c)'
      BY <2>3, <2>7 DEF Waits, Alive, Dead
    <3> QED
      BY <3>1, <3>2, <3>3
  <2> QED
    BY <2>2, <2>4, <2>9, <2>11, <2>12, WaitStep
<1> QED
  BY <1>1, <1>2

LEMMA TakeSim ==
  ASSUME Typed, OnePlace, NEW w \in Workers, TakeConn(w)
  PROVE  Simulated
<1>0. /\ pc[w] = "test" /\ w \in Agents /\ w # Main /\ Main \in Agents
      /\ design = "serv08" /\ design \notin Iterative \cup Selecting /\ design \in Threaded
      /\ TypeOK /\ iget # iput /\ iget \in 0 .. (MAXNCLI - 1) /\ iget' = Succ(iget)
      /\ UNCHANGED <<fixed, peer, acceptQ, inbox, clifd, iput>>
  BY Basics, WhoseWorkerPlace, Families
  DEF TakeConn, Typed, TypeOK, PlacesFit, clients, kernel, pipes
<1>1. /\ Filled(iget)
      /\ \A k \in 0 .. (MAXNCLI - 1) : Filled(k)' <=> Filled(k) /\ k # iget
  BY <1>0, RingTake
<1>2. PICK c \in Conns : c = clifd[iget]
  BY <1>0, <1>1 DEF OnePlace, RingOnce
<1>3. /\ hand'[w] = c /\ \A b \in Agents \ {w} : hand'[b] = hand[b]
      /\ pc'[w] = "release" /\ \A b \in Agents \ {w} : pc'[b] = pc[b]
  BY <1>0, <1>2 DEF TakeConn, Typed, TypeOK
<1>4. hand[w] = NoConn
  BY <1>0, EmptyHanded
<1>5. Steady
  <2>1. pc[w] \notin Ends /\ pc'[w] \notin Ends
    BY <1>0, <1>3 DEF Ends, Dead
  <2> QED
    BY <1>0, <1>3, <2>1, SteadyMove DEF OnePlace
<1>6. InRing(c) /\ \A d \in Conns : InRing(d)' <=> InRing(d) /\ d # c
  <2>1. InRing(c)
    BY <1>0, <1>1, <1>2 DEF InRing
  <2>2. \A k \in 0 .. (MAXNCLI - 1) : Filled(k) /\ clifd[k] = c => k = iget
    BY <1>0, <1>1, <1>2 DEF OnePlace, RingOnce
  <2>3. ASSUME NEW d \in Conns PROVE InRing(d)' <=> InRing(d) /\ d # c
    <3>1. InRing(d)' <=> \E k \in 0 .. (MAXNCLI - 1) : clifd[k] = d /\ Filled(k)'
      BY <1>0 DEF InRing
    <3>2. InRing(d) <=> \E k \in 0 .. (MAXNCLI - 1) : clifd[k] = d /\ Filled(k)
      BY DEF InRing
    <3> QED
      BY <1>1, <1>2, <2>2, <3>1, <3>2
  <2> QED
    BY <2>1, <2>3
<1>7. ~ Queued(c) /\ ~ InHand(c) /\ ~ Passed(c) /\ peer[c] # "start"
  BY <1>6 DEF OnePlace, Apart
<1>8. \A d \in Conns : (Queued(d)' <=> Queued(d)) /\ (Passed(d)' <=> Passed(d))
  BY <1>0 DEF Queued, Passed
<1>9. ASSUME NEW d \in Conns \ {c} PROVE Unmoved(d)
  <2>1. \A b \in Agents : hand'[b] = d <=> hand[b] = d
    BY <1>0, <1>3, <1>4, ConstantsAssumption
  <2> QED
    BY <1>0, <1>3, <1>6, <1>8, <2>1 DEF Unmoved
<1>10. OnePlace'
  <2>1. QueueOnce' /\ PipesOnce'
    BY <1>0 DEF OnePlace, QueueOnce, PipesOnce
  <2>2. RingOnce'
    BY <1>0, <1>1 DEF OnePlace, RingOnce
  <2>3. \A b \in Agents \ {w} : hand'[b] # c
    BY <1>3, <1>7 DEF InHand
  <2>4. pc'[Main] = pc[Main]
    BY <1>0, <1>3
  <2>5. ~ Queued(c)' /\ ~ Passed(c)' /\ ~ InRing(c)' /\ peer'[c] # "start"
    BY <1>0, <1>6, <1>7, <1>8
  <2>6. w \in Agents /\ hand'[w] = c /\ \A b \in Agents \ {w} : hand'[b] \in {hand[b], NoConn}
    BY <1>0, <1>3
  <2> QED
    BY <1>5, <1>9, <2>1, <2>2, <2>3, <2>4, <2>5, <2>6, TakeKeeps
<1>11. Waits(c)
  <2>1. Alive(Main)
    BY <1>0 DEF OnePlace, MainOutlives, Alive, Dead
  <2> QED
    BY <1>6, <2>1 DEF Waits
<1>12. \A b \in Agents : hand[b] # c
  BY <1>7 DEF InHand
<1> QED
  BY <1>0, <1>3, <1>4, <1>5, <1>9, <1>10, <1>11, <1>12, ServeStep

LEMMA PollSim ==
  ASSUME Typed, OnePlace,
         PollReturns \/ \E w \in Workers : Enter(w) \/ ReadFlagged(w)
  PROVE  Simulated
<1>0. /\ pc[Main] \in {"poll", "enter", "scan"} /\ Main \in Agents /\ Main \notin Workers
      /\ Workers \subseteq Agents /\ design \in Selecting
      /\ design \notin Iterative \cup Forking \cup Preforked \cup Threaded \cup {"serv05"}
  BY Basics, WhoseMainPlace, Families DEF PollReturns, Enter, ReadFlagged, Typed, PlacesFit, Workers, Main
<1>1. UNCHANGED <<fixed, acceptQ, inbox, clifd, iput, iget>>
  BY DEF PollReturns, Enter, ReadFlagged, kernel, pipes
<1>2. pc'[Main] \in {"poll", "accept", "scan"}
  BY <1>0 DEF PollReturns, Enter, ReadFlagged, Typed, TypeOK
<1>3. Steady
  <2>1. pc[Main] \notin Ends /\ pc'[Main] \notin Ends
    BY <1>0, <1>2 DEF Ends, Dead
  <2> QED
    BY <1>0, <1>1, <2>1, SteadyMove DEF OnePlace
<1>4. CASE PollReturns
  BY <1>0, <1>1, <1>2, <1>3, <1>4, QuietStep DEF PollReturns, clients
<1>5. ASSUME NEW w \in Workers, Enter(w) PROVE Simulated
  BY <1>0, <1>1, <1>3, <1>5, HandOver DEF Enter, clients, MainHolds
<1>6. ASSUME NEW w \in Workers, ReadFlagged(w) PROVE Simulated
  <2>1. CASE inq[hand[w]] = "line"
    <3>1. UNCHANGED hand /\ peer' = [peer EXCEPT ![hand[w]] = "answered"] /\ hand[w] \in Conns
      BY <1>0, <1>6, <2>1 DEF ReadFlagged, HasInput, Typed, TypeOK
    <3>2. peer[hand[w]] # "start"
      BY <1>0, <3>1 DEF OnePlace, Apart, InHand
    <3>3. \A c \in Conns : peer'[c] = "start" <=> peer[c] = "start"
      BY <3>1, <3>2 DEF Typed, TypeOK
    <3> QED
      BY <1>0, <1>1, <1>2, <1>3, <3>1, <3>3, QuietStep
  <2>2. CASE inq[hand[w]] # "line"
    <3>1. hand' = [hand EXCEPT ![w] = NoConn] /\ UNCHANGED peer
      BY <1>6, <2>2 DEF ReadFlagged, clients
    <3> QED
      BY <1>0, <1>1, <1>2, <1>3, <3>1, FreeStep DEF Typed
  <2> QED
    BY <2>1, <2>2
<1> QED
  BY <1>4, <1>5, <1>6

LEMMA SignalSim ==
  ASSUME Typed, OnePlace, Interrupt \/ WaitForChildren \/ \E w \in Workers : KillChild(w)
  PROVE  Simulated
<1>0. Main \in Agents /\ Main \notin Workers /\ Workers \subseteq Agents /\ design \in AllDesigns
  BY Basics DEF Typed, Workers, Main
<1>1. UNCHANGED <<fixed, peer, acceptQ, clifd, iput, iget>>
  BY DEF Interrupt, WaitForChildren, KillChild, clients, others, ring
<1>2. ASSUME NEW w \in Workers, KillChild(w) PROVE Simulated
  <2>1. \A v \in Workers : inbox'[v] \in {inbox[v], <<>>}
    BY <1>2 DEF KillChild, Typed, TypeOK
  <2> QED
    BY <1>0, <1>1, <1>2, <2>1, ExitStops DEF KillChild
<1>3. CASE Interrupt /\ design \notin Parents
  BY <1>0, <1>1, <1>3, ExitStops, Families DEF Interrupt, pipes
<1>4. CASE Interrupt /\ design \in Parents
  <2>1. /\ UNCHANGED <<hand, inbox>> /\ pc'[Main] = "kill" /\ Alive(Main)
        /\ \A b \in Agents \ {Main} : pc'[b] = pc[b]
    BY <1>0, <1>4 DEF Interrupt, pipes, Typed, TypeOK
  <2>2. pc[Main] # "close"
    BY <1>0, <1>4, WhoseMainPlace, Families DEF Typed, PlacesFit
  <2>3. \A b \in Agents : Alive(b)' <=> Alive(b)
    BY <2>1 DEF Alive, Dead
  <2>4. MainOutlives' /\ ListenOpen
    BY <1>0, <1>1, <2>1, <2>3 DEF OnePlace, MainOutlives, ListenOpen
  <2>5. LetGo
    BY <1>0, <1>1, <2>1, <2>2, <2>3, <2>4 DEF LetGo
  <2>6. ~ InOrder'
    BY <2>1 DEF InOrder
  <2> QED
    BY <2>5, <2>6, StopStep
<1>5. CASE WaitForChildren
  <2>1. /\ hand' = [hand EXCEPT ![Main] = NoConn] /\ UNCHANGED inbox
        /\ \A b \in Agents : pc'[b] = IF b = Main THEN "exit" ELSE "none"
    BY <1>5 DEF WaitForChildren, others, pipes
  <2>2. \A b \in Agents : ~ Alive(b)'
    BY <2>1 DEF Alive, Dead
  <2>3. MainOutlives' /\ ~ ListenOpen' /\ ~ InOrder'
    BY <1>0, <2>2 DEF MainOutlives, ListenOpen, InOrder
  <2>4. \A a \in Agents : hand'[a] \in {hand[a], NoConn}
    BY <2>1 DEF Typed, TypeOK
  <2>5. hand'[Main] = NoConn
    BY <1>0, <2>1 DEF Typed, TypeOK
  <2>6. LetGo
    BY <1>0, <1>1, <2>1, <2>2, <2>3, <2>4, <2>5 DEF LetGo
  <2> QED
    BY <2>3, <2>6, StopStep
<1> QED
  BY <1>2, <1>3, <1>4, <1>5

-----------------------------------------------------------------------------
(* The refinement.                                                          *)

LEMMA NextSim ==
  ASSUME Typed, OnePlace, [Next]_vars
  PROVE  Simulated
<1>0. Main \in Agents /\ Workers \subseteq Agents
  BY Basics DEF Typed
<1>1. CASE MainStep
  BY <1>0, <1>1, AcceptSim, WebChildSim, SendSim, MainMovesSim, PutSim, LocksSim, SignalSim, ForkSim, CreateSim,
     PassSim, TellSim, MainEndsSim, ReapSim, PollSim DEF MainStep
<1>2. ASSUME NEW w \in Workers, WorkerStep(w) PROVE Simulated
  BY <1>0, <1>2, AcceptSim, WebChildSim, LocksSim, ReceiveSim, TellSim, ChildEndsSim, TakeSim DEF WorkerStep
<1>3. ASSUME NEW c \in Conns, ClientStep(c) PROVE Simulated
  BY <1>3, ClientSim
<1>4. CASE SendFails \/ Interrupt
  BY <1>4, MainEndsSim, SignalSim
<1>5. CASE UNCHANGED vars
  BY <1>5, QuietPause DEF vars, clients, kernel, others, pipes, ring
<1> QED
  BY <1>1, <1>2, <1>3, <1>4, <1>5 DEF Next, Progress

LEMMA InitSim == Init => OnePlace /\ Pool!Init
<1> SUFFICES ASSUME Init PROVE OnePlace /\ Pool!Init
  OBVIOUS
<1>0. /\ Typed /\ Main \in Agents /\ Workers \subseteq Agents /\ NoConn \notin Conns
      /\ design \in AllDesigns
  BY InitTyped, Basics DEF Typed
<1>1. /\ acceptQ = <<>> /\ \A w \in Workers : inbox[w] = <<>>
      /\ \A a \in Agents : hand[a] = NoConn /\ pc[a] = Start(a)
      /\ iput = 0 /\ iget = 0 /\ clifd = [k \in 0 .. (MAXNCLI - 1) |-> NoConn]
      /\ \A c \in Conns : peer[c] = "start"
  BY DEF Init
<1>2. \A k \in 0 .. (MAXNCLI - 1) : ~ Filled(k)
  BY <1>1, ConstantsAssumption, Around DEF Filled
<1>3. Alive(Main)
  <2>1. Start(Main) \in MainPlaces \ {"exit"}
    BY <1>0, Loops
  <2> QED
    BY <1>0, <1>1, <2>1, WhoseMainPlace DEF Alive, Dead
<1>4. OnePlace
  <2>1. \A c \in Conns : ~ Queued(c) /\ ~ Passed(c) /\ ~ InRing(c) /\ ~ InHand(c)
    BY <1>0, <1>1, <1>2 DEF Queued, Passed, InRing, InHand
  <2>2. QueueOnce /\ PipesOnce /\ RingOnce /\ HandsOnce /\ MainOutlives
    BY <1>0, <1>1, <1>2, <1>3 DEF QueueOnce, PipesOnce, RingOnce, HandsOnce, MainOutlives, Once, Has
  <2> QED
    BY <2>1, <2>2 DEF OnePlace, Apart
<1>5. InOrder
  <2>1. ListenOpen
    BY <1>3 DEF ListenOpen
  <2>2. pc[Main] # "kill"
    BY <1>0, <1>1, Loops
  <2>3. design = "serv05" => \A w \in Workers : pc[w] = "idle"
    BY <1>0, <1>1, Basics DEF Start, WorkerLoop, child05, Typed
  <2> QED
    BY <2>1, <2>2, <2>3 DEF InOrder, Alive, Dead
<1>6. \A c \in Conns : ServerOf(c) = NoConn /\ StageOf(c) = "new"
  <2>1. ASSUME NEW c \in Conns PROVE ServedBy(c) = {} /\ ~ Waits(c)
    <3>1. Apart(c) /\ peer[c] = "start"
      BY <1>1, <1>4 DEF OnePlace
    <3> QED
      BY <1>0, <3>1 DEF Apart, ServedBy, Waits, InHand
  <2> QED
    BY <1>1, <2>1, NoServer
<1>7. InOrder = TRUE
  BY <1>5 DEF InOrder
<1> QED
  BY <1>4, <1>6, <1>7 DEF Pool!Init

\* A connection is never in two places at once, nor twice in one: not in the
\* queue of accept(), a stream pipe, the ring or somebody's hand; only the parent
\* of a child that serves it has it, too, until it closes it.
THEOREM ConnectionsHaveOnePlace == Spec => []OnePlace
<1>1. Init => OnePlace
  BY InitSim
<1>2. Typed /\ OnePlace /\ [Next]_vars => OnePlace'
  BY NextSim DEF Simulated
<1> QED
  BY <1>1, <1>2, TypedHolds, PTL DEF Spec

\* Whatever the design, the server is a pool of workers: each connection waits,
\* is served by one worker, who serves nothing else meanwhile, and is finished;
\* none is lost or served twice between accept(), fork(), the stream pipes, the
\* ring and the array of connections while the server is in order.
THEOREM ServersImplementPool == Spec => ImplementsPool
<1>1. Init => Pool!Init
  BY InitSim
<1>2. Typed /\ OnePlace /\ [Next]_vars => [Pool!Next]_Pool!pool
  BY NextSim DEF Simulated
<1> QED
  BY <1>1, <1>2, TypedHolds, ConnectionsHaveOnePlace, PTL DEF ImplementsPool, Pool!Spec, Spec
===============================================================================
