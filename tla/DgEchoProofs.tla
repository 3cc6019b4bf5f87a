---------------------------- MODULE DgEchoProofs ----------------------------
(***************************************************************************)
(* What DgEcho guarantees for every size of the ring and of the receive    *)
(* buffer and for any number of datagrams: it implements EchoService, and  *)
(* no signal is lost.                                                      *)
(***************************************************************************)
EXTENDS DgEcho, SequenceTheorems, TLAPS

Live == nqueue - Answered

\* From the end of the test to the decrement there is a datagram in the ring.
Busy == pc \in {"unblock", "send", "advance", "reblock", "dec"} => nqueue > 0

\* The handler writes behind the last datagram that waits for its answer.
RingClosed == iput = Slot(Live)

IInv == TypeOK /\ Busy /\ RingClosed

\* Where the ring is: inside its bounds, and different places for different
\* datagrams.
LEMMA Slots ==
  ASSUME TypeOK, Busy
  PROVE  /\ First \in 0 .. (QSIZE - 1)
         /\ Live \in 0 .. QSIZE
         /\ \A k \in 0 .. QSIZE : Slot(k) \in 0 .. (QSIZE - 1)
         /\ \A k, l \in 0 .. (QSIZE - 1) : k # l => Slot(k) # Slot(l)
<1>1. First \in 0 .. (QSIZE - 1)
  BY ConstantsAssumption DEF TypeOK, First, Succ
<1>2. Live \in 0 .. QSIZE
  BY ConstantsAssumption DEF TypeOK, Busy, Live, Answered
<1>3. \A k \in 0 .. QSIZE : Slot(k) \in 0 .. (QSIZE - 1)
  BY <1>1, ConstantsAssumption DEF Slot
<1>4. \A k, l \in 0 .. (QSIZE - 1) : k # l => Slot(k) # Slot(l)
  BY <1>1, ConstantsAssumption DEF Slot
<1> QED
  BY <1>1, <1>2, <1>3, <1>4

\* A sequence is the function of its elements.
LEMMA SeqAsFunction ==
  ASSUME NEW s \in Seq(Nat)
  PROVE  s = [k \in 1 .. Len(s) |-> s[k]]
<1> DEFINE t == [k \in 1 .. Len(s) |-> s[k]]
<1>1. Len(s) \in Nat /\ \A k \in 1 .. Len(s) : s[k] \in Nat
  OBVIOUS
<1>2. t \in Seq(Nat) /\ Len(t) = Len(s) /\ \A k \in 1 .. Len(s) : t[k] = s[k]
  BY <1>1
<1> HIDE DEF t
<1>3. s = t
  BY <1>2, SeqEqual
<1> QED
  BY <1>3 DEF t

\* The ring, read as a sequence.
LEMMA QueueIsSeq ==
  ASSUME IInv
  PROVE  /\ Queue \in Seq(Nat)
         /\ Len(Queue) = Live
         /\ \A k \in 1 .. Live : Queue[k] = dg[Slot(k - 1)]
<1>1. Live \in 0 .. QSIZE /\ \A k \in 0 .. QSIZE : Slot(k) \in 0 .. (QSIZE - 1)
  BY Slots DEF IInv
<1>2. Queue = [k \in 1 .. Live |-> dg[Slot(k - 1)]]
  BY DEF Queue, Live
<1>3. \A k \in 1 .. Live : dg[Slot(k - 1)] \in Nat
  <2>1. \A k \in 1 .. Live : k - 1 \in 0 .. QSIZE
    BY <1>1, ConstantsAssumption
  <2> QED
    BY <1>1, <2>1 DEF IInv, TypeOK
<1>4. Live \in Nat
  BY <1>1, ConstantsAssumption
<1> QED
  BY <1>2, <1>3, <1>4

\* A step that moves neither the ring nor pc over one of its marks.
LEMMA RingStays ==
  ASSUME IInv, UNCHANGED ring, First' = First, Answered' = Answered
  PROVE  RingClosed' /\ Queue' = Queue
BY DEF IInv, RingClosed, Queue, Live, Slot, ring

\* The handler puts a datagram into the ring.
LEMMA ReceiveAppends ==
  ASSUME IInv, Receive
  PROVE  IInv' /\ Queue' = Append(Queue, Head(netq)) /\ Live < QSIZE
<1>1. /\ sig = "on" /\ nqueue < QSIZE /\ netq # << >>
      /\ dg' = [dg EXCEPT ![iput] = Head(netq)] /\ netq' = Tail(netq)
      /\ nqueue' = nqueue + 1 /\ iput' = Succ(iput)
      /\ UNCHANGED <<pc, sig, pending, iget, arrived, echoed>>
  BY ConstantsAssumption DEF Receive, Full, IInv, TypeOK
<1>2. Head(netq) \in Nat /\ Tail(netq) \in Seq(Nat)
  BY <1>1 DEF IInv, TypeOK
<1>3. /\ First \in 0 .. (QSIZE - 1)
      /\ Live \in 0 .. QSIZE
      /\ \A k \in 0 .. QSIZE : Slot(k) \in 0 .. (QSIZE - 1)
      /\ \A k, l \in 0 .. (QSIZE - 1) : k # l => Slot(k) # Slot(l)
  BY Slots DEF IInv
<1>4. First' = First /\ Answered' = Answered /\ \A k : Slot(k)' = Slot(k)
  BY <1>1 DEF First, Answered, Slot
<1>5. Live < QSIZE /\ Live' = Live + 1
  BY <1>1, <1>4, ConstantsAssumption DEF Live, Answered, IInv, TypeOK
<1>6. iput' = Slot(Live + 1)
  BY <1>1, <1>3, <1>5, ConstantsAssumption DEF IInv, RingClosed, Slot, Succ
<1>7. IInv'
  <2>1. TypeOK'
    <3>1. iput' \in 0 .. (QSIZE - 1) /\ nqueue' \in 0 .. QSIZE
      BY <1>1, <1>3, <1>5, <1>6, ConstantsAssumption DEF IInv, TypeOK
    <3> QED
      BY <1>1, <1>2, <3>1 DEF IInv, TypeOK
  <2>2. Busy'
    BY <1>1, ConstantsAssumption DEF IInv, TypeOK, Busy
  <2>3. RingClosed'
    BY <1>4, <1>5, <1>6 DEF RingClosed
  <2> QED
    BY <2>1, <2>2, <2>3 DEF IInv
<1>8. /\ Queue \in Seq(Nat) /\ Len(Queue) = Live
      /\ \A k \in 1 .. Live : Queue[k] = dg[Slot(k - 1)]
  BY QueueIsSeq
<1>9. Queue' = [k \in 1 .. (Live + 1) |-> dg'[Slot(k - 1)]]
  BY <1>4, <1>5 DEF Queue, Live
<1>10. \A k \in 1 .. (Live + 1) : dg'[Slot(k - 1)] = Append(Queue, Head(netq))[k]
  <2> SUFFICES ASSUME NEW k \in 1 .. (Live + 1)
               PROVE  dg'[Slot(k - 1)] = Append(Queue, Head(netq))[k]
    OBVIOUS
  <2>1. CASE k = Live + 1
    <3>1. Slot(k - 1) = iput /\ iput \in DOMAIN dg
      BY <2>1, <1>3 DEF IInv, TypeOK, RingClosed
    <3> QED
      BY <1>1, <1>3, <1>8, <2>1, <3>1
  <2>2. CASE k # Live + 1
    <3>1. k \in 1 .. Live /\ k - 1 \in 0 .. (QSIZE - 1) /\ Live \in 0 .. (QSIZE - 1) /\ k - 1 # Live
      BY <2>2, <1>3, <1>5, ConstantsAssumption
    <3>2. Slot(k - 1) # iput /\ Slot(k - 1) \in DOMAIN dg
      <4>1. iput = Slot(Live) /\ DOMAIN dg = 0 .. (QSIZE - 1)
        BY DEF IInv, TypeOK, RingClosed
      <4>2. Slot(k - 1) # Slot(Live)
        BY <1>3, <3>1
      <4>3. k - 1 \in 0 .. QSIZE
        BY <3>1, ConstantsAssumption
      <4> QED
        BY <1>3, <4>1, <4>2, <4>3
    <3>3. dg'[Slot(k - 1)] = dg[Slot(k - 1)]
      BY <1>1, <3>2
    <3> QED
      BY <1>3, <1>8, <3>1, <3>3
  <2> QED
    BY <2>1, <2>2
<1>11. /\ Append(Queue, Head(netq)) \in Seq(Nat)
       /\ Len(Append(Queue, Head(netq))) = Live + 1
  BY <1>2, <1>8
<1>12. Append(Queue, Head(netq)) =
         [k \in 1 .. (Live + 1) |-> Append(Queue, Head(netq))[k]]
  BY <1>11, SeqAsFunction
<1> QED
  BY <1>5, <1>7, <1>9, <1>10, <1>12

\* The main loop answers the first datagram of the ring.
LEMMA SendToAnswers ==
  ASSUME IInv, SendTo
  PROVE  /\ IInv' /\ Queue # << >>
         /\ Queue' = Tail(Queue) /\ echoed' = Append(echoed, Head(Queue))
<1>1. /\ pc = "send" /\ pc' = "advance" /\ echoed' = Append(echoed, dg[iget])
      /\ UNCHANGED <<sig, pending, dg, iget, iput, nqueue, netq, arrived>>
  BY DEF SendTo, Step, ring
<1>2. /\ First = iget /\ Live = nqueue /\ Live > 0
      /\ First' = Succ(iget) /\ Live' = Live - 1
  BY <1>1 DEF First, Live, Answered, IInv, Busy, TypeOK
<1>3. /\ First \in 0 .. (QSIZE - 1)
      /\ Live \in 0 .. QSIZE
      /\ \A k \in 0 .. QSIZE : Slot(k) \in 0 .. (QSIZE - 1)
  BY Slots DEF IInv
<1>4. \A k \in 0 .. (QSIZE - 1) : Slot(k)' = Slot(k + 1)
  BY <1>2, <1>3, ConstantsAssumption DEF Slot, Succ
<1>5. IInv'
  <2>1. TypeOK'
    <3>1. dg[iget] \in Nat
      BY DEF IInv, TypeOK
    <3> QED
      BY <1>1, <3>1 DEF IInv, TypeOK
  <2>2. Busy'
    BY <1>1 DEF IInv, Busy
  <2>3. RingClosed'
    <3>1. Live - 1 \in 0 .. (QSIZE - 1)
      BY <1>2, <1>3, ConstantsAssumption
    <3>2. RingClosed /\ iput' = iput
      BY <1>1 DEF IInv
    <3> QED
      BY <1>2, <1>3, <3>1, <3>2, ConstantsAssumption DEF RingClosed, Slot, Succ
  <2> QED
    BY <2>1, <2>2, <2>3 DEF IInv
<1>6. /\ Queue \in Seq(Nat) /\ Len(Queue) = Live
      /\ \A k \in 1 .. Live : Queue[k] = dg[Slot(k - 1)]
  BY QueueIsSeq
<1>7. Head(Queue) = dg[iget] /\ Queue # << >>
  <2>1. Slot(0) = iget
    BY <1>2, <1>3, ConstantsAssumption DEF Slot
  <2>2. 1 \in 1 .. Live
    BY <1>2, <1>3, ConstantsAssumption
  <2> QED
    BY <1>6, <1>2, <2>1, <2>2
<1>8. Queue' = [k \in 1 .. (Live - 1) |-> dg[Slot(k)]]
  <2>1. Queue' = [k \in 1 .. Live' |-> dg'[Slot(k - 1)']]
    BY <1>1, <1>2 DEF Queue, Live, Slot, First
  <2>2. \A k \in 1 .. (Live - 1) : Slot(k - 1)' = Slot(k)
    <3>1. \A k \in 1 .. (Live - 1) : k - 1 \in 0 .. (QSIZE - 1) /\ (k - 1) + 1 = k
      BY <1>3, ConstantsAssumption
    <3> QED
      BY <1>2, <1>3, <3>1, ConstantsAssumption DEF Slot, Succ, First
  <2> QED
    BY <1>1, <1>2, <2>1, <2>2
<1>9. /\ Tail(Queue) \in Seq(Nat) /\ Len(Tail(Queue)) = Live - 1
      /\ \A k \in 1 .. (Live - 1) : Tail(Queue)[k] = Queue[k + 1]
  BY <1>6, <1>7
<1>10. \A k \in 1 .. (Live - 1) : Tail(Queue)[k] = dg[Slot(k)]
  <2>1. \A k \in 1 .. (Live - 1) : k + 1 \in 1 .. Live /\ (k + 1) - 1 = k
    BY <1>3, ConstantsAssumption
  <2> QED
    BY <1>6, <1>9, <2>1
<1>11. Tail(Queue) = [k \in 1 .. (Live - 1) |-> Tail(Queue)[k]]
  BY <1>9, SeqAsFunction
<1> QED
  BY <1>1, <1>5, <1>7, <1>8, <1>10, <1>11

\* Every other step of the server leaves the queue as it is.
Quiet == SetUp \/ TestQueue \/ Suspend \/ Unblock \/ Advance \/ Reblock \/ Release
           \/ Deliver \/ Overflow \/ WouldBlock

LEMMA QuietStays ==
  ASSUME IInv, Quiet
  PROVE  IInv' /\ UNCHANGED <<Queue, netq, echoed>>
<1>0. UNCHANGED <<dg, iput, netq, arrived, echoed>> /\ sig' \in {"off", "on", "quit"}
      /\ pending' \in BOOLEAN
  BY DEF Quiet, SetUp, TestQueue, Suspend, Unblock, Advance, Reblock, Release,
         Deliver, Overflow, WouldBlock, IInv, TypeOK, ring
<1>1. CASE Advance
  <2>1. /\ pc = "advance" /\ pc' = "reblock" /\ iget' = Succ(iget) /\ UNCHANGED nqueue
    BY <1>1 DEF Advance, Step
  <2>2. First' = First /\ Answered' = Answered
    BY <2>1 DEF First, Answered
  <2>3. TypeOK'
    BY <1>0, <2>1, ConstantsAssumption DEF IInv, TypeOK, Succ
  <2>4. Busy'
    BY <2>1 DEF IInv, Busy
  <2> QED
    BY <1>0, <2>1, <2>2, <2>3, <2>4 DEF IInv, RingClosed, Queue, Live, Slot
<1>2. CASE Release
  <2>1. /\ pc = "dec" /\ pc' = "test" /\ nqueue' = nqueue - 1 /\ UNCHANGED iget
    BY <1>2 DEF Release, Step
  <2>2. First' = First /\ nqueue' - Answered' = nqueue - Answered
    BY <2>1 DEF First, Answered, IInv, TypeOK
  <2>3. TypeOK' /\ Busy'
    BY <1>0, <2>1, ConstantsAssumption DEF IInv, TypeOK, Busy
  <2> QED
    BY <1>0, <2>2, <2>3 DEF IInv, RingClosed, Queue, Live, Slot
<1>3. CASE ~ Advance /\ ~ Release
  <2>1. UNCHANGED ring /\ pc' \in {"nonblock", "block", "test", "sleep", "suspend",
                                   "unblock", "send", "dec", pc}
    BY <1>3 DEF Quiet, SetUp, TestQueue, Suspend, Unblock, Reblock,
                Deliver, Overflow, WouldBlock, Step
  <2>2. First' = First /\ Answered' = Answered /\ Busy'
    BY <1>3, <2>1 DEF Quiet, SetUp, TestQueue, Suspend, Unblock, Reblock,
                Deliver, Overflow, WouldBlock, Step, First, Answered, ring, IInv, Busy, TypeOK
  <2>3. TypeOK'
    BY <1>0, <2>1 DEF IInv, TypeOK, ring
  <2> QED
    BY <1>0, <2>1, <2>2, <2>3, RingStays DEF IInv
<1> QED
  BY <1>1, <1>2, <1>3

\* The network touches the receive buffer alone.
LEMMA NetworkStays ==
  ASSUME IInv, Arrive \/ ArriveInVain
  PROVE  IInv' /\ UNCHANGED <<Queue, echoed>>
<1>1. UNCHANGED <<pc, sig, ring, echoed>> /\ pending' \in BOOLEAN
      /\ netq' \in Seq(Nat) /\ arrived' \in Nat
  <2>1. /\ UNCHANGED <<pc, sig, ring, echoed>>
        /\ arrived' = arrived + 1
        /\ netq' \in {netq, Append(netq, arrived')}
    BY Zenon DEF Arrive, ArriveInVain
  <2>2. pending' \in BOOLEAN
    BY Zenon DEF Arrive, ArriveInVain, IInv, TypeOK
  <2>3. arrived' \in Nat /\ netq \in Seq(Nat)
    BY <2>1 DEF IInv, TypeOK
  <2>4. netq' \in Seq(Nat)
    BY <2>1, <2>3, AppendProperties
  <2> QED
    BY <2>1, <2>2, <2>3, <2>4
<1>2. First' = First /\ Answered' = Answered
  BY <1>1 DEF First, Answered, ring
<1>3. TypeOK' /\ Busy'
  BY <1>1 DEF IInv, TypeOK, Busy, ring
<1> QED
  BY <1>1, <1>2, <1>3, RingStays DEF IInv

THEOREM InitIInv == Init => IInv
<1> SUFFICES ASSUME Init PROVE IInv
  OBVIOUS
<1>1. pc = "async" /\ sig = "off" /\ iget = 0 /\ iput = 0 /\ nqueue = 0
  BY DEF Init
<1>2. pending \in BOOLEAN
  BY Zenon DEF Init
<1>3. /\ dg \in [0 .. (QSIZE - 1) -> Nat]
      /\ netq \in Seq(Nat) /\ arrived \in Nat /\ echoed \in Seq(Nat)
  <2>1. /\ dg = [k \in 0 .. (QSIZE - 1) |-> 0]
        /\ netq = << >> /\ arrived = 0 /\ echoed = << >>
    BY Zenon DEF Init
  <2> QED
    BY <2>1
<1>4. Live = 0 /\ First = 0
  <2>1. Answered = 0 /\ First = 0
    BY <1>1 DEF Answered, First
  <2> QED
    BY <1>1, <2>1 DEF Live
<1> QED
  BY <1>1, <1>2, <1>3, <1>4, ConstantsAssumption DEF IInv, TypeOK, Busy, RingClosed, Slot

LEMMA NextKeepsIInv == IInv /\ [Next]_vars => IInv'
<1> SUFFICES ASSUME IInv, [Next]_vars PROVE IInv'
  OBVIOUS
<1>1. CASE UNCHANGED vars
  <2>1. First' = First /\ Answered' = Answered /\ TypeOK' /\ Busy' /\ UNCHANGED ring
    BY <1>1 DEF vars, ring, First, Answered, IInv, TypeOK, Busy
  <2> QED
    BY <2>1, RingStays DEF IInv
<1>2. CASE Next
  BY <1>2, QuietStays, ReceiveAppends, SendToAnswers, NetworkStays
  DEF Next, MainStep, HandlerStep, Quiet
<1> QED
  BY <1>1, <1>2

THEOREM IInvHolds == Spec => []IInv
  BY InitIInv, NextKeepsIInv, PTL DEF Spec

\* The indices stay inside the ring and the count within its size, however
\* main loop and handler interleave.
THEOREM TypeCorrect == Spec => []TypeOK
<1>1. IInv => TypeOK
  BY DEF IInv
<1> QED
  BY IInvHolds, <1>1, PTL

\* The ring is a queue: the server takes, keeps and answers datagrams as
\* EchoService says.
THEOREM RingImplementsQueue == Spec => ImplementsService
<1>1. Init => Service!Init
  <2> SUFFICES ASSUME Init PROVE Service!Init
    OBVIOUS
  <2>1. Queue = << >>
    <3>0. pc = "async" /\ nqueue = 0
      BY Zenon DEF Init
    <3>a. Answered = 0
      BY <3>0 DEF Answered
    <3>1. nqueue - Answered = 0
      BY <3>0, <3>a
    <3>2. Queue = [k \in 1 .. 0 |-> dg[Slot(k - 1)]]
      BY <3>1 DEF Queue
    <3> QED
      BY <3>2
  <2> QED
    BY <2>1 DEF Init, Service!Init
<1>2. IInv /\ [Next]_vars => [Service!Next]_(Service!service)
  <2> SUFFICES ASSUME IInv, [Next]_vars PROVE [Service!Next]_(Service!service)
    OBVIOUS
  <2>1. CASE Receive
    <3>1. Queue' = Append(Queue, Head(netq)) /\ Len(Queue) < QSIZE
      BY <2>1, ReceiveAppends, QueueIsSeq
    <3> QED
      BY <2>1, <3>1 DEF Receive, Service!Next, Service!Accept
  <2>2. CASE SendTo
    BY <2>2, SendToAnswers DEF SendTo, Service!Next, Service!Answer
  <2>3. CASE Quiet
    BY <2>3, QuietStays DEF Service!service
  <2>4. CASE Arrive
    <3>1. netq' = Append(netq, arrived + 1) /\ arrived + 1 \in 1 .. MaxDg
      BY <2>4, ConstantsAssumption DEF Arrive, IInv, TypeOK
    <3> QED
      BY <2>4, <3>1, NetworkStays DEF Service!Next, Service!Arrive
  <2>5. CASE ArriveInVain
    BY <2>5, NetworkStays DEF ArriveInVain, Service!service
  <2>6. CASE UNCHANGED vars
    <3>1. Queue' = Queue
      BY <2>6 DEF vars, ring, Queue, Answered, Slot, First
    <3> QED
      BY <2>6, <3>1 DEF vars, Service!service
  <2> QED
    BY <2>1, <2>2, <2>3, <2>4, <2>5, <2>6 DEF Next, MainStep, HandlerStep, Quiet
<1> QED
  BY <1>1, <1>2, IInvHolds, PTL DEF Spec, ImplementsService, Service!Spec

\* Only what arrives before FIOASYNC is set can be overlooked.
THEOREM SignalsAreKept == Spec => NoSignalLost
<1>1. [Next]_vars => [Overlooked' => Overlooked \/ ~ Async]_vars
  <2> SUFFICES ASSUME Next, Overlooked', Async PROVE Overlooked
    BY DEF Overlooked, Async, vars, ring
  <2>1. CASE MainStep
    BY <2>1 DEF MainStep, SetUp, TestQueue, Suspend, Unblock, SendTo, Advance, Reblock,
                Release, Step, Overlooked
  <2>2. CASE HandlerStep
    BY <2>2 DEF HandlerStep, Deliver, Overflow, Receive, WouldBlock, Overlooked
  <2>3. CASE Arrive
    BY <2>3, Zenon DEF Arrive, Overlooked
  <2>4. CASE ArriveInVain
    BY <2>4, Zenon DEF ArriveInVain, Overlooked
  <2> QED
    BY <2>1, <2>2, <2>3, <2>4 DEF Next
<1> QED
  BY <1>1, PTL DEF Spec, NoSignalLost
=============================================================================
