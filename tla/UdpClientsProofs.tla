--------------------------- MODULE UdpClientsProofs ---------------------------
(***************************************************************************)
(* For every number of questions, hosts and doubled datagrams, size of the *)
(* socket's buffer and parameters of rtt: no round leaves anything behind  *)
(* for the next one, and every client keeps its manner of the promise of   *)
(* UdpSession.                                                             *)
(*                                                                         *)
(* NothingIsLeft is not inductive: that the alarm is off at the end of a   *)
(* round follows from where each program can be while it is on.  IInv adds *)
(* Places (who can be where), Alarm, Pipe, and Answer (what is in hand).   *)
(* The promise also needs Jumpable: when a jump can still lead astray.     *)
(***************************************************************************)
EXTENDS UdpClients, TLAPS

NoAlarm == {"dg_cli"} \cup KernelTimeouts
Collecting == Broadcasts \cup {"ping"}

\* Who can be where.
Places ==
  /\ pc \in {"stop", "timeout", "gaveup"} => prog = "dg_send_recv"
  /\ pc = "got" => prog \in {"dg_send_recv", "dgclitimeo3"}
  /\ pc = "setjmp" => prog \in Jumps
  /\ pc = "crashed" => prog \in Jumps
  /\ pc \in {"unblock", "reblock"} => prog \in LetsIn
  /\ pc = "call" => prog \in LetsIn \cup {"dgclitimeo3", "dgclibcast1", "dgclibcast2"}
  /\ pc = "block" => prog \in BlocksFirst
  /\ pc = "arm" => prog \notin NoAlarm
  /\ pc = "drain" => prog = "dgclibcast6"
  /\ prog = "ping" => pc \in {"probe", "wait", "show", "done"}
  /\ pc = "probe" => prog = "ping"

\* The alarm is on only in a round, after it was set and before the program is
\* content or has been told.
Alarm ==
  timer # "off" =>
    /\ Open /\ prog \notin NoAlarm
    /\ pc \notin {"send", "block", "arm", "timeout", "stop", "drain"}
    /\ pc = "show" => prog \in Collecting \cup {"dgclibcast5"}
    /\ pc = "reblock" => hand # 0

\* The pipe holds a byte from the signal to the end of the round.
Pipe ==
  /\ pipe # 0 => timer = "off" /\ prog = "dgclibcast6" /\ pc \in {"wait", "show", "drain"}
  /\ expired => pipe = 1
  /\ pc = "drain" => pipe = 1

\* What is in hand, and whose answer it is.
Answer ==
  /\ hand # 0 => pc \in {"got", "stop", "show", "reblock"}
  /\ pc \in {"got", "stop", "show"} => hand # 0
  /\ prog = "dg_send_recv" /\ pc \in {"stop", "show"} => hand = asked
  /\ Open /\ prog \notin Collecting => \A r \in 1 .. Questions : <<asked, r>> \notin shown
  /\ \A q \in 1 .. Questions : requests[q] > 0 \/ replies[q] > 0 => q <= asked
  /\ pc # "gaveup" => nrexmt <= RTT_MAXNREXMT

IInv == TypeOK /\ NothingIsLeft /\ Places /\ Alarm /\ Pipe /\ Answer

LEMMA EstimateInRange ==
  ASSUME NEW e \in Nat
  PROVE  rtt_minmax(e) \in Nat /\ rtt_minmax(e) >= RTT_RXTMIN
BY ConstantsAssumption DEF rtt_minmax

LEMMA InitIInv == Init => IInv
<1> SUFFICES ASSUME Init PROVE IInv
  OBVIOUS
<1> USE ConstantsAssumption DEF Init
<1>1. TypeOK
  <2>1. rtt_minmax(3) \in Nat /\ rtt_minmax(3) >= RTT_RXTMIN
    BY DEF rtt_minmax
  <2>2. requests \in [1 .. Questions -> Nat] /\ replies \in [1 .. Questions -> Nat]
    OBVIOUS
  <2>3. inbox \in Seq(1 .. asked) /\ Len(inbox) <= Inbox
    OBVIOUS
  <2>4. shown \subseteq (1 .. asked) \X (1 .. asked)
    OBVIOUS
  <2>5. rto \in Nat /\ rto >= RTT_RXTMIN
    BY <2>1
  <2>6. pc \in {"fgets", "probe"} /\ timer = "off"
    OBVIOUS
  <2>7. blocked \in BOOLEAN /\ expired \in BOOLEAN /\ missed \in BOOLEAN /\ lost \in BOOLEAN
    OBVIOUS
  <2>8. asked \in 0 .. Questions /\ hand \in 0 .. asked /\ doubles \in 0 .. Doubles
    OBVIOUS
  <2>9. pipe \in 0 .. 1 /\ nrexmt \in 0 .. RTT_MAXNREXMT + 1
    OBVIOUS
  <2> QED
    BY <2>2, <2>3, <2>4, <2>5, <2>6, <2>7, <2>8, <2>9 DEF TypeOK
<1>2. NothingIsLeft /\ Places /\ Alarm /\ Pipe
  BY DEF NothingIsLeft, Places, Alarm, Pipe
<1>3. Answer
  BY DEF Answer, Open, Ended
<1> QED
  BY <1>1, <1>2, <1>3 DEF IInv

LEMMA AddToType ==
  ASSUME NEW b \in [1 .. Questions -> Nat], NEW q \in Nat, NEW n \in Nat
  PROVE  /\ AddTo(b, q, n) \in [1 .. Questions -> Nat]
         /\ \A r \in 1 .. Questions : AddTo(b, q, n)[r] > 0 => b[r] > 0 \/ r = q
<1>1. AddTo(b, q, n) = [r \in 1 .. Questions |-> IF r = q THEN b[q] + n ELSE b[r]]
  BY DEF AddTo
<1>2. ASSUME NEW r \in 1 .. Questions
      PROVE  (IF r = q THEN b[q] + n ELSE b[r]) \in Nat
  OBVIOUS
<1>3. AddTo(b, q, n) \in [1 .. Questions -> Nat]
  BY <1>1, <1>2
<1> QED
  BY <1>1, <1>3

LEMMA TakeFromType ==
  ASSUME NEW b \in [1 .. Questions -> Nat], NEW q \in 1 .. Questions, b[q] > 0
  PROVE  TakeFrom(b, q) \in [1 .. Questions -> Nat]
BY DEF TakeFrom

LEMMA SeqGrows ==
  ASSUME NEW S, NEW T, S \subseteq T, NEW s \in Seq(S)
  PROVE  s \in Seq(T)
OBVIOUS

LEMMA FirstAndRest ==
  ASSUME TypeOK, inbox # <<>>
  PROVE  /\ Head(inbox) \in 1 .. asked
         /\ Tail(inbox) \in Seq(1 .. asked) /\ Len(Tail(inbox)) <= Inbox
BY ConstantsAssumption DEF TypeOK

\* The alarm goes off in a round, and whoever is told of it is done with it.
LEMMA SignalKeepsIInv == IInv /\ (AlarmFires \/ Handler \/ Probe) => IInv'
<1> SUFFICES ASSUME IInv, (AlarmFires \/ Handler \/ Probe) PROVE IInv'
  OBVIOUS
<1> USE ConstantsAssumption
<1> USE DEF IInv, asking, network, signals, rttinfo, client, Open, Ended, Jumps, LetsIn, BlocksFirst,
            KernelTimeouts, NoAlarm, Broadcasts, Returns, Collecting
<1>1. CASE AlarmFires
  <2>1. TypeOK'
    BY <1>1 DEF AlarmFires, TypeOK
  <2>2. NothingIsLeft'
    BY <1>1 DEF AlarmFires, TypeOK, NothingIsLeft, Places, Alarm, Pipe, Answer
  <2>3. Places'
    BY <1>1 DEF AlarmFires, Places
  <2>4. Alarm'
    BY <1>1 DEF AlarmFires, TypeOK, Places, Alarm, Pipe, Answer, NothingIsLeft
  <2>5. Pipe'
    BY <1>1 DEF AlarmFires, TypeOK, Places, Alarm, Pipe, NothingIsLeft
  <2>6. Answer'
    BY <1>1 DEF AlarmFires, TypeOK, Places, Alarm, Answer, NothingIsLeft
  <2> QED
    BY <2>1, <2>2, <2>3, <2>4, <2>5, <2>6
<1>2. CASE Handler
  <2>1. TypeOK'
    <3>1. missed' \in {missed, TRUE}
      BY <1>2 DEF Handler, HandlerReturns, HandlerJumps, HandlerWritesPipe
    <3>4. pipe = 0
      BY <1>2 DEF Handler, SignalDue, Pipe
    <3>5. pipe' \in {pipe, pipe + 1}
      BY <1>2 DEF Handler, HandlerReturns, HandlerJumps, HandlerWritesPipe
    <3>6. pipe' \in 0 .. 1
      BY <3>4, <3>5
    <3>7. missed' \in BOOLEAN
      BY <3>1 DEF TypeOK
    <3>2. hand' \in 0 .. asked
      BY <1>2 DEF Handler, TypeOK
    <3>3. pc' \in {pc, "reblock", "fgets", "timeout", "crashed"}
      BY <1>2 DEF Handler, HandlerReturns, HandlerJumps, HandlerWritesPipe
    <3> QED
      BY <1>2, <3>2, <3>3, <3>6, <3>7 DEF Handler, TypeOK
  <2>2. NothingIsLeft'
    BY <1>2 DEF Handler, HandlerReturns, HandlerJumps, HandlerWritesPipe, SignalDue, Waiting, TypeOK,
            NothingIsLeft, Places, Alarm, Pipe, Answer
  <2>3. Places'
    BY <1>2 DEF Handler, HandlerReturns, HandlerJumps, HandlerWritesPipe, SignalDue, Waiting, Places
  <2>4. Alarm'
    BY <1>2 DEF Handler, HandlerReturns, HandlerJumps, HandlerWritesPipe, SignalDue, Waiting, TypeOK,
            Places, Alarm, Pipe, Answer, NothingIsLeft
  <2>5. Pipe'
    BY <1>2 DEF Handler, HandlerReturns, HandlerJumps, HandlerWritesPipe, SignalDue, Waiting, TypeOK,
            Places, Alarm, Pipe, NothingIsLeft
  <2>6. Answer'
    BY <1>2 DEF Handler, HandlerReturns, HandlerJumps, HandlerWritesPipe, SignalDue, Waiting, TypeOK,
            Places, Alarm, Answer, NothingIsLeft
  <2> QED
    BY <2>1, <2>2, <2>3, <2>4, <2>5, <2>6
<1>3. CASE Probe
  <2>1. TypeOK'
    <3>5. asked \in Nat /\ asked + 1 \in Nat /\ hand \in 0 .. asked /\ requests \in [1 .. Questions -> Nat]
      BY DEF TypeOK
    <3>6. requests' \in {requests, AddTo(requests, asked + 1, 1)}
      BY <1>3 DEF Probe
    <3>7. requests' \in [1 .. Questions -> Nat]
      <4>1. 1 \in Nat
        OBVIOUS
      <4>2. AddTo(requests, asked + 1, 1) \in [1 .. Questions -> Nat]
        BY ONLY <3>5, <4>1, AddToType
      <4> QED
        BY <3>5, <3>6, <4>2
    <3>8. asked' \in 0 .. Questions /\ asked' \in {asked, asked + 1}
      BY <1>3, <3>5 DEF Probe, TypeOK
    <3>9. hand' \in {0, hand} /\ shown' = shown /\ inbox' = inbox
      BY <1>3 DEF Probe
    <3>1. (1 .. asked) \subseteq (1 .. asked')
      BY <3>5, <3>8
    <3>2. shown' \subseteq (1 .. asked') \X (1 .. asked')
      BY <3>1, <3>9 DEF TypeOK
    <3>10. hand' \in 0 .. asked'
      BY <3>5, <3>8, <3>9
    <3>3. inbox' \in Seq(1 .. asked') /\ Len(inbox') <= Inbox
      BY <3>1, <3>9, SeqGrows DEF TypeOK
    <3>4. pc' \in {pc, "wait", "done"} /\ timer' \in {"set", "off"}
      BY <1>3 DEF Probe
    <3> QED
      BY <1>3, <3>2, <3>3, <3>4, <3>7, <3>8, <3>10 DEF Probe, TypeOK
  <2>2. NothingIsLeft'
    BY <1>3 DEF Probe, SignalDue, Waiting, AddTo, TypeOK, NothingIsLeft, Places, Alarm, Pipe, Answer
  <2>3. Places'
    BY <1>3 DEF Probe, SignalDue, Waiting, AddTo, Places
  <2>4. Alarm'
    BY <1>3 DEF Probe, SignalDue, Waiting, AddTo, TypeOK, Places, Alarm, Pipe, Answer, NothingIsLeft
  <2>5. Pipe'
    BY <1>3 DEF Probe, SignalDue, Waiting, AddTo, TypeOK, Places, Alarm, Pipe, NothingIsLeft
  <2>6. Answer'
    <3>2. asked \in Nat /\ asked + 1 \in Nat /\ 1 \in Nat /\ requests \in [1 .. Questions -> Nat]
      BY DEF TypeOK
    <3>4. (requests' = requests /\ asked' = asked) \/ (requests' = AddTo(requests, asked + 1, 1) /\ asked' = asked + 1)
      BY <1>3 DEF Probe
    <3>1. \A q \in 1 .. Questions : requests'[q] > 0 => requests[q] > 0 \/ q <= asked'
      <4>1. \A q \in 1 .. Questions : AddTo(requests, asked + 1, 1)[q] > 0 => requests[q] > 0 \/ q = asked + 1
        BY ONLY <3>2, AddToType
      <4> QED
        BY <3>2, <3>4, <4>1
    <3>3. \A q \in 1 .. Questions : requests'[q] > 0 \/ replies'[q] > 0 => q <= asked'
      BY <1>3, <3>1, <3>2, <3>4 DEF Probe, Answer
    <3> QED
      BY <1>3, <3>3 DEF Probe, SignalDue, Waiting, TypeOK, Places, Alarm, Answer, NothingIsLeft
  <2> QED
    BY <2>1, <2>2, <2>3, <2>4, <2>5, <2>6
<1> QED
  BY <1>1, <1>2, <1>3

\* Each program ends a round with the alarm off.
LEMMA ProgramKeepsIInv == IInv /\ Program => IInv'
<1> SUFFICES ASSUME IInv, Program PROVE IInv'
  OBVIOUS
<1> USE ConstantsAssumption
<1> USE DEF IInv, asking, network, signals, rttinfo, client, Open, Ended, Jumps, LetsIn, BlocksFirst,
            KernelTimeouts, NoAlarm, Broadcasts, Returns, Collecting
<1>1. CASE Fgets
  <2>1. TypeOK'
    <3>1. /\ asked \in Nat /\ asked' \in 0 .. Questions /\ asked <= asked'
          /\ pc' \in {"send", "done"} /\ nrexmt' \in 0 .. RTT_MAXNREXMT + 1
      BY <1>1 DEF Fgets, TypeOK
    <3>2. 1 .. asked \subseteq 1 .. asked' /\ 0 .. asked \subseteq 0 .. asked'
      BY <3>1
    <3>3. hand' \in 0 .. asked' /\ shown' \subseteq (1 .. asked') \X (1 .. asked')
      BY <1>1, <3>2 DEF Fgets, TypeOK
    <3>4. inbox \in Seq(1 .. asked)
      BY DEF TypeOK
    <3>5. inbox \in Seq(1 .. asked')
      BY ONLY <3>1, <3>2, <3>4
    <3> QED
      BY <1>1, <3>1, <3>3, <3>5 DEF Fgets, TypeOK
  <2>2. NothingIsLeft'
    BY <1>1 DEF Fgets, TypeOK, NothingIsLeft, Places, Alarm, Pipe, Answer
  <2>3. Places'
    BY <1>1 DEF Fgets, Places
  <2>4. Alarm'
    BY <1>1 DEF Fgets, TypeOK, Places, Alarm, Pipe, Answer, NothingIsLeft
  <2>5. Pipe'
    BY <1>1 DEF Fgets, TypeOK, Places, Alarm, Pipe, NothingIsLeft
  <2>6. Answer'
    BY <1>1 DEF Fgets, TypeOK, Places, Alarm, Answer, NothingIsLeft
  <2> QED
    BY <2>1, <2>2, <2>3, <2>4, <2>5, <2>6
<1>2. CASE Send
  <2>1. TypeOK'
    <3>3. asked \in Nat /\ Hosts \in Nat /\ requests \in [1 .. Questions -> Nat]
      BY DEF TypeOK
    <3>4. requests' = AddTo(requests, asked, Hosts) \/ requests' = AddTo(requests, asked, 1)
      BY <1>2 DEF Send
    <3>5. 1 \in Nat
      OBVIOUS
    <3>6. AddTo(requests, asked, Hosts) \in [1 .. Questions -> Nat] /\ AddTo(requests, asked, 1) \in [1 .. Questions -> Nat]
      BY ONLY <3>3, <3>5, AddToType
    <3>1. requests' \in [1 .. Questions -> Nat]
      BY <3>4, <3>6
    <3>2. pc' \in {"block", "wait", "arm"}
      BY <1>2 DEF Send
    <3> QED
      BY <1>2, <3>1, <3>2 DEF Send, TypeOK
  <2>2. NothingIsLeft'
    BY <1>2 DEF Send, AddTo, TypeOK, NothingIsLeft, Places, Alarm, Pipe, Answer
  <2>3. Places'
    BY <1>2 DEF Send, AddTo, Places
  <2>4. Alarm'
    BY <1>2 DEF Send, AddTo, TypeOK, Places, Alarm, Pipe, Answer, NothingIsLeft
  <2>5. Pipe'
    BY <1>2 DEF Send, AddTo, TypeOK, Places, Alarm, Pipe, NothingIsLeft
  <2>6. Answer'
    BY <1>2 DEF Send, AddTo, TypeOK, Places, Alarm, Answer, NothingIsLeft
  <2> QED
    BY <2>1, <2>2, <2>3, <2>4, <2>5, <2>6
<1>3. CASE Block
  <2>1. TypeOK'
    BY <1>3 DEF Block, TypeOK
  <2>2. NothingIsLeft'
    BY <1>3 DEF Block, TypeOK, NothingIsLeft, Places, Alarm, Pipe, Answer
  <2>3. Places'
    BY <1>3 DEF Block, Places
  <2>4. Alarm'
    BY <1>3 DEF Block, TypeOK, Places, Alarm, Pipe, Answer, NothingIsLeft
  <2>5. Pipe'
    BY <1>3 DEF Block, TypeOK, Places, Alarm, Pipe, NothingIsLeft
  <2>6. Answer'
    BY <1>3 DEF Block, TypeOK, Places, Alarm, Answer, NothingIsLeft
  <2> QED
    BY <2>1, <2>2, <2>3, <2>4, <2>5, <2>6
<1>4. CASE Arm
  <2>1. TypeOK'
    BY <1>4 DEF Arm, Again, Seconds, TypeOK
  <2>2. NothingIsLeft'
    BY <1>4 DEF Arm, Again, Seconds, TypeOK, NothingIsLeft, Places, Alarm, Pipe, Answer
  <2>3. Places'
    BY <1>4 DEF Arm, Again, Seconds, Places
  <2>4. Alarm'
    BY <1>4 DEF Arm, Again, Seconds, TypeOK, Places, Alarm, Pipe, Answer, NothingIsLeft
  <2>5. Pipe'
    BY <1>4 DEF Arm, Again, Seconds, TypeOK, Places, Alarm, Pipe, NothingIsLeft
  <2>6. Answer'
    BY <1>4 DEF Arm, Again, Seconds, TypeOK, Places, Alarm, Answer, NothingIsLeft
  <2> QED
    BY <2>1, <2>2, <2>3, <2>4, <2>5, <2>6
<1>5. CASE SigSetJmp
  <2>1. TypeOK'
    BY <1>5 DEF SigSetJmp, Undisturbed, SignalDue, TypeOK
  <2>2. NothingIsLeft'
    BY <1>5 DEF SigSetJmp, Undisturbed, SignalDue, TypeOK, NothingIsLeft, Places, Alarm, Pipe, Answer
  <2>3. Places'
    BY <1>5 DEF SigSetJmp, Undisturbed, SignalDue, Places
  <2>4. Alarm'
    BY <1>5 DEF SigSetJmp, Undisturbed, SignalDue, TypeOK, Places, Alarm, Pipe, Answer, NothingIsLeft
  <2>5. Pipe'
    BY <1>5 DEF SigSetJmp, Undisturbed, SignalDue, TypeOK, Places, Alarm, Pipe, NothingIsLeft
  <2>6. Answer'
    BY <1>5 DEF SigSetJmp, Undisturbed, SignalDue, TypeOK, Places, Alarm, Answer, NothingIsLeft
  <2> QED
    BY <2>1, <2>2, <2>3, <2>4, <2>5, <2>6
<1>6. CASE Unblock
  <2>1. TypeOK'
    BY <1>6 DEF Unblock, Undisturbed, SignalDue, TypeOK
  <2>2. NothingIsLeft'
    BY <1>6 DEF Unblock, Undisturbed, SignalDue, TypeOK, NothingIsLeft, Places, Alarm, Pipe, Answer
  <2>3. Places'
    BY <1>6 DEF Unblock, Undisturbed, SignalDue, Places
  <2>4. Alarm'
    BY <1>6 DEF Unblock, Undisturbed, SignalDue, TypeOK, Places, Alarm, Pipe, Answer, NothingIsLeft
  <2>5. Pipe'
    BY <1>6 DEF Unblock, Undisturbed, SignalDue, TypeOK, Places, Alarm, Pipe, NothingIsLeft
  <2>6. Answer'
    BY <1>6 DEF Unblock, Undisturbed, SignalDue, TypeOK, Places, Alarm, Answer, NothingIsLeft
  <2> QED
    BY <2>1, <2>2, <2>3, <2>4, <2>5, <2>6
<1>7. CASE Call
  <2>1. TypeOK'
    BY <1>7 DEF Call, Undisturbed, SignalDue, TypeOK
  <2>2. NothingIsLeft'
    BY <1>7 DEF Call, Undisturbed, SignalDue, TypeOK, NothingIsLeft, Places, Alarm, Pipe, Answer
  <2>3. Places'
    BY <1>7 DEF Call, Undisturbed, SignalDue, Places
  <2>4. Alarm'
    BY <1>7 DEF Call, Undisturbed, SignalDue, TypeOK, Places, Alarm, Pipe, Answer, NothingIsLeft
  <2>5. Pipe'
    BY <1>7 DEF Call, Undisturbed, SignalDue, TypeOK, Places, Alarm, Pipe, NothingIsLeft
  <2>6. Answer'
    BY <1>7 DEF Call, Undisturbed, SignalDue, TypeOK, Places, Alarm, Answer, NothingIsLeft
  <2> QED
    BY <2>1, <2>2, <2>3, <2>4, <2>5, <2>6
<1>8. CASE Receive
  <2>1. TypeOK'
    <3>1. hand' \in 1 .. asked /\ inbox' \in Seq(1 .. asked) /\ Len(inbox') <= Inbox
      BY <1>8, FirstAndRest DEF Receive
    <3>2. pc' \in {"got", "reblock", "show"}
      BY <1>8 DEF Receive
    <3>3. expired' = (pipe > 0)
      BY <1>8 DEF Receive
    <3>4. expired' \in BOOLEAN
      BY <3>3
    <3>5. hand' \in 0 .. asked
      BY <3>1
    <3> QED
      BY <1>8, <3>1, <3>2, <3>4, <3>5 DEF Receive, TypeOK
  <2>2. NothingIsLeft'
    BY <1>8 DEF Receive, TypeOK, NothingIsLeft, Places, Alarm, Pipe, Answer
  <2>3. Places'
    BY <1>8 DEF Receive, Places
  <2>4. Alarm'
    <3>1. hand' # 0
      BY <1>8, FirstAndRest DEF Receive, TypeOK
    <3>2. prog \in AllPrograms
      BY DEF TypeOK
    <3> QED
      BY <1>8, <3>1, <3>2 DEF Receive, Places, Alarm, AllPrograms
  <2>5. Pipe'
    BY <1>8 DEF Receive, TypeOK, Places, Alarm, Pipe, NothingIsLeft
  <2>6. Answer'
    <3>1. hand' # 0
      BY <1>8, FirstAndRest DEF Receive, TypeOK
    <3> QED
      BY <1>8, <3>1 DEF Receive, TypeOK, Places, Answer
  <2> QED
    BY <2>1, <2>2, <2>3, <2>4, <2>5, <2>6
<1>9. CASE TimesOut
  <2>1. TypeOK'
    BY <1>9 DEF TimesOut, Waiting, TypeOK
  <2>2. NothingIsLeft'
    BY <1>9 DEF TimesOut, Waiting, TypeOK, NothingIsLeft, Places, Alarm, Pipe, Answer
  <2>3. Places'
    BY <1>9 DEF TimesOut, Waiting, Places
  <2>4. Alarm'
    BY <1>9 DEF TimesOut, Waiting, TypeOK, Places, Alarm, Pipe, Answer, NothingIsLeft
  <2>5. Pipe'
    BY <1>9 DEF TimesOut, Waiting, TypeOK, Places, Alarm, Pipe, NothingIsLeft
  <2>6. Answer'
    BY <1>9 DEF TimesOut, Waiting, TypeOK, Places, Alarm, Answer, NothingIsLeft
  <2> QED
    BY <2>1, <2>2, <2>3, <2>4, <2>5, <2>6
<1>10. CASE Reblock
  <2>1. TypeOK'
    BY <1>10 DEF Reblock, Undisturbed, SignalDue, TypeOK
  <2>2. NothingIsLeft'
    BY <1>10 DEF Reblock, Undisturbed, SignalDue, TypeOK, NothingIsLeft, Places, Alarm, Pipe, Answer
  <2>3. Places'
    BY <1>10 DEF Reblock, Undisturbed, SignalDue, Places
  <2>4. Alarm'
    BY <1>10 DEF Reblock, Undisturbed, SignalDue, TypeOK, Places, Alarm, Pipe, Answer, NothingIsLeft
  <2>5. Pipe'
    BY <1>10 DEF Reblock, Undisturbed, SignalDue, TypeOK, Places, Alarm, Pipe, NothingIsLeft
  <2>6. Answer'
    BY <1>10 DEF Reblock, Undisturbed, SignalDue, TypeOK, Places, Alarm, Answer, NothingIsLeft
  <2> QED
    BY <2>1, <2>2, <2>3, <2>4, <2>5, <2>6
<1>11. CASE Discard
  <2>1. TypeOK'
    BY <1>11 DEF Discard, Undisturbed, SignalDue, Matches, TypeOK
  <2>2. NothingIsLeft'
    BY <1>11 DEF Discard, Undisturbed, SignalDue, Matches, TypeOK, NothingIsLeft, Places, Alarm, Pipe, Answer
  <2>3. Places'
    BY <1>11 DEF Discard, Undisturbed, SignalDue, Matches, Places
  <2>4. Alarm'
    BY <1>11 DEF Discard, Undisturbed, SignalDue, Matches, TypeOK, Places, Alarm, Pipe, Answer, NothingIsLeft
  <2>5. Pipe'
    BY <1>11 DEF Discard, Undisturbed, SignalDue, Matches, TypeOK, Places, Alarm, Pipe, NothingIsLeft
  <2>6. Answer'
    BY <1>11 DEF Discard, Undisturbed, SignalDue, Matches, TypeOK, Places, Alarm, Answer, NothingIsLeft
  <2> QED
    BY <2>1, <2>2, <2>3, <2>4, <2>5, <2>6
<1>12. CASE Disarm
  <2>1. TypeOK'
    BY <1>12 DEF Disarm, Undisturbed, SignalDue, Matches, TypeOK
  <2>2. NothingIsLeft'
    BY <1>12 DEF Disarm, Undisturbed, SignalDue, Matches, TypeOK, NothingIsLeft, Places, Alarm, Pipe, Answer
  <2>3. Places'
    BY <1>12 DEF Disarm, Undisturbed, SignalDue, Matches, Places
  <2>4. Alarm'
    BY <1>12 DEF Disarm, Undisturbed, SignalDue, Matches, TypeOK, Places, Alarm, Pipe, Answer, NothingIsLeft
  <2>5. Pipe'
    BY <1>12 DEF Disarm, Undisturbed, SignalDue, Matches, TypeOK, Places, Alarm, Pipe, NothingIsLeft
  <2>6. Answer'
    BY <1>12 DEF Disarm, Undisturbed, SignalDue, Matches, TypeOK, Places, Alarm, Answer, NothingIsLeft
  <2> QED
    BY <2>1, <2>2, <2>3, <2>4, <2>5, <2>6
<1>13. CASE rtt_stop
  <2>1. TypeOK'
    <3>1. rto' \in Nat /\ rto' >= RTT_RXTMIN
      BY <1>13, EstimateInRange DEF rtt_stop
    <3> QED
      BY <1>13, <3>1 DEF rtt_stop, TypeOK
  <2>2. NothingIsLeft'
    BY <1>13 DEF rtt_stop, TypeOK, NothingIsLeft, Places, Alarm, Pipe, Answer
  <2>3. Places'
    BY <1>13 DEF rtt_stop, Places
  <2>4. Alarm'
    BY <1>13 DEF rtt_stop, TypeOK, Places, Alarm, Pipe, Answer, NothingIsLeft
  <2>5. Pipe'
    BY <1>13 DEF rtt_stop, TypeOK, Places, Alarm, Pipe, NothingIsLeft
  <2>6. Answer'
    BY <1>13 DEF rtt_stop, TypeOK, Places, Alarm, Answer, NothingIsLeft
  <2> QED
    BY <2>1, <2>2, <2>3, <2>4, <2>5, <2>6
<1>14. CASE rtt_timeout
  <2>1. TypeOK'
    BY <1>14 DEF rtt_timeout, TypeOK, Places, Answer
  <2>2. NothingIsLeft'
    BY <1>14 DEF rtt_timeout, TypeOK, NothingIsLeft, Places, Alarm, Pipe, Answer
  <2>3. Places'
    BY <1>14 DEF rtt_timeout, Places
  <2>4. Alarm'
    BY <1>14 DEF rtt_timeout, TypeOK, Places, Alarm, Pipe, Answer, NothingIsLeft
  <2>5. Pipe'
    BY <1>14 DEF rtt_timeout, TypeOK, Places, Alarm, Pipe, NothingIsLeft
  <2>6. Answer'
    BY <1>14 DEF rtt_timeout, TypeOK, Places, Alarm, Answer, NothingIsLeft
  <2> QED
    BY <2>1, <2>2, <2>3, <2>4, <2>5, <2>6
<1>15. CASE Show
  <2>1. TypeOK'
    BY <1>15 DEF Show, Undisturbed, SignalDue, AfterShow, Again, TypeOK, NothingIsLeft, Places, Alarm, Pipe,
            Answer
  <2>2. NothingIsLeft'
    BY <1>15 DEF Show, Undisturbed, SignalDue, AfterShow, Again, TypeOK, NothingIsLeft, Places, Alarm, Pipe,
            Answer
  <2>3. Places'
    BY <1>15 DEF Show, Undisturbed, SignalDue, AfterShow, Again, Places
  <2>4. Alarm'
    BY <1>15 DEF Show, Undisturbed, SignalDue, AfterShow, Again, TypeOK, Places, Alarm, Pipe, Answer,
            NothingIsLeft
  <2>5. Pipe'
    BY <1>15 DEF Show, Undisturbed, SignalDue, AfterShow, Again, TypeOK, Places, Alarm, Pipe, NothingIsLeft
  <2>6. Answer'
    BY <1>15 DEF Show, Undisturbed, SignalDue, AfterShow, Again, TypeOK, Places, Alarm, Answer, NothingIsLeft
  <2> QED
    BY <2>1, <2>2, <2>3, <2>4, <2>5, <2>6
<1>16. CASE PipeReadable
  <2>1. TypeOK'
    BY <1>16 DEF PipeReadable, Undisturbed, SignalDue, Waiting, TypeOK, NothingIsLeft, Places, Alarm, Pipe,
            Answer
  <2>2. NothingIsLeft'
    BY <1>16 DEF PipeReadable, Undisturbed, SignalDue, Waiting, TypeOK, NothingIsLeft, Places, Alarm, Pipe,
            Answer
  <2>3. Places'
    BY <1>16 DEF PipeReadable, Undisturbed, SignalDue, Waiting, Places
  <2>4. Alarm'
    BY <1>16 DEF PipeReadable, Undisturbed, SignalDue, Waiting, TypeOK, Places, Alarm, Pipe, Answer,
            NothingIsLeft
  <2>5. Pipe'
    BY <1>16 DEF PipeReadable, Undisturbed, SignalDue, Waiting, TypeOK, Places, Alarm, Pipe, NothingIsLeft
  <2>6. Answer'
    BY <1>16 DEF PipeReadable, Undisturbed, SignalDue, Waiting, TypeOK, Places, Alarm, Answer, NothingIsLeft
  <2> QED
    BY <2>1, <2>2, <2>3, <2>4, <2>5, <2>6
<1>17. CASE Drain
  <2>1. TypeOK'
    <3>1. pipe' = 0 /\ expired' = FALSE
      BY <1>17 DEF Drain, Pipe
    <3>2. expired' \in BOOLEAN
      BY <3>1
    <3>3. pipe' \in 0 .. 1
      BY <3>1
    <3> QED
      BY <1>17, <3>1, <3>2, <3>3 DEF Drain, TypeOK
  <2>2. NothingIsLeft'
    BY <1>17 DEF Drain, TypeOK, NothingIsLeft, Places, Alarm, Pipe, Answer
  <2>3. Places'
    BY <1>17 DEF Drain, Places
  <2>4. Alarm'
    BY <1>17 DEF Drain, TypeOK, Places, Alarm, Pipe, Answer, NothingIsLeft
  <2>5. Pipe'
    BY <1>17 DEF Drain, TypeOK, Places, Alarm, Pipe, NothingIsLeft
  <2>6. Answer'
    BY <1>17 DEF Drain, TypeOK, Places, Alarm, Answer, NothingIsLeft
  <2> QED
    BY <2>1, <2>2, <2>3, <2>4, <2>5, <2>6
<1> QED
  BY <1>1, <1>2, <1>3, <1>4, <1>5, <1>6, <1>7, <1>8, <1>9, <1>10, <1>11, <1>12, <1>13, <1>14, <1>15,
          <1>16, <1>17 DEF Program

\* A datagram answers a question that has been asked.
LEMMA NetworkKeepsIInv == IInv /\ Network => IInv'
<1> SUFFICES ASSUME IInv, NEW q \in 1 .. Questions,
                    DgEcho(q) \/ Arrive(q) \/ LoseRequest(q) \/ LoseReply(q) \/ Double(q)
             PROVE  IInv'
  BY DEF Network
<1> USE ConstantsAssumption DEF IInv, client, asking, signals, rttinfo
<1>1. asked \in Nat /\ requests \in [1 .. Questions -> Nat] /\ replies \in [1 .. Questions -> Nat]
  BY DEF TypeOK
<1>2. /\ AddTo(requests, q, 1) \in [1 .. Questions -> Nat] /\ AddTo(replies, q, 1) \in [1 .. Questions -> Nat]
      /\ \A r \in 1 .. Questions : AddTo(replies, q, 1)[r] > 0 => replies[r] > 0 \/ r = q
  <2>1. q \in Nat /\ 1 \in Nat
    OBVIOUS
  <2> QED
    BY ONLY <1>1, <2>1, AddToType
<1>3. requests[q] > 0 => TakeFrom(requests, q) \in [1 .. Questions -> Nat]
  BY <1>1, TakeFromType
<1>4. replies[q] > 0 => TakeFrom(replies, q) \in [1 .. Questions -> Nat]
  BY <1>1, TakeFromType
<1>5. /\ \A r \in 1 .. Questions : TakeFrom(requests, q)[r] > 0 => requests[r] > 0
      /\ \A r \in 1 .. Questions : TakeFrom(replies, q)[r] > 0 => replies[r] > 0
  BY <1>1 DEF TakeFrom
<1>6. requests[q] > 0 \/ replies[q] > 0 => q <= asked
  BY DEF Answer
<1>7. UNCHANGED client
  BY DEF DgEcho, Arrive, LoseRequest, LoseReply, Double
<1>8. requests' \in [1 .. Questions -> Nat] /\ replies' \in [1 .. Questions -> Nat]
  BY <1>1, <1>2, <1>3, <1>4 DEF DgEcho, Arrive, LoseRequest, LoseReply, Double
<1>9. inbox' \in Seq(1 .. asked) /\ Len(inbox') <= Inbox
  <2>1. CASE Arrive(q) /\ Len(inbox) < Inbox
    <3>1. q \in 1 .. asked
      BY <1>1, <1>6, <2>1 DEF Arrive
    <3>2. inbox \in Seq(1 .. asked) /\ inbox' = Append(inbox, q) /\ Inbox \in Nat
      BY <2>1 DEF Arrive, TypeOK
    <3> QED
      BY ONLY <2>1, <3>1, <3>2
  <2>2. CASE inbox' = inbox
    BY <2>2 DEF TypeOK
  <2> QED
    BY <2>1, <2>2 DEF DgEcho, Arrive, LoseRequest, LoseReply, Double
<1>10. doubles' \in 0 .. Doubles
  <2>1. doubles' = doubles \/ (doubles < Doubles /\ doubles' = doubles + 1)
    BY DEF DgEcho, Arrive, LoseRequest, LoseReply, Double
  <2> QED
    BY <2>1 DEF TypeOK
<1>11. lost' \in {lost, TRUE}
  BY DEF DgEcho, Arrive, LoseRequest, LoseReply, Double
<1>12. \A r \in 1 .. Questions : requests'[r] > 0 \/ replies'[r] > 0 => requests[r] > 0 \/ replies[r] > 0
  BY <1>1, <1>2, <1>5 DEF DgEcho, Arrive, LoseRequest, LoseReply, Double
<1>13. TypeOK'
  <2>1. lost' \in BOOLEAN
    BY <1>11 DEF TypeOK
  <2> QED
    BY <1>7, <1>8, <1>9, <1>10, <2>1 DEF TypeOK
<1>14. NothingIsLeft' /\ Places' /\ Pipe'
  BY <1>7 DEF NothingIsLeft, Places, Pipe
<1>15. Alarm'
  BY <1>7 DEF Alarm, Open, Ended
<1>16. Answer'
  BY <1>7, <1>12 DEF Answer, Open, Ended
<1> QED
  BY <1>13, <1>14, <1>15, <1>16

LEMMA Inductive == Spec => []IInv
<1>1. IInv /\ [Next]_vars => IInv'
  <2> SUFFICES ASSUME IInv, [Next]_vars PROVE IInv'
    OBVIOUS
  <2>1. CASE UNCHANGED vars
    BY <2>1 DEF IInv, TypeOK, NothingIsLeft, Places, Alarm, Pipe, Answer, Open, Ended,
                vars, asking, network, signals, rttinfo
  <2>2. CASE Next
    BY <2>2, SignalKeepsIInv, ProgramKeepsIInv, NetworkKeepsIInv DEF Next
  <2> QED
    BY <2>1, <2>2
<1> QED
  BY InitIInv, <1>1, PTL DEF Spec

\* Variables keep their types; among them nrexmt, which is bounded, and rto,
\* which is never shorter than RTT_RXTMIN, so that alarm() is never called
\* with 0.
THEOREM TypeCorrect == Spec => []TypeOK
BY Inductive, PTL DEF IInv

\* Whatever the network does and wherever the signal comes, a round begins with
\* the alarm off, the pipe empty and no answer in hand.
THEOREM RoundsAreClean == Spec => []NothingIsLeft
BY Inductive, PTL DEF IInv

\* Whose jmpbuf goes stale, and where dgclibcast5 is before it has set its own.
Jumpable ==
  /\ jmpbuf = "stale" => prog = "dg_send_recv"
  /\ prog = "dgclibcast5" /\ jmpbuf = "unset" =>
       /\ shown = {}
       /\ (asked = 0 /\ pc = "fgets") \/ (asked = 1 /\ pc \in {"send", "arm", "setjmp", "crashed"})

LEMMA AlwaysJumpable == Spec => []Jumpable
<1>1. Init => Jumpable
  BY DEF Init, Jumpable
<1>2. IInv /\ Jumpable /\ [Next]_vars => Jumpable'
  <2> SUFFICES ASSUME IInv, Jumpable, [Next]_vars PROVE Jumpable'
    OBVIOUS
  <2> USE DEF asking, network, signals, rttinfo
  <2>1. CASE UNCHANGED vars
    BY <2>1 DEF vars, Jumpable
  <2>2. CASE Network
    BY <2>2 DEF Network, DgEcho, Arrive, LoseRequest, LoseReply, Double, client, Jumpable
  <2>3. CASE AlarmFires
    BY <2>3 DEF AlarmFires, Jumpable
  <2>4. CASE Probe
    BY <2>4 DEF Probe, Jumpable
  <2>5. CASE Handler
    BY <2>5 DEF Handler, HandlerReturns, HandlerJumps, HandlerWritesPipe, SignalDue, Jumpable, IInv, Alarm,
                Open, Ended, Returns, Jumps
  <2>6. CASE Program
    <3>1. CASE rtt_stop
      BY <3>1 DEF rtt_stop, Jumpable, IInv, Places
    <3>2. CASE Fgets
      BY <3>2, ConstantsAssumption DEF Fgets, Jumpable
    <3>3. CASE Send
      BY <3>3 DEF Send, Jumpable, BlocksFirst, KernelTimeouts
    <3>4. CASE Arm
      <4>1. prog = "dgclibcast5" => Again = "setjmp"
        BY DEF Again, Jumps, LetsIn
      <4>2. UNCHANGED <<prog, asked, shown, jmpbuf>> /\ pc = "arm" /\ pc' = Again
        BY <3>4 DEF Arm
      <4> QED
        BY <4>1, <4>2 DEF Jumpable
    <3>5. CASE SigSetJmp
      BY <3>5 DEF SigSetJmp, Jumpable
    <3>6. CASE Block \/ Unblock \/ Call \/ Receive \/ TimesOut \/ Reblock \/ Discard \/ Disarm \/ rtt_timeout \/ Show \/ PipeReadable \/ Drain
      BY <3>6 DEF Block, Unblock, Call, Receive, TimesOut, Reblock, Discard, Disarm, rtt_timeout, Show,
                  PipeReadable, Drain, Waiting, Jumpable
    <3> QED
      BY <2>6, <3>1, <3>2, <3>3, <3>4, <3>5, <3>6 DEF Program
  <2> QED
    BY <2>1, <2>2, <2>3, <2>4, <2>5, <2>6 DEF Next
<1> QED
  BY <1>1, <1>2, Inductive, PTL DEF Spec

-------------------------- (* The promise is kept *) ---------------------------
\* What the session sees does not change.
Still == UNCHANGED <<prog, asked, shown>>
over == IF Ended THEN pc ELSE "no"

LEMMA Stutters ==
  ASSUME Still, Open' = Open, over' = over
  PROVE  UNCHANGED Session!vars
BY DEF Session!vars, Still, Manner, over

\* A round ends without an answer.
LEMMA RoundTimesOut ==
  ASSUME Still, Open, ~ Open', over' = over, prog \notin {"dg_send_recv", "ping"}
  PROVE  Session!TimeOut
<1>1. Manner' = Manner
  BY DEF Manner, Still
<1>2. ~ Manner.matched /\ ~ Manner.overlaps
  BY DEF Manner
<1>3. Open' = FALSE
  BY DEF Open
<1> QED
  BY <1>1, <1>2, <1>3 DEF Session!TimeOut, Still, over

LEMMA NetworkStutters ==
  ASSUME Network \/ AlarmFires PROVE UNCHANGED Session!vars
<1>1. UNCHANGED <<prog, pc, asked, shown>>
  BY DEF Network, AlarmFires, DgEcho, Arrive, LoseRequest, LoseReply, Double, client, asking
<1> QED
  BY <1>1, Stutters DEF Still, Open, Ended, over

LEMMA HandlerKeepsPromise ==
  ASSUME IInv, Jumpable, Handler PROVE Session!Next \/ UNCHANGED Session!vars
<1>1. Still
  BY DEF Handler, Still
<1>2. Open /\ over = "no"
  BY DEF Handler, SignalDue, IInv, Alarm, Open, over
<1>3. CASE pc' \in {pc, "reblock", "timeout"}
  BY <1>1, <1>2, <1>3, Stutters DEF Open, Ended, over
<1>4. CASE pc' = "fgets" /\ prog # "dg_send_recv"
  <2>1. prog # "ping"
    BY DEF Handler, HandlerReturns, HandlerJumps, HandlerWritesPipe, Returns, Jumps
  <2> QED
    BY <1>1, <1>2, <1>4, <2>1, RoundTimesOut DEF Open, Ended, over, Session!Next
<1>5. CASE pc' = "crashed" /\ prog \in Jumps
  <2>1. jmpbuf # "set"
    <3>1. pc # "crashed"
      BY <1>2 DEF Open, Ended
    <3> QED
      BY <1>5, <3>1 DEF Handler, HandlerReturns, HandlerJumps, HandlerWritesPipe, Returns, Jumps
  <2>2. \A r \in 1 .. Questions : <<asked, r>> \notin shown
    BY <1>2, <1>5, <2>1 DEF IInv, Answer, Collecting, Broadcasts, Jumps, Jumpable, TypeOK
  <2>3. prog = "dgclibcast5" => asked = 1
    BY <1>2, <2>1 DEF IInv, TypeOK, Jumpable, Open
  <2>4. Session!MayFall
    BY <1>2, <1>5, <2>2, <2>3 DEF Session!MayFall, Manner, Jumps
  <2> QED
    BY <1>1, <1>2, <1>5, <2>4 DEF Still, Open, Ended, over, Session!Next, Session!End, Manner
<1> QED
  BY <1>3, <1>4, <1>5 DEF Handler, HandlerReturns, HandlerJumps, HandlerWritesPipe, Returns

LEMMA ProbeKeepsPromise ==
  ASSUME IInv, Probe PROVE Session!Next \/ UNCHANGED Session!vars
<1>1. prog = "ping" /\ prog' = prog /\ shown' = shown
  BY DEF Probe
<1>2. over = "no"
  BY DEF Probe, IInv, Alarm, SignalDue, Open, Ended, over
<1>3. CASE asked < Questions
  <2>1. asked' = asked + 1 /\ Open' /\ over' = "no"
    BY <1>3 DEF Probe, IInv, Alarm, SignalDue, Open, Ended, over
  <2> QED
    BY <1>1, <1>2, <1>3, <2>1 DEF Session!Next, Session!Ask, Manner, over
<1>4. CASE ~ (asked < Questions)
  <2>1. pc' = "done" /\ asked' = asked
    BY <1>4 DEF Probe
  <2> QED
    BY <1>1, <1>2, <2>1 DEF Session!Next, Session!End, Manner, Open, Ended, over
<1> QED
  BY <1>3, <1>4

LEMMA ShowKeepsPromise ==
  ASSUME IInv, Show PROVE Session!Next \/ UNCHANGED Session!vars
<1>1. Open /\ over = "no" /\ prog' = prog /\ asked' = asked
  BY DEF Show, Open, Ended, over
<1>2. hand \in 1 .. asked /\ shown' = shown \cup {<<asked, hand>>}
  <2>1. hand \in 0 .. asked /\ hand # 0 /\ asked \in Nat
    BY ConstantsAssumption DEF Show, IInv, TypeOK, Answer
  <2> QED
    BY <2>1 DEF Show
<1>3. prog = "dg_send_recv" => hand = asked
  BY DEF Show, IInv, Answer
<1>4. prog \notin Collecting => \A r \in 1 .. Questions : <<asked, r>> \notin shown
  BY <1>1 DEF IInv, Answer
<1>5. (Open' <=> prog \in Collecting) /\ over' = "no"
  BY DEF Show, AfterShow, Again, Open, Ended, over, Collecting, Broadcasts, Jumps, LetsIn
<1>6. Manner' = Manner
  BY <1>1 DEF Manner
<1>7. Manner.one <=> prog \notin Collecting
  BY DEF Manner, Collecting
<1>8. Open' = ~ Manner.one
  BY <1>5, <1>7 DEF Open, Manner
<1> QED
  BY <1>1, <1>2, <1>3, <1>4, <1>5, <1>6, <1>8 DEF Session!Next, Session!Show, Manner, over, Collecting

LEMMA ProgramKeepsPromise ==
  ASSUME IInv, Program PROVE Session!Next \/ UNCHANGED Session!vars
<1> USE DEF asking, network, signals, rttinfo
<1>1. CASE Fgets
  <2>1. ~ Open /\ over = "no" /\ prog' = prog /\ shown' = shown
    BY <1>1 DEF Fgets, Open, Ended, over
  <2>2. CASE asked < Questions
    <3>1. asked' = asked + 1 /\ Open' /\ over' = "no"
      BY <1>1, <2>2 DEF Fgets, Open, Ended, over
    <3> QED
      BY <2>1, <2>2, <3>1 DEF Session!Next, Session!Ask, Manner, over
  <2>3. CASE ~ (asked < Questions)
    <3>1. asked' = asked /\ ~ Open' /\ over' = "done"
      BY <1>1, <2>3 DEF Fgets, Open, Ended, over
    <3> QED
      BY <2>1, <3>1 DEF Session!Next, Session!End, Manner, over
  <2> QED
    BY <2>2, <2>3
<1>2. CASE TimesOut
  <2>1. Still /\ Open /\ ~ Open' /\ over' = over
    BY <1>2 DEF TimesOut, Waiting, Still, Open, Ended, over
  <2> QED
    BY <1>2, <2>1, RoundTimesOut DEF TimesOut, KernelTimeouts, Session!Next
<1>3. CASE Reblock
  <2>1. Still /\ Open /\ over' = over
    BY <1>3 DEF Reblock, Still, Open, Ended, over
  <2>2. prog \notin {"dg_send_recv", "ping"}
    BY <1>3 DEF Reblock, IInv, Places, LetsIn
  <2>3. CASE hand = 0
    BY <1>3, <2>1, <2>2, <2>3, RoundTimesOut DEF Reblock, Open, Ended, Session!Next
  <2>4. CASE hand # 0
    BY <1>3, <2>1, <2>4, Stutters DEF Reblock, Open, Ended
  <2> QED
    BY <2>3, <2>4
<1>4. CASE Drain
  <2>1. Still /\ Open /\ ~ Open' /\ over' = over
    BY <1>4 DEF Drain, Still, Open, Ended, over
  <2>2. prog \notin {"dg_send_recv", "ping"}
    BY <1>4 DEF Drain, IInv, Places
  <2> QED
    BY <2>1, <2>2, RoundTimesOut DEF Session!Next
<1>5. CASE rtt_timeout
  <2>1. Still /\ Open /\ over = "no" /\ prog = "dg_send_recv"
    BY <1>5 DEF rtt_timeout, Still, Open, Ended, over, IInv, Places
  <2>2. CASE pc' = "gaveup"
    BY <2>1, <2>2 DEF Still, Open, Ended, over, Session!Next, Session!End, Manner
  <2>3. CASE pc' = "send"
    BY <2>1, <2>3, Stutters DEF Open, Ended, over
  <2> QED
    BY <1>5, <2>2, <2>3 DEF rtt_timeout
<1>6. CASE Show
  BY <1>6, ShowKeepsPromise
<1>7. CASE Send \/ Block \/ Arm \/ SigSetJmp \/ Unblock \/ Call \/ Receive \/ Discard \/ Disarm \/ rtt_stop \/ PipeReadable
  <2>1. Still /\ Open /\ over = "no"
    BY <1>7 DEF Send, Block, Arm, SigSetJmp, Unblock, Call, Receive, Discard, Disarm, rtt_stop, PipeReadable,
                Waiting, Still, Open, Ended, over
  <2>2. pc' \in {"block", "wait", "arm", "setjmp", "unblock", "call", "got", "reblock", "show", "stop", "drain"}
    BY <1>7 DEF Send, Block, Arm, Again, SigSetJmp, Unblock, Call, Receive, Discard, Disarm, rtt_stop,
            PipeReadable
  <2> QED
    BY <2>1, <2>2, Stutters DEF Open, Ended, over
<1> QED
  BY <1>1, <1>2, <1>3, <1>4, <1>5, <1>6, <1>7 DEF Program

\* Each client keeps its manner of the promise: which answers it shows in which
\* round, and how a round and the program may end.
THEOREM ClientsKeepTheirPromise == Spec => ImplementsSession
<1>1. Init => Session!Init
  BY DEF Init, Session!Init, Session!Manners, Manner, Open, Ended
<1>2. IInv /\ Jumpable /\ [Next]_vars => [Session!Next]_(Session!vars)
  <2> SUFFICES ASSUME IInv, Jumpable, [Next]_vars PROVE Session!Next \/ UNCHANGED Session!vars
    OBVIOUS
  <2>1. CASE UNCHANGED vars
    BY <2>1, Stutters DEF vars, asking, Still, Open, Ended, over
  <2>2. CASE Next
    BY <2>2, NetworkStutters, HandlerKeepsPromise, ProbeKeepsPromise, ProgramKeepsPromise DEF Next
  <2> QED
    BY <2>1, <2>2
<1> QED
  BY <1>1, <1>2, Inductive, AlwaysJumpable, PTL DEF Spec, ImplementsSession, Session!Spec
===============================================================================
