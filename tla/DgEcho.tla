------------------------------- MODULE DgEcho -------------------------------
(***************************************************************************)
(* The signal-driven UDP echo server, Lab2017/sigio/dgecho01.c.            *)
(*                                                                         *)
(* One thread: a main loop that answers the datagrams in a ring of QSIZE   *)
(* buffers, and a handler of SIGIO that fills the ring from the socket.    *)
(* The handler interrupts the main loop wherever SIGIO is not blocked, and *)
(* datagrams arrive at any time.  The mask is what keeps a datagram from   *)
(* being overlooked between the test of nqueue and sigsuspend(), and the   *)
(* late decrement of nqueue what keeps the handler off the buffer that is  *)
(* being sent.                                                             *)
(*                                                                         *)
(* A datagram is its number in the order of arrival.  Left out: addresses, *)
(* the counters that SIGHUP prints, and failures that err_sys() reports.   *)
(***************************************************************************)
EXTENDS Integers, Sequences

CONSTANTS
  QSIZE,    \* buffers in the ring
  RCVBUF,   \* datagrams the socket holds
  MaxDg     \* bound on the datagrams that arrive

ASSUME ConstantsAssumption ==
  /\ QSIZE \in Nat \ {0}
  /\ RCVBUF \in Nat
  /\ MaxDg \in Nat

VARIABLES
  pc,       \* where the main loop is
  sig,      \* the handler: "off", "on", or "quit" once it has ended the program
  pending,  \* SIGIO waits to be delivered
  dg, iget, iput, nqueue,
  netq,     \* datagrams in the socket's receive buffer
  arrived,  \* how many datagrams have reached the host
  echoed    \* what Sendto() was given

ring == <<dg, iget, iput, nqueue>>
vars == <<pc, sig, pending, ring, netq, arrived, echoed>>

-----------------------------------------------------------------------------

\* FIOASYNC has been set: arrivals raise SIGIO.
Async == pc # "async"

\* FIONBIO has been set: recvfrom() returns EWOULDBLOCK.
Nonblocking == pc \notin {"async", "nonblock"}

\* Mutant: SIGIO is not blocked before sigsuspend().
BlockedButSleep == pc \in {"test", "unblock", "dec"}

\* SIGIO is in the signal mask of the main loop.
Blocked == pc \in {"test", "sleep", "unblock", "dec"}

\* if (++i >= QSIZE) i = 0
Succ(k) == IF k + 1 >= QSIZE THEN 0 ELSE k + 1

Init ==
  /\ pc = "async" /\ sig = "off" /\ pending = FALSE
  /\ dg = [k \in 0 .. (QSIZE - 1) |-> 0]
  /\ iget = 0 /\ iput = 0 /\ nqueue = 0
  /\ netq = << >> /\ arrived = 0 /\ echoed = << >>

-----------------------------------------------------------------------------
(* dg_echo: the main loop, which stands still while the handler runs.       *)

Step(from, to) == sig = "off" /\ pc = from /\ pc' = to

\* Ioctl FIOASYNC, Ioctl FIONBIO, and the first Sigprocmask.
SetUp ==
  /\ Step("async", "nonblock") \/ Step("nonblock", "block") \/ Step("block", "test")
  /\ UNCHANGED <<sig, pending, ring, netq, arrived, echoed>>

\* while (nqueue == 0)
TestQueue ==
  /\ Step("test", IF nqueue = 0 THEN "sleep" ELSE "unblock")
  /\ UNCHANGED <<sig, pending, ring, netq, arrived, echoed>>

\* sigsuspend(&zeromask): returns after the handler has, SIGIO blocked again.
Suspend ==
  /\ Step("sleep", "suspend")
  /\ UNCHANGED <<sig, pending, ring, netq, arrived, echoed>>

\* Sigprocmask(SIG_SETMASK): a signal that is pending comes before it returns.
Unblock ==
  /\ Step("unblock", "send")
  /\ sig' = IF pending THEN "on" ELSE "off"
  /\ pending' = FALSE
  /\ UNCHANGED <<ring, netq, arrived, echoed>>

SendTo ==
  /\ Step("send", "advance")
  /\ echoed' = Append(echoed, dg[iget])
  /\ UNCHANGED <<sig, pending, ring, netq, arrived>>

Advance ==
  /\ Step("advance", "reblock")
  /\ iget' = Succ(iget)
  /\ UNCHANGED <<sig, pending, dg, iput, nqueue, netq, arrived, echoed>>

\* Sigprocmask(SIG_BLOCK) at the end of the loop.
Reblock ==
  /\ Step("reblock", "dec")
  /\ UNCHANGED <<sig, pending, ring, netq, arrived, echoed>>

Release ==
  /\ Step("dec", "test")
  /\ nqueue' = nqueue - 1
  /\ UNCHANGED <<sig, pending, dg, iget, iput, netq, arrived, echoed>>

MainStep ==
  SetUp \/ TestQueue \/ Suspend \/ Unblock \/ SendTo \/ Advance \/ Reblock \/ Release

-----------------------------------------------------------------------------
(* sig_io: the handler, with SIGIO blocked while it runs.                   *)

Deliver ==
  /\ sig = "off" /\ pending /\ ~ Blocked
  /\ sig' = "on"
  /\ pending' = FALSE
  /\ UNCHANGED <<pc, ring, netq, arrived, echoed>>

\* Mutant: > for >=.
FullTooLate == nqueue > QSIZE

Full == nqueue >= QSIZE

\* "receive overflow", also when nothing is left to read.
Overflow ==
  /\ sig = "on" /\ Full
  /\ sig' = "quit"
  /\ UNCHANGED <<pc, pending, ring, netq, arrived, echoed>>

\* Mutant: one datagram per signal.
ReceiveOne ==
  /\ sig = "on" /\ ~ Full /\ netq # << >>
  /\ dg' = [dg EXCEPT ![iput] = Head(netq)]
  /\ netq' = Tail(netq)
  /\ nqueue' = nqueue + 1
  /\ iput' = Succ(iput)
  /\ sig' = "off"
  /\ pc' = IF pc = "suspend" THEN "test" ELSE pc
  /\ UNCHANGED <<pending, iget, arrived, echoed>>

\* recvfrom() returns a datagram; the loop goes on.
Receive ==
  /\ sig = "on" /\ ~ Full /\ netq # << >>
  /\ dg' = [dg EXCEPT ![iput] = Head(netq)]
  /\ netq' = Tail(netq)
  /\ nqueue' = nqueue + 1
  /\ iput' = Succ(iput)
  /\ UNCHANGED <<pc, sig, pending, iget, arrived, echoed>>

\* EWOULDBLOCK: the handler returns.  Before FIONBIO, recvfrom() blocks here.
WouldBlock ==
  /\ sig = "on" /\ ~ Full /\ netq = << >> /\ Nonblocking
  /\ sig' = "off"
  /\ pc' = IF pc = "suspend" THEN "test" ELSE pc
  /\ UNCHANGED <<pending, ring, netq, arrived, echoed>>

HandlerStep == Deliver \/ Overflow \/ Receive \/ WouldBlock

-----------------------------------------------------------------------------
(* The network.                                                             *)

\* A datagram is queued, and SIGIO raised once the socket is asynchronous.
Arrive ==
  /\ arrived < MaxDg
  /\ arrived' = arrived + 1
  /\ Len(netq) < RCVBUF
  /\ netq' = Append(netq, arrived')
  /\ pending' = (pending \/ Async)
  /\ UNCHANGED <<pc, sig, ring, echoed>>

\* No room in the receive buffer: UDP drops it.
ArriveInVain ==
  /\ arrived < MaxDg
  /\ arrived' = arrived + 1
  /\ Len(netq) >= RCVBUF
  /\ UNCHANGED <<pc, sig, pending, ring, netq, echoed>>

Next == MainStep \/ HandlerStep \/ Arrive \/ ArriveInVain

Spec == Init /\ [][Next]_vars

\* The process is scheduled, and a signal that can be delivered is.
FairSpec == Spec /\ WF_vars(MainStep) /\ WF_vars(HandlerStep)

-----------------------------------------------------------------------------
(* Properties.                                                              *)

TypeOK ==
  /\ pc \in {"async", "nonblock", "block", "test", "sleep", "suspend",
             "unblock", "send", "advance", "reblock", "dec"}
  /\ sig \in {"off", "on", "quit"}
  /\ pending \in BOOLEAN
  /\ dg \in [0 .. (QSIZE - 1) -> Nat]
  /\ iget \in 0 .. (QSIZE - 1)
  /\ iput \in 0 .. (QSIZE - 1)
  /\ nqueue \in 0 .. QSIZE
  /\ netq \in Seq(Nat)
  /\ arrived \in Nat
  /\ echoed \in Seq(Nat)

\* Answered, but still counted by nqueue.
Answered == IF pc \in {"advance", "reblock", "dec"} THEN 1 ELSE 0

\* The buffer that is answered next, and the k-th after it.
First == IF pc = "advance" THEN Succ(iget) ELSE iget

Slot(k) == IF First + k >= QSIZE THEN First + k - QSIZE ELSE First + k

Queue == [k \in 1 .. (nqueue - Answered) |-> dg[Slot(k - 1)]]

Service == INSTANCE EchoService WITH
  Datagrams <- 1 .. MaxDg, input <- netq, queue <- Queue, answers <- echoed

\* Refinement: however main loop and handler interleave, the ring is a queue.
\* No buffer is overwritten before it is answered, none is answered twice, and
\* the order is that of arrival.
ImplementsService == Service!Spec

\* A datagram waits in the socket and nothing will make the handler look.
Overlooked == netq # << >> /\ ~ pending /\ sig = "off"

\* Action: only a datagram that arrives before FIOASYNC is set is overlooked.
\* The handler reads until nothing is left because signals are not counted.
NoSignalLost == [][Overlooked' => Overlooked \/ ~ Async]_vars

\* The handler knows, or will know, of datagram d, and recvfrom() will return.
Noticed(d) == /\ \E n \in DOMAIN netq : netq[n] = d
              /\ pending \/ sig = "on"
              /\ Nonblocking

\* Liveness: such a datagram is answered, or the program says that its queue
\* has overflowed.  The main loop does not sleep while there is work.
NoticedAreAnswered ==
  \A d \in 1 .. MaxDg :
    Noticed(d) ~> (\E n \in DOMAIN echoed : echoed[n] = d) \/ sig = "quit"
=============================================================================
