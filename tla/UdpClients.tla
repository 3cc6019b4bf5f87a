------------------------------ MODULE UdpClients ------------------------------
(***************************************************************************)
(* The UDP clients of Lab2017 that wait for answers which may never come:  *)
(* dg_cli as it is in lib, with the four timeouts of advio, with the       *)
(* retransmissions of rtt, in the six versions of bcast that collect the   *)
(* answers of a whole subnet (dgclibcast4 with the kernel's pselect() and  *)
(* with the one of lib), and ping.  They are one `prog` at a time, with    *)
(* servers that echo (dg_echo) and a network that loses, delays, reorders  *)
(* and doubles datagrams.                                                  *)
(*                                                                         *)
(* Most of them wait with alarm(): what matters is where the program is    *)
(* when the signal comes.  A question is its number, and so is the answer  *)
(* to it.  Time is left out: an alarm that is set, and a timeout of the    *)
(* kernel, may come at any moment, and must come in the end.               *)
(***************************************************************************)
EXTENDS Naturals, Sequences

CONSTANTS
  Programs,
  Questions,       \* lines the user types, or probes until ping is stopped
  Hosts,           \* servers a broadcast reaches
  Doubles,         \* datagrams the network doubles at most
  Inbox,           \* datagrams the socket holds
  RTT_RXTMIN, RTT_RXTMAX, RTT_MAXNREXMT,
  Estimates        \* what the estimators may amount to, in seconds

\* The sockets' own timeouts: select() and SO_RCVTIMEO.
KernelTimeouts == {"dgclitimeo", "dgclitimeo1", "dgclitimeo2"}
Broadcasts == {"dgclibcast1", "dgclibcast2", "dgclibcast3", "dgclibcast4", "dgclibcast4_lib", "dgclibcast5", "dgclibcast6"}
\* The programs whose handler jumps, and those whose handler only returns, in
\* the hope that it interrupts the call the program waits in.
Jumps   == {"dg_send_recv", "dgclibcast5"}
Returns == {"dgclitimeo3", "dgclibcast1", "dgclibcast2", "dgclibcast3", "dgclibcast4", "dgclibcast4_lib"}
\* The programs that let the signal in around the call they wait in.
LetsIn  == {"dgclibcast3", "dgclibcast4_lib"}
\* The programs that block the signal before they set the alarm.
BlocksLate  == {"dgclibcast4_lib"}
BlocksFirst == {"dgclibcast4", "dgclibcast4_lib"}

AllPrograms == {"dg_cli", "ping"} \cup KernelTimeouts \cup Broadcasts \cup Jumps \cup Returns

ASSUME ConstantsAssumption ==
  /\ Programs \subseteq AllPrograms
  /\ Questions \in Nat \ {0} /\ Hosts \in Nat \ {0} /\ Doubles \in Nat /\ Inbox \in Nat \ {0}
  /\ RTT_RXTMIN \in Nat \ {0} /\ RTT_RXTMAX \in Nat /\ RTT_RXTMIN <= RTT_RXTMAX
  /\ RTT_MAXNREXMT \in Nat /\ Estimates \subseteq Nat

VARIABLES
  prog, pc,
  asked, hand, shown,           \* question, answer read and not shown, answers shown
  requests, replies, doubles,   \* datagrams on their way, by question
  inbox,                        \* datagrams in the client's socket
  timer, blocked,               \* "off", "set" or "pending" SIGALRM; is it blocked?
  jmpbuf,                       \* "unset", "set", or "stale": of a function that has returned
  pipe, expired,                \* dgclibcast6
  nrexmt, rto,                  \* dg_send_recv: struct rtt_info
  missed, lost                  \* the handler ran, and the program did not notice; a datagram was lost

asking  == <<asked, hand, shown>>
network == <<requests, replies, doubles, lost>>
signals == <<timer, blocked, jmpbuf, pipe, expired, missed>>
rttinfo == <<nrexmt, rto>>
vars == <<prog, pc, asking, network, inbox, signals, rttinfo>>

rtt_minmax(e) == IF e < RTT_RXTMIN THEN RTT_RXTMIN ELSE IF e > RTT_RXTMAX THEN RTT_RXTMAX ELSE e

Init ==
  /\ prog \in Programs
  /\ pc = IF prog = "ping" THEN "probe" ELSE "fgets"
  /\ asked = 0 /\ hand = 0 /\ shown = {}
  /\ requests = [q \in 1 .. Questions |-> 0] /\ replies = requests /\ doubles = 0
  /\ inbox = <<>>
  /\ timer = "off" /\ blocked = FALSE /\ jmpbuf = "unset"
  /\ pipe = 0 /\ expired = FALSE
  /\ nrexmt = 0 /\ rto = rtt_minmax(3)
  /\ missed = FALSE /\ lost = FALSE

Ended == pc \in {"done", "gaveup", "crashed"}
Open  == pc \notin {"fgets", "probe"} /\ ~ Ended

------------------------ (* The network and servers *) ------------------------
AddTo(bag, q, n) == [bag EXCEPT ![q] = @ + n]
TakeFrom(bag, q) == [bag EXCEPT ![q] = @ - 1]
client == <<prog, pc, asking, signals, rttinfo>>

\* dg_echo reads a datagram and sends it back; it keeps nothing.
DgEcho(q) ==
  /\ requests[q] > 0
  /\ requests' = TakeFrom(requests, q) /\ replies' = AddTo(replies, q, 1)
  /\ UNCHANGED <<client, inbox, doubles, lost>>

\* A full socket drops what arrives.
Arrive(q) ==
  /\ replies[q] > 0
  /\ replies' = TakeFrom(replies, q)
  /\ IF Len(inbox) < Inbox
     THEN inbox' = Append(inbox, q) /\ UNCHANGED lost
     ELSE lost' = TRUE /\ UNCHANGED inbox
  /\ UNCHANGED <<client, requests, doubles>>

LoseRequest(q) ==
  /\ requests[q] > 0
  /\ requests' = TakeFrom(requests, q) /\ lost' = TRUE
  /\ UNCHANGED <<client, inbox, replies, doubles>>

LoseReply(q) ==
  /\ replies[q] > 0
  /\ replies' = TakeFrom(replies, q) /\ lost' = TRUE
  /\ UNCHANGED <<client, inbox, requests, doubles>>

Double(q) ==
  /\ doubles < Doubles /\ replies[q] > 0
  /\ replies' = AddTo(replies, q, 1) /\ doubles' = doubles + 1
  /\ UNCHANGED <<client, inbox, requests, lost>>

Network == \E q \in 1 .. Questions : DgEcho(q) \/ Arrive(q) \/ LoseRequest(q) \/ LoseReply(q) \/ Double(q)

------------------------------ (* The signal *) -------------------------------
AlarmFires ==
  /\ timer = "set"
  /\ timer' = "pending"
  /\ UNCHANGED <<prog, pc, asking, network, inbox, blocked, jmpbuf, pipe, expired, missed, rttinfo>>

\* The kernel delivers a signal before the program takes another step; only a
\* call that has something to return returns first.  The kernel's pselect()
\* lets the signal in while it waits.
Waiting == pc = "wait" /\ inbox = <<>>
SignalDue ==
  /\ timer = "pending"
  /\ ~ blocked \/ (prog = "dgclibcast4" /\ Waiting)
Undisturbed == ~ SignalDue

\* A handler that only returns makes the call fail with EINTR, if the program
\* is in the call.
HandlerReturns ==
  /\ prog \in Returns
  /\ IF Waiting
     THEN pc' = (IF prog \in LetsIn THEN "reblock" ELSE "fgets") /\ UNCHANGED missed
     ELSE missed' = TRUE /\ UNCHANGED pc
  /\ UNCHANGED <<pipe>>

\* What a jump into a function that has returned does is undefined.
HandlerJumps ==
  /\ prog \in Jumps
  /\ \/ jmpbuf \in {"set", "stale"} /\ pc' = IF prog = "dg_send_recv" THEN "timeout" ELSE "fgets"
     \/ jmpbuf \in {"unset", "stale"} /\ pc' = "crashed"
  /\ UNCHANGED <<pipe, missed>>

\* select() fails with EINTR, and is called again.
HandlerWritesPipe ==
  /\ prog = "dgclibcast6"
  /\ pipe' = pipe + 1
  /\ UNCHANGED <<pc, missed>>

Handler ==
  /\ SignalDue /\ (pc = "wait" => Waiting)
  /\ HandlerReturns \/ HandlerJumps \/ HandlerWritesPipe
  /\ timer' = "off" /\ hand' = IF prog \in Jumps THEN 0 ELSE hand
  /\ UNCHANGED <<prog, asked, shown, network, inbox, blocked, jmpbuf, expired, rttinfo>>

\* ping sends its probes from the handler, which sets the next alarm; the
\* first one is sent by calling it.  In the end the user stops it.
Probe ==
  /\ prog = "ping" /\ (pc = "probe" \/ (SignalDue /\ (pc = "wait" => Waiting)))
  /\ IF asked < Questions
     THEN /\ asked' = asked + 1 /\ requests' = AddTo(requests, asked + 1, 1) /\ timer' = "set"
          /\ pc' = (IF pc = "probe" THEN "wait" ELSE pc) /\ UNCHANGED hand
     ELSE pc' = "done" /\ timer' = "off" /\ hand' = 0 /\ UNCHANGED <<asked, requests>>
  /\ UNCHANGED <<prog, shown, replies, doubles, lost, inbox, blocked, jmpbuf, pipe, expired, missed, rttinfo>>

------------------------------ (* The programs *) -----------------------------
\* Where the loop around the waiting call begins.
Again ==
  CASE prog \in Jumps  -> "setjmp"
    [] prog \in LetsIn -> "unblock"
    [] prog \in {"dgclitimeo3", "dgclibcast1", "dgclibcast2"} -> "call"
    [] OTHER -> "wait"

Fgets ==
  /\ pc = "fgets"
  /\ IF asked < Questions
     THEN asked' = asked + 1 /\ pc' = "send" /\ nrexmt' = 0
     ELSE pc' = "done" /\ UNCHANGED <<asked, nrexmt>>
  /\ UNCHANGED <<prog, hand, shown, network, inbox, signals, rto>>

Send ==
  /\ pc = "send"
  /\ requests' = AddTo(requests, asked, IF prog \in Broadcasts THEN Hosts ELSE 1)
  /\ pc' = CASE prog \in BlocksFirst -> "block"
             [] prog \in {"dg_cli"} \cup KernelTimeouts -> "wait"
             [] OTHER -> "arm"
  /\ UNCHANGED <<prog, asking, replies, doubles, lost, inbox, signals, rttinfo>>

Block ==
  /\ pc = "block"
  /\ blocked' = TRUE /\ pc' = "arm"
  /\ UNCHANGED <<prog, asking, network, inbox, timer, jmpbuf, pipe, expired, missed, rttinfo>>

\* alarm(0) would set no alarm.
Seconds == IF prog = "dg_send_recv" THEN rto ELSE 5
Arm ==
  /\ pc = "arm"
  /\ timer' = IF Seconds = 0 THEN "off" ELSE "set"
  /\ missed' = FALSE /\ pc' = Again
  /\ UNCHANGED <<prog, asking, network, inbox, blocked, jmpbuf, pipe, expired, rttinfo>>

SigSetJmp ==
  /\ pc = "setjmp" /\ Undisturbed
  /\ jmpbuf' = "set" /\ pc' = "wait"
  /\ UNCHANGED <<prog, asking, network, inbox, timer, blocked, pipe, expired, missed, rttinfo>>

\* A signal that is due is delivered before sigprocmask() returns.
Unblock ==
  /\ pc = "unblock" /\ Undisturbed
  /\ blocked' = FALSE /\ pc' = "call"
  /\ UNCHANGED <<prog, asking, network, inbox, timer, jmpbuf, pipe, expired, missed, rttinfo>>

Call ==
  /\ pc = "call" /\ Undisturbed
  /\ pc' = "wait"
  /\ UNCHANGED <<prog, asking, network, inbox, signals, rttinfo>>

\* The call returns with an answer; dgclibcast6 has looked at its pipe as well.
Receive ==
  /\ pc = "wait" /\ inbox # <<>>
  /\ hand' = Head(inbox) /\ inbox' = Tail(inbox)
  /\ expired' = (pipe > 0)
  /\ pc' = CASE prog \in {"dgclitimeo3", "dg_send_recv"} -> "got"
             [] prog \in LetsIn -> "reblock"
             [] OTHER -> "show"
  /\ UNCHANGED <<prog, asked, shown, network, timer, blocked, jmpbuf, pipe, missed, rttinfo>>

TimesOut ==
  /\ Waiting /\ prog \in KernelTimeouts
  /\ pc' = "fgets"
  /\ UNCHANGED <<prog, asking, network, inbox, signals, rttinfo>>

\* Without an answer the call has failed, and the loop ends.
Reblock ==
  /\ pc = "reblock" /\ Undisturbed
  /\ blocked' = TRUE
  /\ pc' = IF hand = 0 THEN "fgets" ELSE "show"
  /\ UNCHANGED <<prog, asking, network, inbox, timer, jmpbuf, pipe, expired, missed, rttinfo>>

\* rtt compares sequence numbers; who is content with the answer sets the
\* alarm off.
MatchesAny == TRUE
Matches == prog = "dg_send_recv" => hand = asked
Discard ==
  /\ pc = "got" /\ Undisturbed /\ ~ Matches
  /\ hand' = 0 /\ pc' = "wait"
  /\ UNCHANGED <<prog, asked, shown, network, inbox, signals, rttinfo>>

NoDisarm ==
  /\ pc = "got" /\ Undisturbed /\ Matches
  /\ pc' = IF prog = "dg_send_recv" THEN "stop" ELSE "show"
  /\ UNCHANGED <<prog, asking, network, inbox, signals, rttinfo>>

Disarm ==
  /\ pc = "got" /\ Undisturbed /\ Matches
  /\ timer' = "off"
  /\ pc' = IF prog = "dg_send_recv" THEN "stop" ELSE "show"
  /\ UNCHANGED <<prog, asking, network, inbox, blocked, jmpbuf, pipe, expired, missed, rttinfo>>

\* rtt_stop estimates anew, and dg_send_recv returns.
rtt_stop ==
  /\ pc = "stop"
  /\ \E e \in Estimates : rto' = rtt_minmax(e)
  /\ jmpbuf' = "stale" /\ pc' = "show"
  /\ UNCHANGED <<prog, asking, network, inbox, timer, blocked, pipe, expired, missed, nrexmt>>

rtt_timeout_late ==
  /\ pc = "timeout"
  /\ rto' = 2 * rto /\ nrexmt' = nrexmt + 1
  /\ pc' = IF nrexmt > RTT_MAXNREXMT THEN "gaveup" ELSE "send"
  /\ UNCHANGED <<prog, asking, network, inbox, signals>>

rtt_timeout ==
  /\ pc = "timeout"
  /\ rto' = 2 * rto /\ nrexmt' = nrexmt + 1
  /\ pc' = IF nrexmt + 1 > RTT_MAXNREXMT THEN "gaveup" ELSE "send"
  /\ UNCHANGED <<prog, asking, network, inbox, signals>>

AfterShow ==
  CASE prog = "dgclibcast6" /\ expired -> "drain"
    [] prog \in Broadcasts \cup {"ping"} -> Again
    [] OTHER -> "fgets"

Show ==
  /\ pc = "show" /\ Undisturbed
  /\ shown' = shown \cup {<<asked, hand>>} /\ hand' = 0
  /\ pc' = AfterShow
  /\ UNCHANGED <<prog, asked, network, inbox, signals, rttinfo>>

\* select() of dgclibcast6 finds its pipe alone, or its pipe too.
PipeReadable ==
  /\ prog = "dgclibcast6" /\ Waiting /\ Undisturbed /\ pipe > 0
  /\ pc' = "drain"
  /\ UNCHANGED <<prog, asking, network, inbox, signals, rttinfo>>

Drain ==
  /\ pc = "drain"
  /\ pipe' = pipe - 1 /\ expired' = FALSE /\ pc' = "fgets"
  /\ UNCHANGED <<prog, asking, network, inbox, timer, blocked, jmpbuf, missed, rttinfo>>

Program ==
  \/ Fgets \/ Send \/ Block \/ Arm \/ SigSetJmp \/ Unblock \/ Call \/ Receive \/ TimesOut \/ Reblock
  \/ Discard \/ Disarm \/ rtt_stop \/ rtt_timeout \/ Show \/ PipeReadable \/ Drain

Next == Program \/ AlarmFires \/ Handler \/ Probe \/ Network

Spec == Init /\ [][Next]_vars

\* The program is scheduled, alarms go off and handlers run; servers answer,
\* and what the network does not lose arrives.
Fairness ==
  /\ WF_vars(Program) /\ WF_vars(AlarmFires) /\ WF_vars(Handler) /\ WF_vars(Probe)
  /\ WF_vars(\E q \in 1 .. Questions : DgEcho(q)) /\ WF_vars(\E q \in 1 .. Questions : Arrive(q))

FairSpec == Spec /\ Fairness

------------------------------ (* Properties *) -------------------------------
\* Every variable keeps its type, a question is sent again no more often than
\* RTT_MAXNREXMT says, and the timeout never falls under RTT_RXTMIN.
TypeOK ==
  /\ prog \in Programs
  /\ pc \in {"fgets", "send", "block", "arm", "setjmp", "unblock", "call", "wait", "got", "reblock", "show",
             "drain", "stop", "timeout", "probe", "done", "gaveup", "crashed"}
  /\ asked \in 0 .. Questions /\ hand \in 0 .. asked /\ shown \subseteq (1 .. asked) \X (1 .. asked)
  /\ requests \in [1 .. Questions -> Nat] /\ replies \in [1 .. Questions -> Nat] /\ doubles \in 0 .. Doubles
  /\ inbox \in Seq(1 .. asked) /\ Len(inbox) <= Inbox
  /\ timer \in {"off", "set", "pending"} /\ blocked \in BOOLEAN
  /\ jmpbuf \in {"unset", "set", "stale"}
  /\ pipe \in 0 .. 1 /\ expired \in BOOLEAN
  /\ nrexmt \in 0 .. RTT_MAXNREXMT + 1
  /\ rto \in Nat /\ rto >= RTT_RXTMIN
  /\ missed \in BOOLEAN /\ lost \in BOOLEAN

\* No round leaves anything behind that would disturb the next one: no alarm
\* that is set or due, no byte in the pipe, no answer that is read and not
\* shown (dgclitimeo3.c:24, dgclibcast6.c:49-51, dg_send_recv.c:88).
NothingIsLeft ==
  pc \in {"fgets", "send", "done"} => timer = "off" /\ pipe = 0 /\ hand = 0

\* The clients keep the promise of UdpSession, each in its manner.  Of the two
\* that jump out of the handler, dgclibcast5 can fall only before its first
\* sigsetjmp() (dgclibcast5.c:26-28), dg_send_recv in any question's round,
\* as its jmpbuf goes stale when it returns (dg_send_recv.c:63-68,92).
Manner ==
  [one |-> prog \notin Broadcasts \cup {"ping"}, matched |-> prog \in {"dg_send_recv"},
   overlaps |-> prog = "ping",
   falls |-> CASE prog = "dg_send_recv" -> "any" [] prog = "dgclibcast5" -> "first" [] OTHER -> "never"]
Session == INSTANCE UdpSession WITH
  manner <- Manner, open <- Open, over <- IF Ended THEN pc ELSE "no"
ImplementsSession == Session!Spec

\* What bcast/Makefile:23 says of dgclibcast5, "Correct version using
\* sigsetjmp()/siglongjmp()": the jump never leads into a buffer that was not
\* set.
NeverFalls == pc # "crashed"

\* Every round ends, with an answer or without.  The exceptions: dg_cli never
\* gives up a datagram that was lost, and a handler that only returns does
\* nothing if the signal comes while the program is not in its call.
NoTimer == prog = "dg_cli" /\ lost
Missed  == missed /\ prog \in Returns \ {"dgclibcast4"}
RoundsEnd ==
  \A q \in 1 .. Questions : (asked = q /\ Open) ~> (~ Open \/ asked > q \/ NoTimer \/ Missed)
===============================================================================
