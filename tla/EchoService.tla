---------------------------- MODULE EchoService -----------------------------
(***************************************************************************)
(* What the signal-driven UDP server promises, without ring, indices or    *)
(* signal masks: datagrams are taken in the order in which they arrived,   *)
(* at most QSIZE of them wait, and each is answered once, in that order.   *)
(***************************************************************************)
EXTENDS Naturals, Sequences

CONSTANTS
  QSIZE,      \* how many datagrams can wait
  Datagrams   \* what clients may send

VARIABLES
  input,    \* datagrams the kernel holds for the server
  queue,    \* datagrams the server has taken
  answers   \* datagrams it has sent back

service == <<input, queue, answers>>

Init == input = << >> /\ queue = << >> /\ answers = << >>

Arrive ==
  /\ \E d \in Datagrams : input' = Append(input, d)
  /\ UNCHANGED <<queue, answers>>

Accept ==
  /\ input # << >>
  /\ Len(queue) < QSIZE
  /\ input' = Tail(input)
  /\ queue' = Append(queue, Head(input))
  /\ UNCHANGED answers

Answer ==
  /\ queue # << >>
  /\ queue' = Tail(queue)
  /\ answers' = Append(answers, Head(queue))
  /\ UNCHANGED input

Next == Arrive \/ Accept \/ Answer

Spec == Init /\ [][Next]_service
=============================================================================
