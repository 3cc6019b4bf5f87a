------------------------------ MODULE ChatRoom ------------------------------
(***************************************************************************)
(* What the chat server promises its chatters, without descriptors, tables *)
(* or buffers: everybody in the room gets the posts of everybody else, each*)
(* once, all in the same order, from the moment of joining on.             *)
(***************************************************************************)
EXTENDS Naturals, Sequences

CONSTANTS
  Clients,   \* who may join
  Bodies     \* what a post may say

VARIABLES
  members,   \* who is in the room
  gone,      \* members whose connection is down and who will not read again
  log,       \* every post, in the order the server took them
  next,      \* how much of the log has been dealt with for each member
  box        \* what each member has been sent since joining

room == <<members, gone, log, next, box>>

Post == [by : Clients, body : Bodies]

Init ==
  /\ members = {}
  /\ gone = {}
  /\ log = << >>
  /\ next = [c \in Clients |-> 0]
  /\ box = [c \in Clients |-> << >>]

\* A newcomer sees what is posted from now on; the peer may be gone already.
Join(c) ==
  /\ c \notin members
  /\ members' = members \cup {c}
  /\ gone' \in {gone, gone \cup {c}}
  /\ next' = [next EXCEPT ![c] = Len(log)]
  /\ UNCHANGED <<log, box>>

HangUp(c) ==
  /\ c \in members \ gone
  /\ gone' = gone \cup {c}
  /\ UNCHANGED <<members, log, next, box>>

\* Only a member who hung up is dropped.
Leave(c) ==
  /\ c \in gone
  /\ members' = members \ {c}
  /\ gone' = gone \ {c}
  /\ next' = [next EXCEPT ![c] = 0]
  /\ box' = [box EXCEPT ![c] = << >>]
  /\ UNCHANGED log

Speak(c) ==
  /\ c \in members
  /\ \E b \in Bodies : log' = Append(log, [by |-> c, body |-> b])
  /\ UNCHANGED <<members, gone, next, box>>

\* The next post in the log is sent to c, unless c wrote it; what is sent to a
\* member who is gone may be lost.
Deliver(c) ==
  /\ c \in members
  /\ next[c] < Len(log)
  /\ next' = [next EXCEPT ![c] = @ + 1]
  /\ \/ /\ log[next[c] + 1].by # c
        /\ box' = [box EXCEPT ![c] = Append(@, log[next[c] + 1])]
     \/ /\ log[next[c] + 1].by = c \/ c \in gone
        /\ UNCHANGED box
  /\ UNCHANGED <<members, gone, log>>

Next ==
  \E c \in Clients : Join(c) \/ HangUp(c) \/ Leave(c) \/ Speak(c) \/ Deliver(c)

Spec == Init /\ [][Next]_room
=============================================================================
