------------------------------ MODULE UdpSession ------------------------------
(***************************************************************************)
(* What a UDP client promises its user.  Questions are asked one after the *)
(* other, and a round of showing answers belongs to each.  How much an     *)
(* answer means is the client's `manner`:                                  *)
(*   one       a round shows one answer at most, and ends with it          *)
(*   matched   it answers the question of its round, and no round ends     *)
(*             without it but with the program                             *)
(*   overlaps  the next question does not wait for the round to end        *)
(*   falls     when the program may crash, having shown nothing in the      *)
(*             round: "never", in the "first" round or in "any"            *)
(***************************************************************************)
EXTENDS Naturals

CONSTANT Questions   \* questions of the user

VARIABLES
  manner,
  asked,     \* the question of this round
  open,      \* is the round going on?
  shown,     \* pairs of a round and what the answer shown in it answers
  over       \* how the program has ended, or "no"

vars == <<manner, asked, open, shown, over>>

Manners == [one : BOOLEAN, matched : BOOLEAN, overlaps : BOOLEAN, falls : {"never", "first", "any"}]

Init ==
  /\ manner \in Manners
  /\ asked = 0 /\ open = FALSE /\ shown = {} /\ over = "no"

Ask ==
  /\ over = "no" /\ asked < Questions
  /\ open => manner.overlaps
  /\ asked' = asked + 1 /\ open' = TRUE
  /\ UNCHANGED <<manner, shown, over>>

Show ==
  /\ open
  /\ \E q \in 1 .. asked :
       /\ manner.matched => q = asked
       /\ manner.one => \A r \in 1 .. Questions : <<asked, r>> \notin shown
       /\ shown' = shown \cup {<<asked, q>>}
  /\ open' = ~ manner.one
  /\ UNCHANGED <<manner, asked, over>>

TimeOut ==
  /\ open /\ ~ manner.matched /\ ~ manner.overlaps
  /\ open' = FALSE
  /\ UNCHANGED <<manner, asked, shown, over>>

MayFall ==
  /\ open /\ \A r \in 1 .. Questions : <<asked, r>> \notin shown
  /\ manner.falls = "any" \/ (manner.falls = "first" /\ asked = 1)

End ==
  /\ over = "no" /\ over' \in {"done", "gaveup", "crashed"} /\ open' = FALSE
  /\ over' = "done" => ~ open \/ manner.overlaps
  /\ over' = "gaveup" => open /\ manner.matched
  /\ over' = "crashed" => MayFall
  /\ UNCHANGED <<manner, asked, shown>>

Next == Ask \/ Show \/ TimeOut \/ End

Spec == Init /\ [][Next]_vars
===============================================================================
