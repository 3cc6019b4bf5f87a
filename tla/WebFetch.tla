------------------------------ MODULE WebFetch ------------------------------
(***************************************************************************)
(* What the web clients of Lab2017/threads and Lab2017/nonblock promise:   *)
(* every file is fetched once, over no more connections at a time than the *)
(* user allows, and the program reports its end only when it has them all. *)
(***************************************************************************)
EXTENDS Naturals, FiniteSets

CONSTANTS
  Files,
  Limit      \* connections open at a time

VARIABLES
  state,     \* of each file: "new", "open" or "read"
  over       \* how the program has ended, or "no"

vars == <<state, over>>

In(s) == {f \in Files : state[f] = s}

Init ==
  /\ state = [f \in Files |-> "new"]
  /\ over = "no"

Open(f) ==
  /\ over = "no" /\ state[f] = "new"
  /\ Cardinality(In("open")) < Limit
  /\ state' = [state EXCEPT ![f] = "open"]
  /\ UNCHANGED over

Finish(f) ==
  /\ over = "no" /\ state[f] = "open"
  /\ state' = [state EXCEPT ![f] = "read"]
  /\ UNCHANGED over

End ==
  /\ over = "no"
  /\ \/ In("read") = Files /\ over' = "done"
     \/ over' = "failed"
  /\ UNCHANGED state

Next == (\E f \in Files : Open(f) \/ Finish(f)) \/ End

Spec == Init /\ [][Next]_vars
=============================================================================
