----------------------------- MODULE EchoSession ------------------------------
(***************************************************************************)
(* What an echo client promises its user: what was typed is shown, once    *)
(* and in order, and the way the program ends can be believed.  A client   *)
(* that ends "normal" at the end of the input has shown everything; it     *)
(* says "premature" only of a server that went away.  The clients of the   *)
(* repository keep more or less of this promise, which `manner` says:      *)
(*   "whole"     all of it (str_cli, strcliselect02 and their likes)       *)
(*   "hasty"     the end of the input is the end of the program            *)
(*               (strcliselect01, loop() of sock without -h)               *)
(*   "partly"    it may still hold output when it ends (strclinonb)        *)
(*   "mistaken"  it may blame the server for its own end (strclithread2)   *)
(***************************************************************************)
EXTENDS Naturals

CONSTANTS Lines   \* lines the user may type

VARIABLES
  manner,
  typed, eof,     \* what the user has typed, and the end of it
  shown,          \* lines shown
  lost,           \* the server has gone before its time
  ended           \* how the program has ended, or "no"

vars == <<manner, typed, eof, shown, lost, ended>>

Init ==
  /\ manner \in {"whole", "hasty", "partly", "mistaken"}
  /\ typed \in 0 .. Lines /\ eof \in BOOLEAN
  /\ shown = 0 /\ lost = FALSE /\ ended = "no"

Type ==
  /\ ~ eof /\ ended = "no"
  /\ \E n \in typed .. Lines : typed' = n
  /\ eof' \in BOOLEAN
  /\ UNCHANGED <<manner, shown, lost, ended>>

Show ==
  /\ ended = "no"
  /\ \E n \in shown .. typed : shown' = n
  /\ UNCHANGED <<manner, typed, eof, lost, ended>>

Lose ==
  /\ lost' = TRUE
  /\ UNCHANGED <<manner, typed, eof, shown, ended>>

\* The program may show something with its last step.
End ==
  /\ ended = "no"
  /\ ended' \in {"normal", "premature", "error"}
  /\ ended' = "normal" /\ ~ lost => eof /\ (manner \notin {"hasty", "partly"} => shown = typed)
  /\ ended' = "premature" => lost \/ (manner = "mistaken" /\ eof /\ shown = typed)
  /\ ended' = "error" => lost
  /\ UNCHANGED <<manner, typed, eof, shown, lost>>

Next == Type \/ Show \/ Lose \/ End

Spec == Init /\ [][Next]_vars
===============================================================================
