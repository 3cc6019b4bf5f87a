------------------------------ MODULE MCServers -------------------------------
(* Instances of ServerPrograms for TLC.                                     *)
EXTENDS ServerPrograms

CONSTANTS c1, c2, c3

\* Everybody is good, or one is bad, or one resets, or both.
MCMixes ==
  {[c \in Conns |-> IF c = c1 THEN a ELSE IF c = c2 THEN b ELSE "good"] :
     a \in {"good", "bad"}, b \in {"good", "reset"}}
===============================================================================
