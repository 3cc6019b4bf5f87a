---------------------------- MODULE MCChatServer ----------------------------
(* Instances of ChatServer for TLC. *)
EXTENDS ChatServer, TLC

\* Nobody says anything.
MCSilent == [c \in Clients |-> {}]

Symmetry == Permutations(Clients)
=============================================================================
