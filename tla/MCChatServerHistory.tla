------------------------ MODULE MCChatServerHistory ------------------------
(* Instances of ChatServerHistory for TLC. *)
EXTENDS ChatServerHistory, TLC

CONSTANT hi      \* the one text anybody types

MCText == [part |-> "text", txt |-> hi]
MCNl   == [part |-> "nl", txt |-> NoText]

MCSays   == [c \in Clients |-> {<<MCText, MCNl>>}]
MCBodies == {<<MCText>>}

Symmetry == Permutations(Clients)
=============================================================================
