--------------------------- MODULE MCChatClients ----------------------------
(* Instances of ChatClients for TLC. *)
EXTENDS ChatClients, TLC

CONSTANTS
  hi,      \* the one text anybody types
  c1, c2   \* the two chatters who type

MCText == [part |-> "text", txt |-> hi]
MCNl   == [part |-> "nl", txt |-> NoText]
MCCmd  == [part |-> "cmd", txt |-> NoText]

\* c1 renames itself, c2 writes lines; whoever else there is only listens.
MCLine == [c \in Clients |-> IF c = c1 THEN <<MCCmd, MCText, MCNl>> ELSE <<MCText, MCNl>>]
MCSays == [c \in Clients |-> {MCLine[c]}]

\* The second line of c1 finds no room when the first has not been read.
MCMaxTyped == [c \in Clients |-> CASE c = c1 -> 2 [] c = c2 -> 1 [] OTHER -> 0]
MCMaxStarts == [c \in Clients |-> 1]
=============================================================================
