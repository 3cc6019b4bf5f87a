------------------------- MODULE ChatServerHistory -------------------------
(***************************************************************************)
(* ChatServer with history variables, and the mapping under which it       *)
(* implements ChatRoom.  The histories watch the server and never guide it,*)
(* except that posts and connects are capped by MaxPosts and MaxConnects.  *)
(***************************************************************************)
EXTENDS ChatServer

CONSTANTS
  Bodies,     \* what a relayed line may say
  MaxPosts,   \* bound on the length of posts
  MaxConnects \* bound on connects

VARIABLES
  posts,      \* the lines processChat was given to relay, in order
  inbox,      \* the relayed lines each seated chatter was sent
  connects    \* how many connections were made

hvars == <<vars, posts, inbox, connects>>

PostOf(m) == [by |-> m.by, body |-> m.body]

HInit ==
  /\ Init
  /\ posts = << >>
  /\ inbox = [c \in Clients |-> << >>]
  /\ connects = 0

RecordPost ==
  posts' = IF pc # "relay" /\ pc' = "relay" THEN Append(posts, PostOf(outbuff'))
           ELSE posts

\* A relayed line joined c's send queue.
GotLine(c) == /\ Len(outq'[c]) > Len(outq[c])
              /\ outq'[c][Len(outq'[c])].kind = "chat"

RecordInbox ==
  inbox' = [c \in Clients |->
              IF ~ Seated(c)' THEN << >>
              ELSE IF GotLine(c) THEN Append(inbox[c], PostOf(outq'[c][Len(outq'[c])]))
              ELSE inbox[c]]

RecordConnect ==
  connects' = IF Len(backlog') > Len(backlog) THEN connects + 1 ELSE connects

HNext ==
  /\ Next
  /\ RecordPost /\ Len(posts') <= MaxPosts
  /\ RecordInbox
  /\ RecordConnect /\ connects' <= MaxConnects

HSpec == HInit /\ [][HNext]_hvars

-----------------------------------------------------------------------------
(* The mapping.  While a line is relayed, the seats from j on are behind by *)
(* one post; outbuff still tells so when the server died half way.          *)

SeatOf(c) == CHOOSE k \in Seats : Chatter(k) = c

Behind(c) == outbuff.kind = "chat" /\ SeatOf(c) >= j

Room == INSTANCE ChatRoom WITH
  members <- {c \in Clients : Seated(c)},
  gone    <- {c \in Clients : Seated(c) /\ HungUp(c)},
  log     <- posts,
  next    <- [c \in Clients |-> IF ~ Seated(c) THEN 0
                                ELSE IF Behind(c) THEN Len(posts) - 1
                                ELSE Len(posts)],
  box     <- inbox

\* Refinement: the server is the room its chatters think they are in.  Each
\* line read is relayed once to every seat but its author's, in one order for
\* all, also while seats empty, move and are taken again.
ImplementsRoom == Room!Spec
=============================================================================
