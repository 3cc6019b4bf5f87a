-------------------------- MODULE EchoClientsProofs --------------------------
(***************************************************************************)
(* For every number of lines, size of buffers and choice of programs: no   *)
(* stage of the copying runs ahead of the one before it, and every echo    *)
(* client keeps its manner of the promise of EchoSession.                  *)
(*                                                                         *)
(* StagesAgree is not inductive.  IInv adds where each client stands when  *)
(* its stages are equal (Places), and what a FIN, a closed and a reset     *)
(* connection mean (Ends).                                                 *)
(***************************************************************************)
EXTENDS EchoClients, TLAPS

Nonb == client = "strclinonb"

\* Where a client is, and which of its stages agree there.
Places ==
  /\ ~ Nonb /\ pc # "write" => sent = line
  /\ client = "str_cli" /\ pc = "fgets" => read = line
  /\ client = "str_cli" /\ pc \in {"write", "readline"} => read + 1 = line
  /\ client \in {"str_cli_kqueue04", "strclinonb"} => line = got
  /\ Nonb => read = recvd
  /\ Nonb /\ stdineof => eof /\ got = typed
  /\ Nonb /\ pc = "stdin" /\ "stdin" \in rset => toiptr < MAXLINE
  /\ Nonb /\ pc \in {"stdin", "socket"} /\ "socket" \in rset => friptr < MAXLINE
  /\ spc \in {"write", "close"} => echoed < sread

\* What the end of a direction means.
Ends ==
  /\ pc2 = "readline" => client \in TwoAgents
  /\ fin => eof
  /\ isfile => eof
  /\ client \in LockStep => ~ fin
  /\ client \in DOMAIN Loops => (fin <=> stdineof)
  /\ Nonb /\ fin => stdineof
  /\ spc = "closed" /\ ~ lost => fin /\ echoed = sread /\ sread = sent
  /\ spc = "close" => fin /\ sread = sent
  /\ spc = "reset" => lost

IInv == TypeOK /\ StagesAgree /\ Places /\ Ends

\* The server writes only what it has read.
LEMMA ServerKeepsIInv == IInv /\ ServerStep => IInv'
<1> SUFFICES ASSUME IInv, ServerStep PROVE IInv'
  OBVIOUS
<1> USE ConstantsAssumption
<1> USE DEF IInv, TypeOK, StagesAgree, Places, Ends, Nonb, Least, ToServer, ToClient, ServerGone
<1> USE DEF ServerStep, fixed, user, input, output, serving, pointers, sets
<1>1. CASE ServerReads
  <2>1. TypeOK'
    BY <1>1 DEF ServerReads, AfterRead
  <2>2. StagesAgree'
    BY <1>1 DEF ServerReads, AfterRead
  <2>3. Places'
    BY <1>1 DEF ServerReads, AfterRead
  <2>4. Ends'
    BY <1>1 DEF ServerReads, AfterRead
  <2> QED
    BY <2>1, <2>2, <2>3, <2>4
<1>2. CASE ServerSeesEof
  <2>1. TypeOK'
    BY <1>2 DEF ServerSeesEof
  <2>2. StagesAgree'
    BY <1>2 DEF ServerSeesEof
  <2>3. Places'
    BY <1>2 DEF ServerSeesEof
  <2>4. Ends'
    BY <1>2 DEF ServerSeesEof
  <2> QED
    BY <2>1, <2>2, <2>3, <2>4
<1>3. CASE ServerWrites
  <2>1. TypeOK'
    BY <1>3 DEF ServerWrites
  <2>2. StagesAgree'
    BY <1>3 DEF ServerWrites
  <2>3. Places'
    BY <1>3 DEF ServerWrites
  <2>4. Ends'
    BY <1>3 DEF ServerWrites
  <2> QED
    BY <2>1, <2>2, <2>3, <2>4
<1> QED
  BY <1>1, <1>2, <1>3

\* str_cli is one line ahead of its replies while it waits.
LEMMA LockStepKeepsIInv == IInv /\ LockStepStep => IInv'
<1> SUFFICES ASSUME IInv, LockStepStep PROVE IInv'
  OBVIOUS
<1> USE ConstantsAssumption
<1> USE DEF IInv, TypeOK, StagesAgree, Places, Ends, Nonb, Least, ToServer, ToClient, ServerGone
<1> USE DEF LockStepStep, fixed, user, input, output, serving, pointers, sets
<1>1. CASE LockStepReadsLine
  <2>1. TypeOK'
    BY <1>1 DEF LockStepReadsLine, Fgets, MoreInput, Loops, LockStep
  <2>2. StagesAgree'
    BY <1>1 DEF LockStepReadsLine, Fgets, MoreInput, Loops, LockStep
  <2>3. Places'
    BY <1>1 DEF LockStepReadsLine, Fgets, MoreInput, Loops, LockStep
  <2>4. Ends'
    BY <1>1 DEF LockStepReadsLine, Fgets, MoreInput, Loops, LockStep
  <2> QED
    BY <2>1, <2>2, <2>3, <2>4
<1>2. CASE LockStepEof
  <2>1. TypeOK'
    BY <1>2 DEF LockStepEof, EndAs, Loops, LockStep
  <2>2. StagesAgree'
    BY <1>2 DEF LockStepEof, EndAs, Loops, LockStep
  <2>3. Places'
    BY <1>2 DEF LockStepEof, EndAs, Loops, LockStep
  <2>4. Ends'
    BY <1>2 DEF LockStepEof, EndAs, Loops, LockStep
  <2> QED
    BY <2>1, <2>2, <2>3, <2>4
<1>3. CASE LockStepWrites
  <2>1. TypeOK'
    BY <1>3 DEF LockStepWrites, Writen, Loops, LockStep
  <2>2. StagesAgree'
    BY <1>3 DEF LockStepWrites, Writen, Loops, LockStep
  <2>3. Places'
    BY <1>3 DEF LockStepWrites, Writen, Loops, LockStep
  <2>4. Ends'
    BY <1>3 DEF LockStepWrites, Writen, Loops, LockStep
  <2> QED
    BY <2>1, <2>2, <2>3, <2>4
<1>4. CASE LockStepShows
  <2>1. TypeOK'
    BY <1>4 DEF LockStepShows, Readline, MoreReplies, Loops, LockStep
  <2>2. StagesAgree'
    BY <1>4 DEF LockStepShows, Readline, MoreReplies, Loops, LockStep
  <2>3. Places'
    BY <1>4 DEF LockStepShows, Readline, MoreReplies, Loops, LockStep
  <2>4. Ends'
    BY <1>4 DEF LockStepShows, Readline, MoreReplies, Loops, LockStep
  <2> QED
    BY <2>1, <2>2, <2>3, <2>4
<1>5. CASE LockStepNoReply
  <2>1. TypeOK'
    BY <1>5 DEF LockStepNoReply, EndAs, Loops, LockStep
  <2>2. StagesAgree'
    BY <1>5 DEF LockStepNoReply, EndAs, Loops, LockStep
  <2>3. Places'
    BY <1>5 DEF LockStepNoReply, EndAs, Loops, LockStep
  <2>4. Ends'
    BY <1>5 DEF LockStepNoReply, EndAs, Loops, LockStep
  <2> QED
    BY <2>1, <2>2, <2>3, <2>4
<1>6. CASE WriteKills
  <2>1. TypeOK'
    BY <1>6 DEF WriteKills, EndAs
  <2>2. StagesAgree'
    BY <1>6 DEF WriteKills, EndAs
  <2>3. Places'
    BY <1>6 DEF WriteKills, EndAs
  <2>4. Ends'
    BY <1>6 DEF WriteKills, EndAs
  <2> QED
    BY <2>1, <2>2, <2>3, <2>4
<1>7. CASE LockStepReadFails
  <2>1. TypeOK'
    BY <1>7 DEF LockStepReadFails, EndAs
  <2>2. StagesAgree'
    BY <1>7 DEF LockStepReadFails, EndAs
  <2>3. Places'
    BY <1>7 DEF LockStepReadFails, EndAs
  <2>4. Ends'
    BY <1>7 DEF LockStepReadFails, EndAs
  <2> QED
    BY <2>1, <2>2, <2>3, <2>4
<1> QED
  BY <1>1, <1>2, <1>3, <1>4, <1>5, <1>6, <1>7

\* A loop half-closes only when all it has read is written.
LEMMA LoopKeepsIInv == IInv /\ LoopStep => IInv'
<1> SUFFICES ASSUME IInv, LoopStep PROVE IInv'
  OBVIOUS
<1> USE ConstantsAssumption
<1> USE DEF IInv, TypeOK, StagesAgree, Places, Ends, Nonb, Least, ToServer, ToClient, ServerGone
<1> USE DEF LoopStep, fixed, user, input, output, serving, pointers, sets
<1>1. CASE Select
  <2>1. TypeOK'
    BY <1>1 DEF Select, Loops, LockStep
  <2>2. StagesAgree'
    BY <1>1 DEF Select, Loops, LockStep
  <2>3. Places'
    BY <1>1 DEF Select, Loops, LockStep
  <2>4. Ends'
    BY <1>1 DEF Select, Loops, LockStep
  <2> QED
    BY <2>1, <2>2, <2>3, <2>4
<1>2. CASE LoopShows
  <2>1. TypeOK'
    BY <1>2 DEF LoopShows, Turn, Proceed, Readline, ReadReply, MoreReplies, Loops, LockStep
  <2>2. StagesAgree'
    BY <1>2 DEF LoopShows, Turn, Proceed, Readline, ReadReply, MoreReplies, Loops, LockStep
  <2>3. Places'
    BY <1>2 DEF LoopShows, Turn, Proceed, Readline, ReadReply, MoreReplies, Loops, LockStep
  <2>4. Ends'
    BY <1>2 DEF LoopShows, Turn, Proceed, Readline, ReadReply, MoreReplies, Loops, LockStep
  <2> QED
    BY <2>1, <2>2, <2>3, <2>4
<1>3. CASE LoopSeesEof
  <2>1. TypeOK'
    BY <1>3 DEF LoopSeesEof, EofOfSocket, EndAs, Loops, LockStep
  <2>2. StagesAgree'
    BY <1>3 DEF LoopSeesEof, EofOfSocket, EndAs, Loops, LockStep
  <2>3. Places'
    BY <1>3 DEF LoopSeesEof, EofOfSocket, EndAs, Loops, LockStep
  <2>4. Ends'
    BY <1>3 DEF LoopSeesEof, EofOfSocket, EndAs, Loops, LockStep
  <2> QED
    BY <2>1, <2>2, <2>3, <2>4
<1>4. CASE LoopReadFails
  <2>1. TypeOK'
    BY <1>4 DEF LoopReadFails, EndAs, Loops, LockStep
  <2>2. StagesAgree'
    BY <1>4 DEF LoopReadFails, EndAs, Loops, LockStep
  <2>3. Places'
    BY <1>4 DEF LoopReadFails, EndAs, Loops, LockStep
  <2>4. Ends'
    BY <1>4 DEF LoopReadFails, EndAs, Loops, LockStep
  <2> QED
    BY <2>1, <2>2, <2>3, <2>4
<1>5. CASE LoopReadsLine
  <2>1. TypeOK'
    BY <1>5 DEF LoopReadsLine, Turn, Fgets, ReadInput, MoreInput, Program, str_cli_kqueue04, Loops, LockStep
  <2>2. StagesAgree'
    BY <1>5 DEF LoopReadsLine, Turn, Fgets, ReadInput, MoreInput, Program, str_cli_kqueue04, Loops, LockStep
  <2>3. Places'
    BY <1>5 DEF LoopReadsLine, Turn, Fgets, ReadInput, MoreInput, Program, str_cli_kqueue04, Loops, LockStep
  <2>4. Ends'
    BY <1>5 DEF LoopReadsLine, Turn, Fgets, ReadInput, MoreInput, Program, str_cli_kqueue04, Loops, LockStep
  <2> QED
    BY <2>1, <2>2, <2>3, <2>4
<1>6. CASE LoopEof
  <2>0. /\ rset' \subseteq {"stdin", "socket"} /\ pc' \in {"scan", "select"}
        /\ fin' \in BOOLEAN /\ stdineof' \in BOOLEAN /\ ended' \in {"no", "normal"}
    <3>1. CASE Program.half
      BY <1>6, <3>1 DEF LoopEof, Turn, Proceed, AfterEof, Running
    <3>2. CASE ~ Program.half
      BY <1>6, <3>2 DEF LoopEof, Turn, EndAs, Running
    <3> QED
      BY <3>1, <3>2
  <2>1. TypeOK'
    BY <1>6, <2>0 DEF LoopEof
  <2>2. StagesAgree'
    BY <1>6, <2>0 DEF LoopEof, Turn, NoMoreInput, EndAs, Proceed, Loops, LockStep
  <2>3. Places'
    BY <1>6, <2>0 DEF LoopEof, Turn, NoMoreInput, EndAs, Proceed, Loops, LockStep
  <2>4. Ends'
    BY <1>6, <2>0 DEF LoopEof, Turn, NoMoreInput, EndAs, Proceed, Loops, LockStep
  <2> QED
    BY <2>1, <2>2, <2>3, <2>4
<1>7. CASE LoopWrites
  <2>0. fin' \in BOOLEAN /\ stdineof' \in BOOLEAN /\ rset' \subseteq {"stdin", "socket"} /\ pc' \in {"scan", "select", "write"}
    BY <1>7 DEF LoopWrites, Proceed
  <2>1. TypeOK'
    BY <1>7, <2>0 DEF LoopWrites, Writen, Proceed, KnowsTheEnd, Loops, LockStep
  <2>2. StagesAgree'
    BY <1>7, <2>0 DEF LoopWrites, Writen, Proceed, KnowsTheEnd, Loops, LockStep
  <2>3. Places'
    BY <1>7, <2>0 DEF LoopWrites, Writen, Proceed, KnowsTheEnd, Loops, LockStep
  <2>4. Ends'
    BY <1>7, <2>0 DEF LoopWrites, Writen, Proceed, KnowsTheEnd, Loops, LockStep
  <2> QED
    BY <2>1, <2>2, <2>3, <2>4
<1>8. CASE WriteKills /\ UNCHANGED rset
  <2>1. TypeOK'
    BY <1>8 DEF WriteKills, EndAs
  <2>2. StagesAgree'
    BY <1>8 DEF WriteKills, EndAs
  <2>3. Places'
    BY <1>8 DEF WriteKills, EndAs
  <2>4. Ends'
    BY <1>8 DEF WriteKills, EndAs
  <2> QED
    BY <2>1, <2>2, <2>3, <2>4
<1> QED
  BY <1>1, <1>2, <1>3, <1>4, <1>5, <1>6, <1>7, <1>8

\* The agent that reads the input shuts down when it has written all.
LEMMA CopyKeepsIInv == IInv /\ CopyStep => IInv'
<1> SUFFICES ASSUME IInv, CopyStep PROVE IInv'
  OBVIOUS
<1> USE ConstantsAssumption
<1> USE DEF IInv, TypeOK, StagesAgree, Places, Ends, Nonb, Least, ToServer, ToClient, ServerGone
<1> USE DEF CopyStep, fixed, user, input, output, serving, pointers, sets
<1>1. CASE CopyReadsLine
  <2>1. TypeOK'
    BY <1>1 DEF CopyReadsLine, Fgets, MoreInput, TwoAgents, Loops, LockStep
  <2>2. StagesAgree'
    BY <1>1 DEF CopyReadsLine, Fgets, MoreInput, TwoAgents, Loops, LockStep
  <2>3. Places'
    BY <1>1 DEF CopyReadsLine, Fgets, MoreInput, TwoAgents, Loops, LockStep
  <2>4. Ends'
    BY <1>1 DEF CopyReadsLine, Fgets, MoreInput, TwoAgents, Loops, LockStep
  <2> QED
    BY <2>1, <2>2, <2>3, <2>4
<1>2. CASE CopyWrites
  <2>1. TypeOK'
    BY <1>2 DEF CopyWrites, Writen, TwoAgents, Loops, LockStep
  <2>2. StagesAgree'
    BY <1>2 DEF CopyWrites, Writen, TwoAgents, Loops, LockStep
  <2>3. Places'
    BY <1>2 DEF CopyWrites, Writen, TwoAgents, Loops, LockStep
  <2>4. Ends'
    BY <1>2 DEF CopyWrites, Writen, TwoAgents, Loops, LockStep
  <2> QED
    BY <2>1, <2>2, <2>3, <2>4
<1>3. CASE CopyShutsDown
  <2>1. TypeOK'
    BY <1>3 DEF CopyShutsDown, NoMoreInput, TwoAgents, Loops, LockStep
  <2>2. StagesAgree'
    BY <1>3 DEF CopyShutsDown, NoMoreInput, TwoAgents, Loops, LockStep
  <2>3. Places'
    BY <1>3 DEF CopyShutsDown, NoMoreInput, TwoAgents, Loops, LockStep
  <2>4. Ends'
    BY <1>3 DEF CopyShutsDown, NoMoreInput, TwoAgents, Loops, LockStep
  <2> QED
    BY <2>1, <2>2, <2>3, <2>4
<1>4. CASE CopySetsDone
  <2>1. TypeOK'
    BY <1>4 DEF CopySetsDone, TwoAgents, Loops, LockStep
  <2>2. StagesAgree'
    BY <1>4 DEF CopySetsDone, TwoAgents, Loops, LockStep
  <2>3. Places'
    BY <1>4 DEF CopySetsDone, TwoAgents, Loops, LockStep
  <2>4. Ends'
    BY <1>4 DEF CopySetsDone, TwoAgents, Loops, LockStep
  <2> QED
    BY <2>1, <2>2, <2>3, <2>4
<1>5. CASE CopyKilled
  <2>1. TypeOK'
    BY <1>5 DEF CopyKilled, EndAs, TwoAgents, Loops, LockStep
  <2>2. StagesAgree'
    BY <1>5 DEF CopyKilled, EndAs, TwoAgents, Loops, LockStep
  <2>3. Places'
    BY <1>5 DEF CopyKilled, EndAs, TwoAgents, Loops, LockStep
  <2>4. Ends'
    BY <1>5 DEF CopyKilled, EndAs, TwoAgents, Loops, LockStep
  <2> QED
    BY <2>1, <2>2, <2>3, <2>4
<1> QED
  BY <1>1, <1>2, <1>3, <1>4, <1>5

\* What Written leaves: one buffer less n, with its pointers in order.
LEMMA WrittenLeaves ==
  ASSUME NEW a \in Nat, NEW b \in Nat, NEW n \in 1 .. (b - a)
  PROVE  /\ Written(a, b, n).from \in 0 .. b /\ Written(a, b, n).to \in 0 .. b
         /\ Written(a, b, n).from <= Written(a, b, n).to
         /\ Written(a, b, n).to - Written(a, b, n).from = (b - a) - n
<1>1. CASE a + n = b
  BY <1>1 DEF Written
<1>2. CASE a + n # b
  BY <1>2 DEF Written
<1> QED
  BY <1>1, <1>2

\* The pointers of strclinonb follow what its buffers hold.
LEMMA NonbKeepsIInv == IInv /\ NonbStep => IInv'
<1> SUFFICES ASSUME IInv, NonbStep PROVE IInv'
  OBVIOUS
<1> USE ConstantsAssumption
<1> USE DEF IInv, TypeOK, StagesAgree, Places, Ends, Nonb, Least, ToServer, ToClient, ServerGone
<1> USE DEF NonbStep, fixed, user, input, output, serving, pointers, sets
<1>1. CASE NonbSelect
  <2>1. TypeOK'
    BY <1>1 DEF NonbSelect, Wanted, Loops, LockStep
  <2>2. StagesAgree'
    BY <1>1 DEF NonbSelect, Wanted, Loops, LockStep
  <2>3. Places'
    BY <1>1 DEF NonbSelect, Wanted, Loops, LockStep
  <2>4. Ends'
    BY <1>1 DEF NonbSelect, Wanted, Loops, LockStep
  <2> QED
    BY <2>1, <2>2, <2>3, <2>4
<1>2. CASE NonbReads
  <2>1. TypeOK'
    BY <1>2 DEF NonbReads, RoomTo, MoreInput, Loops, LockStep
  <2>2. StagesAgree'
    BY <1>2 DEF NonbReads, RoomTo, MoreInput, Loops, LockStep
  <2>3. Places'
    BY <1>2 DEF NonbReads, RoomTo, MoreInput, Loops, LockStep
  <2>4. Ends'
    BY <1>2 DEF NonbReads, RoomTo, MoreInput, Loops, LockStep
  <2> QED
    BY <2>1, <2>2, <2>3, <2>4
<1>3. CASE NonbSeesEof
  <2>1. TypeOK'
    BY <1>3 DEF NonbSeesEof, NoMoreInput, RoomTo, Loops, LockStep
  <2>2. StagesAgree'
    BY <1>3 DEF NonbSeesEof, NoMoreInput, RoomTo, Loops, LockStep
  <2>3. Places'
    BY <1>3 DEF NonbSeesEof, NoMoreInput, RoomTo, Loops, LockStep
  <2>4. Ends'
    BY <1>3 DEF NonbSeesEof, NoMoreInput, RoomTo, Loops, LockStep
  <2> QED
    BY <2>1, <2>2, <2>3, <2>4
<1>4. CASE NonbReceives
  <2>1. TypeOK'
    BY <1>4 DEF NonbReceives, RoomFr, MoreReplies, Loops, LockStep
  <2>2. StagesAgree'
    BY <1>4 DEF NonbReceives, RoomFr, MoreReplies, Loops, LockStep
  <2>3. Places'
    BY <1>4 DEF NonbReceives, RoomFr, MoreReplies, Loops, LockStep
  <2>4. Ends'
    BY <1>4 DEF NonbReceives, RoomFr, MoreReplies, Loops, LockStep
  <2> QED
    BY <2>1, <2>2, <2>3, <2>4
<1>5. CASE NonbEofOfSocket
  <2>1. TypeOK'
    BY <1>5 DEF NonbEofOfSocket, EndAs, Loops, LockStep
  <2>2. StagesAgree'
    BY <1>5 DEF NonbEofOfSocket, EndAs, Loops, LockStep
  <2>3. Places'
    BY <1>5 DEF NonbEofOfSocket, EndAs, Loops, LockStep
  <2>4. Ends'
    BY <1>5 DEF NonbEofOfSocket, EndAs, Loops, LockStep
  <2> QED
    BY <2>1, <2>2, <2>3, <2>4
<1>6. CASE NonbReadFails
  <2>1. TypeOK'
    BY <1>6 DEF NonbReadFails, EndAs, Loops, LockStep
  <2>2. StagesAgree'
    BY <1>6 DEF NonbReadFails, EndAs, Loops, LockStep
  <2>3. Places'
    BY <1>6 DEF NonbReadFails, EndAs, Loops, LockStep
  <2>4. Ends'
    BY <1>6 DEF NonbReadFails, EndAs, Loops, LockStep
  <2> QED
    BY <2>1, <2>2, <2>3, <2>4
<1>7. CASE NonbShows
  <2>0. \A n \in 1 .. (friptr - froptr) :
           /\ Written(froptr, friptr, n).from \in 0 .. friptr /\ Written(froptr, friptr, n).to \in 0 .. friptr
           /\ Written(froptr, friptr, n).from <= Written(froptr, friptr, n).to
           /\ Written(froptr, friptr, n).to - Written(froptr, friptr, n).from = (friptr - froptr) - n
    BY <1>7, WrittenLeaves
  <2>1. TypeOK'
    BY <1>7, <2>0 DEF NonbShows, Loops, LockStep
  <2>2. StagesAgree'
    BY <1>7, <2>0 DEF NonbShows, Loops, LockStep
  <2>3. Places'
    BY <1>7, <2>0 DEF NonbShows, Loops, LockStep
  <2>4. Ends'
    BY <1>7, <2>0 DEF NonbShows, Loops, LockStep
  <2> QED
    BY <2>1, <2>2, <2>3, <2>4
<1>8. CASE NonbWrites
  <2>0. \A n \in 1 .. (toiptr - tooptr) :
           /\ Written(tooptr, toiptr, n).from \in 0 .. toiptr /\ Written(tooptr, toiptr, n).to \in 0 .. toiptr
           /\ Written(tooptr, toiptr, n).from <= Written(tooptr, toiptr, n).to
           /\ Written(tooptr, toiptr, n).to - Written(tooptr, toiptr, n).from = (toiptr - tooptr) - n
    BY <1>8, WrittenLeaves
  <2>1. TypeOK'
    BY <1>8, <2>0 DEF NonbWrites, FinAfter, Loops, LockStep
  <2>2. StagesAgree'
    BY <1>8, <2>0 DEF NonbWrites, FinAfter, Loops, LockStep
  <2>3. Places'
    BY <1>8, <2>0 DEF NonbWrites, FinAfter, Loops, LockStep
  <2>4. Ends'
    BY <1>8, <2>0 DEF NonbWrites, FinAfter, Loops, LockStep
  <2> QED
    BY <2>1, <2>2, <2>3, <2>4
<1>9. CASE NonbKilled
  <2>1. TypeOK'
    BY <1>9 DEF NonbKilled, EndAs, Loops, LockStep
  <2>2. StagesAgree'
    BY <1>9 DEF NonbKilled, EndAs, Loops, LockStep
  <2>3. Places'
    BY <1>9 DEF NonbKilled, EndAs, Loops, LockStep
  <2>4. Ends'
    BY <1>9 DEF NonbKilled, EndAs, Loops, LockStep
  <2> QED
    BY <2>1, <2>2, <2>3, <2>4
<1>10. CASE NonbSkips
  <2>1. TypeOK'
    BY <1>10 DEF NonbSkips, Loops, LockStep
  <2>2. StagesAgree'
    BY <1>10 DEF NonbSkips, Loops, LockStep
  <2>3. Places'
    BY <1>10 DEF NonbSkips, Loops, LockStep
  <2>4. Ends'
    BY <1>10 DEF NonbSkips, Loops, LockStep
  <2> QED
    BY <2>1, <2>2, <2>3, <2>4
<1> QED
  BY <1>1, <1>2, <1>3, <1>4, <1>5, <1>6, <1>7, <1>8, <1>9, <1>10

\* The agent that shows replies reads no further than the server wrote.
LEMMA ShowKeepsIInv == IInv /\ ShowStep => IInv'
<1> SUFFICES ASSUME IInv, ShowStep PROVE IInv'
  OBVIOUS
<1> USE ConstantsAssumption
<1> USE DEF IInv, TypeOK, StagesAgree, Places, Ends, Nonb, Least, ToServer, ToClient, ServerGone
<1> USE DEF ShowStep, fixed, user, input, output, serving, pointers, sets
<1>1. CASE ShowReply
  <2>1. TypeOK'
    BY <1>1 DEF ShowReply, Readline, MoreReplies, TwoAgents, Loops, LockStep
  <2>2. StagesAgree'
    BY <1>1 DEF ShowReply, Readline, MoreReplies, TwoAgents, Loops, LockStep
  <2>3. Places'
    BY <1>1 DEF ShowReply, Readline, MoreReplies, TwoAgents, Loops, LockStep
  <2>4. Ends'
    BY <1>1 DEF ShowReply, Readline, MoreReplies, TwoAgents, Loops, LockStep
  <2> QED
    BY <2>1, <2>2, <2>3, <2>4
<1>2. CASE ShowEof
  <2>0. ended' \in {"normal", "premature", "error"}
    BY <1>2 DEF ShowEof, EofOfReplies, EndAs, TwoAgents
  <2>1. TypeOK'
    BY <1>2, <2>0 DEF ShowEof, EofOfReplies, EndAs, TwoAgents, Loops, LockStep
  <2>2. StagesAgree'
    BY <1>2, <2>0 DEF ShowEof, EofOfReplies, EndAs, TwoAgents, Loops, LockStep
  <2>3. Places'
    BY <1>2, <2>0 DEF ShowEof, EofOfReplies, EndAs, TwoAgents, Loops, LockStep
  <2>4. Ends'
    BY <1>2, <2>0 DEF ShowEof, EofOfReplies, EndAs, TwoAgents, Loops, LockStep
  <2> QED
    BY <2>1, <2>2, <2>3, <2>4
<1>3. CASE ShowFails
  <2>1. TypeOK'
    BY <1>3 DEF ShowFails, EndAs, TwoAgents, Loops, LockStep
  <2>2. StagesAgree'
    BY <1>3 DEF ShowFails, EndAs, TwoAgents, Loops, LockStep
  <2>3. Places'
    BY <1>3 DEF ShowFails, EndAs, TwoAgents, Loops, LockStep
  <2>4. Ends'
    BY <1>3 DEF ShowFails, EndAs, TwoAgents, Loops, LockStep
  <2> QED
    BY <2>1, <2>2, <2>3, <2>4
<1> QED
  BY <1>1, <1>2, <1>3

\* The user and the end of the server.
LEMMA OthersKeepIInv == IInv /\ (Type \/ StopOutput \/ ResumeOutput \/ ServerIsKilled) => IInv'
<1> SUFFICES ASSUME IInv, Type \/ StopOutput \/ ResumeOutput \/ ServerIsKilled PROVE IInv'
  OBVIOUS
<1> USE ConstantsAssumption
<1> USE DEF IInv, TypeOK, StagesAgree, Places, Ends, Nonb
<1> USE DEF fixed, user, input, output, serving, pointers, sets
<1>1. CASE Type
  BY <1>1 DEF Type
<1>2. CASE StopOutput
  BY <1>2 DEF StopOutput
<1>3. CASE ResumeOutput
  BY <1>3 DEF ResumeOutput
<1>4. CASE ServerIsKilled
  BY <1>4 DEF ServerIsKilled, ServerDies, ServerGone
<1> QED
  BY <1>1, <1>2, <1>3, <1>4

LEMMA InitIInv == Init => IInv
<1> SUFFICES ASSUME Init PROVE IInv
  OBVIOUS
<1> USE ConstantsAssumption
<1>1. TypeOK
  <2>1. pc \in {"fgets", "select"}
    BY DEF Init, Start
  <2>2. isfile \in BOOLEAN
    BY DEF Init
  <2>3. eof \in BOOLEAN
    BY <2>2 DEF Init
  <2>4. pc2 \in {"readline", "none"}
    BY DEF Init
  <2>5. typed \in 0 .. Lines
    BY DEF Init
  <2>6. spc = "read" /\ terminal = "fresh" /\ ended = "no" /\ rset = {} /\ wset = {}
    BY DEF Init
  <2>7. stdineof = FALSE /\ fin = FALSE /\ done = FALSE /\ lost = FALSE
    BY DEF Init
  <2>8. /\ got = 0 /\ line = 0 /\ sent = 0 /\ sread = 0 /\ echoed = 0 /\ recvd = 0 /\ read = 0 /\ out = 0
        /\ toiptr = 0 /\ tooptr = 0 /\ friptr = 0 /\ froptr = 0
    BY DEF Init
  <2>9. client \in Clients /\ server \in Servers
    BY DEF Init
  <2>10. 0 \in 0 .. Lines /\ 0 \in 0 .. MAXLINE
    OBVIOUS
  <2> QED
    BY <2>1, <2>2, <2>3, <2>4, <2>5, <2>6, <2>7, <2>8, <2>9, <2>10, Zenon DEF TypeOK
<1>2. StagesAgree
  BY DEF Init, StagesAgree
<1>3. Places /\ Ends
  BY DEF Init, Places, Ends, Nonb, Start
<1> QED
  BY <1>1, <1>2, <1>3 DEF IInv

LEMMA NextKeepsIInv == IInv /\ [Next]_vars => IInv'
<1> SUFFICES ASSUME IInv, [Next]_vars PROVE IInv'
  OBVIOUS
<1>1. CASE UNCHANGED vars
  BY <1>1 DEF vars, IInv, TypeOK, StagesAgree, Places, Ends, Nonb,
              fixed, user, input, output, serving, pointers, sets
<1>2. CASE Next
  BY <1>2, ServerKeepsIInv, LockStepKeepsIInv, LoopKeepsIInv, CopyKeepsIInv, NonbKeepsIInv,
     ShowKeepsIInv, OthersKeepIInv DEF Next, ClientStep
<1> QED
  BY <1>1, <1>2

LEMMA Inductive == Spec => []IInv
  BY InitIInv, NextKeepsIInv, PTL DEF Spec

\* The model is well-typed for every number of lines and size of buffers; no
\* pointer of strclinonb leaves its buffer.
THEOREM TypeCorrect == Spec => []TypeOK
<1>1. IInv => TypeOK
  BY DEF IInv
<1> QED
  BY <1>1, Inductive, PTL

\* In no client does a stage of the copying run ahead of the one before it.
THEOREM NothingIsInvented == Spec => []StagesAgree
<1>1. IInv => StagesAgree
  BY DEF IInv
<1> QED
  BY <1>1, Inductive, PTL

-----------------------------------------------------------------------------
Still == UNCHANGED <<fixed, typed, eof, lost, ended>>

\* A step that only moves lines forward shows some of them, or none.
LEMMA MovesShow ==
  ASSUME IInv, IInv', Running, Still, out <= out'
  PROVE  Session!Show \/ UNCHANGED Session!vars
<1>1. manner' = manner
  BY DEF Still, fixed, manner
<1>2. out' \in out .. typed
  BY DEF IInv, TypeOK, StagesAgree, Still
<1> QED
  BY <1>1, <1>2 DEF Session!Show, Still, Running

\* The ways to end that EchoSession allows.
MayEnd(how) ==
  /\ how \in {"normal", "premature", "error"}
  /\ how = "normal" /\ ~ lost => eof /\ (manner \notin {"hasty", "partly"} => out = typed)
  /\ how = "premature" => lost \/ (manner = "mistaken" /\ eof /\ out = typed)
  /\ how = "error" => lost

LEMMA EndsWell ==
  ASSUME Running, MayEnd(ended'), UNCHANGED <<fixed, typed, eof, lost, out>>
  PROVE  Session!End
<1>1. manner' = manner
  BY DEF fixed, manner
<1> QED
  BY <1>1 DEF Session!End, MayEnd, Running

\* A FIN was sent and answered: everything typed has come back, and the last
\* Readline() or read() has found nothing more.
LEMMA AllIsBack ==
  ASSUME IInv, NoMoreReplies, ~ lost
  PROVE  /\ fin /\ eof /\ typed = read
         /\ client # "strclinonb" => out = typed
  BY DEF IInv, TypeOK, StagesAgree, Ends, NoMoreReplies

LEMMA LockStepEnds ==
  ASSUME IInv, IInv', LockStepStep
  PROVE  Session!Next \/ UNCHANGED Session!vars
<1> USE DEF LockStepStep
<1>1. CASE LockStepReadsLine \/ LockStepWrites \/ LockStepShows
  <2>1. Still
    BY <1>1 DEF LockStepReadsLine, LockStepWrites, LockStepShows, Still, user
  <2>2. out <= out'
    BY <1>1 DEF LockStepReadsLine, LockStepWrites, LockStepShows, Readline, output, IInv, TypeOK, StagesAgree
  <2> QED
    BY <2>1, <2>2, MovesShow DEF Session!Next
<1>2. CASE client # "str_cli" /\ (LockStepEof \/ LockStepNoReply)
  BY <1>2 DEF LockStepEof, LockStepNoReply, Session!vars, user, output, manner, fixed
<1>3. CASE LockStepEof /\ client = "str_cli"
  <2>1. eof /\ out = typed
    BY <1>3 DEF LockStepEof, NoMoreInput, IInv, TypeOK, StagesAgree, Places
  <2>2. MayEnd(ended')
    BY <1>3, <2>1 DEF LockStepEof, EndAs, MayEnd
  <2> QED
    BY <1>3, <2>2, EndsWell DEF LockStepEof, user, output, Session!Next
<1>4. CASE LockStepNoReply /\ client = "str_cli"
  <2>1. lost
    BY <1>4, AllIsBack DEF LockStepNoReply, IInv, Ends, LockStep
  <2>2. MayEnd(ended')
    BY <1>4, <2>1 DEF LockStepNoReply, EndAs, MayEnd
  <2> QED
    BY <1>4, <2>2, EndsWell DEF LockStepNoReply, user, output, Session!Next
<1>5. CASE WriteKills \/ LockStepReadFails
  <2>1. MayEnd(ended')
    BY <1>5 DEF WriteKills, LockStepReadFails, ReadFails, EndAs, MayEnd, IInv, Ends
  <2> QED
    BY <1>5, <2>1, EndsWell DEF WriteKills, LockStepReadFails, user, output, Session!Next
<1> QED
  BY <1>1, <1>2, <1>3, <1>4, <1>5

LEMMA LoopEnds ==
  ASSUME IInv, IInv', LoopStep
  PROVE  Session!Next \/ UNCHANGED Session!vars
<1> USE DEF LoopStep
<1>1. CASE Select \/ LoopShows \/ LoopReadsLine \/ LoopWrites \/ (LoopEof /\ Program.half)
  <2>1. Still
    BY <1>1 DEF Select, LoopShows, LoopReadsLine, LoopWrites, LoopEof, Still, user
  <2>2. out <= out'
    BY <1>1 DEF Select, LoopShows, LoopReadsLine, LoopWrites, LoopEof, Readline, ReadReply, output,
                Least, IInv, TypeOK, StagesAgree
  <2> QED
    BY <2>1, <2>2, MovesShow DEF Session!Next
<1>2. CASE LoopEof /\ ~ Program.half
  <2>1. eof
    BY <1>2 DEF LoopEof, NoMoreInput
  <2>2. manner = "hasty"
    BY <1>2 DEF Program, Loops, manner, strcliselect01, strcliselect02, str_cli_select02,
                str_cli_poll03, str_cli_kqueue04, loop, loop_halfclose
  <2>3. MayEnd(ended')
    BY <1>2, <2>1, <2>2 DEF LoopEof, EndAs, MayEnd
  <2> QED
    BY <1>2, <2>3, EndsWell DEF LoopEof, user, output, Session!Next
<1>3. CASE LoopSeesEof
  <2>1. ended' \in {"normal", "premature"} /\ (stdineof => ended' = "normal")
    BY <1>3 DEF LoopSeesEof, EofOfSocket, EndAs
  <2>2. ~ lost => eof /\ out = typed /\ stdineof
    BY <1>3, AllIsBack DEF LoopSeesEof, IInv, Ends, Loops
  <2>3. MayEnd(ended')
    BY <2>1, <2>2 DEF MayEnd
  <2> QED
    BY <1>3, <2>3, EndsWell DEF LoopSeesEof, user, output, Session!Next
<1>4. CASE LoopReadFails \/ WriteKills
  <2>1. MayEnd(ended')
    BY <1>4 DEF WriteKills, LoopReadFails, ReadFails, EndAs, MayEnd, IInv, Ends
  <2> QED
    BY <1>4, <2>1, EndsWell DEF WriteKills, LoopReadFails, user, output, Session!Next
<1> QED
  BY <1>1, <1>2, <1>3, <1>4

LEMMA CopyEnds ==
  ASSUME IInv, IInv', CopyStep
  PROVE  Session!Next \/ UNCHANGED Session!vars
<1>1. CASE CopyKilled
  <2>1. MayEnd(ended')
    BY <1>1 DEF CopyKilled, EndAs, MayEnd, IInv, Ends
  <2> QED
    BY <1>1, <2>1, EndsWell DEF CopyStep, user, output, Session!Next
<1>2. CASE CopyReadsLine \/ CopyWrites \/ CopyShutsDown \/ CopySetsDone
  <2>1. Still /\ out = out'
    BY <1>2 DEF CopyStep, CopyReadsLine, CopyWrites, CopyShutsDown, CopySetsDone, Still, user, output
  <2> QED
    BY <2>1, MovesShow DEF CopyStep, Session!Next, IInv, TypeOK
<1> QED
  BY <1>1, <1>2 DEF CopyStep

LEMMA ShowEnds ==
  ASSUME IInv, IInv', ShowStep
  PROVE  Session!Next \/ UNCHANGED Session!vars
<1> USE DEF ShowStep
<1>1. CASE ShowReply
  <2>1. Still /\ out <= out'
    BY <1>1 DEF ShowReply, Readline, Still, user, IInv, TypeOK, StagesAgree
  <2> QED
    BY <2>1, MovesShow DEF Session!Next
<1>2. CASE ShowEof
  <2>1. ended' \in {"normal", "premature", "error"}
    BY <1>2 DEF ShowEof, EofOfReplies, EndAs, IInv, Ends, TwoAgents
  <2>2. ~ lost => eof /\ out = typed /\ fin
    BY <1>2, AllIsBack DEF ShowEof, IInv, Ends, TwoAgents
  <2>3. ~ lost => ended' # "error" /\ (ended' = "premature" => manner = "mistaken")
    BY <1>2, <2>2 DEF ShowEof, EofOfReplies, EndAs, IInv, Ends, TwoAgents, manner
  <2>4. MayEnd(ended')
    BY <2>1, <2>2, <2>3 DEF MayEnd
  <2> QED
    BY <1>2, <2>4, EndsWell DEF ShowEof, user, output, Session!Next
<1>3. CASE ShowFails
  <2>1. CASE client = "strclifork"
    BY <1>3, <2>1 DEF ShowFails, Session!vars, user, output, manner, fixed
  <2>2. CASE client # "strclifork"
    <3>1. MayEnd(ended')
      BY <1>3, <2>2 DEF ShowFails, ReadFails, EndAs, MayEnd, IInv, Ends
    <3> QED
      BY <1>3, <2>2, <3>1, EndsWell DEF ShowFails, user, output, Session!Next
  <2> QED
    BY <2>1, <2>2
<1> QED
  BY <1>1, <1>2, <1>3

LEMMA NonbEnds ==
  ASSUME IInv, IInv', NonbStep
  PROVE  Session!Next \/ UNCHANGED Session!vars
<1> USE DEF NonbStep
<1>1. CASE NonbEofOfSocket
  <2>1. lost \/ (eof /\ stdineof)
    <3>1. RoomFr > 0
      BY <1>1, ConstantsAssumption DEF NonbEofOfSocket, RoomFr, IInv, TypeOK, Places, Nonb
    <3>2. NoMoreReplies
      BY <1>1, <3>1 DEF NonbEofOfSocket
    <3> QED
      BY <3>2, AllIsBack DEF IInv, Ends, Nonb
  <2>2. manner = "partly"
    BY DEF manner
  <2>3. MayEnd(ended')
    BY <1>1, <2>1, <2>2 DEF NonbEofOfSocket, EndAs, MayEnd
  <2> QED
    BY <1>1, <2>3, EndsWell DEF NonbEofOfSocket, user, output, Session!Next
<1>2. CASE NonbReadFails \/ NonbKilled
  <2>1. MayEnd(ended')
    BY <1>2 DEF NonbReadFails, NonbKilled, ReadFails, EndAs, MayEnd, IInv, Ends
  <2> QED
    BY <1>2, <2>1, EndsWell DEF NonbReadFails, NonbKilled, user, output, Session!Next
<1>3. CASE NonbSelect \/ NonbReads \/ NonbSeesEof \/ NonbReceives \/ NonbShows \/ NonbWrites \/ NonbSkips
  <2>1. Still
    BY <1>3 DEF NonbSelect, NonbReads, NonbSeesEof, NonbReceives, NonbShows, NonbWrites, NonbSkips, Still, user
  <2>2. out <= out'
    BY <1>3 DEF NonbSelect, NonbReads, NonbSeesEof, NonbReceives, NonbShows, NonbWrites, NonbSkips, output,
                IInv, TypeOK, StagesAgree
  <2> QED
    BY <2>1, <2>2, MovesShow DEF Session!Next
<1> QED
  BY <1>1, <1>2, <1>3

LEMMA OthersStutter ==
  ASSUME IInv, IInv', Type \/ StopOutput \/ ResumeOutput \/ ServerStep \/ ServerIsKilled
  PROVE  Session!Next \/ UNCHANGED Session!vars
<1>1. CASE Type
  BY <1>1 DEF Type, Running, Session!Next, Session!Type, output, manner, fixed
<1>2. CASE ServerIsKilled
  BY <1>2 DEF ServerIsKilled, ServerDies, Session!Next, Session!Lose, user, output, manner, fixed
<1>3. CASE StopOutput \/ ResumeOutput
  BY <1>3 DEF StopOutput, ResumeOutput, Session!vars, output, manner, fixed
<1>4. CASE ServerStep
  BY <1>4 DEF ServerStep, ServerReads, ServerSeesEof, ServerWrites, Session!vars, user, output, manner, fixed
<1> QED
  BY <1>1, <1>2, <1>3, <1>4

\* Each of the programs keeps its manner of the promise: at a normal end all is
\* shown, and who blames the server is right, with the exceptions EchoSession
\* names.
THEOREM ClientsKeepTheirManner == Spec => ImplementsSession
<1>1. Init => Session!Init
  BY InitIInv DEF Init, Session!Init, manner, IInv, TypeOK
<1>2. IInv /\ IInv' /\ [Next]_vars => [Session!Next]_(Session!vars)
  <2> SUFFICES ASSUME IInv, IInv', [Next]_vars PROVE Session!Next \/ UNCHANGED Session!vars
    OBVIOUS
  <2>1. CASE UNCHANGED vars
    BY <2>1 DEF vars, Session!vars, user, output, manner, fixed
  <2>2. CASE Next
    BY <2>2, LockStepEnds, LoopEnds, CopyEnds, ShowEnds, NonbEnds, OthersStutter DEF Next, ClientStep
  <2> QED
    BY <2>1, <2>2
<1> QED
  BY <1>1, <1>2, Inductive, PTL DEF Spec, ImplementsSession, Session!Spec
===============================================================================
