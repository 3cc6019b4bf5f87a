----------------------------- MODULE EchoClients ------------------------------
(***************************************************************************)
(* The TCP echo clients of Lab2017, which differ in how they copy from     *)
(* standard input to the socket and from the socket to standard output,    *)
(* each with an echo server: str_echo of lib or of advio/str_echo_stdio02. *)
(* One `client` and one `server` run at a time.                            *)
(*                                                                         *)
(* What is copied is a stream of lines, and every stage of its way is the  *)
(* number of lines that have passed it: what a buffer holds is the         *)
(* difference of two stages.  The kernel's part is a buffer of Cap lines   *)
(* in each direction, which a blocking write() waits for.  The server may  *)
(* be killed at any time.  Left out: lines cut into pieces, set-up of the  *)
(* connection, and failures other than those of a connection that is gone. *)
(***************************************************************************)
EXTENDS Naturals, FiniteSets

CONSTANTS
  Lines,      \* lines typed at most
  Cap,        \* lines a direction of the connection holds
  MAXLINE,    \* lines a buffer of a client or server holds
  Clients, Servers

\* One agent that waits for each reply.
LockStep == {"str_cli", "tcp_client"}

\* Two agents, one for each direction: processes or threads.
TwoAgents == {"strclifork", "strclithread", "strclithread2"}

\* One agent around select() or the like: whether it reads by lines, through
\* buffers the kernel does not know of; whether it half-closes at the end of
\* the input; which descriptor it looks at first; and whether it goes on
\* waiting for an input that has ended.
strcliselect01   == [lines |-> TRUE,  half |-> FALSE, first |-> {"socket"}, keeps |-> FALSE]
strcliselect02   == [lines |-> FALSE, half |-> TRUE,  first |-> {"socket"}, keeps |-> FALSE]
str_cli_select02 == [lines |-> TRUE,  half |-> TRUE,  first |-> {"socket"}, keeps |-> FALSE]
str_cli_poll03   == [lines |-> FALSE, half |-> TRUE,  first |-> {"socket", "stdin"}, keeps |-> TRUE]
str_cli_kqueue04 == [lines |-> FALSE, half |-> TRUE,  first |-> {"socket", "stdin"}, keeps |-> FALSE]
loop             == [lines |-> FALSE, half |-> FALSE, first |-> {"stdin"},  keeps |-> FALSE]
loop_halfclose   == [lines |-> FALSE, half |-> TRUE,  first |-> {"stdin"},  keeps |-> FALSE]

Loops ==
  [strcliselect01 |-> strcliselect01, strcliselect02 |-> strcliselect02, str_cli_select02 |-> str_cli_select02,
   str_cli_poll03 |-> str_cli_poll03, str_cli_kqueue04 |-> str_cli_kqueue04,
   loop |-> loop, loop_halfclose |-> loop_halfclose]

ASSUME ConstantsAssumption ==
  /\ Lines \in Nat /\ Cap \in Nat \ {0} /\ MAXLINE \in Nat \ {0}
  /\ Clients \subseteq LockStep \cup TwoAgents \cup DOMAIN Loops \cup {"strclinonb"}
  /\ Servers \subseteq {"str_echo", "str_echo_stdio02"}

VARIABLES
  client, server,
  isfile,                   \* standard input is a regular file
  typed, eof, terminal,     \* the user: what is typed, and whether output is held up
  got, line, sent,          \* read from stdin, taken as lines, written to the socket
  stdineof, fin,            \* stdineof, and FIN sent
  sread, echoed,            \* read and written by the server
  recvd, read, out,         \* read from the socket, taken as lines, written to stdout
  pc, pc2, spc,             \* places of the client's agents and of the server
  rset, wset,               \* what select() returned
  toiptr, tooptr, friptr, froptr,   \* strclinonb: its pointers
  done,                     \* strclithread2
  lost, ended               \* the server was killed; how the client ended

fixed    == <<client, server, isfile>>
user     == <<typed, eof, terminal>>
input    == <<got, line, stdineof>>
output   == <<recvd, read, out>>
serving  == <<sread, echoed>>
pointers == <<toiptr, tooptr, friptr, froptr>>
sets     == <<rset, wset>>
vars == <<fixed, user, input, sent, fin, serving, output, pc, pc2, spc, sets, pointers, done, lost, ended>>

Running == ended = "no"
Least(a, b) == IF a < b THEN a ELSE b

\* The kernel: what is readable, and how much a write() may take.
ServerGone  == spc \in {"closed", "reset"}
StdinReady  == got < typed \/ (eof /\ ~ (client = "str_cli_kqueue04" /\ isfile))
SocketReady == recvd < echoed \/ ServerGone
ToServer    == Cap - (sent - sread)
ToClient    == Cap - (echoed - recvd)

Start ==
  CASE client \in DOMAIN Loops \cup {"strclinonb"} -> "select"
    [] OTHER -> "fgets"

Init ==
  /\ client \in Clients /\ server \in Servers
  /\ isfile \in {FALSE, client = "str_cli_kqueue04"}
  /\ eof = isfile /\ typed \in (IF isfile THEN 0 .. Lines ELSE {0})
  /\ terminal = "fresh"
  /\ got = 0 /\ line = 0 /\ sent = 0 /\ stdineof = FALSE /\ fin = FALSE
  /\ sread = 0 /\ echoed = 0
  /\ recvd = 0 /\ read = 0 /\ out = 0
  /\ pc = Start /\ pc2 = (IF client \in TwoAgents THEN "readline" ELSE "none") /\ spc = "read"
  /\ rset = {} /\ wset = {}
  /\ toiptr = 0 /\ tooptr = 0 /\ friptr = 0 /\ froptr = 0
  /\ done = FALSE /\ lost = FALSE /\ ended = "no"

------------------------------- (* The user *) --------------------------------
Type ==
  /\ Running /\ ~ eof /\ ~ isfile
  /\ \E n \in typed .. Lines : typed' = n
  /\ eof' \in BOOLEAN
  /\ UNCHANGED <<fixed, terminal, input, sent, fin, serving, output, pc, pc2, spc, sets, pointers, done, lost, ended>>

\* Output may be held up once, by ^S say; only strclinonb would notice.
StopOutput ==
  /\ Running /\ client = "strclinonb" /\ terminal = "fresh"
  /\ terminal' = "stopped"
  /\ UNCHANGED <<fixed, typed, eof, input, sent, fin, serving, output, pc, pc2, spc, sets, pointers, done, lost, ended>>

ResumeOutput ==
  /\ Running /\ terminal = "stopped"
  /\ terminal' = "resumed"
  /\ UNCHANGED <<fixed, typed, eof, input, sent, fin, serving, output, pc, pc2, spc, sets, pointers, done, lost, ended>>

------------------------------ (* The server *) -------------------------------
serverVars == <<serving, spc>>

\* str_echo writes what it has read; the other one leaves it to stdio, which
\* writes when its buffer is full.
AfterRead(n) == IF server = "str_echo" \/ n - echoed >= MAXLINE THEN "write" ELSE "read"

ServerReads ==
  /\ spc = "read" /\ sread < sent
  /\ \E n \in 1 .. Least(sent - sread, MAXLINE) : sread' = sread + n
  /\ spc' = AfterRead(sread')
  /\ UNCHANGED <<echoed, lost>>

\* End of file: the child calls exit(), which writes what stdio still holds.
ServerSeesEof ==
  /\ spc = "read" /\ sread = sent /\ fin
  /\ spc' = IF echoed < sread THEN "close" ELSE "closed"
  /\ UNCHANGED <<serving, lost>>

ServerWrites ==
  /\ spc \in {"write", "close"} /\ ToClient > 0
  /\ echoed' = echoed + 1
  /\ spc' = CASE echoed' < sread -> spc
             [] spc = "write" -> "read"
             [] OTHER -> "closed"
  /\ UNCHANGED <<sread, lost>>

ServerDies ==
  /\ ~ ServerGone
  /\ spc' = IF sread < sent THEN "reset" ELSE "closed"
  /\ lost' = TRUE
  /\ UNCHANGED serving

ServerStep ==
  /\ Running
  /\ ServerReads \/ ServerSeesEof \/ ServerWrites
  /\ UNCHANGED <<fixed, user, input, sent, fin, output, pc, pc2, sets, pointers, done, ended>>

ServerIsKilled ==
  /\ Running
  /\ ServerDies
  /\ UNCHANGED <<fixed, user, input, sent, fin, output, pc, pc2, sets, pointers, done, ended>>

------------------- (* What the clients are put together of *) ----------------
\* Fgets() takes a line from its buffer, which it fills when it is empty.
Fgets ==
  /\ line' = line + 1
  /\ IF line < got
     THEN got' = got
     ELSE \E n \in 1 .. Least(typed - got, MAXLINE) : got' = got + n

\* read() of standard input.
ReadInput == \E n \in 1 .. Least(typed - got, MAXLINE) : got' = got + n /\ line' = got + n

MoreInput == line < typed
NoMoreInput == line = typed /\ eof

\* Readline() takes a line from its static buffer, which it fills when it is
\* empty; then the line is shown.
Readline ==
  /\ read' = read + 1 /\ out' = read'
  /\ IF read < recvd
     THEN recvd' = recvd
     ELSE \E n \in 1 .. Least(echoed - recvd, MAXLINE) : recvd' = recvd + n

ReadReply == \E n \in 1 .. Least(echoed - recvd, MAXLINE) : recvd' = recvd + n /\ read' = recvd' /\ out' = recvd'

MoreReplies == read < echoed
NoMoreReplies == read = echoed /\ spc = "closed"
ReadFails == read = recvd /\ spc = "reset"

\* A blocking write() to the socket, line by line.  The first one after the
\* server has gone is answered with a reset, the next one ends the program.
Writen ==
  /\ sent < line /\ spc # "reset"
  /\ ServerGone \/ ToServer > 0
  /\ sent' = sent + 1
  /\ spc' = IF ServerGone THEN "reset" ELSE spc

EndAs(how) == ended' = how

----------------------- (* str_cli and the client of Lab 3 *) -----------------
LockStepReadsLine ==
  /\ pc = "fgets" /\ MoreInput
  /\ Fgets /\ pc' = "write"
  /\ UNCHANGED <<fin, stdineof, sent, spc, output, ended>>

\* At end of file str_cli returns; the client of Lab 3 reads on, and so do its
\* next turns.
LockStepEof ==
  /\ pc = "fgets" /\ NoMoreInput
  /\ IF client = "str_cli"
     THEN EndAs("normal") /\ UNCHANGED pc
     ELSE pc' = "readline" /\ UNCHANGED ended
  /\ UNCHANGED <<input, fin, sent, spc, output>>

LockStepWrites ==
  /\ pc = "write" /\ Writen
  /\ pc' = IF sent' = line THEN "readline" ELSE "write"
  /\ UNCHANGED <<input, fin, output, ended>>

LockStepShows ==
  /\ pc = "readline" /\ MoreReplies
  /\ Readline /\ pc' = "fgets"
  /\ UNCHANGED <<input, fin, sent, spc, ended>>

LockStepNoReply ==
  /\ pc = "readline" /\ NoMoreReplies
  /\ IF client = "str_cli"
     THEN EndAs("premature") /\ UNCHANGED pc
     ELSE pc' = "fgets" /\ UNCHANGED ended
  /\ UNCHANGED <<input, fin, sent, spc, output>>

WriteKills ==
  /\ pc = "write" /\ sent < line /\ spc = "reset"
  /\ EndAs("error")
  /\ UNCHANGED <<input, fin, sent, spc, output, pc>>

LockStepReadFails ==
  /\ pc = "readline" /\ ReadFails
  /\ EndAs("error")
  /\ UNCHANGED <<input, fin, sent, spc, output, pc>>

LockStepStep ==
  /\ Running /\ client \in LockStep
  /\ \/ LockStepReadsLine \/ LockStepEof \/ LockStepWrites \/ LockStepShows
     \/ LockStepNoReply \/ WriteKills \/ LockStepReadFails
  /\ UNCHANGED <<fixed, user, serving, pc2, sets, pointers, done, lost>>

------------------- (* The clients around select(), poll, kqueue *) -----------
Program == Loops[client]

WaitsForStdin == ~ stdineof \/ Program.keeps

Select ==
  /\ pc = "select"
  /\ rset' = {d \in {"stdin", "socket"} :
               \/ d = "stdin" /\ WaitsForStdin /\ StdinReady
               \/ d = "socket" /\ SocketReady}
  /\ rset' # {}
  /\ pc' = "scan"
  /\ UNCHANGED <<input, fin, sent, spc, output, ended>>

\* Descriptor d is looked at next.
Turn(d) ==
  /\ pc = "scan" /\ d \in rset
  /\ d \in Program.first \/ rset = {d}

\* The next descriptor, or select() again.
Proceed(left) ==
  /\ rset' = left
  /\ pc' = IF left = {} THEN "select" ELSE "scan"

LoopShows ==
  /\ Turn("socket") /\ MoreReplies
  /\ IF Program.lines THEN Readline ELSE ReadReply
  /\ Proceed(rset \ {"socket"})
  /\ UNCHANGED <<input, fin, sent, spc, ended>>

\* loop() of sock ends without asking why.
EofOfSocket == IF stdineof \/ client \in {"loop", "loop_halfclose"} THEN "normal" ELSE "premature"

LoopSeesEof ==
  /\ Turn("socket") /\ NoMoreReplies
  /\ EndAs(EofOfSocket)
  /\ UNCHANGED <<input, fin, sent, spc, output, pc, rset>>

LoopReadFails ==
  /\ Turn("socket") /\ ReadFails
  /\ EndAs("error")
  /\ UNCHANGED <<input, fin, sent, spc, output, pc, rset>>

LoopReadsLine ==
  /\ Turn("stdin") /\ MoreInput
  /\ IF Program.lines THEN Fgets ELSE ReadInput
  /\ pc' = "write" /\ rset' = rset \ {"stdin"}
  /\ UNCHANGED <<fin, stdineof, sent, spc, output, ended>>

\* After the end of the input: `continue' skips what select() still said, but
\* in the clients that look through a list of events.
AfterEof == IF Cardinality(Program.first) = 2 THEN rset \ {"stdin"} ELSE {}

\* Shutdown(), or the end of the clients that do not half-close.
LoopEof ==
  /\ Turn("stdin") /\ NoMoreInput
  /\ IF Program.half
     THEN /\ stdineof' = TRUE /\ fin' = TRUE
          /\ Proceed(AfterEof)
          /\ UNCHANGED ended
     ELSE EndAs("normal") /\ UNCHANGED <<stdineof, fin, rset, pc>>
  /\ UNCHANGED <<got, line, sent, spc, output>>

\* The kqueue client knows the size of a regular file, whose end is no event.
KnowsTheEnd == client = "str_cli_kqueue04" /\ isfile /\ got = typed

LoopWrites ==
  /\ pc = "write" /\ Writen
  /\ IF sent' < line
     THEN UNCHANGED <<pc, rset, fin, stdineof>>
     ELSE /\ Proceed(rset)
          /\ fin' = (fin \/ KnowsTheEnd) /\ stdineof' = (stdineof \/ KnowsTheEnd)
  /\ UNCHANGED <<got, line, output, ended>>

LoopStep ==
  /\ Running /\ client \in DOMAIN Loops
  /\ \/ Select \/ LoopShows \/ LoopSeesEof \/ LoopReadFails \/ LoopReadsLine \/ LoopEof \/ LoopWrites
     \/ WriteKills /\ UNCHANGED rset
  /\ UNCHANGED <<fixed, user, serving, pc2, wset, pointers, done, lost>>

------------- (* The clients with an agent for each direction *) --------------
\* Standard input to the socket: the parent, or the thread copyto().
CopyReadsLine ==
  /\ pc = "fgets" /\ MoreInput
  /\ Fgets /\ pc' = "write"
  /\ UNCHANGED <<fin, stdineof, sent, spc, done, ended>>

CopyWrites ==
  /\ pc = "write" /\ Writen
  /\ pc' = IF sent' = line THEN "fgets" ELSE "write"
  /\ UNCHANGED <<input, fin, done, ended>>

CopyShutsDown ==
  /\ pc = "fgets" /\ NoMoreInput
  /\ stdineof' = TRUE /\ fin' = TRUE
  /\ pc' = "shut"
  /\ UNCHANGED <<got, line, sent, spc, done, ended>>

\* Only strclithread2 remembers that it has.
CopySetsDone ==
  /\ pc = "shut" /\ client = "strclithread2"
  /\ done' = TRUE /\ pc' = "none"
  /\ UNCHANGED <<input, fin, sent, spc, ended>>

CopyKilled ==
  /\ pc = "write" /\ sent < line /\ spc = "reset"
  /\ EndAs("error")
  /\ UNCHANGED <<input, fin, sent, spc, pc, done>>

CopyStep ==
  /\ Running /\ client \in TwoAgents
  /\ CopyReadsLine \/ CopyWrites \/ CopyShutsDown \/ CopySetsDone \/ CopyKilled
  /\ UNCHANGED <<fixed, user, serving, output, pc2, sets, pointers, lost>>

\* The socket to standard output: the child, or the main thread.
ShowReply ==
  /\ pc2 = "readline" /\ MoreReplies
  /\ Readline
  /\ UNCHANGED <<pc2, ended>>

\* The child of strclifork ends its parent, which is in pause() if all is well;
\* strclithread returns to main(), which ends both threads.
EofOfReplies ==
  CASE client = "strclifork"    -> (IF fin THEN "normal" ELSE "error")
    [] client = "strclithread"  -> "normal"
    [] client = "strclithread2" -> (IF done THEN "normal" ELSE "premature")

ShowEof ==
  /\ pc2 = "readline" /\ NoMoreReplies
  /\ EndAs(EofOfReplies)
  /\ UNCHANGED <<output, pc2>>

\* err_sys() ends both threads, but only the child of strclifork.
ShowFails ==
  /\ pc2 = "readline" /\ ReadFails
  /\ IF client = "strclifork"
     THEN pc2' = "none" /\ UNCHANGED ended
     ELSE EndAs("error") /\ UNCHANGED pc2
  /\ UNCHANGED output

ShowStep ==
  /\ Running
  /\ ShowReply \/ ShowEof \/ ShowFails
  /\ UNCHANGED <<fixed, user, input, sent, fin, serving, pc, spc, sets, pointers, done, lost>>

---------------------------- (* strclinonb *) ---------------------------------
\* A faulty form without the tests for room.
WantedAlways ==
  [read  |-> IF stdineof THEN {"socket"} ELSE {"stdin", "socket"},
   write |-> {d \in {"socket", "stdout"} : IF d = "socket" THEN tooptr # toiptr ELSE froptr # friptr}]

\* The descriptors to wait for: to read, if there is room; to write, if there
\* is something to be written.
Wanted ==
  [read  |-> {d \in {"stdin", "socket"} :
                \/ d = "stdin" /\ ~ stdineof /\ toiptr < MAXLINE
                \/ d = "socket" /\ friptr < MAXLINE},
   write |-> {d \in {"socket", "stdout"} :
                \/ d = "socket" /\ tooptr # toiptr
                \/ d = "stdout" /\ froptr # friptr}]

NonbSelect ==
  /\ pc = "select"
  /\ rset' = {d \in Wanted.read : IF d = "stdin" THEN StdinReady ELSE SocketReady}
  /\ wset' = {d \in Wanted.write : IF d = "stdout" THEN terminal # "stopped" ELSE ServerGone \/ ToServer > 0}
  /\ rset' \cup wset' # {}
  /\ pc' = "stdin"
  /\ UNCHANGED <<input, fin, sent, spc, output, pointers, ended>>

\* Room behind toiptr and friptr; a faulty form has the size of the buffer.
RoomOfAll == MAXLINE

RoomTo == MAXLINE - toiptr

RoomFr == MAXLINE - friptr

NonbReads ==
  /\ pc = "stdin" /\ "stdin" \in rset
  /\ MoreInput /\ RoomTo > 0
  /\ \E n \in 1 .. Least(typed - got, RoomTo) :
       got' = got + n /\ line' = got + n /\ toiptr' = toiptr + n
  /\ wset' = wset \cup {"socket"}
  /\ pc' = "socket"
  /\ UNCHANGED <<stdineof, fin, sent, spc, output, rset, tooptr, friptr, froptr, ended>>

\* read() returns 0: the end, which a full buffer would look like, too.  FIN
\* is sent at once if there is nothing left to write.
NonbSeesEof ==
  /\ pc = "stdin" /\ "stdin" \in rset
  /\ NoMoreInput \/ RoomTo = 0
  /\ stdineof' = TRUE /\ fin' = (tooptr = toiptr)
  /\ pc' = "socket"
  /\ UNCHANGED <<got, line, sent, spc, output, sets, pointers, ended>>

NonbReceives ==
  /\ pc = "socket" /\ "socket" \in rset
  /\ MoreReplies /\ RoomFr > 0
  /\ \E n \in 1 .. Least(echoed - recvd, RoomFr) :
       recvd' = recvd + n /\ read' = read + n /\ friptr' = friptr + n
  /\ wset' = wset \cup {"stdout"}
  /\ pc' = "stdout"
  /\ UNCHANGED <<input, fin, sent, spc, out, rset, toiptr, tooptr, froptr, ended>>

NonbEofOfSocket ==
  /\ pc = "socket" /\ "socket" \in rset
  /\ NoMoreReplies \/ (MoreReplies /\ RoomFr = 0)
  /\ EndAs(IF stdineof THEN "normal" ELSE "premature")
  /\ UNCHANGED <<input, fin, sent, spc, output, pc, sets, pointers>>

NonbReadFails ==
  /\ pc = "socket" /\ "socket" \in rset /\ ReadFails
  /\ EndAs("error")
  /\ UNCHANGED <<input, fin, sent, spc, output, pc, sets, pointers>>

\* A faulty form that does not count what write() took.
WrittenUncounted(from, to, n) == [from |-> from, to |-> to]

\* What is written of a buffer; an empty buffer begins at its beginning again.
Written(from, to, n) == IF from + n = to THEN [from |-> 0, to |-> 0] ELSE [from |-> from + n, to |-> to]

NonbShows ==
  /\ pc = "stdout" /\ "stdout" \in wset /\ froptr < friptr
  /\ terminal # "stopped"
  /\ \E n \in 1 .. friptr - froptr :
       /\ out' = out + n
       /\ froptr' = Written(froptr, friptr, n).from /\ friptr' = Written(froptr, friptr, n).to
  /\ pc' = "write"
  /\ UNCHANGED <<input, fin, sent, spc, recvd, read, sets, toiptr, tooptr, ended>>

\* FIN follows the last byte; a faulty form sends it only at end of file.
FinAtEof(n) == fin

FinAfter(n) == fin \/ (tooptr + n = toiptr /\ stdineof)

NonbWrites ==
  /\ pc = "write" /\ "socket" \in wset /\ tooptr < toiptr
  /\ spc # "reset"
  /\ \E n \in 1 .. (IF ServerGone THEN toiptr - tooptr ELSE Least(toiptr - tooptr, ToServer)) :
       /\ sent' = sent + n
       /\ tooptr' = Written(tooptr, toiptr, n).from /\ toiptr' = Written(tooptr, toiptr, n).to
       /\ fin' = FinAfter(n)
  /\ spc' = IF ServerGone THEN "reset" ELSE spc
  /\ pc' = "select"
  /\ UNCHANGED <<input, output, sets, friptr, froptr, ended>>

NonbKilled ==
  /\ pc = "write" /\ "socket" \in wset /\ tooptr < toiptr /\ spc = "reset"
  /\ EndAs("error")
  /\ UNCHANGED <<input, fin, sent, spc, output, pc, sets, pointers>>

\* Not in the set, nothing to do, or EWOULDBLOCK.
NonbSkips ==
  /\ \/ pc = "stdin"  /\ "stdin" \notin rset /\ pc' = "socket"
     \/ pc = "socket" /\ "socket" \notin rset /\ pc' = "stdout"
     \/ /\ pc = "stdout" /\ pc' = "write"
        /\ "stdout" \notin wset \/ froptr = friptr \/ terminal = "stopped"
     \/ /\ pc = "write" /\ pc' = "select"
        /\ "socket" \notin wset \/ tooptr = toiptr \/ (~ ServerGone /\ ToServer = 0)
  /\ UNCHANGED <<input, fin, sent, spc, output, sets, pointers, ended>>

NonbStep ==
  /\ Running /\ client = "strclinonb"
  /\ \/ NonbSelect \/ NonbReads \/ NonbSeesEof \/ NonbReceives \/ NonbEofOfSocket \/ NonbReadFails
     \/ NonbShows \/ NonbWrites \/ NonbKilled \/ NonbSkips
  /\ UNCHANGED <<fixed, user, serving, pc2, done, lost>>

-----------------------------------------------------------------------------
ClientStep == LockStepStep \/ LoopStep \/ CopyStep \/ NonbStep

Next == Type \/ StopOutput \/ ResumeOutput \/ ServerStep \/ ServerIsKilled \/ ClientStep \/ ShowStep

Spec == Init /\ [][Next]_vars

\* The scheduler runs every process and thread that can go on, and a user who
\* holds up output resumes it.  Nobody has to type.
FairSpec ==
  /\ Spec
  /\ WF_vars(ClientStep) /\ WF_vars(ShowStep) /\ WF_vars(ServerStep) /\ WF_vars(ResumeOutput)

-----------------------------------------------------------------------------
TypeOK ==
  /\ client \in Clients /\ server \in Servers /\ isfile \in BOOLEAN
  /\ typed \in 0 .. Lines /\ eof \in BOOLEAN /\ terminal \in {"fresh", "stopped", "resumed"}
  /\ got \in 0 .. Lines /\ line \in 0 .. Lines /\ sent \in 0 .. Lines /\ sread \in 0 .. Lines
  /\ echoed \in 0 .. Lines /\ recvd \in 0 .. Lines /\ read \in 0 .. Lines /\ out \in 0 .. Lines
  /\ stdineof \in BOOLEAN /\ fin \in BOOLEAN
  /\ pc \in {"fgets", "write", "readline", "select", "scan", "shut", "none", "stdin", "socket", "stdout"}
  /\ pc2 \in {"readline", "none"} /\ spc \in {"read", "write", "close", "closed", "reset"}
  /\ rset \subseteq {"stdin", "socket"} /\ wset \subseteq {"socket", "stdout"}
  /\ toiptr \in 0 .. MAXLINE /\ tooptr \in 0 .. MAXLINE
  /\ friptr \in 0 .. MAXLINE /\ froptr \in 0 .. MAXLINE
  /\ done \in BOOLEAN /\ lost \in BOOLEAN /\ ended \in {"no", "normal", "premature", "error"}

\* Safety: no stage runs ahead of the one before it, nothing is in two places,
\* and the pointers of strclinonb say what its buffers hold.
StagesAgree ==
  /\ out <= read /\ read <= recvd /\ recvd <= echoed /\ echoed <= sread
  /\ sread <= sent /\ sent <= line /\ line <= got /\ got <= typed
  /\ echoed - recvd <= Cap
  /\ fin => sent = got /\ got = typed
  /\ IF client = "strclinonb"
     THEN /\ tooptr <= toiptr /\ toiptr - tooptr = line - sent
          /\ froptr <= friptr /\ friptr - froptr = recvd - out
     ELSE read = out

manner ==
  CASE client \in {"strcliselect01", "loop"} -> "hasty"
    [] client = "strclinonb"    -> "partly"
    [] client = "strclithread2" -> "mistaken"
    [] OTHER -> "whole"

Session == INSTANCE EchoSession WITH shown <- out

\* Refinement: every client keeps its manner of the promise of EchoSession.
ImplementsSession == Session!Spec

\* What may keep a client from showing everything or from ending.
HeldByServer == server = "str_echo_stdio02" /\ ~ fin
HeldByStdio  == ~ eof /\ client \in DOMAIN Loops /\ (line < got \/ read < recvd)
BothWrite    == pc = "write" /\ spc = "write" /\ ToServer = 0 /\ ToClient = 0 /\ client \in DOMAIN Loops
EmptyFile    == isfile /\ typed = 0

\* Liveness: again and again all that was typed is shown, and a program whose
\* input has ended ends (but the one of Lab 3, which has no end), unless the
\* server was killed or one of the four above is the case.
AllIsShown ==
  []<> \/ ~ Running \/ lost
       \/ out = typed /\ (eof => client = "tcp_client")
       \/ HeldByServer \/ HeldByStdio \/ BothWrite \/ EmptyFile
===============================================================================
