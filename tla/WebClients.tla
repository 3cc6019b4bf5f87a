----------------------------- MODULE WebClients -----------------------------
(***************************************************************************)
(* The web clients that fetch several files at a time, with the same four  *)
(* counters in main():                                                     *)
(*   web01  Lab2017/threads/web01.c: joins any thread that has ended       *)
(*   web02  web02.c: threads count themselves in ndone under ndone_mutex,  *)
(*          main() polls ndone                                             *)
(*   web03  web03.c: the same, but main() waits on a condition variable    *)
(*   web    Lab2017/nonblock/web.c: no threads, nonblocking connections    *)
(*          and select()                                                   *)
(* A thread reads its file, sets F_DONE, and then counts itself; main()    *)
(* joins, with the mutex held, every thread whose F_DONE it sees.          *)
(*                                                                         *)
(* f_flags is shared without a lock; the model lets each read of it see    *)
(* the last write.  Left out: home_page(), which runs before anything      *)
(* else, and what is printed.                                              *)
(***************************************************************************)
EXTENDS Integers, FiniteSets

CONSTANTS
  Programs,   \* the programs to look at
  nfiles,     \* files to fetch
  maxnconn    \* connections open at a time

ASSUME ConstantsAssumption ==
  /\ Programs \subseteq {"web01", "web02", "web03", "web"}
  /\ nfiles \in Nat \ {0}
  /\ maxnconn \in Nat

Files == 0 .. (nfiles - 1)

\* Who holds ndone_mutex: a thread, main(), or nobody.
Main   == nfiles
Nobody == -1

VARIABLES
  program,
  pc, i, nconn, nlefttoconn, nlefttoread,   \* main() and its counters
  f_flags,      \* the state of each file
  tpc,          \* where each file's thread, or its connection, is
  ndone, ndone_mutex,
  ready         \* the files whose descriptors select() has returned

shared == <<f_flags, ndone, ndone_mutex>>
counts == <<nconn, nlefttoconn, nlefttoread>>
fixed  == <<program, ready>>
vars   == <<pc, i, counts, tpc, shared, fixed>>

Init ==
  /\ program \in Programs
  /\ pc = "spawn" /\ i = 0
  /\ nconn = 0 /\ nlefttoconn = nfiles /\ nlefttoread = nfiles
  /\ f_flags = [f \in Files |-> "none"]
  /\ tpc = [f \in Files |-> "none"]
  /\ ndone = 0 /\ ndone_mutex = Nobody
  /\ ready = {}

Running == pc \notin {"exit", "quit"}
Threads == program # "web"

\* ndone counts the threads of these programs.
Counting == program \in {"web02", "web03"}

-----------------------------------------------------------------------------
(* main(): a connection for each file                                       *)

\* Mutant: <= for <.
MayConnectOneMore == nconn <= maxnconn /\ nlefttoconn > 0

MayConnect == nconn < maxnconn /\ nlefttoconn > 0

\* The first file nobody has begun.
Found(f) ==
  /\ pc = "spawn" /\ MayConnect
  /\ f_flags[f] = "none"
  /\ \A g \in 0 .. (f - 1) : f_flags[g] # "none"

CountConnection ==
  /\ nconn' = nconn + 1
  /\ nlefttoconn' = nlefttoconn - 1
  /\ UNCHANGED <<nlefttoread, ndone, ndone_mutex, fixed>>

\* F_CONNECTING and Pthread_create.
Spawn(f) ==
  /\ program \in {"web01", "web03"} /\ Found(f)
  /\ f_flags' = [f_flags EXCEPT ![f] = "connecting"]
  /\ tpc' = [tpc EXCEPT ![f] = "connect"]
  /\ i' = f /\ UNCHANGED pc
  /\ CountConnection

\* web02 sets F_CONNECTING when the thread already runs.
Create(f) ==
  /\ program = "web02" /\ Found(f)
  /\ tpc' = [tpc EXCEPT ![f] = "connect"]
  /\ i' = f /\ pc' = "flag"
  /\ UNCHANGED <<counts, shared, fixed>>

FlagCreated ==
  /\ pc = "flag"
  /\ f_flags' = [f_flags EXCEPT ![i] = "connecting"]
  /\ pc' = "spawn" /\ UNCHANGED <<i, tpc>>
  /\ CountConnection

\* The request is written; F_READING.
write_get_cmd(f) ==
  /\ f_flags' = [f_flags EXCEPT ![f] = "reading"]
  /\ tpc' = [tpc EXCEPT ![f] = "read"]

\* start_connect: a connect() that is done at once is followed by the request.
StartConnect(f) ==
  /\ program = "web" /\ Found(f)
  /\ \/ /\ f_flags' = [f_flags EXCEPT ![f] = "connecting"]
        /\ tpc' = [tpc EXCEPT ![f] = "connect"]
     \/ write_get_cmd(f)
  /\ i' = f /\ UNCHANGED pc
  /\ CountConnection

SpawnDone ==
  /\ pc = "spawn" /\ ~ MayConnect
  /\ pc' = CASE program = "web" -> "select" [] program = "web01" -> "join" [] OTHER -> "lock"
  /\ UNCHANGED <<i, counts, tpc, shared, fixed>>

-----------------------------------------------------------------------------
(* main(): waiting for threads and joining them                             *)

\* The outer loop: while (nlefttoread > 0).
Loop(left) == IF left > 0 THEN "spawn" ELSE "exit"

\* thr_join(0, ...) of web01 returns any thread that has ended.
JoinAny(f) ==
  /\ pc = "join" /\ tpc[f] = "exited"
  /\ tpc' = [tpc EXCEPT ![f] = "over"]
  /\ nconn' = nconn - 1
  /\ nlefttoread' = nlefttoread - 1
  /\ pc' = Loop(nlefttoread - 1)
  /\ UNCHANGED <<i, nlefttoconn, shared, fixed>>

\* Pthread_mutex_lock, or the end of Pthread_cond_wait.
Lock ==
  /\ pc \in {"lock", "woken"}
  /\ ndone_mutex = Nobody
  /\ ndone_mutex' = Main
  /\ pc' = "test"
  /\ UNCHANGED <<i, counts, tpc, f_flags, ndone, fixed>>

\* Mutant: Pthread_cond_wait without looking at ndone first.
WaitAlways ==
  /\ program = "web03" /\ pc = "test"
  /\ pc' = "wait"
  /\ ndone_mutex' = Nobody
  /\ UNCHANGED <<i, counts, tpc, f_flags, ndone, fixed>>

\* while (ndone == 0) Pthread_cond_wait
Wait ==
  /\ program = "web03" /\ pc = "test" /\ ndone = 0
  /\ pc' = "wait"
  /\ ndone_mutex' = Nobody
  /\ UNCHANGED <<i, counts, tpc, f_flags, ndone, fixed>>

\* POSIX lets a wait end without a signal.
WakeForNothing ==
  /\ pc = "wait"
  /\ pc' = "woken"
  /\ UNCHANGED <<i, counts, tpc, shared, fixed>>

\* web02 goes round once more.
Poll ==
  /\ program = "web02" /\ pc = "test" /\ ndone = 0
  /\ pc' = "spawn"
  /\ ndone_mutex' = Nobody
  /\ UNCHANGED <<i, counts, tpc, f_flags, ndone, fixed>>

BeginScan ==
  /\ pc = "test" /\ ndone # 0
  /\ pc' = "scan" /\ i' = 0
  /\ UNCHANGED <<counts, tpc, shared, fixed>>

Skip ==
  /\ Threads /\ pc = "scan" /\ i \in Files
  /\ f_flags[i] # "done"
  /\ i' = i + 1
  /\ UNCHANGED <<pc, counts, tpc, shared, fixed>>

\* Mutant: nconn-- is missing.
JoinKeepsConn ==
  /\ Threads /\ pc = "scan" /\ i \in Files
  /\ f_flags[i] = "done" /\ tpc[i] = "exited"
  /\ f_flags' = [f_flags EXCEPT ![i] = "joined"]
  /\ tpc' = [tpc EXCEPT ![i] = "over"]
  /\ ndone' = ndone - 1
  /\ nlefttoread' = nlefttoread - 1
  /\ i' = i + 1
  /\ UNCHANGED <<pc, nconn, nlefttoconn, ndone_mutex, fixed>>

\* Pthread_join returns once the thread has ended.
Join ==
  /\ Threads /\ pc = "scan" /\ i \in Files
  /\ f_flags[i] = "done" /\ tpc[i] = "exited"
  /\ f_flags' = [f_flags EXCEPT ![i] = "joined"]
  /\ tpc' = [tpc EXCEPT ![i] = "over"]
  /\ ndone' = ndone - 1
  /\ nconn' = nconn - 1
  /\ nlefttoread' = nlefttoread - 1
  /\ i' = i + 1
  /\ UNCHANGED <<pc, nlefttoconn, ndone_mutex, fixed>>

\* Pthread_mutex_unlock.
Unlock ==
  /\ Threads /\ pc = "scan" /\ i \notin Files
  /\ ndone_mutex' = Nobody
  /\ pc' = Loop(nlefttoread)
  /\ UNCHANGED <<i, counts, tpc, f_flags, ndone, fixed>>

-----------------------------------------------------------------------------
(* do_get_read: the thread of file f.                                       *)

\* Tcp_connect and write_get_cmd.
Connect(f) ==
  /\ Running /\ Threads /\ tpc[f] = "connect"
  /\ write_get_cmd(f)
  /\ UNCHANGED <<pc, i, counts, ndone, ndone_mutex, fixed>>

\* The server has closed: F_DONE, not yet counted.
EndOfFile(f) ==
  /\ Running /\ Threads /\ tpc[f] = "read"
  /\ tpc' = [tpc EXCEPT ![f] = IF Counting THEN "lock" ELSE "exited"]
  /\ f_flags' = [f_flags EXCEPT ![f] = "done"]
  /\ UNCHANGED <<pc, i, counts, ndone, ndone_mutex, fixed>>

ThreadLocks(f) ==
  /\ Running /\ tpc[f] = "lock"
  /\ ndone_mutex = Nobody
  /\ ndone_mutex' = f
  /\ tpc' = [tpc EXCEPT ![f] = "count"]
  /\ UNCHANGED <<pc, i, counts, f_flags, ndone, fixed>>

\* ndone++ and, in web03, Pthread_cond_signal: main() wakes if it waits.
Count(f) ==
  /\ Running /\ tpc[f] = "count"
  /\ ndone' = ndone + 1
  /\ pc' = IF pc = "wait" THEN "woken" ELSE pc
  /\ tpc' = [tpc EXCEPT ![f] = "unlock"]
  /\ UNCHANGED <<i, counts, f_flags, ndone_mutex, fixed>>

\* Pthread_mutex_unlock, and the thread ends.
ThreadUnlocks(f) ==
  /\ Running /\ tpc[f] = "unlock"
  /\ ndone_mutex' = Nobody
  /\ tpc' = [tpc EXCEPT ![f] = "exited"]
  /\ UNCHANGED <<pc, i, counts, f_flags, ndone, fixed>>

ThreadStep(f) ==
  Connect(f) \/ EndOfFile(f) \/ ThreadLocks(f) \/ Count(f) \/ ThreadUnlocks(f)

-----------------------------------------------------------------------------
(* nonblock/web.c: main() and the connections.                              *)

\* The handshake ends, the server refuses, the reply comes in pieces.
Established(f) ==
  /\ Running /\ ~ Threads /\ tpc[f] = "connect"
  /\ tpc' = [tpc EXCEPT ![f] = "connected"]
  /\ UNCHANGED <<pc, i, counts, shared, fixed>>

Refused(f) ==
  /\ Running /\ ~ Threads /\ tpc[f] = "connect"
  /\ tpc' = [tpc EXCEPT ![f] = "refused"]
  /\ UNCHANGED <<pc, i, counts, shared, fixed>>

Piece(f) ==
  /\ Running /\ ~ Threads /\ tpc[f] = "read"
  /\ tpc' = [tpc EXCEPT ![f] = "data"]
  /\ UNCHANGED <<pc, i, counts, shared, fixed>>

Fin(f) ==
  /\ Running /\ ~ Threads /\ tpc[f] = "read"
  /\ tpc' = [tpc EXCEPT ![f] = "eof"]
  /\ UNCHANGED <<pc, i, counts, shared, fixed>>

Ready(f) ==
  \/ f_flags[f] = "connecting" /\ tpc[f] \in {"connected", "refused"}
  \/ f_flags[f] = "reading" /\ tpc[f] \in {"data", "eof"}

Select ==
  /\ pc = "select"
  /\ ready' = {f \in Files : Ready(f)} /\ ready' # {}
  /\ pc' = "scan" /\ i' = 0
  /\ UNCHANGED <<program, counts, tpc, shared>>

NotReady ==
  /\ ~ Threads /\ pc = "scan" /\ i \in Files \ ready
  /\ i' = i + 1
  /\ UNCHANGED <<pc, counts, tpc, shared, fixed>>

\* SO_ERROR is 0, and write_get_cmd.
WriteGet ==
  /\ ~ Threads /\ pc = "scan" /\ i \in ready /\ tpc[i] = "connected"
  /\ write_get_cmd(i)
  /\ i' = i + 1
  /\ UNCHANGED <<pc, counts, ndone, ndone_mutex, fixed>>

\* SO_ERROR is not 0; the request is written all the same, to a socket that is
\* not connected, and SIGPIPE ends the program.
WriteToNobody ==
  /\ ~ Threads /\ pc = "scan" /\ i \in ready /\ tpc[i] = "refused"
  /\ pc' = "quit"
  /\ UNCHANGED <<i, counts, tpc, shared, fixed>>

ReadPiece ==
  /\ ~ Threads /\ pc = "scan" /\ i \in ready /\ tpc[i] = "data"
  /\ tpc' = [tpc EXCEPT ![i] = "read"]
  /\ i' = i + 1
  /\ UNCHANGED <<pc, counts, shared, fixed>>

ReadEnd ==
  /\ ~ Threads /\ pc = "scan" /\ i \in ready /\ tpc[i] = "eof"
  /\ f_flags' = [f_flags EXCEPT ![i] = "done"]
  /\ tpc' = [tpc EXCEPT ![i] = "over"]
  /\ nconn' = nconn - 1
  /\ nlefttoread' = nlefttoread - 1
  /\ i' = i + 1
  /\ UNCHANGED <<pc, nlefttoconn, ndone, ndone_mutex, fixed>>

ScanDone ==
  /\ ~ Threads /\ pc = "scan" /\ i \notin Files
  /\ pc' = Loop(nlefttoread)
  /\ ready' = {}
  /\ UNCHANGED <<program, i, counts, tpc, shared>>

-----------------------------------------------------------------------------

\* A wrapper ends the whole program: a thread or a connection cannot be made, a
\* read or a write fails, or web01 has no thread to join.
Fail ==
  /\ \/ pc = "spawn" /\ MayConnect
     \/ pc = "join" /\ \A f \in Files : tpc[f] \in {"none", "over"}
     \/ Running /\ Threads /\ \E f \in Files : tpc[f] \in {"connect", "read"}
     \/ ~ Threads /\ pc = "scan" /\ i \in ready
  /\ pc' = "quit"
  /\ UNCHANGED <<i, counts, tpc, shared, fixed>>

MainStep ==
  \/ \E f \in Files : Spawn(f) \/ Create(f) \/ StartConnect(f) \/ JoinAny(f)
  \/ FlagCreated \/ SpawnDone
  \/ Lock \/ Wait \/ Poll \/ BeginScan \/ Skip \/ Join \/ Unlock
  \/ Select \/ NotReady \/ WriteGet \/ WriteToNobody \/ ReadPiece \/ ReadEnd \/ ScanDone

Next ==
  \/ MainStep \/ WakeForNothing \/ Fail
  \/ \E f \in Files : ThreadStep(f)
  \/ \E f \in Files : Established(f) \/ Refused(f) \/ Piece(f) \/ Fin(f)

Spec == Init /\ [][Next]_vars

\* Every thread that can run does, a server answers and its reply ends, waits
\* do not end without a signal for ever, and with thr_yield() in web02 the mutex
\* main() polls with is in the end a thread's.
FairSpec ==
  /\ Spec
  /\ WF_vars(MainStep)
  /\ \A f \in Files :
       /\ WF_vars(ThreadStep(f))
       /\ WF_vars(Established(f) \/ Refused(f))
       /\ SF_vars(program = "web02" /\ ThreadLocks(f))
       /\ SF_vars(Fin(f))
  /\ <>[][~ WakeForNothing]_vars

-----------------------------------------------------------------------------
(* Properties.                                                              *)

TypeOK ==
  /\ program \in Programs
  /\ pc \in {"spawn", "flag", "join", "lock", "test", "wait", "woken", "select",
             "scan", "exit", "quit"}
  /\ i \in 0 .. nfiles
  /\ nconn \in 0 .. maxnconn
  /\ nlefttoconn \in 0 .. nfiles
  /\ nlefttoread \in 0 .. nfiles
  /\ f_flags \in [Files -> {"none", "connecting", "reading", "done", "joined"}]
  /\ tpc \in [Files -> {"none", "connect", "connected", "refused", "read", "data", "eof",
                        "lock", "count", "unlock", "exited", "over"}]
  /\ ndone \in 0 .. nfiles
  /\ ndone_mutex \in Files \cup {Main, Nobody}
  /\ ready \subseteq Files

At(S) == {f \in Files : tpc[f] \in S}

\* A thread web02 has made, but not yet counted.
Made == IF pc = "flag" THEN 1 ELSE 0

\* Safety: the counters that decide when to connect, to wait and to stop are
\* what they are called, in every program.  Two threads and main() change ndone,
\* and a thread is done before it is counted.
CountsAgree == pc # "quit" =>
  /\ nlefttoconn = Cardinality(At({"none"})) + Made
  /\ nlefttoread = nfiles - Cardinality(At({"over"}))
  /\ nconn = Cardinality(Files \ At({"none", "over"})) - Made
  /\ ndone = IF Counting THEN Cardinality(At({"unlock", "exited"})) ELSE 0

\* What WebFetch sees of a file and of the end of the program.
FileState ==
  [f \in Files |->
     IF tpc[f] = "none" THEN "new"
     ELSE IF tpc[f] \in {"lock", "count", "unlock", "exited", "over"} THEN "read"
     ELSE "open"]

Outcome == CASE pc = "exit" -> "done" [] pc = "quit" -> "failed" [] OTHER -> "no"

Fetch == INSTANCE WebFetch WITH Limit <- maxnconn, state <- FileState, over <- Outcome

\* Refinement: each program fetches every file once, keeps within the number of
\* connections, and exits when it has all files, however its threads or
\* connections interleave.
ImplementsFetch == Fetch!Spec

\* main() holds ndone_mutex and joins a thread that waits for it.
JoinsTooEarly ==
  /\ Threads /\ pc = "scan" /\ i \in Files
  /\ f_flags[i] = "done" /\ tpc[i] = "lock"

\* web02 has overwritten the F_DONE of a thread that was faster.
DoneIsLost ==
  /\ pc # "flag"
  /\ \E f \in Files : f_flags[f] = "connecting" /\ tpc[f] \in {"lock", "count", "unlock", "exited"}

\* Liveness: all files are read, or a call fails, or main() joins too early or
\* loses an F_DONE: no signal is lost, no descriptor forgotten, and nothing else
\* keeps a program from its end.
EndsOrIsStuck == <> (~ Running \/ JoinsTooEarly \/ DoneIsLost)
=============================================================================
