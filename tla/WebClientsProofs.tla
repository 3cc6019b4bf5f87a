-------------------------- MODULE WebClientsProofs --------------------------
(***************************************************************************)
(* What WebClients guarantees for any number of files and connections: the *)
(* counters of main() are right in every interleaving, and each of the     *)
(* four programs implements WebFetch.                                      *)
(***************************************************************************)
EXTENDS WebClients, FiniteSetTheorems, TLAPS

Unstarted == At({"none"})
Active    == Files \ At({"none", "over"})
Joined    == At({"over"})
Counted   == IF Counting THEN At({"unlock", "exited"}) ELSE {}

\* Which program can be where.
Places ==
  /\ pc = "flag" => program = "web02" /\ MayConnect /\ i \in Files /\ tpc[i] # "none"
  /\ pc = "join" => program = "web01"
  /\ pc = "select" => program = "web"
  /\ pc \in {"lock", "test", "wait", "woken"} => Counting
  /\ pc = "scan" => program # "web01"

\* What the state of a file says of its thread.
Linked ==
  \A f \in Files :
    /\ f_flags[f] = "none" => tpc[f] = "none" \/ (pc = "flag" /\ f = i)
    /\ tpc[f] = "none" => f_flags[f] = "none"
    /\ tpc[f] \in {"lock", "count", "unlock"} => Counting

\* The counters, until a call has failed.
Counters ==
  /\ nlefttoconn = Cardinality(Unstarted) + Made
  /\ nlefttoread = nfiles - Cardinality(Joined)
  /\ nconn = Cardinality(Active) - Made
  /\ ndone = Cardinality(Counted)

IInv == TypeOK /\ (pc # "quit" => Places /\ Linked /\ Counters)

-----------------------------------------------------------------------------
(* Sets of files and their sizes.                                           *)

\* One element more or less.
LEMMA OneMore ==
  ASSUME NEW S, IsFiniteSet(S), NEW x, x \notin S
  PROVE  Cardinality(S \cup {x}) = Cardinality(S) + 1
BY FS_AddElement

LEMMA OneLess ==
  ASSUME NEW S, IsFiniteSet(S), NEW x, x \in S
  PROVE  Cardinality(S \ {x}) = Cardinality(S) - 1
BY FS_RemoveElement

LEMMA FilesFinite == IsFiniteSet(Files) /\ Cardinality(Files) = nfiles /\ nfiles \in Nat
<1>1. nfiles \in Nat /\ 0 \in Int /\ nfiles - 1 \in Int
  BY ConstantsAssumption
<1>2. IsFiniteSet(0 .. (nfiles - 1)) /\ Cardinality(0 .. (nfiles - 1)) = nfiles
  BY <1>1, FS_Interval, ConstantsAssumption
<1> QED
  BY <1>1, <1>2 DEF Files

\* A set of files, and its size.
LEMMA SubsetSize ==
  ASSUME NEW S \in SUBSET Files
  PROVE  IsFiniteSet(S) /\ Cardinality(S) \in 0 .. nfiles
<1>1. IsFiniteSet(S) /\ Cardinality(S) <= nfiles
  BY FilesFinite, FS_Subset
<1> QED
  BY <1>1, FS_CardinalityType, FilesFinite

LEMMA AreFiles ==
  /\ Unstarted \in SUBSET Files /\ Active \in SUBSET Files
  /\ Joined \in SUBSET Files /\ Counted \in SUBSET Files
BY DEF Unstarted, Active, Joined, Counted, At

\* The four sets that are counted.
LEMMA Sizes ==
  /\ IsFiniteSet(Unstarted) /\ Cardinality(Unstarted) \in 0 .. nfiles
  /\ IsFiniteSet(Active) /\ Cardinality(Active) \in 0 .. nfiles
  /\ IsFiniteSet(Joined) /\ Cardinality(Joined) \in 0 .. nfiles
  /\ IsFiniteSet(Counted) /\ Cardinality(Counted) \in 0 .. nfiles
BY AreFiles, SubsetSize

LEMMA SizesNext ==
  /\ Cardinality(Unstarted') \in 0 .. nfiles
  /\ Cardinality(Active') \in 0 .. nfiles
  /\ Cardinality(Joined') \in 0 .. nfiles
  /\ Cardinality(Counted') \in 0 .. nfiles
<1>1. /\ Unstarted' \in SUBSET Files /\ Active' \in SUBSET Files
      /\ Joined' \in SUBSET Files /\ Counted' \in SUBSET Files
  BY DEF Unstarted, Active, Joined, Counted, At
<1> QED
  BY <1>1, SubsetSize

LEMMA CountersAreCounts == Counters => CountsAgree
<1>1. ndone = Cardinality(Counted) =>
        ndone = IF Counting THEN Cardinality(At({"unlock", "exited"})) ELSE 0
  BY FS_EmptySet DEF Counted
<1> QED
  BY <1>1 DEF Counters, CountsAgree, Unstarted, Active, Joined

-----------------------------------------------------------------------------
(* How one file moves between the sets.                                     *)

LEMMA StartsOne ==
  ASSUME TypeOK, NEW f \in Files, tpc[f] = "none", NEW x \in {"connect", "read"},
         tpc' = [tpc EXCEPT ![f] = x], UNCHANGED program
  PROVE  /\ Cardinality(Unstarted') = Cardinality(Unstarted) - 1
         /\ Cardinality(Active') = Cardinality(Active) + 1
         /\ UNCHANGED <<Joined, Counted>>
<1>1. /\ f \in Unstarted /\ f \notin Active
      /\ Unstarted' = Unstarted \ {f} /\ Active' = Active \cup {f}
  BY DEF TypeOK, Unstarted, Active, At
<1>2. Joined' = Joined /\ At({"unlock", "exited"})' = At({"unlock", "exited"})
  BY DEF TypeOK, Joined, At
<1> QED
  BY <1>1, <1>2, Sizes, OneMore, OneLess DEF Counted, Counting

\* A file that goes on: not counted before, or counted before and after.
LEMMA MovesOne ==
  ASSUME TypeOK, NEW f \in Files, tpc[f] \notin {"none", "over"}, UNCHANGED program,
         NEW x, x \notin {"none", "over"}, tpc' = [tpc EXCEPT ![f] = x],
         Counting => (tpc[f] \in {"unlock", "exited"} <=> x \in {"unlock", "exited"})
  PROVE  UNCHANGED <<Unstarted, Active, Joined, Counted>>
<1>1. UNCHANGED <<Unstarted, Active, Joined>>
  BY DEF TypeOK, Unstarted, Active, Joined, At
<1>2. Counting => At({"unlock", "exited"})' = At({"unlock", "exited"})
  BY DEF TypeOK, At
<1> QED
  BY <1>1, <1>2 DEF Counted, Counting

LEMMA EndsOne ==
  ASSUME TypeOK, NEW f \in Files, tpc[f] \in {"exited", "eof"},
         tpc' = [tpc EXCEPT ![f] = "over"], UNCHANGED program
  PROVE  /\ Cardinality(Active') = Cardinality(Active) - 1
         /\ Cardinality(Joined') = Cardinality(Joined) + 1
         /\ Unstarted' = Unstarted
         /\ Cardinality(Counted') = IF Counting /\ tpc[f] = "exited"
                                    THEN Cardinality(Counted) - 1 ELSE Cardinality(Counted)
<1>1. /\ f \in Active /\ f \notin Joined
      /\ Active' = Active \ {f} /\ Joined' = Joined \cup {f}
  BY DEF TypeOK, Active, Joined, At
<1>2. Unstarted' = Unstarted
  BY DEF TypeOK, Unstarted, At
<1>3. CASE Counting /\ tpc[f] = "exited"
  <2>1. f \in Counted /\ Counted' = Counted \ {f}
    BY <1>3 DEF TypeOK, Counted, Counting, At
  <2> QED
    BY <1>1, <1>2, <1>3, <2>1, Sizes, OneMore, OneLess
<1>4. CASE ~ (Counting /\ tpc[f] = "exited")
  <2>1. Counted' = Counted
    BY <1>4 DEF TypeOK, Counted, Counting, At
  <2> QED
    BY <1>1, <1>2, <1>4, <2>1, Sizes, OneMore, OneLess
<1> QED
  BY <1>3, <1>4

\* A step that leaves the sets and the counters alone.
LEMMA SetsStay ==
  ASSUME Counters, UNCHANGED <<Unstarted, Active, Joined, Counted, counts, ndone, Made>>
  PROVE  Counters'
BY DEF counts, Counters

\* The same, for a step that moves no file.
LEMMA NobodyMoves ==
  ASSUME UNCHANGED <<tpc, program>>
  PROVE  UNCHANGED <<Unstarted, Active, Joined, Counted>>
BY DEF Unstarted, Active, Joined, Counted, Counting, At

-----------------------------------------------------------------------------
(* The invariant, one kind of step after the other.                         *)

\* A connection that is begun and counted in one step.
LEMMA SpawnKeeps ==
  ASSUME IInv, NEW f \in Files, Spawn(f) \/ StartConnect(f)
  PROVE  IInv'
<1>1. /\ pc = "spawn" /\ MayConnect /\ f_flags[f] = "none" /\ i' = f
      /\ nconn' = nconn + 1 /\ nlefttoconn' = nlefttoconn - 1
      /\ UNCHANGED <<pc, nlefttoread, ndone, ndone_mutex, program, ready>>
  BY DEF Spawn, StartConnect, Found, CountConnection, fixed
<1>2. PICK x \in {"connect", "read"}, y \in {"connecting", "reading"} :
        tpc' = [tpc EXCEPT ![f] = x] /\ f_flags' = [f_flags EXCEPT ![f] = y]
  BY DEF Spawn, StartConnect, write_get_cmd
<1>3. TypeOK /\ Places /\ Linked /\ Counters /\ tpc[f] = "none" /\ Made = 0 /\ Made' = 0
  BY <1>1 DEF IInv, Linked, Made
<1>4. Counters'
  <2>1. /\ Cardinality(Unstarted') = Cardinality(Unstarted) - 1
        /\ Cardinality(Active') = Cardinality(Active) + 1
        /\ UNCHANGED <<Joined, Counted>>
    BY <1>1, <1>2, <1>3, StartsOne
  <2> QED
    BY <1>1, <1>3, <2>1, Sizes DEF Counters
<1>5. TypeOK'
  <2>1. nconn' \in 0 .. maxnconn
    BY <1>1, <1>3, ConstantsAssumption DEF TypeOK, MayConnect
  <2>2. nlefttoconn' \in 0 .. nfiles
    BY <1>1, <1>3, <1>4, SizesNext, FilesFinite DEF Counters, TypeOK
  <2>3. i' \in 0 .. nfiles
    BY <1>1, FilesFinite DEF Files
  <2> QED
    BY <1>1, <1>2, <1>3, <2>1, <2>2, <2>3 DEF TypeOK
<1>6. Linked' /\ Places'
  BY <1>1, <1>2, <1>3 DEF TypeOK, Linked, Places, Counting
<1> QED
  BY <1>4, <1>5, <1>6 DEF IInv

LEMMA CreateKeeps ==
  ASSUME IInv, NEW f \in Files, Create(f)
  PROVE  IInv'
<1>1. /\ program = "web02" /\ pc = "spawn" /\ MayConnect /\ f_flags[f] = "none"
      /\ i' = f /\ pc' = "flag" /\ tpc' = [tpc EXCEPT ![f] = "connect"]
      /\ UNCHANGED <<nconn, nlefttoconn, nlefttoread, f_flags, ndone, ndone_mutex, program, ready>>
  BY DEF Create, Found, counts, shared, fixed
<1>2. TypeOK /\ Places /\ Linked /\ Counters /\ tpc[f] = "none" /\ Made = 0 /\ Made' = 1
  BY <1>1 DEF IInv, Linked, Made
<1>3. Counters'
  <2>1. /\ Cardinality(Unstarted') = Cardinality(Unstarted) - 1
        /\ Cardinality(Active') = Cardinality(Active) + 1
        /\ UNCHANGED <<Joined, Counted>>
    BY <1>1, <1>2, StartsOne
  <2> QED
    BY <1>1, <1>2, <2>1, Sizes DEF Counters
<1>4. TypeOK'
  BY <1>1, <1>2, FilesFinite DEF TypeOK, Files
<1>5. Linked' /\ Places'
  BY <1>1, <1>2 DEF TypeOK, Linked, Places, Counting, MayConnect
<1> QED
  BY <1>3, <1>4, <1>5 DEF IInv

LEMMA FlagKeeps ==
  ASSUME IInv, FlagCreated
  PROVE  IInv'
<1>1. /\ pc = "flag" /\ pc' = "spawn"
      /\ f_flags' = [f_flags EXCEPT ![i] = "connecting"]
      /\ nconn' = nconn + 1 /\ nlefttoconn' = nlefttoconn - 1
      /\ UNCHANGED <<i, tpc, nlefttoread, ndone, ndone_mutex, program, ready>>
  BY DEF FlagCreated, CountConnection, fixed
<1>2. TypeOK /\ Places /\ Linked /\ Counters /\ Made = 1 /\ Made' = 0
      /\ i \in Files /\ tpc[i] # "none" /\ MayConnect
  BY <1>1 DEF IInv, Places, Made
<1>3. Counters'
  BY <1>1, <1>2, NobodyMoves, Sizes DEF Counters
<1>4. TypeOK'
  <2>1. nconn' \in 0 .. maxnconn
    BY <1>1, <1>2, ConstantsAssumption DEF TypeOK, MayConnect
  <2>2. nlefttoconn' \in 0 .. nfiles
    BY <1>1, <1>2, FilesFinite DEF TypeOK, MayConnect
  <2> QED
    BY <1>1, <1>2, <2>1, <2>2 DEF TypeOK
<1>5. Linked' /\ Places'
  BY <1>1, <1>2 DEF TypeOK, Linked, Places, Counting
<1> QED
  BY <1>3, <1>4, <1>5 DEF IInv

\* A file that main() is through with, in all three ways.
LEMMA EndKeeps ==
  ASSUME IInv, NEW f \in Files, JoinAny(f) \/ (f = i /\ (Join \/ ReadEnd))
  PROVE  IInv'
<1>1. /\ pc \in {"join", "scan"} /\ tpc[f] \in {"exited", "eof"}
      /\ tpc' = [tpc EXCEPT ![f] = "over"]
      /\ nconn' = nconn - 1 /\ nlefttoread' = nlefttoread - 1
      /\ pc' \in {pc, "spawn", "exit"} /\ i' \in {i, i + 1} /\ (i' = i \/ i = f)
      /\ UNCHANGED <<nlefttoconn, ndone_mutex, program, ready>>
      /\ f_flags' \in {f_flags, [f_flags EXCEPT ![f] = "joined"], [f_flags EXCEPT ![f] = "done"]}
  BY DEF JoinAny, Join, ReadEnd, Loop, shared, fixed
<1>2. TypeOK /\ Places /\ Linked /\ Counters /\ Made = 0 /\ Made' = 0
  BY <1>1 DEF IInv, Made
<1>3. ndone' = IF Counting /\ tpc[f] = "exited" THEN ndone - 1 ELSE ndone
  BY <1>1, <1>2, ConstantsAssumption
  DEF JoinAny, Join, ReadEnd, Places, Counting, Threads, shared, TypeOK
<1>4. Counters'
  <2>1. /\ Cardinality(Active') = Cardinality(Active) - 1
        /\ Cardinality(Joined') = Cardinality(Joined) + 1
        /\ Unstarted' = Unstarted
        /\ Cardinality(Counted') = IF Counting /\ tpc[f] = "exited"
                                   THEN Cardinality(Counted) - 1 ELSE Cardinality(Counted)
    BY <1>1, <1>2, EndsOne
  <2> QED
    BY <1>1, <1>2, <1>3, <2>1, Sizes, FilesFinite DEF Counters
<1>5. TypeOK'
  <2>1. nconn' \in 0 .. maxnconn
    BY <1>1, <1>2, <1>4, SizesNext, FilesFinite, ConstantsAssumption DEF TypeOK, Counters
  <2>2. nlefttoread' \in 0 .. nfiles /\ ndone' \in 0 .. nfiles
    BY <1>4, SizesNext, FilesFinite DEF Counters
  <2>3. i' \in 0 .. nfiles
    BY <1>1, <1>2, FilesFinite DEF TypeOK, Files
  <2> QED
    BY <1>1, <1>2, <2>1, <2>2, <2>3 DEF TypeOK
<1>6. Linked' /\ Places'
  BY <1>1, <1>2 DEF TypeOK, Linked, Places, Counting
<1> QED
  BY <1>4, <1>5, <1>6 DEF IInv

LEMMA CountKeeps ==
  ASSUME IInv, NEW f \in Files, Count(f)
  PROVE  IInv'
<1>1. /\ pc \notin {"exit", "quit"} /\ tpc[f] = "count" /\ ndone' = ndone + 1
      /\ pc' \in {pc, "woken"} /\ (pc' # pc => pc = "wait")
      /\ tpc' = [tpc EXCEPT ![f] = "unlock"]
      /\ UNCHANGED <<i, nconn, nlefttoconn, nlefttoread, f_flags, ndone_mutex, program, ready>>
  BY DEF Count, Running, counts, fixed
<1>2. TypeOK /\ Places /\ Linked /\ Counters /\ Counting /\ Made' = Made
  BY <1>1 DEF IInv, Linked, Made
<1>3. /\ f \notin Counted /\ Counted' = Counted \cup {f}
      /\ UNCHANGED <<Unstarted, Active, Joined>>
  BY <1>1, <1>2 DEF TypeOK, Unstarted, Active, Joined, Counted, Counting, At
<1>4. Cardinality(Counted') = Cardinality(Counted) + 1
  BY <1>3, Sizes, OneMore
<1>5. Counters'
  BY <1>1, <1>2, <1>3, <1>4 DEF Counters
<1>6. TypeOK'
  <2>1. ndone' \in 0 .. nfiles
    BY <1>5, SizesNext DEF Counters
  <2> QED
    BY <1>1, <1>2, <2>1 DEF TypeOK
<1>7. Linked' /\ Places'
  BY <1>1, <1>2 DEF TypeOK, Linked, Places, Counting, MayConnect
<1> QED
  BY <1>5, <1>6, <1>7 DEF IInv

\* The steps of main() that move no file.
Turns == SpawnDone \/ Lock \/ Wait \/ Poll \/ WakeForNothing \/ BeginScan \/ Skip \/ Unlock
         \/ Select \/ NotReady \/ ScanDone

LEMMA TurnsKeep ==
  ASSUME IInv, Turns
  PROVE  IInv'
<1>1. UNCHANGED <<nconn, nlefttoconn, nlefttoread, tpc, f_flags, ndone, program>>
  BY DEF Turns, SpawnDone, Lock, Wait, Poll, WakeForNothing, BeginScan, Skip, Unlock, Select,
         NotReady, ScanDone, counts, shared, fixed
<1>2. pc \notin {"quit", "flag"} /\ pc' \notin {"quit", "flag"}
  BY DEF Turns, SpawnDone, Lock, Wait, Poll, WakeForNothing, BeginScan, Skip, Unlock, Select,
         NotReady, ScanDone, Loop
<1>3. TypeOK /\ Places /\ Linked /\ Counters /\ Made = 0 /\ Made' = 0
  BY <1>2 DEF IInv, Made
<1>4. Counters'
  BY <1>1, <1>3, NobodyMoves, SetsStay DEF counts
<1>5. ndone_mutex' \in {ndone_mutex, Main, Nobody} /\ ready' \subseteq Files
  BY <1>3 DEF Turns, SpawnDone, Lock, Wait, Poll, WakeForNothing, BeginScan, Skip, Unlock, Select,
         NotReady, ScanDone, shared, fixed, TypeOK
<1>6. i' \in 0 .. nfiles
  BY <1>3, FilesFinite DEF Turns, SpawnDone, Lock, Wait, Poll, WakeForNothing, BeginScan, Skip,
         Unlock, Select, NotReady, ScanDone, TypeOK, Files
<1>7. pc' \in {"spawn", "join", "lock", "test", "wait", "woken", "select", "scan", "exit"}
  BY <1>3 DEF Turns, SpawnDone, Lock, Wait, Poll, WakeForNothing, BeginScan, Skip, Unlock, Select,
         NotReady, ScanDone, Loop, TypeOK
<1>8. TypeOK'
  BY <1>1, <1>3, <1>5, <1>6, <1>7 DEF TypeOK
<1>9. Places'
  <2>1. CASE SpawnDone
    BY <1>1, <1>2, <1>3, <2>1, ConstantsAssumption DEF SpawnDone, Places, Counting, TypeOK
  <2>2. CASE Lock \/ Wait \/ Poll \/ WakeForNothing \/ BeginScan
    BY <1>1, <1>2, <1>3, <2>2 DEF Lock, Wait, Poll, WakeForNothing, BeginScan, Places, Counting
  <2>3. CASE Skip \/ NotReady \/ Select
    BY <1>1, <1>2, <1>3, <2>3 DEF Skip, NotReady, Select, Places, Counting
  <2>4. CASE Unlock \/ ScanDone
    BY <1>1, <1>2, <1>3, <2>4 DEF Unlock, ScanDone, Loop, Places, Counting
  <2> QED
    BY <2>1, <2>2, <2>3, <2>4 DEF Turns
<1>10. Linked'
  BY <1>1, <1>2, <1>3 DEF Linked, Counting
<1> QED
  BY <1>4, <1>8, <1>9, <1>10 DEF IInv

\* The steps that move a file and count nothing: threads, the network, and two
\* of the select loop.
Moves(f) == Connect(f) \/ EndOfFile(f) \/ ThreadLocks(f) \/ ThreadUnlocks(f)
            \/ Established(f) \/ Refused(f) \/ Piece(f) \/ Fin(f)
            \/ (f = i /\ (WriteGet \/ ReadPiece))

LEMMA MovesKeep ==
  ASSUME IInv, NEW f \in Files, Moves(f)
  PROVE  IInv'
<1>1. pc \notin {"exit", "quit"} /\ UNCHANGED <<pc, nconn, nlefttoconn, nlefttoread, ndone, program, ready>>
  BY DEF Moves, Connect, EndOfFile, ThreadLocks, ThreadUnlocks, Established, Refused, Piece, Fin,
         WriteGet, write_get_cmd, ReadPiece, Running, counts, shared, fixed
<1>2. TypeOK /\ Places /\ Linked /\ Counters /\ Made' = Made
  BY <1>1 DEF IInv, Made
<1>3. PICK x \in {"connected", "refused", "read", "data", "eof", "lock", "count", "exited"} :
        /\ tpc' = [tpc EXCEPT ![f] = x]
        /\ tpc[f] \notin {"none", "over"}
        /\ Counting => (tpc[f] \in {"unlock", "exited"} <=> x \in {"unlock", "exited"})
        /\ x \in {"lock", "count"} => Counting
  <2>1. CASE Connect(f) \/ Established(f) \/ Refused(f) \/ Piece(f) \/ Fin(f)
    BY <2>1 DEF Connect, write_get_cmd, Established, Refused, Piece, Fin
  <2>2. CASE EndOfFile(f)
    BY <2>2 DEF EndOfFile
  <2>3. CASE ThreadLocks(f) \/ ThreadUnlocks(f)
    BY <1>2, <2>3 DEF ThreadLocks, ThreadUnlocks, Linked
  <2>4. CASE f = i /\ (WriteGet \/ ReadPiece)
    BY <2>4 DEF WriteGet, write_get_cmd, ReadPiece
  <2> QED
    BY <2>1, <2>2, <2>3, <2>4 DEF Moves
<1>4. Counters'
  BY <1>1, <1>2, <1>3, MovesOne, SetsStay DEF counts
<1>5. /\ f_flags' \in {f_flags, [f_flags EXCEPT ![f] = "reading"], [f_flags EXCEPT ![f] = "done"]}
      /\ ndone_mutex' \in {ndone_mutex, f, Nobody}
  BY DEF Moves, Connect, EndOfFile, ThreadLocks, ThreadUnlocks, Established, Refused, Piece, Fin,
         WriteGet, write_get_cmd, ReadPiece, shared
<1>6. i' = i \/ (i' = i + 1 /\ i \in Files /\ pc = "scan")
  BY DEF Moves, Connect, EndOfFile, ThreadLocks, ThreadUnlocks, Established, Refused, Piece, Fin,
         WriteGet, write_get_cmd, ReadPiece
<1>7. TypeOK'
  <2>1. i' \in 0 .. nfiles
    BY <1>2, <1>6, FilesFinite DEF TypeOK, Files
  <2> QED
    BY <1>1, <1>2, <1>3, <1>5, <2>1 DEF TypeOK
<1>8. Linked'
  BY <1>1, <1>2, <1>3, <1>5, <1>6 DEF TypeOK, Linked, Counting
<1>9. Places'
  BY <1>1, <1>2, <1>3, <1>6 DEF TypeOK, Places, Counting, MayConnect
<1> QED
  BY <1>4, <1>7, <1>8, <1>9 DEF IInv

LEMMA FailKeeps ==
  ASSUME IInv, Fail \/ WriteToNobody
  PROVE  IInv'
BY DEF IInv, TypeOK, Fail, WriteToNobody, counts, shared, fixed

-----------------------------------------------------------------------------

LEMMA InitIInv == Init => IInv
<1> SUFFICES ASSUME Init PROVE IInv
  OBVIOUS
<1>1. TypeOK /\ Linked /\ Places /\ Made = 0
  BY FilesFinite, ConstantsAssumption DEF Init, TypeOK, Linked, Places, Made
<1>2. Unstarted = Files /\ Active = {} /\ Joined = {} /\ Counted = {}
  BY DEF Init, Unstarted, Active, Joined, Counted, At
<1>3. Counters
  BY <1>1, <1>2, FilesFinite, FS_EmptySet DEF Init, Counters
<1> QED
  BY <1>1, <1>3 DEF IInv

LEMMA NextKeepsIInv == IInv /\ [Next]_vars => IInv'
<1> SUFFICES ASSUME IInv, [Next]_vars PROVE IInv'
  OBVIOUS
<1>1. CASE UNCHANGED vars
  <2>1. UNCHANGED <<Unstarted, Active, Joined, Counted, Made>>
    BY <1>1 DEF vars, shared, fixed, Unstarted, Active, Joined, Counted, Counting, At, Made
  <2> QED
    BY <1>1, <2>1
    DEF vars, shared, counts, fixed, IInv, TypeOK, Linked, Places, Counters, Counting, MayConnect
<1>2. CASE \E f \in Files : Spawn(f) \/ Create(f) \/ StartConnect(f) \/ JoinAny(f)
  BY <1>2, SpawnKeeps, CreateKeeps, EndKeeps
<1>3. CASE Join \/ ReadEnd \/ WriteGet \/ ReadPiece
  <2>1. i \in Files
    BY <1>3 DEF Join, ReadEnd, WriteGet, write_get_cmd, ReadPiece, IInv, TypeOK
  <2> QED
    BY <1>3, <2>1, EndKeeps, MovesKeep DEF Moves
<1>4. CASE FlagCreated \/ Turns \/ Fail \/ WriteToNobody
  BY <1>4, FlagKeeps, TurnsKeep, FailKeeps
<1>5. CASE \E f \in Files : ThreadStep(f) \/ Established(f) \/ Refused(f) \/ Piece(f) \/ Fin(f)
  BY <1>5, CountKeeps, MovesKeep DEF ThreadStep, Moves
<1> QED
  BY <1>1, <1>2, <1>3, <1>4, <1>5 DEF Next, MainStep, Turns

THEOREM IInvHolds == Spec => []IInv
  BY InitIInv, NextKeepsIInv, PTL DEF Spec

\* The model is well-typed, for every number of files and connections; in
\* particular nconn never passes maxnconn.
THEOREM TypeCorrect == Spec => []TypeOK
<1>1. IInv => TypeOK
  BY DEF IInv
<1> QED
  BY IInvHolds, <1>1, PTL

\* The counters of main() are what they are called, for any number of files and
\* in every program.
THEOREM CountersAreRight == Spec => []CountsAgree
<1>1. IInv => CountsAgree
  BY CountersAreCounts DEF IInv, CountsAgree
<1> QED
  BY IInvHolds, <1>1, PTL

\* "nothing found" cannot happen: while main() looks for a file, there is one
\* nobody has begun.
THEOREM SomethingIsFound ==
  Spec => [](pc = "spawn" /\ MayConnect => \E f \in Files : f_flags[f] = "none")
<1>1. IInv => (pc = "spawn" /\ MayConnect => \E f \in Files : f_flags[f] = "none")
  <2> SUFFICES ASSUME IInv, pc = "spawn", MayConnect
               PROVE  \E f \in Files : f_flags[f] = "none"
    OBVIOUS
  <2>1. nlefttoconn = Cardinality(Unstarted) /\ nlefttoconn > 0 /\ Linked
    BY Sizes DEF IInv, Counters, Made, MayConnect
  <2>2. Unstarted # {}
    BY <2>1, FS_EmptySet
  <2> QED
    BY <2>1, <2>2 DEF Unstarted, At, Linked
<1> QED
  BY IInvHolds, <1>1, PTL

-----------------------------------------------------------------------------
(* WebFetch.                                                                *)

\* Both modules count with the same operator.
LEMMA SameCardinality == ASSUME NEW S PROVE Fetch!Cardinality(S) = Cardinality(S)
BY DEF Fetch!Cardinality, Cardinality

\* A connection WebFetch calls open is one main() has counted.
LEMMA OpenIsActive ==
  ASSUME IInv, pc = "spawn", MayConnect
  PROVE  Cardinality(Fetch!In("open")) < maxnconn
<1>1. nconn = Cardinality(Active) /\ nconn < maxnconn
  BY Sizes DEF IInv, Counters, Made, MayConnect
<1>2. Fetch!In("open") \subseteq Active
  BY DEF Fetch!In, FileState, Active, At
<1>3. Cardinality(Fetch!In("open")) <= Cardinality(Active)
  BY <1>2, Sizes, FS_Subset
<1>4. Cardinality(Fetch!In("open")) \in Nat
  BY <1>2, Sizes, FS_Subset, FS_CardinalityType
<1> QED
  BY <1>1, <1>3, <1>4, Sizes, ConstantsAssumption

\* A step that moves no file and does not end the program.
LEMMA Stutters ==
  ASSUME UNCHANGED tpc, pc \notin {"exit", "quit"}, pc' \notin {"exit", "quit"}
  PROVE  UNCHANGED Fetch!vars
BY DEF Fetch!vars, FileState, Outcome

LEMMA OpensFile ==
  ASSUME IInv, NEW f \in Files, Spawn(f) \/ Create(f) \/ StartConnect(f)
  PROVE  Fetch!Open(f)
<1>1. /\ pc = "spawn" /\ MayConnect /\ f_flags[f] = "none" /\ pc' \in {"spawn", "flag"}
      /\ \E x \in {"connect", "read"} : tpc' = [tpc EXCEPT ![f] = x]
  BY DEF Spawn, Create, StartConnect, Found, write_get_cmd
<1>2. TypeOK /\ tpc[f] = "none"
  BY <1>1 DEF IInv, Linked
<1>3. FileState' = [FileState EXCEPT ![f] = "open"] /\ FileState[f] = "new"
  BY <1>1, <1>2 DEF TypeOK, FileState
<1>4. Outcome = "no" /\ Outcome' = Outcome
  BY <1>1 DEF Outcome
<1>5. Cardinality(Fetch!In("open")) < maxnconn
  BY <1>1, OpenIsActive
<1>6. Fetch!Cardinality(Fetch!In("open")) < maxnconn
  BY <1>5, SameCardinality
<1> QED
  BY <1>3, <1>4, <1>6 DEF Fetch!Open

LEMMA EndsFile ==
  ASSUME IInv, NEW f \in Files, EndOfFile(f) \/ (f = i /\ ReadEnd)
  PROVE  Fetch!Finish(f)
<1>1. /\ pc \notin {"exit", "quit"} /\ pc' = pc /\ tpc[f] \in {"read", "eof"}
      /\ \E x \in {"lock", "exited", "over"} : tpc' = [tpc EXCEPT ![f] = x]
  BY DEF EndOfFile, ReadEnd, Running
<1>2. FileState' = [FileState EXCEPT ![f] = "read"] /\ FileState[f] = "open"
  BY <1>1 DEF IInv, TypeOK, FileState
<1> QED
  BY <1>1, <1>2 DEF Fetch!Finish, Outcome

\* A file that moves, but neither begins nor ends.
LEMMA StaysAsItIs ==
  ASSUME IInv, NEW f \in Files,
         \/ Connect(f) \/ ThreadLocks(f) \/ Count(f) \/ ThreadUnlocks(f)
         \/ Established(f) \/ Refused(f) \/ Piece(f) \/ Fin(f)
         \/ f = i /\ (WriteGet \/ ReadPiece \/ Join)
  PROVE  UNCHANGED Fetch!vars
<1>1. pc \notin {"exit", "quit"} /\ pc' \notin {"exit", "quit"}
  BY DEF Connect, ThreadLocks, Count, ThreadUnlocks, Established, Refused, Piece, Fin,
         WriteGet, write_get_cmd, ReadPiece, Join, Running
<1>2. \/ /\ tpc[f] \in {"connect", "connected", "read", "data"}
         /\ \E x \in {"connected", "refused", "read", "data", "eof"} : tpc' = [tpc EXCEPT ![f] = x]
      \/ /\ tpc[f] \in {"lock", "count", "unlock", "exited"}
         /\ \E x \in {"count", "unlock", "exited", "over"} : tpc' = [tpc EXCEPT ![f] = x]
  BY DEF Connect, ThreadLocks, Count, ThreadUnlocks, Established, Refused, Piece, Fin,
         WriteGet, write_get_cmd, ReadPiece, Join
<1>3. FileState' = FileState
  BY <1>2 DEF IInv, TypeOK, FileState
<1> QED
  BY <1>1, <1>3 DEF Fetch!vars, Outcome

\* The steps after which main() may leave its loop.
LEMMA EndsProgram ==
  ASSUME IInv, IInv', (\E f \in Files : JoinAny(f)) \/ Unlock \/ ScanDone
  PROVE  [Fetch!Next]_(Fetch!vars)
<1>1. /\ pc \in {"join", "scan"}
      /\ pc' = "spawn" \/ (pc' = "exit" /\ ~ (nlefttoread' > 0))
      /\ UNCHANGED tpc \/ \E f \in Files : tpc[f] = "exited" /\ tpc' = [tpc EXCEPT ![f] = "over"]
  BY DEF JoinAny, Unlock, ScanDone, Loop, counts
<1>2. FileState' = FileState
  BY <1>1 DEF IInv, TypeOK, FileState
<1>3. CASE pc' = "spawn"
  BY <1>1, <1>2, <1>3 DEF Fetch!vars, Outcome
<1>4. CASE pc' = "exit"
  <2>1. nlefttoread' = 0 /\ TypeOK' /\ Counters'
    BY <1>1, <1>4, FilesFinite DEF IInv, TypeOK
  <2>2. Fetch!In("read")' = Files
    <3>1. Cardinality(Joined') = nfiles
      BY <2>1, SizesNext, FilesFinite DEF Counters
    <3>2. Joined' = Files
      <4>1. Joined' \in SUBSET Files
        BY DEF Joined, At
      <4> QED
        BY <3>1, <4>1, FilesFinite, FS_Subset
    <3> QED
      BY <3>2 DEF Fetch!In, FileState, Joined, At
  <2>3. Fetch!In("read") = Files
    BY <1>2, <2>2 DEF Fetch!In
  <2> QED
    BY <1>1, <1>2, <1>4, <2>3 DEF Fetch!Next, Fetch!End, Outcome
<1> QED
  BY <1>1, <1>3, <1>4

LEMMA GivesUp ==
  ASSUME IInv, Fail \/ WriteToNobody
  PROVE  Fetch!End
<1>1. pc \notin {"exit", "quit"} /\ pc' = "quit" /\ UNCHANGED tpc
  BY DEF Fail, WriteToNobody, Running
<1> QED
  BY <1>1 DEF Fetch!End, FileState, Outcome

LEMMA StepImplements == IInv /\ IInv' /\ [Next]_vars => [Fetch!Next]_(Fetch!vars)
<1> SUFFICES ASSUME IInv, IInv', [Next]_vars PROVE [Fetch!Next]_(Fetch!vars)
  OBVIOUS
<1>1. CASE UNCHANGED vars
  BY <1>1 DEF vars, Fetch!vars, FileState, Outcome
<1>2. CASE \E f \in Files : Spawn(f) \/ Create(f) \/ StartConnect(f)
  BY <1>2, OpensFile DEF Fetch!Next
<1>3. CASE FlagCreated \/ SpawnDone \/ Lock \/ Wait \/ WakeForNothing \/ Poll \/ BeginScan
           \/ Skip \/ Select \/ NotReady
  <2>1. UNCHANGED tpc /\ pc \notin {"exit", "quit"} /\ pc' \notin {"exit", "quit"}
    BY <1>3 DEF FlagCreated, SpawnDone, Lock, Wait, WakeForNothing, Poll, BeginScan, Skip, Select, NotReady
  <2> QED
    BY <2>1, Stutters
<1>4. CASE (\E f \in Files : JoinAny(f)) \/ Unlock \/ ScanDone
  BY <1>4, EndsProgram
<1>5. CASE WriteGet \/ ReadPiece \/ Join
  <2>1. i \in Files
    BY <1>5 DEF WriteGet, write_get_cmd, ReadPiece, Join, IInv, TypeOK
  <2> QED
    BY <1>5, <2>1, StaysAsItIs
<1>6. CASE ReadEnd
  <2>1. i \in Files
    BY <1>6 DEF ReadEnd, IInv, TypeOK
  <2> QED
    BY <1>6, <2>1, EndsFile DEF Fetch!Next
<1>7. CASE Fail \/ WriteToNobody
  BY <1>7, GivesUp DEF Fetch!Next
<1>8. CASE \E f \in Files : ThreadStep(f) \/ Established(f) \/ Refused(f) \/ Piece(f) \/ Fin(f)
  BY <1>8, EndsFile, StaysAsItIs DEF ThreadStep, Fetch!Next
<1> QED
  BY <1>1, <1>2, <1>3, <1>4, <1>5, <1>6, <1>7, <1>8 DEF Next, MainStep

\* Each of the four programs fetches every file once, keeps within its number of
\* connections and exits only with all files, for any number of files.
THEOREM ProgramsImplementFetch == Spec => ImplementsFetch
<1>1. Init => Fetch!Init
  BY DEF Init, Fetch!Init, FileState, Outcome
<1> QED
  BY <1>1, IInvHolds, StepImplements, PTL DEF Spec, ImplementsFetch, Fetch!Spec
=============================================================================
