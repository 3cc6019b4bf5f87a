--------------------------- MODULE TransferProofs ---------------------------
(***************************************************************************)
(* What the two programs that move a stream of known length guarantee, for *)
(* all sizes of the kernel's buffers and every way of cutting the stream:  *)
(* the forking file server, for every number of clients and length of file,*)
(* and the bulk sender and receiver, for all widths of their integers.     *)
(***************************************************************************)
EXTENDS FileServer, BulkTransfer, TLAPS

-----------------------------------------------------------------------------
(* FileServer.                                                              *)

\* Between accept() and the close at the end of the loop the parent has the
\* connection open.
ParentHasIt == ppc \in {"fork", "parent"} => connected_fd \in held

\* A client that has not connected has no trace anywhere.
Unseen ==
  \A c \in Clients : cpc[c] = "start" =>
    /\ conn[c] = "none" /\ child[c] = "none"
    /\ sent[c] = 0 /\ pipe[c] = 0 /\ got[c] = 0
    /\ c \notin held /\ ~ Waits(c)

\* While a client has the connection, nothing the server sent is lost.
NothingLost ==
  \A c \in Clients : cpc[c] \in {"read", "close", "saw_eof"} =>
    conn[c] = "up" /\ sent[c] = got[c] + pipe[c]

\* A sendfile() that was not cut short has sent all.
ExitedHasSent == \A c \in Clients : child[c] = "exited" => sent[c] = FileLen

\* The end of the file is final.
EofIsFinal ==
  \A c \in Clients : cpc[c] = "saw_eof" => pipe[c] = 0 /\ FinSent(c)

IInv ==
  /\ TypeOK /\ ParentHasIt /\ Unseen
  /\ NothingLost /\ ExitedHasSent /\ EofIsFinal

\* accept() takes the head off the queue.
LEMMA HeadWaits ==
  ASSUME TypeOK, backlog # << >>
  PROVE  /\ Head(backlog) \in Clients /\ Waits(Head(backlog))
         /\ Tail(backlog) \in Seq(Clients)
         /\ \A n \in DOMAIN Tail(backlog) :
              n + 1 \in DOMAIN backlog /\ Tail(backlog)[n] = backlog[n + 1]
<1>1. backlog \in Seq(Clients) /\ Len(backlog) \in Nat \ {0} /\ 1 \in DOMAIN backlog
  BY DEF TypeOK
<1>2. Head(backlog) = backlog[1]
  BY <1>1
<1> QED
  BY <1>1, <1>2 DEF Waits

THEOREM InitIInv == Init => IInv
  BY ConstantsAssumption
  DEF Init, IInv, TypeOK, ParentHasIt, Unseen, NothingLost, ExitedHasSent, EofIsFinal, Waits

\* The steps of the parent.
LEMMA ParentKeeps ==
  ASSUME IInv, ParentStep
  PROVE  IInv'
<1> USE DEF vars, server, clients
<1>0. UNCHANGED <<sent, conn, pipe, cpc, got>>
  BY DEF ParentStep, Accept, AcceptFails, Fork, ForkFails, ParentCloses, PeerIsGone, ParentExits
<1>1. CASE Accept
  <2>1. /\ Head(backlog) \in Clients /\ Waits(Head(backlog))
        /\ held' = held \cup {Head(backlog)} /\ connected_fd' = Head(backlog)
        /\ backlog' \in Seq(Clients) /\ UNCHANGED child /\ ppc' = "fork"
    BY <1>1, HeadWaits DEF Accept, IInv
  <2>2. \A c \in Clients : Waits(c)' => Waits(c)
    BY <1>1, HeadWaits DEF Accept, IInv, Waits
  <2>3. TypeOK'
    BY <1>0, <2>1 DEF IInv, TypeOK
  <2>4. ParentHasIt' /\ NothingLost' /\ ExitedHasSent'
    BY <1>0, <2>1 DEF IInv, ParentHasIt, NothingLost, ExitedHasSent
  <2>5. Unseen' /\ EofIsFinal'
    BY <1>0, <2>1, <2>2 DEF IInv, Unseen, EofIsFinal, FinSent, ChildHolds
  <2> QED
    BY <2>3, <2>4, <2>5 DEF IInv
<1>2. CASE AcceptFails \/ PeerIsGone
  <2>1. UNCHANGED <<connected_fd, child>> /\ ppc' = "ended" /\ held' = {} /\ backlog' = << >>
    BY <1>2 DEF AcceptFails, PeerIsGone, ParentExits
  <2>2. \A c \in Clients : ~ Waits(c)'
    BY <2>1 DEF Waits
  <2> QED
    BY <1>0, <2>1, <2>2
    DEF IInv, TypeOK, ParentHasIt, Unseen, NothingLost, ExitedHasSent, EofIsFinal, FinSent, ChildHolds
<1>3. CASE Fork
  <2>1. /\ connected_fd \in Clients /\ connected_fd \in held
        /\ child' = [child EXCEPT ![connected_fd] = "start"]
        /\ ppc' = "parent" /\ UNCHANGED <<connected_fd, held, backlog>>
    BY <1>3 DEF Fork, IInv, ParentHasIt, TypeOK
  <2>2. \A c \in Clients : Waits(c)' = Waits(c)
    BY <2>1 DEF Waits
  <2>3. TypeOK' /\ ParentHasIt' /\ NothingLost' /\ ExitedHasSent'
    BY <1>0, <2>1 DEF IInv, TypeOK, ParentHasIt, NothingLost, ExitedHasSent
  <2>4. Unseen' /\ EofIsFinal'
    BY <1>0, <2>1, <2>2 DEF IInv, TypeOK, Unseen, EofIsFinal, FinSent, ChildHolds
  <2> QED
    BY <2>3, <2>4 DEF IInv
<1>4. CASE ForkFails \/ ParentCloses
  <2>1. /\ ppc' = "accept" /\ held' \subseteq held
        /\ UNCHANGED <<connected_fd, child, backlog>>
    BY <1>4 DEF ForkFails, ParentCloses
  <2>2. \A c \in Clients : Waits(c)' = Waits(c)
    BY <2>1 DEF Waits
  <2> QED
    BY <1>0, <2>1, <2>2
    DEF IInv, TypeOK, ParentHasIt, Unseen, NothingLost, ExitedHasSent, EofIsFinal, FinSent, ChildHolds
<1> QED
  BY <1>1, <1>2, <1>3, <1>4 DEF ParentStep

\* The steps of a child.
LEMMA ChildKeeps ==
  ASSUME IInv, NEW c \in Clients, ChildStep(c)
  PROVE  IInv'
<1> USE DEF vars, server, clients
<1>0. /\ UNCHANGED <<ppc, connected_fd, held, backlog, cpc, got>>
      /\ \A d \in Clients : Waits(d)' = Waits(d)
  BY DEF ChildStep, ChildOpens, ChildHasNoFile, SendFile, ChildDone, ChildCutShort, ChildFails, Waits
<1>a. ChildHolds(c) /\ cpc[c] # "start" /\ cpc[c] # "saw_eof"
  BY DEF ChildStep, ChildOpens, ChildHasNoFile, SendFile, ChildDone, ChildCutShort, ChildFails,
         ChildHolds, IInv, Unseen, EofIsFinal, FinSent
<1>1. CASE SendFile(c)
  <2>1. /\ child[c] = "send" /\ sent[c] < FileLen /\ UNCHANGED child
        /\ sent' = [sent EXCEPT ![c] = @ + 1]
    BY <1>1 DEF SendFile
  <2>2. CASE /\ conn[c] = "up" /\ pipe[c] < PIPE
             /\ pipe' = [pipe EXCEPT ![c] = @ + 1] /\ UNCHANGED conn
    <3>1. TypeOK'
      <4>1. sent[c] + 1 \in 0 .. FileLen /\ pipe[c] + 1 \in 0 .. PIPE
        BY <2>1, <2>2, ConstantsAssumption DEF IInv, TypeOK
      <4> QED
        BY <1>0, <2>1, <2>2, <4>1 DEF IInv, TypeOK
    <3>0. ParentHasIt' /\ Unseen'
      BY <1>0, <1>a, <2>1, <2>2 DEF IInv, TypeOK, ParentHasIt, Unseen
    <3>2. NothingLost' /\ ExitedHasSent' /\ EofIsFinal'
      BY <1>0, <1>a, <2>1, <2>2, ConstantsAssumption
      DEF IInv, TypeOK, NothingLost, ExitedHasSent, EofIsFinal, FinSent, ChildHolds
    <3> QED
      BY <3>0, <3>1, <3>2 DEF IInv
  <2>3. CASE /\ conn[c] = "left" /\ conn' = [conn EXCEPT ![c] = "reset"] /\ UNCHANGED pipe
    <3>1. TypeOK'
      BY <1>0, <2>1, <2>3, ConstantsAssumption DEF IInv, TypeOK
    <3>0. ParentHasIt' /\ Unseen'
      BY <1>0, <1>a, <2>1, <2>3 DEF IInv, TypeOK, ParentHasIt, Unseen
    <3>2. NothingLost' /\ ExitedHasSent' /\ EofIsFinal'
      BY <1>0, <1>a, <2>1, <2>3, ConstantsAssumption
      DEF IInv, TypeOK, NothingLost, ExitedHasSent, EofIsFinal, FinSent, ChildHolds
    <3> QED
      BY <3>0, <3>1, <3>2 DEF IInv
  <2> QED
    BY <1>1, <2>2, <2>3 DEF SendFile
<1>2. CASE ~ SendFile(c)
  <2>1. /\ UNCHANGED <<sent, conn, pipe>>
        /\ \E status \in {"send", "failed", "cut", "exited"} :
             /\ child' = [child EXCEPT ![c] = status]
             /\ status = "exited" => sent[c] = FileLen
    BY <1>2 DEF ChildStep, ChildOpens, ChildHasNoFile, ChildDone, ChildCutShort, ChildFails
  <2>2. TypeOK' /\ ParentHasIt' /\ NothingLost' /\ ExitedHasSent'
    BY <1>0, <2>1 DEF IInv, TypeOK, ParentHasIt, NothingLost, ExitedHasSent
  <2>3. Unseen' /\ EofIsFinal'
    BY <1>0, <1>a, <2>1 DEF IInv, TypeOK, Unseen, EofIsFinal, FinSent, ChildHolds
  <2> QED
    BY <2>2, <2>3 DEF IInv
<1> QED
  BY <1>1, <1>2

\* The steps of a client.
LEMMA ClientKeeps ==
  ASSUME IInv, NEW c \in Clients,
         ClientStep(c) \/ ClientConnects(c) \/ ClientQuits(c)
  PROVE  IInv'
<1> USE DEF vars, server, clients
<1>0. UNCHANGED <<ppc, connected_fd, held, child, sent>>
  BY DEF ClientStep, ClientConnects, ClientQuits, ClientReads, ClientSeesEof, ClientCloses
<1>1. CASE ClientConnects(c)
  <2>1. /\ cpc[c] = "start" /\ cpc' = [cpc EXCEPT ![c] = "read"]
        /\ conn' = [conn EXCEPT ![c] = "up"] /\ backlog' = Append(backlog, c)
        /\ UNCHANGED <<pipe, got>>
    BY <1>1 DEF ClientConnects
  <2>2. \A d \in Clients \ {c} : Waits(d)' = Waits(d)
    <3>1. backlog \in Seq(Clients) /\ Len(backlog) \in Nat
      BY DEF IInv, TypeOK
    <3>2. /\ DOMAIN backlog' = DOMAIN backlog \cup {Len(backlog) + 1}
          /\ \A n \in DOMAIN backlog : backlog'[n] = backlog[n]
          /\ backlog'[Len(backlog) + 1] = c
      BY <2>1, <3>1
    <3> QED
      BY <3>2 DEF Waits
  <2>3. TypeOK' /\ ParentHasIt' /\ NothingLost' /\ ExitedHasSent'
    BY <1>0, <2>1, ConstantsAssumption
    DEF IInv, TypeOK, ParentHasIt, Unseen, NothingLost, ExitedHasSent
  <2>4. Unseen' /\ EofIsFinal'
    BY <1>0, <2>1, <2>2 DEF IInv, TypeOK, Unseen, EofIsFinal, FinSent, ChildHolds
  <2> QED
    BY <2>3, <2>4 DEF IInv
<1>2. ASSUME NEW n \in 1 .. READ, ClientReads(c, n) PROVE IInv'
  <2>1. /\ cpc[c] = "read" /\ n <= pipe[c] /\ n \in Nat \ {0}
        /\ got' = [got EXCEPT ![c] = @ + n] /\ pipe' = [pipe EXCEPT ![c] = @ - n]
        /\ cpc'[c] \in {"read", "close"} /\ cpc' = [cpc EXCEPT ![c] = cpc'[c]]
        /\ UNCHANGED <<backlog, conn>>
    BY <1>2, ConstantsAssumption DEF ClientReads, IInv, TypeOK
  <2>2. \A d \in Clients : Waits(d)' = Waits(d)
    BY <2>1 DEF Waits
  <2>3. sent[c] = got[c] + pipe[c] /\ sent[c] \in 0 .. FileLen /\ FileLen \in Nat /\ PIPE \in Nat
    BY <2>1, ConstantsAssumption DEF IInv, TypeOK, NothingLost
  <2>4. TypeOK'
    <3>1. got[c] + n \in 0 .. FileLen /\ pipe[c] - n \in 0 .. PIPE
      BY <2>1, <2>3 DEF IInv, TypeOK
    <3> QED
      BY <1>0, <2>1, <3>1 DEF IInv, TypeOK
  <2>5. ParentHasIt' /\ ExitedHasSent'
    BY <1>0, <2>1 DEF IInv, ParentHasIt, ExitedHasSent
  <2>6. NothingLost'
    BY <1>0, <2>1, <2>3 DEF IInv, TypeOK, NothingLost
  <2>7. Unseen' /\ EofIsFinal'
    BY <1>0, <2>1, <2>2 DEF IInv, TypeOK, Unseen, EofIsFinal, FinSent, ChildHolds
  <2> QED
    BY <2>4, <2>5, <2>6, <2>7 DEF IInv
<1>3. CASE ClientSeesEof(c) \/ ClientQuits(c)
  <2>1. /\ cpc[c] = "read" /\ cpc'[c] \in {"saw_eof", "close"}
        /\ cpc' = [cpc EXCEPT ![c] = cpc'[c]]
        /\ cpc'[c] = "saw_eof" => pipe[c] = 0 /\ FinSent(c)
        /\ UNCHANGED <<backlog, conn, pipe, got>>
    BY <1>3 DEF ClientSeesEof, ClientQuits, IInv, TypeOK
  <2>2. \A d \in Clients : Waits(d)' = Waits(d)
    BY <2>1 DEF Waits
  <2>3. TypeOK' /\ ParentHasIt' /\ NothingLost' /\ ExitedHasSent'
    BY <1>0, <2>1 DEF IInv, TypeOK, ParentHasIt, NothingLost, ExitedHasSent
  <2>4. Unseen' /\ EofIsFinal'
    BY <1>0, <2>1, <2>2 DEF IInv, TypeOK, Unseen, EofIsFinal, FinSent, ChildHolds
  <2> QED
    BY <2>3, <2>4 DEF IInv
<1>4. CASE ClientCloses(c)
  <2>1. /\ cpc[c] = "close" /\ cpc' = [cpc EXCEPT ![c] = "closed"]
        /\ conn'[c] \in {"reset", "left"} /\ conn' = [conn EXCEPT ![c] = conn'[c]]
        /\ pipe' = [pipe EXCEPT ![c] = 0] /\ UNCHANGED <<backlog, got>>
    BY <1>4 DEF ClientCloses, IInv, TypeOK
  <2>2. \A d \in Clients : Waits(d)' = Waits(d)
    BY <2>1 DEF Waits
  <2>3. TypeOK'
    <3>1. 0 \in 0 .. PIPE
      BY ConstantsAssumption
    <3> QED
      BY <1>0, <2>1, <3>1 DEF IInv, TypeOK
  <2>5. ParentHasIt' /\ NothingLost' /\ ExitedHasSent'
    BY <1>0, <2>1 DEF IInv, TypeOK, ParentHasIt, NothingLost, ExitedHasSent
  <2>4. Unseen' /\ EofIsFinal'
    BY <1>0, <2>1, <2>2 DEF IInv, TypeOK, Unseen, EofIsFinal, FinSent, ChildHolds
  <2> QED
    BY <2>3, <2>4, <2>5 DEF IInv
<1> QED
  BY <1>1, <1>2, <1>3, <1>4 DEF ClientStep

LEMMA NextKeepsIInv == IInv /\ [Next]_vars => IInv'
<1> SUFFICES ASSUME IInv, [Next]_vars PROVE IInv'
  OBVIOUS
<1>1. CASE UNCHANGED vars
  BY <1>1
  DEF vars, server, clients, IInv, TypeOK, ParentHasIt, Unseen, NothingLost, ExitedHasSent,
      EofIsFinal, FinSent, ChildHolds, Waits
<1> QED
  BY <1>1, ParentKeeps, ChildKeeps, ClientKeeps DEF Next

THEOREM IInvHolds == Spec => []IInv
  BY InitIInv, NextKeepsIInv, PTL DEF Spec

\* The model is well-typed: in particular no client reads more than the file.
THEOREM TypeCorrect == Spec => []TypeOK
<1>1. IInv => TypeOK
  BY DEF IInv
<1> QED
  BY IInvHolds, <1>1, PTL

\* A client that sees the end has all its child sent, in whatever order parent
\* and child close the connection, and the whole file when sendfile() did not
\* stop early.
THEOREM EofIsTheEnd == Spec => []EofMeansAllSent
<1>1. IInv => EofMeansAllSent
  <2> SUFFICES ASSUME IInv, NEW c \in Clients, cpc[c] = "saw_eof"
               PROVE  /\ got[c] = sent[c]
                      /\ child[c] \in {"exited", "cut", "failed", "none"}
                      /\ child[c] = "exited" => got[c] = FileLen
    BY DEF EofMeansAllSent
  <2>1. pipe[c] = 0 /\ child[c] \in {"exited", "cut", "failed", "none"}
    BY DEF IInv, TypeOK, EofIsFinal, FinSent, ChildHolds
  <2>2. sent[c] = got[c] + pipe[c] /\ got[c] \in Nat
    BY DEF IInv, TypeOK, NothingLost
  <2>3. child[c] = "exited" => sent[c] = FileLen
    BY DEF IInv, ExitedHasSent
  <2> QED
    BY <2>1, <2>2, <2>3
<1> QED
  BY IInvHolds, <1>1, PTL

-----------------------------------------------------------------------------
(* BulkTransfer.                                                            *)

\* A count with its wrap undone.
Unwrapped(n) == IF n < WriteAmt THEN n + SizeMod ELSE n

\* The sender's count: what the kernel took is what the count started from, less
\* what the code thinks is left, plus the write() under way.  Only the first
\* write() can be made with no more than a buffer to send.
CountRight ==
  /\ spc = "connected" => taken = 0
  /\ spc = "write" => /\ taken = (Round - Unwrapped(amount)) + (WriteAmt - left)
                      /\ Unwrapped(amount) <= Round
                      /\ amount > WriteAmt \/ amount = Given
  /\ spc = "success" => /\ amount \in 0 .. WriteAmt
                        /\ taken = Round - amount
                        /\ amount = 0 <=> Round = WriteAmt

\* Until the receiver stops, everything taken is read or under way.
AllAccounted ==
  /\ rpc = "reading" => taken = received + underway
  /\ rpc = "success" => taken = received /\ spc \in {"success", "failure"}

TransferInv == TransferTypeOK /\ CountRight /\ AllAccounted

LEMMA ModSmall ==
  ASSUME NEW n \in Nat, NEW m \in Nat, n < m
  PROVE  n % m = n
  OBVIOUS

\* A conversion to size_t is in range.
LEMMA ToSizeType ==
  ASSUME NEW n \in Int
  PROVE  ToSize(n) \in 0 .. (SizeMod - 1)
  BY SizesAssumption DEF ToSize

\* A size that fits goes through int and size_t unchanged.
LEMMA ConversionKeeps ==
  ASSUME Fits, megs \in Nat
  PROVE  /\ Asked \in Nat /\ WriteAmt <= Asked
         /\ ToSize(ToInt(Asked)) = Asked
<1>1. megs \in Nat \ {0} /\ MB \in Nat /\ WriteAmt \in 1 .. MB
  BY SizesAssumption DEF Fits
<1>2. Asked \in Nat /\ MB <= Asked
  BY <1>1 DEF Asked
<1>3. 2 * Asked < IntMod /\ IntMod <= SizeMod /\ IntMod \in Nat /\ SizeMod \in Nat
  BY SizesAssumption DEF Fits
<1>4. Asked % IntMod = Asked /\ Asked % SizeMod = Asked
  BY <1>2, <1>3, ModSmall
<1> QED
  BY <1>1, <1>2, <1>3, <1>4 DEF ToSize, ToInt

\* The amount send_data_to is given, and what the count goes down from.
LEMMA RoundType ==
  ASSUME megs \in Nat
  PROVE  /\ Given \in 0 .. (SizeMod - 1) /\ Round \in Nat
         /\ WriteAmt \in Nat \ {0} /\ SizeMod \in Nat /\ WriteAmt < SizeMod
         /\ WriteAmt <= Round /\ Round < WriteAmt + SizeMod
         /\ Round = Unwrapped(Given)
         /\ Round = WriteAmt <=> Given = WriteAmt
<1>1. /\ MB \in Nat /\ IntMod \in Nat \ {0} /\ SizeMod \in Nat
      /\ WriteAmt \in Nat \ {0} /\ WriteAmt < SizeMod
  BY SizesAssumption
<1>2. Asked \in Nat
  BY <1>1 DEF Asked
<1>3. Asked % IntMod \in Int
  BY <1>1, <1>2
<1>4. ToInt(Asked) \in Int
  BY <1>1, <1>2, <1>3 DEF ToInt
<1>5. Given \in 0 .. (SizeMod - 1)
  BY <1>4, ToSizeType DEF Given
<1> QED
  BY <1>1, <1>5 DEF Round, Unwrapped

THEOREM InitTransferInv == TransferInit => TransferInv
  BY SizesAssumption DEF TransferInit, TransferInv, TransferTypeOK, CountRight, AllAccounted

LEMMA StartKeeps == TransferInv /\ StartSending => TransferInv'
<1> SUFFICES ASSUME TransferInv, StartSending PROVE TransferInv'
  OBVIOUS
<1> USE DEF StartSending
<1>1. megs \in Nat
  BY SizesAssumption DEF TransferInv, TransferTypeOK
<1>2. /\ Given \in 0 .. (SizeMod - 1) /\ Round \in Nat /\ WriteAmt \in Nat \ {0}
      /\ Round = Unwrapped(Given) /\ amount' = Given /\ left' = WriteAmt /\ taken' = taken
      /\ taken = 0 /\ spc' = "write" /\ Given' = Given /\ Round' = Round
  BY <1>1, RoundType DEF TransferInv, CountRight, Given, Round, Asked
<1>3. TransferTypeOK'
  BY <1>2 DEF TransferInv, TransferTypeOK
<1>4. CountRight'
  BY <1>2 DEF CountRight, Unwrapped
<1>5. AllAccounted'
  BY DEF TransferInv, AllAccounted
<1> QED
  BY <1>3, <1>4, <1>5 DEF TransferInv

LEMMA WriteKeeps == TransferInv /\ WriteReturns => TransferInv'
<1> SUFFICES ASSUME TransferInv, WriteReturns PROVE TransferInv'
  OBVIOUS
<1> USE DEF WriteReturns
<1>1. /\ amount \in 0 .. (SizeMod - 1) /\ taken \in Nat /\ left = 0 /\ spc = "write"
      /\ megs \in Nat
  BY SizesAssumption DEF TransferInv, TransferTypeOK
<1>2. /\ Given \in 0 .. (SizeMod - 1) /\ Round \in Nat /\ SizeMod \in Nat
      /\ WriteAmt \in Nat \ {0} /\ WriteAmt < SizeMod
      /\ Round = WriteAmt <=> Given = WriteAmt
      /\ Round' = Round /\ Given' = Given
  BY <1>1, RoundType DEF Round, Given, Asked
<1>3. Remaining = Unwrapped(amount) - WriteAmt
  <2>1. CASE amount < WriteAmt
    <3>1. /\ amount - WriteAmt + SizeMod \in Nat /\ amount - WriteAmt + SizeMod < SizeMod
          /\ (amount - WriteAmt) % SizeMod = (amount - WriteAmt + SizeMod) % SizeMod
      BY <1>1, <1>2, <2>1
    <3>2. (amount - WriteAmt) % SizeMod = amount - WriteAmt + SizeMod
      BY <1>2, <3>1, ModSmall
    <3> QED
      BY <1>1, <1>2, <2>1, <3>2 DEF Remaining, ToSize, Unwrapped
  <2>2. CASE ~ amount < WriteAmt
    <3>1. amount - WriteAmt \in Nat /\ amount - WriteAmt < SizeMod
      BY <1>1, <1>2, <2>2
    <3>2. (amount - WriteAmt) % SizeMod = amount - WriteAmt
      BY <1>2, <3>1, ModSmall
    <3> QED
      BY <2>2, <3>2 DEF Remaining, ToSize, Unwrapped
  <2> QED
    BY <2>1, <2>2
<1>4. Remaining \in 0 .. (SizeMod - 1)
  BY <1>1, <1>2, ToSizeType DEF Remaining
<1>5. TransferTypeOK'
  BY <1>1, <1>2, <1>4 DEF TransferInv, TransferTypeOK
<1>6. /\ taken = (Round - Unwrapped(amount)) + WriteAmt /\ Unwrapped(amount) <= Round
      /\ amount > WriteAmt \/ amount = Given
      /\ Unwrapped(amount) \in Nat
  BY <1>1, <1>2 DEF TransferInv, CountRight, Unwrapped
<1>7. taken = Round - Remaining /\ Remaining <= Round
  BY <1>2, <1>3, <1>4, <1>6
<1>8. ASSUME More PROVE CountRight'
  BY <1>1, <1>2, <1>4, <1>7, <1>8 DEF CountRight, More, Unwrapped
<1>9. ASSUME ~ More PROVE CountRight'
  <2>1. Remaining \in 0 .. WriteAmt
    BY <1>2, <1>4, <1>9 DEF More
  <2>2. Remaining = 0 <=> amount = WriteAmt
    BY <1>1, <1>2, <1>3 DEF Unwrapped
  <2>3. amount = WriteAmt <=> Round = WriteAmt
    BY <1>1, <1>2, <1>6 DEF Unwrapped
  <2> QED
    BY <1>2, <1>7, <1>9, <2>1, <2>2, <2>3 DEF CountRight
<1>10. AllAccounted'
  BY DEF TransferInv, AllAccounted
<1> QED
  BY <1>5, <1>8, <1>9, <1>10 DEF TransferInv

LEMMA OthersKeep ==
  ASSUME TransferInv,
         \/ WriteFails \/ (\E n \in 1 .. WriteAmt : Take(n) \/ Receive(n)) \/ ReceiveEof
         \/ SenderStops \/ ReceiverStops \/ TakeInVain \/ UNCHANGED transfer
  PROVE  TransferInv'
<1>1. /\ WriteAmt \in Nat \ {0} /\ WINDOW \in Nat /\ left \in 0 .. WriteAmt
      /\ taken \in Nat /\ received \in Nat /\ underway \in 0 .. WINDOW /\ amount \in Nat
  BY SizesAssumption DEF TransferInv, TransferTypeOK
<1>2. UNCHANGED <<megs, amount>> /\ Given' = Given /\ Round' = Round
  BY DEF WriteFails, Take, Receive, ReceiveEof, SenderStops, ReceiverStops, TakeInVain, transfer,
         Given, Round, Asked
<1>a. Round \in Nat /\ Unwrapped(amount) \in Nat /\ Unwrapped(amount)' = Unwrapped(amount)
  BY <1>1, <1>2, RoundType, SizesAssumption DEF TransferInv, TransferTypeOK, Unwrapped
<1>3. ASSUME NEW n \in 1 .. WriteAmt, Take(n) PROVE TransferInv'
  <2>1. TransferTypeOK'
    BY <1>1, <1>2, <1>3 DEF TransferInv, TransferTypeOK, Take
  <2>2. CountRight' /\ AllAccounted'
    BY <1>1, <1>2, <1>3, <1>a DEF TransferInv, CountRight, AllAccounted, Take
  <2> QED
    BY <2>1, <2>2 DEF TransferInv
<1>4. ASSUME NEW n \in 1 .. WriteAmt, Receive(n) PROVE TransferInv'
  BY <1>1, <1>2, <1>4 DEF TransferInv, TransferTypeOK, CountRight, AllAccounted, Receive
<1>5. CASE WriteFails \/ ReceiveEof \/ SenderStops \/ ReceiverStops \/ UNCHANGED transfer
  BY <1>1, <1>2, <1>5
  DEF TransferInv, TransferTypeOK, CountRight, AllAccounted, WriteFails, ReceiveEof, SenderStops,
      ReceiverStops, transfer
<1>6. CASE TakeInVain
  <2>1. TransferTypeOK'
    BY <1>1, <1>2, <1>6 DEF TransferInv, TransferTypeOK, TakeInVain
  <2>2. CountRight' /\ AllAccounted'
    BY <1>1, <1>2, <1>6, <1>a DEF TransferInv, CountRight, AllAccounted, TakeInVain
  <2> QED
    BY <2>1, <2>2 DEF TransferInv
<1> QED
  BY <1>3, <1>4, <1>5, <1>6

THEOREM TransferInvHolds == TransferSpec => []TransferInv
<1>1. TransferInv /\ [TransferNext]_transfer => TransferInv'
  BY StartKeeps, WriteKeeps, OthersKeep DEF TransferNext, SenderStep, ReceiverStep
<1> QED
  BY InitTransferInv, <1>1, PTL DEF TransferSpec

\* The model is well-typed: the counts of the code stay within their types.
THEOREM TransferTypeCorrect == TransferSpec => []TransferTypeOK
<1>1. TransferInv => TransferTypeOK
  BY DEF TransferInv
<1> QED
  BY TransferInvHolds, <1>1, PTL

\* read_and_ignore_till_end returns 0 only when it has read everything.
THEOREM ReceiverHasAll == TransferSpec => []SuccessMeansAll
<1>1. TransferInv => SuccessMeansAll
  BY DEF TransferInv, AllAccounted, SuccessMeansAll
<1> QED
  BY TransferInvHolds, <1>1, PTL

\* A sender that reports success is between one unit and one buffer short of
\* what its count started from, the wrapped one included, and exact only when
\* that is one buffer; and the count starts from the number asked for when an
\* int holds that.
THEOREM SenderStopsShort == TransferSpec => []OneBufferShort
<1>1. TransferInv => OneBufferShort
  <2> SUFFICES ASSUME TransferInv, spc = "success"
               PROVE  /\ IF Round = WriteAmt THEN taken = WriteAmt
                                             ELSE Round - taken \in 1 .. WriteAmt
                      /\ Fits => Round = Asked
    BY DEF OneBufferShort
  <2>1. megs \in Nat /\ Round \in Nat /\ WriteAmt \in Nat
    BY RoundType, SizesAssumption DEF TransferInv, TransferTypeOK
  <2>2. /\ amount \in 0 .. WriteAmt /\ taken = Round - amount
        /\ amount = 0 <=> Round = WriteAmt
    BY DEF TransferInv, CountRight
  <2>3. IF Round = WriteAmt THEN taken = WriteAmt ELSE Round - taken \in 1 .. WriteAmt
    BY <2>1, <2>2
  <2>4. Fits => Round = Asked
    BY <2>1, ConversionKeeps DEF Round, Given
  <2> QED
    BY <2>3, <2>4
<1> QED
  BY TransferInvHolds, <1>1, PTL
=============================================================================
