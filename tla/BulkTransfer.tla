---------------------------- MODULE BulkTransfer ----------------------------
(***************************************************************************)
(* The throughput test of Lab 4: tcp_sender.c writes a number of megabytes *)
(* to tcp_receiver.c, which reads and discards until the end of the stream.*)
(*                                                                         *)
(* The data are counted, not modelled: a unit stands for WriteAmt/k bytes  *)
(* for some k.  The number of megabytes goes through an int and a size_t,  *)
(* so that the arithmetic keeps the widths of the code, here IntMod and    *)
(* SizeMod.  write() blocks until the kernel has taken everything, in as   *)
(* many pieces as it likes, or until the connection fails.                 *)
(***************************************************************************)
EXTENDS Integers

CONSTANTS
  Megabytes,  \* what can be given as argv[4]
  MB,         \* units in a megabyte
  WriteAmt,   \* option_writeamt, units per write() and per read()
  IntMod,     \* 2^(width of int)
  SizeMod,    \* 2^(width of size_t)
  WINDOW      \* units the kernel holds between sender and receiver

ASSUME SizesAssumption ==
  /\ Megabytes \subseteq Nat
  /\ MB \in Nat /\ WriteAmt \in 1 .. MB
  /\ IntMod \in Nat /\ MB < IntMod /\ IntMod <= SizeMod /\ SizeMod \in Nat
  /\ WINDOW \in Nat \ {0}

VARIABLES
  megs,   \* argv[4] of the sender
  spc,    \* where the sender is
  amount, \* what it thinks is left to send
  left,   \* what the kernel has not taken yet of the write() under way
  rpc,    \* where the receiver is
  underway, \* units on their way
  taken,  \* units the kernel took
  received \* units the receiver read

transfer == <<megs, spc, amount, left, rpc, underway, taken, received>>

\* The number of bytes asked for.
Asked == megs * MB

\* size_senddata, an int, and its conversion to the size_t of send_data_to().
ToInt(n)  == LET r == n % IntMod IN IF 2 * r < IntMod THEN r ELSE r - IntMod
ToSize(n) == n % SizeMod

TransferInit ==
  /\ megs \in Megabytes
  /\ spc = "connected" /\ amount = 0 /\ left = 0
  /\ rpc = "reading"
  /\ underway = 0 /\ taken = 0 /\ received = 0

\* send_data_to() is called and comes to its first write().
StartSending ==
  /\ spc = "connected"
  /\ spc' = "write"
  /\ amount' = ToSize(ToInt(Asked))
  /\ left' = WriteAmt
  /\ UNCHANGED <<megs, rpc, underway, taken, received>>

\* The kernel takes n units of the write() under way.
Take(n) ==
  /\ spc = "write" /\ rpc = "reading"
  /\ n <= left /\ n <= WINDOW - underway
  /\ left' = left - n
  /\ underway' = underway + n
  /\ taken' = taken + n
  /\ UNCHANGED <<megs, spc, amount, rpc, received>>

\* Mutant: writes are counted and not bytes.
RemainingWrites == ToSize(amount - 1)

\* amount -= tmp
Remaining == ToSize(amount - WriteAmt)

\* while (amount > option_writeamt)
More == Remaining > WriteAmt

\* write() returns option_writeamt, and goes round again or returns 0; main()
\* then closes the connection.
WriteReturns ==
  /\ spc = "write"
  /\ left = 0
  /\ amount' = Remaining
  /\ spc' = IF More THEN "write" ELSE "success"
  /\ left' = IF More THEN WriteAmt ELSE 0
  /\ UNCHANGED <<megs, rpc, underway, taken, received>>

\* Mutant: a short read ends the loop.
ReceiveTillShort(n) ==
  /\ rpc = "reading"
  /\ n <= underway /\ n <= WriteAmt
  /\ underway' = underway - n
  /\ received' = received + n
  /\ rpc' = IF n < WriteAmt THEN "success" ELSE "reading"
  /\ UNCHANGED <<megs, spc, amount, left, taken>>

\* Mutant: only a sender that succeeded ends the stream.
EofOfSuccess ==
  /\ rpc = "reading"
  /\ underway = 0
  /\ spc = "success"
  /\ rpc' = "success"
  /\ UNCHANGED <<megs, spc, amount, left, underway, taken, received>>

\* read_and_ignore_till_end: read() returns n units.
Receive(n) ==
  /\ rpc = "reading"
  /\ n <= underway /\ n <= WriteAmt
  /\ underway' = underway - n
  /\ received' = received + n
  /\ UNCHANGED <<megs, spc, amount, left, rpc, taken>>

\* read() returns 0: the sender closed and everything has been read.
ReceiveEof ==
  /\ rpc = "reading"
  /\ underway = 0
  /\ spc \in {"success", "failure"}
  /\ rpc' = "success"
  /\ UNCHANGED <<megs, spc, amount, left, underway, taken, received>>

-----------------------------------------------------------------------------
(* Failures.                                                                *)

\* The sender is interrupted; the kernel closes the connection for it.
SenderStops ==
  /\ spc = "write"
  /\ spc' = "failure"
  /\ UNCHANGED <<megs, amount, left, rpc, underway, taken, received>>

\* The receiver is interrupted; what is under way is lost.
ReceiverStops ==
  /\ rpc = "reading"
  /\ rpc' = "failure"
  /\ underway' = 0
  /\ UNCHANGED <<megs, spc, amount, left, taken, received>>

\* write() fails, by -1 or SIGPIPE.  A write() whose first part was taken
\* returns that part; the next one fails.
WriteFails ==
  /\ spc = "write"
  /\ rpc = "failure"
  /\ spc' = "failure"
  /\ UNCHANGED <<megs, amount, left, rpc, underway, taken, received>>

\* Data the kernel took before it knew that the receiver had gone.
TakeInVain ==
  /\ spc = "write"
  /\ rpc = "failure"
  /\ left > 0
  /\ taken' = taken + left
  /\ left' = 0
  /\ UNCHANGED <<megs, spc, amount, rpc, underway, received>>

-----------------------------------------------------------------------------

SenderStep == StartSending \/ WriteReturns \/ WriteFails

ReceiverStep == (\E n \in 1 .. WriteAmt : Receive(n)) \/ ReceiveEof

TransferNext ==
  \/ SenderStep \/ ReceiverStep
  \/ \E n \in 1 .. WriteAmt : Take(n)
  \/ SenderStops \/ ReceiverStops \/ TakeInVain

TransferSpec == TransferInit /\ [][TransferNext]_transfer

\* Both processes and the kernel go on while they can.  Nobody has to stop.
TransferFairness ==
  /\ WF_transfer(SenderStep)
  /\ WF_transfer(\E n \in 1 .. WriteAmt : Take(n))
  /\ WF_transfer(ReceiverStep)

TransferFairSpec == TransferSpec /\ TransferFairness

-----------------------------------------------------------------------------
(* Properties.                                                              *)

TransferTypeOK ==
  /\ megs \in Megabytes
  /\ spc \in {"connected", "write", "success", "failure"}
  /\ amount \in 0 .. (SizeMod - 1)
  /\ left \in 0 .. WriteAmt
  /\ rpc \in {"reading", "success", "failure"}
  /\ underway \in 0 .. WINDOW
  /\ taken \in Nat
  /\ received \in Nat

\* Safety: a receiver that reports success has all that the kernel took from
\* the sender, however writes and reads are cut.
SuccessMeansAll == rpc = "success" => received = taken

\* A number of bytes that an int can hold.
Fits == megs # 0 /\ 2 * Asked < IntMod

\* What send_data_to is given for Asked, and how far its count goes round: with
\* less than a buffer to send, the first subtraction wraps.
Given == ToSize(ToInt(Asked))
Round == IF Given < WriteAmt THEN Given + SizeMod ELSE Given

\* Safety: how much a sender that reports success has sent.  The loop of
\* send_data_to ends while up to a buffer is left to send, and never without
\* something left unless it was given one buffer exactly; "@param amount Number
\* of bytes to send" (tcp_sender.c:63) is true of no other amount.  What it
\* counts down from is the number asked for when an int holds that.
OneBufferShort ==
  spc = "success" =>
    /\ IF Round = WriteAmt THEN taken = WriteAmt ELSE Round - taken \in 1 .. WriteAmt
    /\ Fits => Round = Asked

\* Liveness: with no failure in between, a transfer ends, at both ends.
TransferEnds == <>(spc \in {"success", "failure"} /\ rpc # "reading")
=============================================================================
