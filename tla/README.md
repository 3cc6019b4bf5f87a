# Specifications of the cosc402 network programs

This directory holds a formal model of the socket programs in this repository: TLA+ modules
translated from the C source, TLC configurations that check them on small instances, and
proofs, checked by TLAPS, of what holds for every instance.

Paths below are relative to `src/`.

## 1. The system: inventory

The repository is a set of independent programs for a course on network programming. The labs
(`Lab2`, `Lab3`, `Lab4`) are its own code; `Lab2017` is the source of a textbook the course uses,
from which the labs take their headers and wrappers. There is no design document: the statements
about behaviour are the comments, above all the skeletons in the labs.

| Component | State it keeps | Operations | Talks to | What makes it correct |
|---|---|---|---|---|
| Chat server, `Lab3/chatserver.c` | `fd_chats`, `name_chats`, `numChats`; locals of the loop | one turn of `select()`: accept or refuse, read, rename, relay, remove | chatters over TCP | table and kernel agree; `read()` never blocks; a line goes once to everybody else, in one order; nobody is forgotten |
| Chat client, `Lab3/chatclient.c` | the socket | copy socket to screen and keyboard to socket | chat server | it keeps the server waiting only in a write of its own |
| Forking file server, `Lab2/tcp_fork_server.c` | the connection of this turn; one child per client | accept, fork, send a file, close twice | file clients | the end comes after all that was sent; nobody waits for ever |
| File clients, `Lab2/tcp_client.c`, `Lab4/tcp_easy_ipv46_client.c` | the socket | connect, read | file servers | see the above |
| Bulk sender and receiver, `Lab4/tcp_sender.c`, `tcp_receiver.c` | a count of bytes left | write until the count is used up, read until the end | each other | the amount sent is the amount asked for; success means that all arrived |
| Signal-driven UDP echo server, `Lab2017/sigio/dgecho01.c` | a ring of datagrams, `iget`, `iput`, `nqueue`, the signal mask | main loop answers, signal handler receives | UDP clients; its own handler | the ring is a queue; no signal is lost |
| Web clients, `Lab2017/threads/web0*.c`, `nonblock/web.c` | four counters, `f_flags` per file, `ndone` with its mutex, or descriptor sets | connect, read, count, join | their own threads, a web server | the counters are right; every file is fetched once; the program ends |
| Server design alternatives, `Lab2017/server` | `navail`, `child_status`; a ring of descriptors; locks | accept, fork or create, hand over, serve, reap | children, threads, clients | each connection is served once, by one worker; the parent's idea of who is free is right; nothing is dropped |
| Echo and daytime servers, `Lab2017/tcpcliserv`, `intro`, `threads`, iterative file server of Lab 4 | children, or the array `client[]` | the same | clients | the same; no zombies |
| TCP echo clients: `str_cli` in eleven versions, `loop` of `Lab2017/sock`, the client of `Lab3` | buffers, pointers, `stdineof` | copy stdin to the socket, the socket to stdout | an echo server, the user | what was typed is shown, once and in order, and the way the program ends can be believed |
| UDP clients: `dg_cli` with timeouts, retransmission (`Lab2017/rtt`), broadcast (`Lab2017/bcast`), and `ping` | timer, signal mask, jump buffer, pipe, `struct rtt_info` | ask, wait, time out, ask again, give up | UDP servers; their own handler | the answer shown is to this question; a round leaves nothing to the next; a round ends |
| ICMP daemon and its clients, `Lab2017/icmpd` | `client[]` with `connfd`, `lport`; `maxi`, `nready` | register and forget clients, tell them of errors | clients over a Unix socket, two raw sockets | who is answered is told of its own errors; nobody waits for ever |
| Rest of `Lab2017` | little | single system calls shown one at a time | | |

Behaviour that is hard to test, component by component:

* **Chat server.** One thread, but between any two system calls chatters connect, write, leave and
  reset. `fdCheck` is used after `accept()` and after seats have moved. Two parallel tables are
  compacted while they are scanned. `write()` can block, and can kill the process. The bound of
  the tables is tested by hand.
* **Chat server and clients together.** Both sides use blocking writes in the loop that also reads.
* **File server.** The end of a connection is the last of two `close()` calls in two processes;
  `getpeername()` runs after the child may be through; `fork()`, `open()` and `accept()` can fail.
* **Bulk transfer.** Unsigned arithmetic on a count; an `int` between two wider types; a stream
  that is cut differently on the way.
* **UDP echo server.** A handler that runs between any two instructions of the main loop, signals
  that are not counted, a mask that is opened and closed by hand, a ring that wraps.
* **Web clients.** A flag set before the lock and another after the thread was made, a counter
  changed under the lock, a join with the lock held; calls that are pending.
* **Servers.** Connections handed between processes through pipes and between threads through a
  ring; a lock around `accept()`; signals that merge; children that outlive their parent.
* **Echo clients.** Two directions in one loop, buffers that the kernel does not know of, an end of
  input that must not overtake the input, threads and processes that end each other.
* **UDP clients.** An alarm between any two instructions, answers that are late, doubled, or lost.
* **ICMP daemon.** Entries that are reused, a count of ready descriptors spread over four functions,
  clients that leave while they are written to.

`PROJECT.json` lists each of these as a hazard, at its line, with the property that watches over it
and a note where what the code does limits what can be said.

## 2. Modules

| Module | Content |
|---|---|
| `ChatServer` | the chat server and the kernel it sees, chatters that may do anything |
| `ChatRoom` | abstract specification: members, a log of posts, a box per member |
| `ChatServerHistory` | `ChatServer` with history variables, and the mapping to `ChatRoom` |
| `ChatClients` | `ChatServer` composed with the program its chatters run |
| `FileServer` | parent, children, two kinds of clients |
| `BulkTransfer` | sender, kernel, receiver |
| `EchoService` | abstract specification: a bounded FIFO queue |
| `DgEcho` | main loop, handler, signal, socket; the mapping to `EchoService` |
| `WebFetch` | abstract specification: files are new, open or read, and so many are open |
| `WebClients` | the three programs with threads and the one with `select()`; the mapping to `WebFetch` |
| `ServerPool` | abstract specification: a connection waits, is served by one worker, is finished |
| `Servers` | what the server programs have in common: kernel, clients, `accept()`, serving a connection |
| `ServerPrograms` | seventeen server programs over `Servers`; the mapping to `ServerPool` |
| `EchoSession` | abstract specification: what an echo client promises its user, by its manner |
| `EchoClients` | thirteen echo clients, two echo servers, buffers of the kernel and of stdio; the mapping |
| `UdpSession` | abstract specification: rounds of questions and answers, by the client's manner |
| `UdpClients` | fourteen UDP clients, the alarm and its handlers, a faulty network, servers; the mapping |
| `IcmpDaemon` | the daemon and its clients |
| `MC*` | sets and symmetries for TLC |
| `*Proofs` | theorems |

### How state and actions correspond to the code

An action stands for the code between two points other processes (or a signal) can observe, in
all its effects. `PROJECT.json` maps every definition to its lines.

**ChatServer.** `fd_chats`, `name_chats`, `numChats`, `i`, `j` (the relay index of `processChat`),
`fdCheck` and `outbuff` are the program's; `pc` is the call it is about to make. `backlog`, `sock`,
`conn`, `inq`, `outq` are the kernel: the accept queue, what a descriptor refers to, and per
connection its state and the data in both directions. `SelectReturns` computes the flags;
`AddChatter` is `accept()` and all of `addChatter`, which gets the lowest free descriptor, as
POSIX has it; `ReadName` and `ReadChat` are `read()` and `processChat` up to its first `write()`;
`RelayWrite` is one `write()` of the relay, because it may block or raise SIGPIPE (`SigPipe`);
`RemoveChatter` is `read()` returning 0 or -1 with the whole compaction. The tables lie next to
each other in memory, and in the build kept in `Lab3` `fd_chats` ends where `name_chats` begins. The code
can store one chatter past the end of both (finding 1), and the model follows that build: the
descriptor past the end is the first bytes of `name_chats[0]` (`FdAt`, `Seat`, `ShiftFds`). When a
later name has overwritten them, `FD_SET` is called with an arbitrary number and the model stops
(`WildDescriptor`). The byte stream is a sequence of chunks (command prefix, text, newline);
`Terminated` is `buffer[nread-1] = 0`, which overwrites a newline or, after a cut line, a byte of text.

**ChatClients.** `cpc` is the place in `chatUser`. A client is in `select()` or in `write()`; while it is
in `write()` it reads nothing, and its `select()` prefers the socket (`if … else if`). What `Connect`,
`Arrive`, `Take` and `HangUp` do to the kernel is `ChatServer`'s.

**FileServer.** `held` are the parent's descriptors, `child[c]` the child's state with its exit
status. `FinSent` is the kernel's rule: the client sees the end when no process has the
connection open. `ClientCloses` resets the connection when data is unread, otherwise the first
data the server sends afterwards does (`SendFile`). `sendfile()` may return early at any time
(`ChildCutShort`), which the child takes for success, and fails on a reset connection (`ChildFails`).

**BulkTransfer.** `ToInt` and `ToSize` are the conversions at `tcp_sender.c:102` and at the call,
`Remaining` is `amount -= tmp` in unsigned arithmetic, with the widths as constants. `Take` is the
kernel inside `write()`.

**DgEcho.** `pc` names the call the main loop is at, `Blocked` the places where SIGIO is masked;
`sig` and `pending` are the handler and the one pending signal (SIGIO is not counted). The main
loop stands still while `sig = "on"`. `Unblock` delivers a pending signal before it returns.

**WebClients.** `program` says which program runs. `tpc[f]` is the place of the thread of file `f`,
or the state of its connection in `web`. `Create` makes the thread and `FlagCreated` sets
F_CONNECTING afterwards, which `web02` and `web03` do in this order. `Wait` releases the mutex,
`Count` is `ndone++` with the signal, `Lock` also the re-acquisition after a wait; `WakeForNothing` is the
spurious wakeup POSIX allows; `Poll` is a turn of `web02` that finds `ndone` 0. In `web`, `ready` is
what `select()` returned, `Established`, `Refused`, `Piece` and `Fin` are the network; `WriteGet`,
`ReadPiece` and `ReadEnd` the three ends of the scan's body. `Fail` is any wrapper that ends the program.

**Servers, ServerPrograms.** `design` is the program, `kind[c]` what client `c` does. An agent is `main()`
(0) or a worker: a child, a thread, or an entry of `client[]` in `tcpservpoll01`. `pc[a]` and `hand[a]`
are its place and its `connfd`; `MainLoop` and `WorkerLoop` say where it goes after `accept()` and
`close()`. The kernel is `acceptQ` and `holders`: a connection ends for its client when no process
has a descriptor of it left. `lock` is the file lock, thread mutex or `ring` mutex. `navail`,
`child_status`, `inbox` (descriptors on their way to a child) and `freed` (bytes on their way back)
are `serv05`; `ring`, `iget`, `iput` are `serv08`; `nready` is that of the two selecting servers. SIGCHLD is the
flag `sigchld`, since signals merge; `Reap` is the handler, which waits once or until nothing is left.
`Interrupt` is SIGINT, with `KillChild` and `WaitForChildren` the handlers that end the children.

**EchoClients.** A copy is a stream of lines. Each stage of the way is a counter of how many have
passed it: `typed`, `got`, `line`, `sent`, `sread`, `echoed`, `recvd`, `read`, `out`. A buffer's content
is the difference of two counters, which gives the size of the kernel's (`Cap`) and the programs'
buffers (`MAXLINE`). Clients that loop around `select()` are records in `Loops`: by lines or by
blocks, half-close or not, which descriptor first. `pc2` is the second process or thread of the
clients with two agents. `strclinonb` has its own four pointers, which `StagesAgree` ties to the
counters. `manner` is how much of `EchoSession` a client keeps.

**UdpClients.** `timer` is "off", "set" or "pending", `blocked` the mask, `jmpbuf` whether `siglongjmp()` has
somewhere to go, and whether that is of a call that has returned. `AlarmFires` may happen at any
moment after `Arm`; `Handler` is the three handlers. `requests`, `replies` and `inbox` are the
network, by question; datagrams are lost, doubled and overtake each other. `nrexmt` and `rto` are
`struct rtt_info`, where the estimators may amount to any number of `Estimates`.

**IcmpDaemon.** `connfd`, `lport`, `maxi` are `client[]`; `rset` and `nready` what `select()` returned, and
`dpc` the function the daemon is in. A descriptor on its way is `passed`; `raw` are the ICMP messages
in the two raw sockets, `report` the error of which `Tell` informs one entry after the other. `known` is
history: who has been registered. `Rejects` is `clienterr`; a message too short ends the daemon (`ReadIcmp`).

Which module composes which: `ChatClients` extends `ChatServer` and reuses its actions;
`ChatServerHistory` extends it with histories; `ServerPrograms` extends `Servers`, and `Servers` holds
the clients of all of them; `ChatRoom`, `EchoService`, `WebFetch`, `ServerPool`, `EchoSession` and
`UdpSession` are instantiated with refinement mappings. Programs that do not share state are not composed.

## 3. What is checked

| Run | Instance | Shows |
|---|---|---|
| `ChatServer_room` | 3 chatters, 3 seats, 2 posts, 3 connects | `TableSound`, `NamesStay`, `ImplementsRoom`: one order of posts for all, each once to everybody else |
| `ChatServer_bounds` | 2 chatters, 1 seat | violates `TableWithinBounds` |
| `ChatClients_chat` | 3 clients, 1 seat; one sends two `-name=` lines, one a line to relay, one reads its input from a pipe; buffers one line wide | `TypeOK`, `ReadNeverBlocks` with the overflow; `ArrivalsAreAnswered`, `RelayEnds`, `LinesAreRead`, `LeaversAreRemoved` |
| `FileServer_served` | 3 clients of two kinds, 1 connection open at a time | `TypeOK`, `EofMeansAllSent`, `NobodyLeftWaiting` |
| `BulkTransfer_transfer` | 7 sizes from 0 to beyond the `int` | `SuccessMeansAll`, `OneBufferShort`, `TransferEnds` |
| `DgEcho_ring` | ring of 3, 9 datagrams | `TypeOK`, `ImplementsService`, `NoSignalLost`, `NoticedAreAnswered` |
| `WebClients_fetch` | 4 programs, 4 files, 3 connections | `CountsAgree`, `ImplementsFetch`, `EndsOrIsStuck` |
| `Servers_pool` | 17 programs, 3 clients, of whom one may ask for nonsense and one may reset; 2 workers, ring of 3 | `TypeOK`, `AvailAgrees`, `ZombiesAreReaped`, `ImplementsPool`, `GoodClientsAreAnswered`, `ChildrenFollow` |
| `EchoClients_copy` | 13 clients, 2 servers, 5 lines, room for one line and buffers of two | `TypeOK`, `StagesAgree`, `ImplementsSession`, `AllIsShown` |
| `UdpClients_rounds` | 14 clients, 2 questions, 2 hosts, 1 doubled datagram | `TypeOK`, `NothingIsLeft`, `ImplementsSession`, `RoundsEnd` |
| `UdpClients_jump` | `dgclibcast5` with the same bounds | violates `NeverFalls` |
| `IcmpDaemon_errors` | 2 clients, 2 entries, a port of each family, short messages on one socket | `TableAgrees`, `TalkIsOwn`, `ClientsAreServed` |

`CHECK_DEADLOCK FALSE` everywhere: each of these systems may stop. A server waits when nobody
connects, a program that has ended or been killed takes no step, and programs that wait for each
other stop, too; that they do so only where it is said is the business of the liveness properties.

These say "unless" in several places, and name what the code does then:

* The liveness properties of the chat: `Down`, a server that has ended, and `BothWrite`, where server and client
  each wait in `write()` for the other. Their run reaches both, so that each property says that nothing else
  keeps the server from its chatters. `BothWrite` must last for ever to count: the client's user can end it.
* `EofMeansAllSent`: the client has all that was sent, which is the whole file unless there was no file or child, or
  `sendfile()` stopped early.
* `EndsOrIsStuck`: `JoinsTooEarly`, where `main()` of `web02` or `web03` joins a thread that needs the mutex
  `main()` holds, and `DoneIsLost`, where F_CONNECTING has overwritten F_DONE.
* `AllIsShown`: `HeldByServer` (a server that writes through stdio shows nothing before the end of its
  input), `HeldByStdio` (a loop around `select()` that reads by lines has lines select() does not know
  of), `BothWrite` (client and server each wait in `write()`), `EmptyFile` (an input that has nothing
  in it), a killed server, and a stop of `tcp_client` at the end of the input.
* `RoundsEnd`: `Missed`, where the alarm goes off between unblocking and the call it should interrupt, and
  `NoTimer`, a `dg_cli` without a timeout that has lost a datagram. A crash ends a round, too; `UdpSession` says
  who may crash: `dg_send_recv` in any round, `dgclibcast5` in its first, and nobody else.
* `ClientsAreServed`: `Full`, a client that does not read; `Down`, a daemon that was ended by SIGPIPE, a short message
  or a failing read.
* `GoodClientsAreAnswered`: `Spoilt`, where requests with a bad number of bytes have ended every process that serves.

### Bounds, and why they are enough

* *Chatters and seats.* Compaction shows its errors with three seats: one removed, one moved into the place
  just scanned, one moved further. One seat and three chatters is the smallest instance in
  which a seat is taken past the end and somebody is refused as well. In `ChatServer_room` nobody
  renames, and in `ChatClients_chat` one client renames itself, one writes lines and one listens;
  everybody doing everything runs past what TLC finishes, and the theorems of section 4 cover every mix.
* *What is said.* `Says` may hold any pieces of the stream. The runs use whole lines; joined and
  cut lines are covered by the theorems, which hold whatever `Says` holds.
* *Room.* `MaxPosts = 2` shows two posts in order at two readers; `MaxConnects = 3` lets one
  chatter leave and come back. `MaxPosts` and `MaxConnects` are the only bounds of histories.
* *Clients of the chat.* `RCVBUF = 3` holds one line and not two, and `SNDBUF = 1` makes `write()` block as soon as
  possible: the second line of the client that renames itself waits for a server that may be waiting to
  welcome or answer that client. Three clients make one that waits in `accept()`'s queue or is seated while this goes on.
* *File.* Two units with one under way show a client that leaves before, between and after them;
  `OPEN_MAX = 1` makes one failed `fork()` enough for `accept()` to fail.
* *Bulk.* A megabyte is four units and a buffer two, an `int` has 5 bits and a `size_t` 6, so that the sizes
  include zero, sizes below a buffer and of exactly one, sizes that fit, and ones an `int` turns negative or into a smaller number.
* *Datagrams.* Nine of them take the indices of a ring of three round three times.
* *Files on the web.* Four files over three connections: threads are made in the first turn, later, and not at all.
* *Servers.* Three connections for two workers: one waits, is refused or overwrites. A ring of three
  entries holds two and goes once round. A message of two parts is two writes of an error message.
* *Echo clients.* Five lines are more than a way holds whose four buffers hold one or two each.
* *UDP clients.* The second question meets what the first has left. `RTT_MAXNREXMT = 3` is the code's; an `rto` of 2, 4, 8 or
  of 60 and twice that meets both bounds.
* *ICMP.* Two clients in two entries, so that one that comes back gets the entry of the other;
  a port of each family tells errors that match apart from ones that do not, and a returning client may
  have another port than the entry it gets. `SNDBUF = 2` holds an answer and an error.

Symmetry over clients is used only in runs without liveness properties.

### Fairness, and why the code justifies it

* Server, client and main-loop steps are weakly fair: each is a process the system schedules
  whenever it can run. Each fairness condition covers *all* steps of one process, so that a choice
  inside it (an `open()` that fails) is never forced.
* `ChatClients`: the server, each client, and the network, which delivers a reset (`RstArrives`). `ChatServer` alone states no
  fairness: that a chatter reads what it is sent is a matter of the client's code.
* Connecting, typing, leaving, failing and the arrival of datagrams from outside are never fair.
* `DgEcho`: the handler is fair, which is the delivery of a signal that is pending and not blocked.
* `WebClients`: `main()` and each thread are weakly fair, and so is the answer to a connection. Weak fairness suffices
  for the mutex of `web03`: every holder gives it up, a thread takes it once, and `main()` only after
  a thread or a wakeup has ended its wait. In `web02` `main()` takes it again and again; that a
  thread gets it in between (strong fairness of `ThreadLocks`) is what its `thr_yield()` is for.
  Strong fairness of `Fin` says that a reply has an end. `<>[][~ WakeForNothing]_vars` says that waits do not end without a
  signal for ever.
* `ServerPrograms`: some process or thread goes on while one can (`WF_vars(Progress)`), with no fairness among
  them. The runs are finite, so that everybody has gone as far as they can in the end.
* `EchoClients`: client, display, server, and a terminal whose output was stopped goes on in the end (`ResumeOutput`).
* `UdpClients`: the program, an alarm that is set, a signal that is not blocked, servers, and the arrival of what is not lost.
* `IcmpDaemon`: the daemon, and each of the clients' calls. That an ICMP message is sent, and that a client asks or leaves, is not fair.

## 4. What is proved

All theorems hold for every value of the constants that satisfies the assumption its module states about
them. The assumptions only say that sizes are positive numbers and sets are what they are called, and
keep names apart: a client of the ICMP daemon is not called `listenfd`, and "no connection" is neither a
connection nor a thread. `SizesAssumption` of `BulkTransfer` also asks for a buffer no longer than a
megabyte and a `size_t` no narrower than an `int`. Every safety property and every refinement that a passing run checks is a theorem.

| Module | Theorems | Argument |
|---|---|---|
| `ChatServerProofs` | `TypeCorrect`, `ReadsReturn`; with at most `MAX_CHATS` chatters `TableAgrees`, `TableFits`, `NamesBelong`, `ServerIsTheRoom`; with the clients `ReadsReturnToo`, and with room for what is typed `NoDeadlockWithRoom` | below |
| `ServerProgramsProofs` | `TypeCorrect`, `ServersReapZombies`, `TableOfChildren`, `ConnectionsHaveOnePlace`, `ServersImplementPool` | below |
| `TransferProofs` | of the file server `TypeCorrect`, `EofIsTheEnd`; of the bulk transfer `TransferTypeCorrect`, `ReceiverHasAll`, `SenderStopsShort` | below |
| `IcmpDaemonProofs` | `TypeCorrect`, `TableIsRight`, `ErrorsReachOwners` | below |
| `DgEchoProofs` | `TypeCorrect`, `RingImplementsQueue`, `SignalsAreKept` | below |
| `WebClientsProofs` | `TypeCorrect`, `CountersAreRight`, `SomethingIsFound`, `ProgramsImplementFetch` | below |
| `EchoClientsProofs` | `TypeCorrect`, `NothingIsInvented`, `ClientsKeepTheirManner` | below |
| `UdpClientsProofs` | `TypeCorrect`, `RoundsAreClean`, `ClientsKeepTheirPromise` | below |

**Chat server.** `ReadNeverBlocks` is not inductive: that a flagged seat has something to read
depends on `fdCheck` being about the same connections as the table, though `accept()` and
`remove_chatter` have happened since. The invariant `IInv` adds `OneDescriptor` (a connection that
waits in the backlog has no descriptor, any other at most one), `QueueSound`, `TableOpen` (listed
descriptors are open and distinct, or the wild one) and `FlagsFresh` (the flags of seats still to
be scanned are true). `FlagsFresh` survives `AddChatter` because a new descriptor was free, and so
not flagged; it survives `RemoveChatter` because compaction moves seats towards the front but only
`i` itself to a place already scanned, and the freed descriptor is in no seat any more. It holds
with the overflow, too. `RoomInv` adds `numChats <= MAX_CHATS` and `Registered = OpenFds`
under `FewChatters`; it gives `TableSound`, and with the effect of each action on seats `NamesStay`.

`ServerIsTheRoom`: the step that reads a line is `Room!Speak`, each `write()` of the relay loop is
`Room!Deliver`, and seating and removing a chatter are `Room!Join` and `Room!Leave`. In `ChatRoom` a
reader has a place in the sequence of posts; in the server that place exists only during the relay: a
seat that `j` has not reached is one post behind, all others have everything. `HistoryInv` says why this is
a mapping. `RelayFits`: before and after the loop `outbuff` is something else or `j` has passed every
seat, and the author is `Chatter(i)`; `HistoryFits`: what is relayed is the newest post, and who has no seat has
no inbox. `DealtNow` counts what each chatter has been dealt, and every action leaves it alone or
moves one chatter on by one. The theorem assumes `AnyBody` (whatever can be written is a body `ChatRoom`
knows), which gives a parameter of the abstract module its widest value and says nothing of the server.

Every step of the clients is one of `ChatterStep` or leaves the server's variables alone, by their
definitions, so what holds of `ChatServer` holds with these clients, too (`ClientsAreChatters`, a lemma).
`NoDeadlockWithRoom` goes on from there: a user's lines are either still to be typed, being written, or at most
those in the connection (`LinesFit`), so that a client in `write()` has room, and `Wedged` is false.

**Server programs.** `Typed` adds to the types which places each design has (`PlacesFit`), who holds a
connection where (`HandsFit`), and that `nready` is what `poll()` can return (`ReadyCounts`). For `TableOfChildren`
a child of `serv05` has one notice on its way for each status 1: `ChildAgrees` adds what lies in its pipe,
what it works on, and what it wrote back, and every action moves one from one of these to
the next; `CountAgrees` is then about the set of children with status 0.

`ServersImplementPool` needs that a connection is in one place only, as the stage of a connection in
`ServerPool` is read off its place. `OnePlace` says so: the backlog, the pipes, the ring and the hands hold
a connection at most once (`QueueOnce`, `PipesOnce`, `RingOnce`, `HandsOnce`) and no two of them hold the
same (`Apart`), with the exception of the parent that has forked and not yet closed its copy.
`MainOutlives` (no thread, and no child that listens, outlives `main()`) is what makes the mapping of the
end of a server right. For the ring the filled slots are those from `iget` to before `iput` round the
ring; `iput` fills a free one and `iget` frees the first, as long as the server has not given up with "full". Each
action is then one of these: nothing the pool sees, a connection that comes (`Arrive`), waits in another place,
is taken up (`Serve`) or let go (`Finish`, `Abort`), or the end of the server (`Stop`).

**File server and bulk transfer.** `NothingLost`: while the client is there, what its child has sent is what
the client has read and what is under way; `ExitedHasSent`: a child that came to its end has sent the file;
`EofIsFinal`: after the end of file nothing can follow, as the child is through. In the bulk transfer `CountRight`: what the kernel
took is the amount asked less the count left, plus the write under way, as no conversion
changes a size that fits; `AllAccounted`: until the receiver stops, what was taken is received or under way.

**ICMP daemon.** `nready` is decremented once for each function the loop calls. `ToCome` is the part of
`rset` the loop has still to look at, and `CountFits` says that `nready` is its size: the call removes
one element, and a connection accepted meanwhile is not in `rset` (`LoopFits`). `EntriesFit` needs that a connection is new, waits for `accept()`, has one entry
or is closed (`ConnectionsFit`), and that a port is written to an entry only when the
client it belongs to registers. For `TalkIsOwn` one has to look at what is unread before the answer is: whatever
is written to a connection follows the answer or is no answer, and what follows the answer was written to an
entry that had the port of its owner by then.

**UDP echo server.** `RingClosed` says that the handler writes behind the last datagram that
waits for an answer, where a buffer that is answered but still counted (`Answered`) is not
waiting; `Busy` that it is counted until the decrement. From these, `Receive` appends to the queue
read off the ring, `SendTo` takes its head, and everything else leaves it as it is, so that each
step is one of `EchoService` or a stutter. `NoSignalLost` follows step by step.

**Web clients.** `Linked` says that `f_flags` determines where the thread of a file can be, with the
exception of F_DONE that was overwritten; `Places` what each place of `main()` implies for its mutex
and counters. Then each action moves one file between the sets the counters count (`Counters`), and
the same sets are the states of `WebFetch`, so that every step opens or finishes one file or is a
stutter. `nlefttoread` is 0 only when all are read, which is the guard of `End`.

**Echo clients.** `StagesAgree`, which orders the stages, needs `Places` (what a place of an agent
says about the counters: after a read something is held, at the end of the input everything typed
was taken) and `Ends` (what a program knows when it ends). From `fin` and an end of file seen on the
socket follows that all stages are equal (`AllIsBack`): this is why "normal" can be believed.

**UDP clients.** `NothingIsLeft` needs where an alarm can be on its way (`Alarm`), when the pipe holds a
byte (`Pipe`), and that an answer in hand answers the question of the round for the client that
compares sequence numbers (`Answer`).

### Only model-checked

* All liveness properties: `ArrivalsAreAnswered`, `RelayEnds`, `LinesAreRead`, `LeaversAreRemoved`,
  `NobodyLeftWaiting`, `TransferEnds`, `NoticedAreAnswered`, `EndsOrIsStuck`, `GoodClientsAreAnswered`,
  `ChildrenFollow`, `AllIsShown`, `RoundsEnd`, `ClientsAreServed`. Liveness under fairness is out of
  the prover's reach: their counterexamples are infinite behaviours, and weak fairness is stated with ENABLED.
* That `TableWithinBounds` fails with one chatter too many: the run shows the way there, `TableFits` that
  fewer never find it.

## 5. Findings

`ChatServer_bounds`: `chatserver.c:209` refuses a newcomer when `numChats > MAX_CHATS`, the
comment at 168-169 asks for "no smaller than". One chatter too many is stored past the tables.
The theorems say exactly what is left: without that chatter the table is sound, with it `read()` still never blocks.

`UdpClients_jump`: `dgclibcast5.c` calls `alarm(5)` at line 26, before its first `sigsetjmp()` at line 28, and
`bcast/Makefile:23` calls it "Correct version using sigsetjmp()/siglongjmp()". A process held up for that long between
the two jumps into a buffer that was never set. Later rounds jump into the frame of `dg_cli`, which is still there.

What follows is in the models, and shown by no run of its own.

Programs that stop or end where they should go on:

* The chat server and a client wait in `write()` for each other when both directions are full, and
  nobody is served any more (`BothWrite`). `ChatClients_chat` reaches this, and shows that nothing else keeps a relay from
  its end; `NoDeadlockWithRoom` says that it takes a user who types more than the connection holds.
* The Lab 2 file server takes any `sendfile()` that does not return -1 for success (`tcp_fork_server.c:97`). It
  may return early, because of the kernel's limit for one call or a file that has shrunk: the client sees an
  ordinary end after a part of the file, and the child exits with 0 (`ChildCutShort`).
* The bulk sender stops while up to a buffer is left to send (`while (amount > write_size)`, `tcp_sender.c:88`), and its count
  wraps when less than a buffer was to be sent, though `tcp_sender.c:63` says "@param amount Number of bytes to send". It
  sends that number only if it is one buffer exactly (`OneBufferShort`); sizes beyond the `int` become other numbers
  before that (`Given`).
* The parent of the file server calls `getpeername()` after the fork and ends when it fails
  (`tcp_fork_server.c:162`): a client that has reset its connection by then ends the server.
* `main()` of `web02` and `web03` holds `ndone_mutex` and joins a thread that has set `F_DONE` but not
  yet locked the mutex (`JoinsTooEarly`). In `web02` a quick thread's F_DONE is overwritten by the
  F_CONNECTING `main()` sets after it has made the thread (`web02.c:64-68`): the file is never joined,
  and `main()` polls for ever (`DoneIsLost`).
* `nonblock/web.c:59` reports a failed `connect()` and then writes its request to the socket all the
  same; SIGPIPE ends the program (`WriteToNobody`).
* `dg_send_recv` jumps out of the handler, too. When the alarm comes before the `sigsetjmp()` of a call, there is nowhere
  to jump to, or only into a call that has returned.
* `dg_send_recv` may give up with "no response from server" when the answer is in hand already (`dg_send_recv.c:88`).
* `dgclibcast1`, `2`, `3`, the fourth with the `pselect()` of `lib`, and `dgclitimeo3` wait for ever when the alarm goes off just
  before the call it should interrupt (`Missed`).
* The ICMP daemon is ended by a client that leaves while it is written to (SIGPIPE), or that leaves
  unread data behind (the reset makes `Read_fd` fail), and by an ICMP message that is too short.
* The loops around `select()` of `Lab2017/select` and `sock` wait for each other with the server (`BothWrite`).
* One request with a bad number of bytes ends a child, or with threads the whole server (`Refuse`, `Spoilt`). In `serv05` each
  byte of the child's last message counts as a notice that it is free, so that `navail` exceeds the number of
  children with status 0, and the parent may end with "no available children" (`PassConn`).

Behaviour that the source makes no statement about: a relay to a chatter whose connection was reset
ends the chat server (`SigPipe`); a line
that arrives in two parts loses a byte, and what arrives together with a `-name=` command becomes
part of the name (`Terminated`, `ReadName`); the chat client does not end when the
server does (`ClientReadsSocket`); the Lab 2 client shows only the first piece of the
file (`ClientReads`); a failed `fork()` keeps a descriptor open (`ForkFails`); the Lab 4 server
ends after one failed `open()` or `sendfile()` (`SendFails`); a UDP ring that has just become full ends the server even when nothing is left
to read (`Overflow`); datagrams that arrive before FIOASYNC wait for the next one, and between
FIOASYNC and FIONBIO the handler blocks (`Async`, `Nonblocking`); `rtt_timeout()` doubles `rtt_rto` without
`rtt_minmax()`, so that it exceeds `RTT_RXTMAX` (`rtt_timeout`); `strclinonb` may end with output
in its buffer ("partly" in `EchoSession`); `strclithread2` may blame the server for its own end
("mistaken"); a new client of the ICMP daemon has the port of the entry's last client until it
registers, takes an error about that port for a refusal, and gives up (`ReadAnswer`).

## 6. What is not modelled

* Setting up listening sockets, `main()` functions and the parsing of arguments: they run once,
  before anything concurrent. `home_page()` of the web clients, too; `sig_hup()` and the counters
  that `meter.c` and `pr_cpu_time.c` print.
* Printing, wording and addresses; names longer than `NAME_SIZE`; lines cut into pieces in `EchoClients`.
* In `FileServer` the time between the client's close and the reset, and in `WebClients` reads of
  `f_flags` that see an older value: such a read only delays a join.
* In `IcmpDaemon` answers to questions, ICMP messages about nothing a client has sent, and clients whose socket is not
  bound, for which `readable_conn()` would bind it. That a newcomer is
  turned away from a full table is in the model, but two clients do not fill two entries.
* A branch that cannot be taken: a scan of `tcpservpoll01.c` that ends with `nready` above 0.
  "no available children" (`serv05.c:58`) is in the model, but takes a bad request and four connections, one more than
  `Servers_pool` has; the proofs cover it.
* Heartbeat functions (`Lab2017/oob`): what they promise is about how long a byte takes, and these models
  have no clock; without one every failure they can report may be reported.
* Socket buffer tools of Lab 4, SNTP, routing tables, session directory, SCTP, key management, streams and multicast
  programs, ioctl and sockopt examples: each calls a few interfaces of the system in a row and prints the result,
  and keeps no state between calls. A model of them would be a model of those interfaces.
* `getaddrinfo()` in `libgai` and `libfree`, and the wrapper library: conversions of names and addresses, and wrappers that end
  the program on failure. The latter's effect is part of the actions that call them.
* `bsdping.c`, the ping of BSD kept for comparison; `config.*`, generated and copied headers.

## 7. Plan

Done: the chat server and its clients, the file server, the bulk transfer, the signal-driven UDP
server, the web clients, the server design alternatives, the echo clients, the UDP clients and the
ICMP daemon, each with an abstract specification where there is something to promise.

Everything these modules promise about safety is proved. What would add most, in this order:

1. Of liveness, the part that is safety: that a server can always take its next step until it has nothing
   to do, as an invariant about the guards.
2. Heartbeat with a clock that ticks between bytes.
