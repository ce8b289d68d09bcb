# Verification of the network programs of this repository

The repository holds the programs of a course on network programming: a
threaded chat server, an IRC server, a file transfer over UDP, a DNS server and
smaller ones. This directory holds TLA+ modules that model them, TLC
configurations that check the models on small instances, and theorems that the
TLA+ proof system TLAPS proves for every instance.

## 1. The system

The programs are independent: each is one process (or a client and a server)
that talks to its peers over sockets. Nothing is persistent but the files that
`Lab8/server.cpp` writes.

| program | state | operations | how its parts interact | what is hard |
|---|---|---|---|---|
| `Lab5/server.cpp`, chat server | `client[2048]` (valid, socket, name), `message_q[]`, `mutex[]`, `cv[]`, `send_thread[]`, `current_client_num`, `num_mutex` | accept and seat a connection; per connection a chat thread (welcome, landed, read lines and `/name`, `/who`, broadcast, goodbye) and a send thread (drain the queue of the slot) | shared arrays; condition variable per slot; `pthread_cancel` | slots reused while threads of the last owner still run, unlocked reads of `valid`, lost wake-ups, mutexes re-initialised in use, `send()` that blocks with a mutex in hand |
| `hw1/server.cpp`, IRC server | `client[100]` (fd, name, cur_ch, joined_ch), `ch_list`, `current_client_num`, `allset`, `rset`, `maxi`, `maxfd`, `nready` | a round of `select`: accept one connection, read each ready client, NICK, JOIN, PART, TOPIC, LIST, USERS, PING, PRIVMSG, QUIT | one thread; descriptors come back from the kernel | tables that must agree through accept, quit and reuse; commands that arrive together; clients that vanish; a full array; an `accept` that fails |
| `Lab8/client.cpp`, `Lab8/server.cpp`, file transfer | client: `check_list`; server: `check_list`, `file_tmp`, `file_len`, `file_fin` | send a segment and wait one microsecond for an acknowledgement; acknowledge, store, write the file when complete | UDP packets | loss, delay, repetition, reordering; deciding that a file is complete; being killed while writing one |
| `hw2/dns.cpp`, `hw2/demo/dns.cpp`, DNS server | configuration, zone files re-read per query | answer A, NS, SOA, AAAA (demo: TXT) for the own domains, forward the rest | UDP; a blocking call to the foreign server | matching of names, indices that are set only on a match, a reply that never comes |
| `Lab7/webcrawler.cpp`, web checker | `jobs`, `status[2]`, `jcount`, `mut`, `cv` | the menu adds jobs, two workers take them, resolve, test, fetch, retry | condition variable; the static result of `gethostbyname2` | lost wake-ups, a mutex that the queue and the status share, a result both workers overwrite, an end with jobs in hand |
| `Lab7/oracle.c`, `oraclep1.c` | stage and secret of two oracles, `oseed`, the static buffer of `gen_secret` | message, two guesses, showing the secret | one thread, alarm | a static buffer and a seed that both oracles use |
| `Lab9/solver.cpp`, `solve_sudoku.cpp` | `map`, `ifsend`, the frames of `backtrace` | backtracking, sending, the final check | requests to the puzzle server | tests that cover a box only in part; a search that goes on after a solution |
| `Lab4/nkat.cpp`, command server | `clientSocket`, the child, who has a socket open | accept, fork, run the command (once more if not found), close, wait | processes that share a socket | a connection held open, children not waited for, fork that fails |
| `Lab2/unpacker.cpp` | the segment being filled, the xor so far | per entry: read, xor, compare, write | files | short and empty last segments |
| `Lab3/tcp_2.cpp`, paced sender | `start`, `end`, `bytesent` | measure, write, stamp, sleep | clock, TCP | time that passes between any two calls |
| `Lab3/tcp_1.cpp`, `Lab5/test.cpp`, `Lab6/server.cpp`, `hw1/backup.cpp`, `hw1/test.cpp`, solver scripts | see section 6 | | | |

`PROJECT.json` lists every component with what is modelled of it, and under
"hazards" the places where the code can go wrong in a way a test hardly
reaches, with the properties that cover them.

## 2. Modules

| module | models | kind |
|---|---|---|
| `ChatServer`, `ChatServerProofs`, `MCChatServer` | `Lab5/server.cpp` | specification, theorems, instances |
| `ChatSeated`, `ChatSeatedProofs` | the chat server while every slot is taken | specification (another initial state) with its inductive invariant, theorems |
| `IrcServer`, `IrcServerProofs`, `MCIrcServer` | `hw1/server.cpp` | specification, theorems, instances |
| `FileTransfer`, `FileTransferProofs`, `MCFileTransfer` | `Lab8/client.cpp` and `Lab8/server.cpp`, composed over a link | specification, theorems, instances |
| `DnsServer`, `DnsServerProofs`, `MCDnsServer` | `hw2/dns.cpp`, `hw2/demo/dns.cpp` | specification, theorems, instances |
| `FileStore` | what the transfer promises | abstract specification |
| `WebCrawler`, `WebCrawlerProofs`, `MCWebCrawler` | `Lab7/webcrawler.cpp` | specification, theorems, instance |
| `JobQueue` | what the queue of the crawler promises | abstract specification |
| `Sudoku`, `SudokuProofs` | `Lab9/solver.cpp` | specification, theorems |
| `Oracle` | `Lab7/oraclep1.c`, `Lab7/oracle.c` | specification |
| `Pacer` | `Lab3/tcp_2.cpp` | specification |
| `CommandServer` | `Lab4/nkat.cpp` | specification |
| `Unpacker` | `Lab2/unpacker.cpp` | specification |
| `Labs`, `LabsProofs`, `MCLabs` | the five programs above, one of which is chosen at the start | composition, theorems, instances |

In every specification the names of variables and actions are those of the
source where there is one. A definition whose name begins with `Bad` is a
plausible mistake in the definition that follows it; it is used by no action. It
is there to show that a property notices the mistake when it takes the place of
the definition ("mutants" in `PROJECT.json`).

### ChatServer

*State.* `valid`, `socket`, `name`, `message_q`, `mutex`, `send_thread`,
`current_client_num` are the arrays and the counter of the program. `main`,
`chat[u]` and `sender[u]` are the program counters and the local variables of
main, of the chat thread and of the send thread that were started for
connection `u`. `full` are the connections whose socket buffers are full. The
server never closes a socket, so descriptors are never reused and a connection
is identified with its socket.

*Actions.* One per step between two accesses to shared data: `Accept`,
`AcceptFails` (the process exits, 395-401), `Scan` (one look at
`client[i].valid`), `Fill` (the name, then `valid`, under `num_mutex`),
`FillSocket` (the socket, a step later: who broadcasts may look in between),
`InitLocks` (the locks and the count), `CreateChat`; for a chat thread `Peer` (one
look at the next slot of a broadcast), `LockQueue`, `Push` (push, signal and
unlock), `SpawnSender`, `Receive`, `Text`, `Leave` (`valid`, with `num_mutex` in
hand) and `CountOut` (the count and the unlock), `Bye`, `DestroyMutex`,
`DestroyCond`, `CancelSender`; for a send thread `LockOwn`, `FindEmpty` (the test
of the queue), `Wait` and `WaitFails` (`cond_wait`, a step later), `Wake`, `Send`,
`Unlock`, `SendFails`, `CancelledInSend`, `CancelledInWait`. `Stall` and `ReadOn`
are a client (of `Slow`) that stops reading until the buffers are full and reads
on. `Send` waits for it, with the mutex of the slot in hand, and behind it wait
all who broadcast to that slot.

*pthreads.* The program relies on what the C library does with a mutex that is
destroyed or re-initialised in use. The model takes the behaviour of glibc (the
library the shipped binary is linked with): using a destroyed mutex fails and is
not noticed, destroying a mutex in use fails, a cancelled waiter takes the mutex
before it dies. When two threads are in the critical section of one queue, the
queue (a `std::queue`) is raced: the model lets it either keep working or take
the process down (`Crash`).

*ChatSeated.* Promises about lines are promises to users who stay. `SeatedInit` is
the server with every slot taken, everyone landed and nothing under way, for any
seating; from it the actions are those of `ChatServer`. TLC reaches it from `Init`
(2 users, 2 slots). Whoever connects after
that walks past every slot (`Scan`).

*Data.* Message texts are their kind, the name they show and the thread that
formats them. A buffer from `recv` is a sequence of pieces: commands, lines
and parts of lines. Names are the connection whose name it is.

### IrcServer

*State.* The fields of `client[]`, `ch_list`, the counters and sets of the select
loop, and around them the kernel's descriptor table (`owner`), the listen queue,
the socket buffers (`inbox`) and the state of each TCP connection (`link`).
Three variables record history: `unserved`, what select reported and was not yet
read; `failed`, how often `accept` failed; `spoilt`, the channels of which the
number of users was miscounted (see `UsersCountMembers`).

*Actions.* `Select`, `Accept` or `AcceptOverrun`, `Skip` for a slot that is not
ready, and one action per command for one that is. `Answer` stands for all the
commands that change no table. A command is everything its handler does together
with what main does around it (`Served`: the read, the clearing of `buf`,
`--nready` and the way on). `Sigpipe` is a write to a connection that was reset.
`AcceptFails` is an `accept` that returns -1, which nothing tests (403): the
client is counted, its slot gets the descriptor -1, which is the mark of a free
one, and `FD_SET(-1)` sets the bit of another descriptor (`StrayFd`), or aborts in
a build that checks its argument. Where that descriptor is not open,
`select` fails once `maxfd` has reached it (`SelectFails`). The model stops there,
where the array is full (`AcceptOverrun`), and where SIGPIPE ends the process:
`pc` is "lost", "overrun" or "killed".

*Data.* One `read` takes all a client has sent; the first command in it is
dispatched and the rest becomes part of the argument of NICK, JOIN and TOPIC:
`Args` is the name itself, or the whole buffer as a junk name. Before the first
`memset` the end of the argument is whatever the stack held. PART and PRIVMSG
are taken with the blank that ends the channel name, as IRC clients send them.

### FileTransfer and FileStore

*State.* `acked`, `pc`, `i`, `j` of the client and `inq`, the acknowledgements in
its socket buffer; `held`, `file_len`, `file_fin` of the server and what it
`written` to each file; `data` and `acks` are what is on the link. These are
sets: a packet that is in one may be delivered any number of times, which
includes every number of copies.

*Actions.* `SendSegment`, `SkipSegment`, `NextFile`, then `ReceiveAck` or
`Timeout`; `Receive` is one round of the server's loop (one thread, nothing of
the system can come in between); `Lose` and `Arrive` are the link. A packet that
is corrupted fails its UDP checksum and is a lost one. `Kill` is the end of both
programs at a fixed time, `Lab8/README.md:87`; it may come in the middle of
`Receive`, and then the file being written holds a beginning of itself
(`Beginning`). After it there is no step, and nobody is left to whom an
acknowledgement means anything.

*Data.* A segment stands for up to 1024 bytes and lengths are counted in segments;
that the byte lengths add up to the file's size exactly when all segments are
counted holds because each is positive. `Cut` marks segments with a NUL byte, for
which `strlen` gives less; the model takes the least. The arrays of both programs
have 1005 rows (`MaxFiles`) of 32 segments (`OffsetSize`) and no index is tested:
`ConstAssumption` takes files that fit, and section 5 says what becomes of others.
A `recvfrom` of the server that returns -1 (84) is not modelled: its socket is not
connected and has no timeout.

`FileStore` is the promise: a file is in the directory whole and once, or not at
all, but for one that a kill may leave broken. `FileTransfer` implements it under
the mapping `Stored`.

### DnsServer

*State.* `inbox` is the buffer of the server's socket; `pc` and `cur` are the call
the server is in and the query in hand (`header`, `question`, `csin`);
`zone_src` is the vector of lines; `socks` counts the sockets opened for the
foreign server; `requests` and `answers` are on the link to it. `zone` is the
state of the zone files on the disk. `replied`, `asked`, `since` and `tries`
record what each client got and asked, which states the zone files were in
since, and how often it sent its last query. A zone file is a sequence of lines,
or `Unreadable`: it cannot be opened or has a line of 128 characters or more, and
the loop that reads it never ends ("spin").

*Actions.* A round of the loop is `Recv`, then `ReadZone` and `Answer` (or
`Crash`), or `Forward` and `Relay`. Files are replaced as a whole (`EditZone`), so
that reading one is one step. `ForeignAnswer` and `Lose` are the foreign server
and the link; `Ask` and `Retry` are `dig`, whose packets may be lost or find the
buffer full.

*Data.* The reply to a query is an operator per type (`ReplyA`, `ReplyAAAA`,
`ReplyNS`, `ReplySOA`, `ReplyTXT`) of the query and the lines of the file, with the
peculiarities of the code: the first label alone is looked up, the question
repeated is the first label and the domain, the last character of an address is
removed (`Address`; it is the carriage return of a line that has one), and an index
that no line has set is used in any case (`WildIndex`). Names have less than 50
characters, for which the arrays of main are made.
The name of a name server is reduced to its first label; `Domains`, the
configuration, is a constant.

### WebCrawler and JobQueue

*State.* `jobs`, `jcount`, `mut` and `status` are the program's. `pc`, `job`,
`addr` and `attempt` are where each worker is and the variables of its `do_job`;
`main` is the main thread. `ent` is the address in the static buffer that
`gethostbyname2` returns a pointer to, or `Junk` while a lookup is under way and
after one that failed.

*Actions.* `Add` is `add_job` up to its unlock and `Notify` what follows; the
seventeenth request (`AddTooMany`) and `Quit` end the process. A worker takes a
job (`Take`) or finds the queue empty with the mutex in hand (`FindEmpty`) and
goes to sleep (`Sleep`); `WakeUp` is a wait that ends without a notification.
`do_job` is `Parse`, `BeginLookup`, `EndLookup` or `FailLookup`, `Unresolved`,
`Check`, `CheckStar`, and twice `Connect` with `Fetch` or `FailFetch`. `ent` is
read in three steps: what it holds by then may be of the other worker's lookup,
or anything (`Reads`). The four reads of the tests for private addresses are one of
them, `Check`: its outcomes are the same, as the lookups that change `ent` may come
before or after it. `update_status` takes the mutex, so a step that shows
something waits for it. `Die` is the end of the process: a pointer in the buffer
that leads nowhere, or SIGPIPE at a write (77).

*Data.* A server is a name with the addresses it resolves to; a request that is
not `server/port` is one of `Malformed`. The four tests for local and private
addresses are membership in `Private`. The number of a job is kept with it, so
that requests for the same server are told apart.

`JobQueue` is the promise: first come, first served, each job once; `WebCrawler`
implements it with `busy` the job of each worker that runs `do_job`.

### Sudoku

The recursion of `backtrace` has no stack of its own in the model: `count` is the
cell of the frame that runs and `at` where it is ("call" on entry, "try" before
`isPlace`, "return" when the frame above has returned). The number in the cell is
the loop variable, and `ifsend` says whether the frame filled the cell or skipped
it. `Send` is the loop that sends a solution cell by cell and waits for each
answer; `board` is what the puzzle server has.

### Oracle, CommandServer, Unpacker, Pacer

`Oracle` has one action per task of the stage table. A secret is the seed and how
many were made since; what an oracle keeps is a copy of it (`Copied`,
`oraclep1.c`) or the static buffer (`oracle.c`). `CommandServer` keeps which
processes have a client's socket open (`holders`), because the client sees its end
only when none has. `Unpacker` takes the content byte by byte, as the code does; a
byte is one bit, as xor treats the bits of a byte apart. In `Pacer` time passes
(`Tick`) before any of the other steps; each call of `gettimeofday` is one of them.

## 3. What the runs check

| run | instance | shows |
|---|---|---|
| `chat_churn` | 2 users, 2 slots, one may leave, each sends one `/name` | `TypeOK`; `OnlineCount`: the count equals the taken slots; `SlotOwned`: a taken slot has exactly one owner, and its data |
| `chat_lines` | 2 users who stay, 2 buffers each, one may stop reading and read on again and again, from `ChatSeated`: both have landed, in either seating | `LinesInOrder`, `LineDelivered`: each line arrives once, in order, and in the end; `NoLostWakeup`; `QueueExclusive` |
| `chat_goodbye` | 3 users, 2 slots | counterexample: a goodbye with the name of somebody who is still there |
| `chat_welcome` | 2 users, 2 slots, one may leave, fair | counterexample: a user is never welcomed |
| `irc_rounds` | 3 clients (one joins and parts and may vanish, one joins, takes a nickname and quits, one writes to the channel and sets its topic), 2 slots, 3 commands in all, one `accept` that fails; fair | `TypeOK`; `TablesAgree`: the tables tell one story, and each failure of `accept` leaves one client too many counted and no more; `RoundServed`; `ChannelsListed`; `UsersCountMembers`: the number LIST shows is that of the members unless one of three miscounted things has happened in the channel; `CommandsRead` |
| `irc_rejoin` | 2 clients, 2 slots, JOIN and QUIT | counterexample: a JOIN that is refused |
| `transfer` | a file of 2 segments, which fills its row of the arrays, one with a NUL byte, an empty one; fair link; killed at any time or not | `AckedHeld`: no segment is given up that the server lacks; `SilentStored`: a plain file is in the directory when all its segments are acknowledged; `StoreSpec`: the transfer implements the abstract store, files whole and once or not at all and in the end; `AllAcked`; `TypeOK`: the indices stay inside the arrays |
| `crawl` | 2 workers, 3 requests, each for a server with two public addresses (one never answers), one with a private address, or malformed; lookups and fetches may fail, lookups overwrite each other's result, the process may die; fair workers | `TypeOK`; `NoLostWakeup`: no job is left to a worker that sleeps; `JobEnds`: a job that was begun ends unless its server is silent; `QueueSpec`: the crawler implements `JobQueue` |
| `dns_serve` | 2 clients with one query of 9 (one of a type the server drops), sent up to twice; 2 domains, 2 states of the zone files, lines with and without carriage returns, 2 sockets, a buffer of 2 | `TypeOK`; `Correlated`: replies answer a query of who gets them; `AddressFromZone`: addresses are what a line of the file said since the query, without the last character if the line has no carriage return; `Served`: what arrives, and is not of a type the server has no branch for, is answered unless the server is held up |
| `dns_types` | 2 clients, queries of types A and MX for an own domain, complete files | counterexample: the query of type MX is never answered, although nothing is lost |
| `dns_lost` | 2 clients, an own and a foreign name, complete files | counterexample: after a lost foreign reply own names are not answered |
| `labs` | one of: a sudoku of boxes 2 by 2 (5 boards: one solution, several, none), 2 oracles with 2 seeds and 3 secrets each, 3 clients and a backlog of 2, archives of 2 entries of 6, a clock of 5 units and a rate of 2 | `SentValid`, `AllSent`; `SecretKept`; `NoChildLeft`, `Served`; `OnlyIntact`; `Paced`; `ProgramsTypeOK` |

*Bounds.* Two users and two slots are the least that have a broadcast meet an
arrival or a departure in another slot; a third user on two slots takes over a
slot somebody gave up. Two lines of one user are needed for order, two buffers for
a line that comes in parts. Three clients for two IRC slots have a slot and a
descriptor used again, and the array overflow; three commands in all arrive in one
buffer or in several, and are enough for a member to vanish or QUIT and the next
client of the slot to come; one failure of `accept` is enough to have the stray
bit set before, between and after the others (each further one does the same). Two
segments are the least with a file half received and one acknowledgement that is
taken for the other. Two clients use the same id, two forwarded queries (with the
repetitions: four, for two sockets) let a late answer meet another query, and the
second state of the files has another address for the same host, no carriage
returns, and one file that cannot be read. Two workers and three requests have a
worker woken for a job that the other one takes, and both workers in `do_job` with
a job waiting; the bound on requests is the program's own (`MAX_ATTEMPTS`, 16).
Boxes of two by two have every relation between cells that boxes of three by three
have. Entries of none, one and a half and two segments reach both ends of the
loop, and 6 times 6 archives every pair. `MaxRecv`, `MaxSends`, `MaxFailures`,
`MaxAsked`, `MaxTries`, `MaxDrawn` and `MaxTime` bound what clients send and how
far a run goes; everything else is finite by itself. `CHECK_DEADLOCK FALSE` stands
where the system rightly waits: for a client that does not send.

*Fairness.* ChatServer: the operating system runs a thread that can run (weak
fairness), and a thread that waits for a mutex that is released again and again
gets it (strong fairness of the three locking steps: futexes are not fair in the
strict sense, but starvation needs the same thread to lose every race).
`LineDelivered` needs one thing more that the code does not give: a `send()` to a
client that does not read blocks with `mutex[fd_id]` held (149-159), and everybody
who broadcasts waits behind it, for as long as that client likes. The property
assumes that clients read on in the end (`ClientFair`, weak fairness of `ReadOn`)
and that a `send()` that can go on again and again does (strong fairness of
`Send`); without it the property is false. IrcServer: the process runs when select
has something for it (weak fairness); `accept` fails at most `MaxFailures` times.
FileTransfer: the client's loop runs, and the link delivers something of what is
sent for ever, in both directions (strong fairness of `Receive`, `Arrive` and
`ReceiveAck` per segment), until the programs are killed. DnsServer: the process
runs when its call can return, and the foreign server answers what reaches it
(weak fairness); nothing is assumed of the link, so a packet may be lost.
WebCrawler: main goes on to `notify_one` (weak fairness), and each worker gets the
mutex and the resolver's lock although others take them again and again (strong
fairness per worker, for the reason given above). Nothing makes a silent server
answer. CommandServer: main runs, and the command ends (weak fairness): the
program waits for it without a limit. Clients are never forced to connect, send or
leave.

## 4. What is proved

All theorems hold for every value of the constants that the named assumptions
allow.

* `ChatServerProofs`: `TypeCorrect`, `OnlineCountCorrect`, `SlotsOwned`. The
  inductive invariant is `TypeOK /\ SeatInv`. `SlotOwned` is not inductive
  alone: that main finds a free slot (`Scan`) must last until main fills it
  (`Fill`), which holds because only main takes slots; `MainInv` says where main
  stands, `StageInv` that a thread that has given its slot up never returns to
  serving. The count follows from `NumInv`, at most one of main and the chat
  threads is between its change of `valid` and its count, and `CountInv`, how far
  the count is off meanwhile; `Leave` removes the one slot `SlotOwned` gives its
  thread.
* `ChatSeatedProofs`: `QueuesExclusive`, `NoWakeupLost`, `LinesArriveInOrder`, of
  `SeatedSpec`, under the hypothesis that nobody leaves (`Leavers = {}`). While
  slots change hands `QueueExclusive` is false: main re-initialises a mutex in
  use, and `Crash` is reached in `chat_churn`. Type correctness comes from
  `ChatServerProofs`, whose step lemmas hold from any state. The inductive
  invariant is `SeatedInv`: `Settled` (main finds no free slot, so no mutex is
  re-initialised and no thread cancelled), `LockHeld` (a thread between lock and
  unlock has the mutex: `QueueExclusive`), `FoundEmpty` (the queue a send thread
  found empty stays empty until it sleeps: `NoLostWakeup`), `AtWork` (what message
  a chat thread is pushing, and to which slot) and `LinesFlow`. The last says
  where the lines of `u` for slot `s` are: the first ones received, the others
  queued in the order they were written, together as many as `u` has pushed there
  (`Pushed`), so that a push appends the next number and a pop delivers the next
  one.
* `IrcServerProofs`: `TypeCorrect`, `TablesAlwaysAgree`, `RoundsServeAll`,
  `ChannelsAlwaysListed`, `CountsStay`. The inductive invariant joins `TypeOK`,
  `TablesAgree`, `RoundInv` and `ChannelsListed`. `RoundInv` is what makes
  `RoundServed` inductive: while main walks, `nready` is the number of reported
  clients in the slots still ahead. It needs `TablesAgree`: a connection that is
  accepted in a round gets a descriptor that was not reported. `TablesAlwaysAgree`
  holds with any number of failures of `accept`: the count is off by exactly their
  number, and the only descriptor watched without a client is `StrayFd`.
  `CountsStay` is of all clients, whatever they send: a JOIN of a client that was
  not in the channel adds a member and a user, a PART of a member takes one, and
  the other cases, QUIT by a member, a second JOIN and a PART by a non-member,
  put the channel in `spoilt`. So these three are the only ways in which the number
  goes wrong.
* `FileTransferProofs`: `TypeCorrect`, `AckedIsHeld`, `SilentIsStored`,
  `StoresWhole` (the refinement of the safety part of `FileStore`, kill included),
  for files within the arrays of the programs: at most `OffsetSize` segments, at
  most `MaxFiles` files. The inductive invariant is `TransferInv`:
  acknowledgements are on the link only for what is held, and `file_len` counts
  what is held, so the sum reaches the size only when all segments are there; and
  a plain file (`Plain`: not empty, text, can be created) is written in the round
  in which it does.
* `DnsServerProofs`: `TypeCorrect`, `RepliesCorrelated`, `AddressesFromZone`. The
  inductive invariant `DnsInv` adds to the first two that what is in the buffer and
  in hand was asked (`InboxInv`, `CurInv`) and that a packet at the socket of the
  query in hand belongs to that query (`SockInv`), which holds because every
  forwarded query has a socket of its own. `AddressesFromZone` rests on `ZoneInv`:
  `zone_src` is empty except for the query in hand, and then it is what the file was
  at some time since that query was asked, because the present state of the files
  is in `since` of every query. `AddressIsSaid` is the reply as a function of the
  lines: the first one of the host and type, or SOA when there is none. The theorem
  says of a line without a carriage return that its address loses its last
  character, so it is also the statement of a mistake (section 5).
* `WebCrawlerProofs`: `TypeCorrect`, `NoJobLeft`, `ImplementsQueue` (the safety
  part of `JobQueue`). `NoLostWakeup` is not inductive alone: a worker goes to
  sleep with the queue empty because it holds the mutex from its look to its wait
  (`SleepsUnderLock`), and main may only add while it does not.
* `SudokuProofs`: `TypeCorrect`, `SentAreValid`, `AllAreSent`, for boards in which
  no two given numbers collide. `SolverInv` says what the frames have done so far:
  cells are filled up to the one that runs (`Filled`), a number that was placed
  differs from those of its peers (`Placed`), given cells stay (`Kept`).
  `AllAreSent` is the completeness of the search: `Searched` says that a solution
  not yet sent is still to come, in the order of the frames, and a number
  `isPlace` refuses is in none of those (`RefusedIsWrong`). That `isPlace` covers
  all peers is `PlaceTestsPeers`: the part of a box it skips lies in the row and
  the column it has tested.
* `LabsProofs`: `ProgramsTypeCorrect`, `SecretsAreKept`, `NoZombies`,
  `OnlyIntactWritten`, `NeverAhead`, of `LabsSpec`, which implies the
  specification of each program (`EachProgram`); the programs are then taken one at
  a time. `HasOwn` says that an oracle past its first stage keeps the secret
  made for it, for the version with copies (`Copied`). For the command server a
  child exists only while the server is between fork and the end of `waitpid`
  (`CommandInv`). `UnpackInv` is the loop invariant of the unpacker: the
  xor so far and the segment being filled make up the parity of the bytes read,
  for which the bytes of one place in a segment are counted (`Parity`), so
  the proof needs no recursion over the content. `PacedSoFar` bounds what was sent
  by the time of the last stamp, so that no interval counts twice.

The assumptions are those the modules name (`ConstAssumption`, `LabsAssumption`
and so on): sets of clients and slots are finite where they are counted, bounds
are natural numbers, and zone files, archives and boards have the form their
documents give them. TLC has checked the inductive invariants on the runs' instances
before they were proved.

Every invariant that a run checks is proved. Only model-checked: the liveness
properties (`LineDelivered`, `CommandsRead`, `AllAcked`, `JobEnds`, the liveness
of `StoreSpec` and `QueueSpec`, both `Served`), which need fairness and ENABLED,
and the five counterexamples.

## 5. Where code and documents disagree

Under "findings" in `PROJECT.json`, each shown by a run: the goodbye with the
wrong name (`chat_goodbye`), the welcome that is never sent (`chat_welcome`), the
JOIN that is refused (`irc_rejoin`), the own name that is not answered
(`dns_lost`), the type that is not answered (`dns_types`).

Others were met while modelling and have no run of their own:

* `Lab5/server.cpp:149-159`: a client that does not read blocks the send thread of
  its slot, with the mutex of the slot in hand, and so everybody who broadcasts
  (`Send`, `full`). A failed `accept` ends the server (395-401), and as no socket is
  ever closed, descriptors do run out.
* `hw1/server.cpp`: PART by a client that is not in the channel takes a user off
  it (189) and error 442, which `hw1/README.md:268-275` asks for, is never sent;
  QUIT takes no user off (291), a second JOIN adds one. `UsersCountMembers` shows
  that these three are all. A failed `accept` (403) counts a client who never was,
  and the bit it sets may make `select` fail for ever (`SelectFails`).
* `Lab8/server.cpp:95`: `strlen` stops at a NUL byte, so a binary file is
  acknowledged in full and never stored. `FileStore` promises storage only of
  files without one. A file that `fopen` cannot create is acknowledged and
  never stored; an empty one has no segment, so nothing creates it.
* `Lab8`: a file of more than 32 segments (32 KiB) leaves its row of the arrays
  (`client.cpp:33`, `server.cpp:30` and `33`): its 33rd segment is taken for the
  first one of the next file, the server writes 32 segments (`server.cpp:107`),
  and a file of 35000 bytes or more leaves `file_data` (`client.cpp:17`) as well.
  More than 1005 files leave the arrays too. `Lab8/README.md` speaks of 1000 files
  and names no size.
* `Lab8/client.cpp:55-61`: the address in `argv[4]` (`Lab8/README.md:35`) is not
  used. `inet_pton` does not know "localhost", so packets go to 0.0.0.0, which is
  this host: the model's link leads to the server, as it does when both run on one
  host.
* `hw2/dns.cpp:415`, `687`, `1031`: the last character of an address is removed,
  for the carriage return at the end of its line. No zone file in the repository
  has one, so with them every A and AAAA address is cut by a digit, where
  `hw2/README.md:189` asks for a "correct host address". `AddressFromZone` says
  exactly that.
* `hw2/dns.cpp:618-1209`: CNAME, MX and (but for the demo) TXT queries for an own
  domain are dropped, against `hw2/README.md:36-48` and `193` (`dns_types`). There
  is no service like nip.io either (`hw2/README.md:51-58`).
* `hw2/dns.cpp:292`: `strstr` finds a domain anywhere in a name, so a foreign name
  in which one occurs is answered from its zone file and not passed on
  (`hw2/README.md:191`).
* `hw2/dns.cpp:254-263`, `409`, `450`, `560`: names of 50 or 100 characters and more
  overrun arrays; a line of a zone file of 128 characters or more makes the reading
  loop spin (318).
* `Lab7/webcrawler.cpp:71`: the address is read from the buffer that the lookups
  of both workers share, so a worker may fetch another server's page, or a private
  address it would refuse, or die. `Reads` and `Die` have all of it; no property
  of the origin of pages is left that the code keeps.
* `Lab7/oracle.c:76`: an oracle keeps the static buffer, and `SecretKept` fails for
  it (`Copied` FALSE); `oraclep1.c` is the repaired version. In both,
  `oracle_show` prints `oseed`, the seed of the last `srand`, or -1 when the other
  oracle was shown first: it need not be the seed of the secret it prints.
* `Lab4/nkat.cpp:100`: the command's first run has the client's socket as its
  stderr, so the client is sent the shell's "not found", although the README of
  Lab4 says "you should not send the error message to the client". A command that
  itself ends with status 127 is run twice. `waitpid` (111) makes clients wait for
  each other, where the README asks to "handle multiple concurrent clients", and
  the child reads from the server's stderr (84), not from the client.
* `Lab2/unpacker.cpp`: the archive is always `testcase.pak` (28), not `argv[1]`, the
  file's name is appended to `argv[2]` without a `/` (96-105), and a file that
  cannot be created is written to all the same (107, `Crash`).
* `Lab3/tcp_2.cpp:88`: a write that fails takes one from `bytesent`, which is
  unsigned; `Paced` is about a sender that is connected. It also takes the clock
  to be one that never goes back and the arithmetic to be exact: `gettimeofday` is
  the clock of the wall, which can be set back, and then the interval (84) is
  negative and becomes a huge `size_t` (88); the products are doubles (82-86).

## 6. What is not modelled, and the plan

Not modelled: `Lab6/server.cpp`, `hw1/backup.cpp` and `Lab4/nkat_copy.cpp` do not
compile as they stand, so there is no behaviour to be faithful to;
`hw1/test.cpp` and `Lab5/test.cpp` are superseded versions of the IRC and the chat
server, which are modelled; `Lab3/tcp_1.cpp` counts what it reads with `strlen`
and depends on how the kernel cuts the server's text into reads; `Lab7/lab7.cpp`,
`decrypt.cpp`, the two `solve.c` and `base64.c` are conversions and scripts that
run once and keep no state. Left aside as well: the Python scripts of Lab1, Lab9
and Lab10 and the weechat configurations in `hw1/a` and `hw1/b`. Of the DNS
demonstration (`hw2/demo/dns.cpp`) only what differs from `hw2/dns.cpp` is mapped.

Plan, in this order:

1. The chat server while slots change hands. `QueueExclusive` and `NoLostWakeup`
   fail there (`InitLocks` overwrites a mutex in use), so the next step is to
   say what still holds, such as that a queue is raced only after its slot
   was given to a second owner or seen before its mutex was made.
2. The disagreements of section 5 that no run shows yet, each as a counterexample:
   the address cut by a digit, the foreign name that is answered from a zone file.
3. Files larger than a row of the arrays in `FileTransfer`, with what is then
   acknowledged and written.
