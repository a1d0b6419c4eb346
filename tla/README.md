# TLA+ models of MySocketLearning

The repository is a set of small network programs, one per example of a book on
Linux server programming: chat server and client, epoll servers, signal handling, an
HTTP parser. Each program stands alone; what they share is the kernel interface
(descriptors, TCP queues, poll/epoll, signals), and what goes wrong in them goes wrong
between two system calls. This directory models the programs that have a
state of their own, checks them with TLC and proves the main invariants with TLAPS.

File names are given relative to `src/`; line numbers are those of the program a
section is about. `PROJECT.json` has the list of runs, the source lines of every
definition, the hazards and the mutants.

## 1. Inventory

| Program | State it keeps | Operations | Partners | What is hard |
|---|---|---|---|---|
| `chap9/9.7mytalk_server.cpp`: chat server | `fds[]` poll table, `users[]` objects by descriptor, `user_counter`, loop index | accept, refuse, error, hang-up, read and pass on, write | the chat clients, by TCP | entries are removed by moving the last one while the table is scanned; pending data is a pointer into another client's buffer; results of one `poll` are used many steps later |
| `chap9/9.6mytalk_client.cpp`: chat client | pipe, two poll entries | receive and print, splice stdin to the socket | the server, stdin | hang-up before unread data; a second `splice` that waits for ever |
| `chap9/9.4oneshot.cpp`: one-shot epoll server | epoll set, one local argument struct, one thread per event | accept, start a thread; recv, re-arm, close | TCP clients, threads | argument on main's stack, ET accept, arrival between EAGAIN and re-arming, descriptors reused |
| `chap9/9.3et_lt_mode.cpp`: LT and ET epoll | epoll set | `lt`, `et` | TCP clients | end of file handled inside the ET loop, one accept per event |
| `chap9/9.8multiPort_server.cpp`: TCP and UDP echo | epoll set | accept, recvfrom/sendto, recv/send | clients | one datagram per ET event, partial sends |
| `chap9/9.5unblockconnect_error.cpp`: non-blocking connect | flags of the socket, `fd_set` | connect, select, getsockopt | one server | timeout against a late answer, leaked or wrongly closed socket |
| `chap9/9.1server_use_select.cpp`, `chap10/10.3sigurg.cpp`, `chap5/5.6`, `5.7`, `chap9/9.1client.cpp`: urgent data | urgent mark of TCP, handler | recv with and without MSG_OOB, SIGURG | sender | order of normal and urgent data, the window before F_SETOWN |
| `chap10/10.1unite_event.cpp`: unified event source | socket pair, `stop_server`, epoll set | signal handler, loop, shutdown | signals, TCP clients | handler between any two steps, full pipe, ET read, order of closes |
| `chap8/8-3httpparser.cpp`: HTTP parser | buffer, three indices, `checkstate` | `parse_line`, `parse_requestline`, `parse_headers`, receive loop | one client | chunks cut anywhere, full buffer |
| `chap6/chap6.1-testdup-*`: dup'd stdout exchange | what each side has received, the buffer of stdio | three sends, three receives each | each other | coalesced messages and two waiting sides; `close` before stdio writes its buffer |
| `chap5/5.5`, `5.9`-`5.12`, `chap6/6.3`, `6.4`: accept, buffer sizes, daytime, sendfile, splice | a pipe at most | one straight sequence of calls | one peer | the peer closes early; a `splice` that waits on an empty pipe |
| `chap6/6.2`, `6.5`: writev, tee | two buffers, two pipes | one pass of copying | one client, stdin | an uninitialised pointer for a missing file |
| `chap7`: switch user, daemonize | uids, descriptors | a few system calls | kernel | one of several steps fails |
| `chap5/5.1`, `5.3`: byte order, listen | none | nothing beyond the calls | kernel | - |

What makes each program correct, in short: the chat server's tables name the
open connections and every member gets what the others said; one thread serves one
connection and nothing that arrived is forgotten; every signal reaches the loop; the parser's
answer does not depend on how TCP cuts the request; every loop ends when it should.

## 2. Plan

Order, most important first. All are done.

1. `TalkServer` (+ `MCTalkServer`): the chat server.
2. `OneShot` (+ `MCOneShot`): the one-shot server and its threads.
3. `UniteEvent`: signals and shutdown.
4. `HttpParser` (+ `MCHttpParser`): the parser against a reference.
5. `EtServer`: 9.3, both modes over the epoll ready list; double close.
6. `MultiPort` (+ `MCMultiPort`): 9.8, TCP and UDP echo; implements the abstract
   `EchoStream` for its TCP clients.
7. `ChatRoom`, the abstract chat that `TalkServer` implements as long as nobody leaves;
   `TalkClient`; `TalkSystem` (+ `MCTalkSystem`), the clients around that room.
8. `Urgent` (5.6, 5.7, 9.1, 10.3), `UnblockConnect` (9.5) and `Exchange` (the straight
   sequences of chapters 5, 6 and 9), which `MCPrograms` runs.
9. The proofs: `EpollSetProofs` (lemmas about the ready list and the kernel), `TalkServerProofs`,
   `OneShotProofs`, `EtServerProofs`, `MultiPortProofs`, `UniteEventProofs`, `TalkSystemProofs`,
   `HttpParserProofs`.

`ReadyList` is a ready list alone, shared by `EpollSet` and `UniteEvent`. `EpollSet` is the part of the kernel that 2, 5 and 6 share: descriptors, backlog, receive queues
and the ready list.

The runs are few: one for each module where its size allows, with safety and
liveness together, and one for each disagreement between a program and what the
repository says of it that is worth a counterexample.

Every module that needs bounds takes them as CONSTANTS with a named ASSUME, has one action per
branch of the code, and declares no RECURSIVE operator, so that all can be
proved about.

## 3. What is modelled

### TalkServer: `chap9/9.7mytalk_server.cpp`

`fds`, `user_counter`, `users`, `i` and `pc` are the variables of `main`; `owner`
(which connection is behind a descriptor), `backlog` and `sock` (state of
the peer, pending error, unread data) are the kernel. The listening socket is
descriptor 0 and client descriptors start at 1, which only renames them. Data are units
`<<author, number>>`; `got[c]` records what the server has written to `c`.

One action per branch of the loop body: `AcceptFails`, `RefuseUser`, `AcceptUser`
(94-125), `ReportError` (126-137), `Hangup` (138-147), `RecvData`, `RecvNoData`
(148-186), `WritePending`, `NothingToWrite` (187-201), `NothingToDo`, and the two
places where `send` may raise SIGPIPE. `RemoveEntry` is the removal shared by lines
141-145 and 160-164. Clients act between any two of these steps.

`write_buf` is modelled as what it is, the number of the object whose `buf` it
points into, so a write sends what that buffer holds THEN. `|= ~POLLIN` and
`|= ~POLLOUT` are modelled by what they do: they set bits and clear none.

`ChatRoom` says what the server promises: while it is `calm` (nobody has gone), a
member hears stretches of consecutive words of others, each later than what he heard of that author before,
and none that was not said; words may be left out. `Room` maps the server's state to it: `said` is what
was read from a client, `heard` what was written to it.

### TalkClient and TalkSystem: `chap9/9.6mytalk_client.cpp`

One process per member of `Clients`. stdin, the pipe and the way to the server are one stream,
cut by four counters: `typed >= taken >= sent >= said`. `Receive` is lines 71-76 and ignores the result of
`recv`, as the code does, so what is printed is the buffer up to its first NUL. The two
`splice` calls are two steps and both may block, for want of data or of room. `PipeStdin` says
whose stdin is a pipe: at its end a pipe reports POLLHUP, which the loop does not look at, and a terminal or
a file reports POLLIN for ever, which makes the first `splice` move nothing and the second
wait on an empty pipe.

`TalkSystem` puts these clients around a server of which only the actions of `ChatRoom` are known,
`Take` and `Tell`; once a member is gone (`MemberGone`), the server may write anything that
was said to anybody. What holds here needs nothing else of the server, and `TalkLiveness`
shows, and `TalkServerProofs` proves, that `TalkServer` does implement the room.

### OneShot: `chap9/9.4oneshot.cpp`

Main, one control state per worker thread, and the epoll set of `EpollSet` with an interest
that is armed or disarmed. `EPOLL_CTL_ADD` and `MOD` look at the descriptor at
once, which is why nothing is lost between EAGAIN and `reset_oneshot`. `slot` is
`fds_for_new_worker`. `ArgRace` chooses between two worlds: FALSE, a new thread reads its argument
before main goes on; TRUE, it may not, and then main's next event, or the
stack reuse in the accept branch, changes what it reads. Threads are never joined,
so a thread that has ended is not available again (`MaxWorkers`). A worker whose descriptor is
not open gets EBADF for ever; that step changes nothing. `sleep(5)` is part of
the time between two steps.

### UniteEvent: `chap10/10.1unite_event.cpp`

`Handle` is the signal handler between two steps of main; `Interrupt` is the handler while
`epoll_wait` blocks, which then returns -1 with EINTR. `errno` is a variable because
the handler may run between the return of `epoll_wait` and the test of line 114. The three `close`
calls are three steps.

### HttpParser: `chap8/8-3httpparser.cpp`

The buffer holds tokens: CR, LF, SP, NUL and the words the parser compares. `parse_line` is
an operator over the buffer and the indices; `ParseLine` is one turn of the `while` of
`parse_content`. `recv` returns any non-empty part of what the client sent. `Verdict` is the
reference: what the whole text means, with no buffer, index or chunk. The `default` of
the `switch` (196-199) is never reached, since nothing sets CHECK_STATE_CONTENT.

### EtServer: `chap9/9.3et_lt_mode.cpp`

`et()` and `lt()` are both modelled; `mode`, chosen in the initial state, is the call that
is not commented out in lines 175-179. An event stays at the head of `events` while `et()` loops over
its socket. `epoll_wait` takes at most `MAX_EVENT_NUMBER` entries off the ready list and
puts level-triggered ones back at its end. After end of file `et()` goes on with a closed
number (`EtRecvClosed`): EBADF and a second `close` without effect. The branches for
events without EPOLLIN are left out: TCP reports EPOLLIN with every error and hang-up.

### MultiPort and EchoStream: `chap9/9.8multiPort_server.cpp`

The same loop, edge-triggered only, with an echo and a UDP socket. The units a TCP client
sends are numbered; `echoed[c]` is what the server wrote back. A datagram is its author, repeated
`len` times, so that bytes of one peer in an answer to another are visible; `buf` is the stack
buffer, kept between events because the whole of it is sent. `EchoStream` says what an echo
service promises a client; `Echo` maps the server's state to it: a client is served from
accept until it resets, is closed, or the server ends.

### Urgent: `chap5/5.6`, `5.7`, `chap9/9.1*`, `chap10/10.3sigurg.cpp`

Two senders and three receivers, chosen in the initial state. The stream is counted in units; the
urgent byte is the last of "ABC". TCP is Linux without SO_OOBINLINE: the urgent pointer may arrive
before its byte, a `recv` stops in front of the byte, and the next one jumps over it and forgets
it. `SigUrg` is the handler of 10.3 between any two steps of main; a `recv` that meets a pending signal
is restarted after it. The announcement raises SIGURG, once; `signal` is its history: `unheard` if
`sigaction` and F_SETOWN were not both done (lines 74-77), `early` if the handler ran on an
announcement that was ahead of its byte. `TakenBySignal` says that the byte is lost in these two cases and taken in
all others. The select server (9.1) looks at `read_fds` first; `Watched` keeps the sets as `select`
left them, since the code only adds to them. `TakenBySelect` says that it throws the byte away
exactly if data or the FIN is behind it. 5.7 asks for the byte once, at line 54; it has no property but
that it ends.

### UnblockConnect: `chap9/9.5unblockconnect_error.cpp`

`unblock_connect` step by step against a network that answers, refuses or resets when it
likes, between any two steps. `writefds` is never zeroed: `garbage` says that it happens to name
another descriptor that is writable, and then `select` returns at once without the socket. Bits above
`sockfd` are not looked at (the first argument is `sockfd + 1`).

### Exchange: chapters 5, 6 and 9

A program is the sequence of its calls on the connection (`DupServer`, `SpliceServer`, ...), and
each of ten pairs runs on one TCP connection with FIN, RST, EPIPE and SIGPIPE. A write puts two units
(`Parts`) into the stream and a `recv` returns one or more of what is there, so that TCP may cut a write as well as join
several; `pieces` counts the calls that returned data. What is on the way to a socket when a RST
comes may be `lost`. The assertions of 5.12 and 6.4 are `AssertFails`. `dup` makes descriptor 1 the
connection, and what `printf` has left in the buffer of stdio is written there when main returns.
`Reader`, `LineService`, `Silent` and `Resetter` are partners outside the repository.

`ComesToRest` says where every exchange stays. `Waits`: the two programs of 6.1 wait for each other
exactly if the server got the three messages in fewer than three pieces; the server of 6.4 waits at its
second `splice` exactly if the client closes without a word; nobody else waits. `Received`: 5.11 and the reader
of 6.3 have read everything; 6.4 has sent back the one piece that its first `splice` took; the client of
6.1 has all four messages if the server has left nothing unread and six `recv`s were enough. 5.5 and 5.9
close without reading, and 5.12 reads one piece of the line. `Deaths`: 5.12 aborts exactly if its `read` got nothing, 6.4 only if
its client breaks off; SIGPIPE ends a client only after its server has closed with something unread. `MCPrograms` runs
`Urgent`, `UnblockConnect` and `Exchange` in one run, one at a time: `prog` says which.

### EpollSet and ReadyList

The kernel for `OneShot`, `EtServer` and `MultiPort`, which extend it: the environment's
steps (`Connects`, `Sends`, `Leaves`, `Resets`) and the system calls (`Accepts`, `Receives`,
`Closes`, `Look` for `epoll_ctl`), without the programs' own variables. `Pending` says which
descriptors have something to be reported for.

`ReadyList` has the three things epoll does to its list: an event puts a descriptor on it once
(`Queued`), and what is still of interest is kept in order (`Kept`, with `Precedes`).

## 4. What the runs check

| Run | Shows |
|---|---|
| `TalkServer` | 3 connections for 2 places, descriptors reused, resets that drop unread data: the table is exactly the set of open descriptors, what `poll` reported still holds, no uninitialised pointer is followed, descriptors stay small |
| `TalkLiveness` | 2 members, 2 units each: the server implements `ChatRoom`: while nobody has left, nobody gets his own words, or words out of order, never said, or twice; a departure is reclaimed; pending data is written to a member with nothing more to say |
| `TalkOwnWords` | violated: two members have spoken and the first leaves; line 141 copies the other's object over the leaver's, and the pointer that waited for the leaver's words now sends the other his own |
| `OneShot` | 2 connections, 2 descriptors, 3 threads: one thread per socket, no descriptor changes under a thread, no lost wakeup; everything sent is read, every departure closed |
| `OneShotRace` | violated with `ArgRace`: two threads on one socket |
| `UniteEvent` | no byte stranded in the pipe and no stop request lost that fits into it, no SIGPIPE while closing, no stop without a reason, accept and recv find what was reported; a stop request in the pipe ends the loop |
| `HttpParser` | every chunking of every request with two faulty tokens, or cut short, gives the reference's verdict; indices keep their order; no LF has its CR behind it |
| `EtServer` | both modes, 3 connections for 2 descriptors, batches of 2: nothing readable is forgotten, nobody is hung up on, everything is read and closed |
| `MultiPort` | implements `EchoStream` for clients with room, echoes all; answers to datagrams hold nobody else's bytes |
| `MultiPortBehind` | violated: of two datagrams before one `epoll_wait` the second stays behind |
| `TalkSystem` | a client at a terminal and one fed by a pipe: what is shown is what the server wrote, and while nobody has gone what others typed, in order and once; the splices wait for ever only at the end of a terminal's input; what is typed is sent and what is written is shown |
| `Programs` | `unblock_connect` returns connected sockets only and gives up only for a reason; the urgent byte is taken, and lost exactly in the cases that `Urgent` names; normal data is complete at the end of 9.1 and 10.3; every program ends, except in two waits that occur exactly when `Exchange` says, and has then read what `Received` says |

What the models contain and no run asserts, because nothing in the repository
promises the contrary or another run shows the same: `|= ~POLLIN` and `|= ~POLLOUT` unregister
nothing (9.7, 181 and 199); SIGPIPE ends the chat and the echo server when a member that was
reset is written to; with one `accept` per edge-triggered event of `listenfd` a connection may wait in the
backlog for the next one (9.3, 9.4, 9.8, 10.1); accepted connections of 10.1 are never
closed, until `assert(connfd != -1)` aborts; a full request buffer in 8-3 is taken for a
closed client (258, 264); a SIGTERM that finds the socket pair full is lost (10.1, 42); the select server
loses an urgent byte that has data or the FIN behind it (9.1, 72 and 82: `TakenBySelect` says exactly when), and 10.3 one that is announced too early (`TakenBySignal`); the chat client drops what it has
not read at a hang-up (9.6, 66-70), and is deaf after the end of a terminal's input (83); `unblock_connect`
leaves the socket open when `connect` fails at once (9.5, 57) and takes an accidental bit of
`writefds` for an answer. The server of 6.1 and its client wait for each other for ever when TCP has joined two
messages into fewer than three pieces, and the server of 6.4 waits on its pipe if the client closes without a word: `ComesToRest`
says that this happens, and when; the client's pauses of a second (lines 48-52) make the first unlikely, not impossible.

**Bounds.** The chat server needs a third connection for the two interesting things at
once, a removal in the middle of the table and a descriptor handed out again; the
limit of two makes the third one refused as well. Order among units needs two units of one author
(`TalkLiveness`, where only `c2` leaves, so that the calm room, which is the
time before a departure, and the departure are both there). In `OneShot` two connections reuse each other's
descriptors, two threads run at once, and the third thread is the last there is. A pipe of two bytes is
full after two signals. The requests are one correct request with any two tokens
replaced by any of six, with a buffer that holds all but its last token. `EtServer` may have three entries
in a ready list of which `epoll_wait` returns two; only some clients send or reset, which the
others' behaviour does not depend on. `MultiPort` bounds units and datagrams together
(`MaxArrivals`); three are enough to fill a TCP buffer twice, or to have a long datagram before a
short one. `RstDiscards` lets a reset drop what was received and not yet read; the runs that leave it
FALSE are those about written data. In `TalkSystem` one client types two
units and hears one, the other one and two: a receive buffer of one unit and its NUL makes the second
message need a second `recv`, a pipe of two units holds more than a socket of one takes. `Exchange`
runs three of the nine messages of `9.1client.cpp`, and two units a write are enough for a
cut in it and for pieces that hold the end of one message and the start of the next. Symmetry of the clients is used in safety runs only, and only
where no constant tells them apart.

**Deadlock** is not checked: every program waits for clients, and some of them end. Where a program
should end, a liveness property says so (`ComeToRest`), and says when it does not.

**Fairness.** Weak fairness of the server's own steps: the thread (or each thread) runs
when it can. Failures of `poll` and `epoll_wait` are outside it (they are possible, never due),
and clients, signals and the network owe nothing, with three exceptions: in `TalkSystem` the
server reads what it is sent (`TalkLiveness` and its loop justify it), in `Exchange` both
processes run and a RST that is due arrives, and in `Urgent` a pending signal is delivered. Weak fairness is enough since no step of a program is disabled by another program.

Liveness excuses what the code does not promise: a client that never stops talking
starves its own pending write (line 148 comes before 187), a process out of threads serves nobody,
a server that `epoll_wait` or SIGPIPE has ended does nothing more, and a chat client whose terminal has
ended hears nothing.

## 5. What is proved

For every value of the constants that satisfies the modules' named assumptions, which only say that limits and
sizes are positive, that a set of clients is one, and that a `BUFFER_SIZE` of n takes n - 1. TLC evaluates
them on every run.

| Module | Theorem | Says |
|---|---|---|
| `TalkServerProofs` | `TypeCorrect` | `[]TypeOK` |
| | `TableCorrect` | `[]TableMatchesDescriptors`: the table is the set of open descriptors |
| | `PointerInitialised` | `[]NoUninitialisedPointer`: no `write_buf` is followed before it is set |
| | `DescriptorsSmall` | `[]DescriptorsStaySmall`: `users[]` is not indexed out of range |
| | `ReportsStayCurrent` | `[]ReportsAreCurrent`: what `poll` reported is true when the scan comes to it |
| | `ImplementsChatRoom` | `ImplementsRoom`: the server implements `ChatRoom`, step by step |
| `OneShotProofs` | `TypeCorrect` | `[]TypeOK`, whether or not threads race for their argument |
| | `OneThreadPerSocket` | without `ArgRace`, `[]OneWorkerPerSocket` |
| | `NoWakeupIsLost` | without `ArgRace`, `[]NoLostWakeup` |
| | `DescriptorsAreStable` | without `ArgRace`, `DescriptorIsStable`, an action property |
| `EtServerProofs` | `TypeCorrect`, `NothingStranded` | `[]TypeOK`, `[]NoStrandedInput`, in both modes |
| | `HangsUpOnlyOnDeparted` | `ClosesOnlyDeparted`, an action property |
| `MultiPortProofs` | `TypeCorrect` | `[]TypeOK` |
| | `ImplementsEchoStream` | `EchoesStream`: the TCP part implements `EchoStream`, step by step |
| | `AnswersHoldOneDatagram` | `[]AnswersOwnDatagrams` |
| `UniteEventProofs` | `TypeCorrect`, `ReportsStayCurrent`, `StopsOnlyForAReason` | `[]TypeOK`, `[]ReportsAreCurrent`, `[]StopsForAReason` |
| | `NoSignalIsLost` | with `RecvTakesAll`, `[]NoSignalLost` |
| `HttpParserProofs` | `TypeCorrect`, `IndicesInOrder`, `LfNeverHasItsCr` | `[]TypeOK`, `[]IndexOrder`, `[]LfAlwaysStray` |
| | `SameRequestLine` | `parse_requestline` accepts what the reference calls a request line, for every line |
| | `ParsesCorrectly` | `[]ParsesLikeReference`: the reference's verdict, however the request is cut |
| `TalkSystemProofs` | `TypeCorrect`, `NeverBlocksBeforeEof`, `ShowsInOrder` | `[]TypeOK`, `[]BlocksOnlyAfterEof`, `[]ShownInOrder` |

Three hypotheses beside the named assumptions:

* `~ArgRace` (`OneShot`): a thread has read its argument before main goes on. Without it the
  theorems are false, as `OneShotRace` shows; so they say that the race for the argument is the only thing wrong
  with the way threads share sockets.
* `RecvTakesAll` (`UniteEvent`), `PIPE_CAPACITY <= SIGNALS_SIZE`: the one `recv` of line 138, on an
  edge-triggered descriptor, empties the pipe. A Unix stream socket counts some 700 bytes of its buffer for each message
  of one byte, so that the default buffer holds a few hundred of them, fewer than the 1024 of `signals`. With a larger
  pipe the property is false: bytes stay behind without a report.
* the server of `TalkSystem` is any that keeps the promises of `ChatRoom`. `ImplementsChatRoom` proves that `TalkServer`
  does; the composition of the two is not a module of its own.

Each proof has one inductive invariant, `IInv` in most modules, that holds initially and is kept by every action; the actions
are lemmas of their own and `NextInv` puts them together.

**The ready list and the kernel.** `EpollSetProofs` first proves what `Queued` and `Kept` do to types, members and
repetitions (`UniteEventProofs`, which has no `EpollSet`, has its own copy of the four lemmas it needs), and then that each step of the environment and each system call keeps
`KernelInv(D)`, whatever program makes it: a connection has one descriptor and is there (`Owned`), nobody is in
the backlog twice or has been accepted already (`Waiting`), no free descriptor is on the ready list (`Listed`), and a
pending error means a reset (`Errors`). The three servers cite these lemmas. They need
`Owned` in particular, because a step of one connection must not change what is readable at another descriptor.

**TalkServer.** None of the first three theorems is inductive alone. The type of `got` needs that `write_buf` is
initialised when it is followed; that needs that POLLOUT is reported only where it was registered
(`Reports`) and registered only with a pointer (`Pointers`); that an entry with something to read, write or
drop is a client entry, whose owner is a client, needs the table (`Table`) and that
descriptor 0 reports nothing but POLLIN; and removal needs all of them, because the
last entry takes the place of entry `i`. `IInv` is their conjunction, with the bound on the loop index.

`DescriptorsSmall` is a pigeon-hole argument on top: while the table is not full the open
descriptors, which are the entries of the table, are fewer than USER_LIMIT, so
one of `1 .. USER_LIMIT` is free, and the kernel hands out the lowest.

`ReportsStayCurrent` needs a second invariant, `CInv`, on top of `IInv`. The reports
of the entries the scan has not come to yet are true (`Unvisited`), also after a removal has moved the last
entry to the place of entry `i`, and the clients' steps only add to what is true. A client's data may be gone
when he has reset the connection, but then POLLERR or POLLRDHUP was reported too, which the code looks at first;
that rests on every entry asking for the three of them always (`Asks`, which is so because
`|= ~POLLIN` clears nothing) and on no two entries sharing a connection (`Linked`).

`ImplementsChatRoom` needs a third one, `RoomInv`, about the time in which nobody has left (`Calm`). Then no descriptor
has been closed or handed out again and no entry has moved, so that the object `users[d]` belongs to one client for
good and the pointer `write_buf` names an author. `Pointed` and `Fresh` say what it points at: words of a
member other than the one it is registered for, consecutive, all read by the server and all later than what he has heard
of that author. `InOrder` says that what waits at a socket are its client's next words, so that a read keeps `Fresh` for everybody, and
`Told` that nobody has heard what was not read. A write maps to `Tell`, a read to `Take`, and everything else to a stutter or to the end of the calm.

**OneShot.** Where a descriptor is disarmed it is in exactly one pair of hands: in the batch, in
the argument of a starting thread, or with the thread that serves it (`Hands`). That gives one thread per
socket. `NoLostWakeup` is the converse, `Held`, with `Interests`: what is armed and readable is on the ready list.
`RaceFree` has the three under `~ArgRace`; types do not need it.

**EtServer.** `Remembered` is `NoStrandedInput` for every state. It is not inductive for
`lt`, where a descriptor leaves the batch after one `recv`: it must be back on the list by then, and
still readable, which is `LevelBatch`.

**MultiPort.** `Echoes` ties what a client was sent to what was read from its connection: its first units, in
order, as long as the client has room and is there. The refinement is then a case for each action. For the datagrams
`AnsweredInOrder` says which one each answer was given to, by an increasing function; the set
in `AnswersOwnDatagrams` is its range, and the lemma `RankOfIncreasing` that the j-th member of it is where it
should be.

**UniteEvent.** `Batch` says that what was reported is still there, since a descriptor is once in the batch and
only its own branch takes anything; `Reasons` follows a stop request from the handler by the pipe and
`stop_server` to the end of the loop, and knows why `epoll_wait` may have returned -1: `errno` is `EINTR` unless it broke;
`Ends` has the order of the three closes, which is why no handler writes to a pipe without a reader.

**TalkSystem.** `BlocksOnlyAfterEof` needs the reason for which the first splice was begun, from `poll` to
the splice (`SpliceHasReason`). `ShownInOrder` is `HeardInOrder`, the promise of a calm room in terms of
what was written, and `Copied`: what is shown is the part of it that was read, which needs that the
buffer is cleared before every `recv` and is larger by one than what `recv` takes.

**HttpParser.** `Indices` is the invariant for the first three theorems: beside the types and `IndexOrder` it says that there is a NUL,
not a CR, behind the start of the line (`NulBehind`). So an LF that the scan meets cannot have its CR behind it: that CR would have been
met first, or has become a NUL. `LineIsFound` puts into three cases what `parse_line` returns, and the steps use only that.

`ParsesCorrectly` rests on `Agrees`. As long as there is no answer, the line being analysed is in the buffer as it was sent (`Parsing`), and
what is in front of it are complete lines of which the first is valid and no later one is empty (`Undecided`); more is asked for only when
everything was scanned, except perhaps a last CR (`Waits`). From `Undecided` follows what the reference sees: none of its stray
characters lies in the lines analysed, and their ends are all the ends there are (`BreaksAreEnds`). Three lemmas then say what the next thing
found means for the verdict: nothing yet (`NotDecidedYet`), a stray CR or LF (`DecidedByStray`), or one more line (`FirstLineRead`,
`HeaderRead`). For the request line, `parse_requestline`, which looks for the first blank and what follows it, and `ValidRequestLine`, which
says how the line is put together, are shown to mean the same form (`HasForm`). No induction is needed: the reference has no recursion, and
the first of several positions comes from the order of the natural numbers (`Least`).

**Only model-checked.** Liveness under fairness and everything with ENABLED is out of the prover's reach; that concerns
`EverythingRead`, `DepartureClosed`, `DepartureReclaimed`, `QuietMemberIsWritten`, `EchoesAll`, `StopRequestHonoured`,
`PassesBothWays`, `UrgentNoticed` and `ComeToRest`. `TypeOK` and `ConnectHonest` of the run `Programs` have no theorem either: the three modules
have no constants, and TLC visits all the states there are.

## 6. What is not modelled

* The chat server's wording of messages, addresses, and byte lengths: a unit of data is sent whole
  or not at all, also by the chat client.
* Undefined behaviour beyond the uninitialised reads: `worker` (9.4) has no
  return statement; the select server goes on with descriptor -1 when `accept` fails (9.1, 43-47).
* `MAX_EVENT_NUMBER` matters in `EtServer` only; elsewhere it exceeds the number of descriptors.
* The failure of `getsockopt` itself (9.5, 91-96), which a valid socket does not meet, and the length
  of the timeout, which is a choice of the network here.
* `chap6.2-test_writev.cpp` and `chap6.5-test_tee.cpp`: one pass over local data, with no partner whose
  steps could interleave. What is wrong in them shows in the text: `file_buf` is freed, uninitialised, when
  the file is missing or is a directory (6.2, 64, 79, 129).
* Chapter 7: a sequence of calls with one check after each, and nothing beside it.
* `chap5.1-byteorder.cpp`, a union read twice, and `chap5.3-testlisten.cpp`, a loop that sleeps until a
  signal comes.
* Lengths at the edge of a text buffer in the programs of `Exchange`, such as the NUL behind a full
  buffer in `chap5.12-access_daytime.cpp` (44).
