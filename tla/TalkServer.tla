----------------------------- MODULE TalkServer -----------------------------
(***************************************************************************)
(* The chat-room server of chap9, 9.7mytalk_server.cpp: one thread that    *)
(* polls a listening socket and at most USER_LIMIT client sockets, and     *)
(* passes what one client says on to the others.                           *)
(*                                                                         *)
(* The poll table fds[] and the per-descriptor objects users[] are kept as *)
(* the code keeps them: an entry is removed by moving the last one over    *)
(* it, and the data waiting to be written to a client is a POINTER to the  *)
(* read buffer of the client that said it.                                 *)
(*                                                                         *)
(* The kernel (descriptor table, TCP receive queues, FIN and RST) and the  *)
(* clients are the environment.  A client connects once; a reconnection is *)
(* another member of Clients, which gets a descriptor number again.        *)
(***************************************************************************)
EXTENDS Integers, Sequences, FiniteSets

CONSTANTS
  Clients,      \* connections a run may see
  NoClient,     \* owner of a free descriptor, author of uninitialised bytes
  USER_LIMIT,   \* entries of fds[] besides the listening socket (line 15)
  FD_LIMIT,     \* descriptors of the process and objects in users[] (line 17)
  BACKLOG,      \* second argument of listen (line 60)
  BUFFER_SIZE,  \* units of data one recv may return (lines 16 and 152)
  MaxSend,      \* bound: units of data one client says
  Leavers,      \* clients that may close or reset their connection
  SlowReaders,  \* clients whose socket may have no room when it is written to
  RstDiscards   \* whether the TCP stack may drop unread data when a RST comes

ASSUME TalkAssumption ==
  /\ NoClient \notin Clients
  /\ USER_LIMIT \in Nat \ {0}
  /\ FD_LIMIT \in Nat /\ FD_LIMIT > USER_LIMIT
  /\ BACKLOG \in Nat
  /\ BUFFER_SIZE \in Nat \ {0}
  /\ MaxSend \in Nat
  /\ Leavers \subseteq Clients
  /\ SlowReaders \subseteq Clients
  /\ RstDiscards \in BOOLEAN

VARIABLES
  pc,            \* "poll", "scan", or how the process ended
  i,             \* index of the for loop over fds[]
  fds,           \* the poll table
  user_counter,  \* number of client entries in fds[]
  users,         \* client_data objects, indexed by descriptor
  owner,         \* kernel: the connection behind each descriptor
  backlog,       \* kernel: connections waiting for accept
  sock,          \* kernel: the server's end of each connection
  sent,          \* units each client has said so far
  got            \* history: units the server has written to each client

server == <<pc, i, fds, user_counter, users>>
vars == <<pc, i, fds, user_counter, users, owner, backlog, sock, sent, got>>

-----------------------------------------------------------------------------
(* Types *)

listenfd == 0
Fds == 1 .. FD_LIMIT
Slots == 0 .. USER_LIMIT
Bits == {"POLLIN", "POLLOUT", "POLLRDHUP", "POLLERR"}

NULL == -1      \* the null pointer
Uninit == -2    \* what new client_data[] leaves in a pointer

(* A unit of data: its author and the author's count of units. *)
Unit == (Clients \cup {NoClient}) \X Nat
UninitData == << <<NoClient, 0>> >>

PollFd == [fd : -1 .. FD_LIMIT, events : SUBSET Bits, revents : SUBSET Bits]
ClientData == [buf : Seq(Unit), write_buf : Fds \cup {NULL, Uninit}]
Socket == [peer : {"none", "open", "fin", "rst", "refused", "gone"},
           err  : {"none", "ECONNRESET", "EPIPE"},
           rcvq : Seq(Unit)]

TypeOK ==
  /\ pc \in {"poll", "scan", "exited", "killed"}
  /\ i \in 0 .. USER_LIMIT + 1
  /\ fds \in [Slots -> PollFd]
  /\ user_counter \in Slots
  /\ users \in [Fds -> ClientData]
  /\ owner \in [Fds -> Clients \cup {NoClient}]
  /\ backlog \in Seq(Clients)
  /\ sock \in [Clients -> Socket]
  /\ sent \in [Clients -> Nat]
  /\ got \in [Clients -> Seq(Unit)]

-----------------------------------------------------------------------------
(* Initial state: after listen() and the initialisation of fds[]. The code *)
(* leaves revents of the client entries and all of users[] uninitialised.  *)

Init ==
  /\ pc = "poll"
  /\ i = 0
  /\ fds = [k \in Slots |->
              IF k = 0 THEN [fd |-> listenfd, events |-> {"POLLIN", "POLLERR"},
                             revents |-> {}]
              ELSE [fd |-> -1, events |-> {}, revents |-> Bits]]
  /\ user_counter = 0
  /\ users = [d \in Fds |-> [buf |-> UninitData, write_buf |-> Uninit]]
  /\ owner = [d \in Fds |-> NoClient]
  /\ backlog = <<>>
  /\ sock = [c \in Clients |-> [peer |-> "none", err |-> "none", rcvq |-> <<>>]]
  /\ sent = [c \in Clients |-> 0]
  /\ got = [c \in Clients |-> <<>>]

-----------------------------------------------------------------------------
(* The environment: clients and TCP *)

Running == pc \in {"poll", "scan"}

Connect(c) ==
  /\ Running
  /\ sock[c].peer = "none"
  /\ Len(backlog) <= BACKLOG
  /\ backlog' = Append(backlog, c)
  /\ sock' = [sock EXCEPT ![c].peer = "open"]
  /\ UNCHANGED <<server, owner, sent, got>>

Say(c) ==
  /\ sock[c].peer = "open"
  /\ sent[c] < MaxSend
  /\ sent' = [sent EXCEPT ![c] = @ + 1]
  /\ sock' = [sock EXCEPT ![c].rcvq = Append(@, <<c, sent[c] + 1>>)]
  /\ UNCHANGED <<server, owner, backlog, got>>

Leave(c) ==
  /\ c \in Leavers
  /\ sock[c].peer = "open"
  /\ sock' = [sock EXCEPT ![c].peer = "fin"]
  /\ UNCHANGED <<server, owner, backlog, sent, got>>

(* A RST: the pending error is EPIPE when a FIN came before it. *)
Abort(c) ==
  /\ c \in Leavers
  /\ sock[c].peer \in {"open", "fin"}
  /\ \E kept \in {sock[c].rcvq} \cup (IF RstDiscards THEN {<<>>} ELSE {}) :
       sock' = [sock EXCEPT ![c] =
                  [peer |-> "rst",
                   err  |-> IF @.peer = "fin" THEN "EPIPE" ELSE "ECONNRESET",
                   rcvq |-> kept]]
  /\ UNCHANGED <<server, owner, backlog, sent, got>>

(* What close(fd) does to the connection c behind fd. *)
Closed(c, how) == [sock EXCEPT ![c] = [peer |-> how, err |-> "none", rcvq |-> <<>>]]

(* The end of the process: the kernel closes every descriptor. *)
Terminate(how) ==
  /\ pc' = how
  /\ owner' = [d \in Fds |-> NoClient]
  /\ backlog' = <<>>
  /\ sock' = [c \in Clients |-> [peer |-> "gone", err |-> "none", rcvq |-> <<>>]]
  /\ UNCHANGED <<i, fds, user_counter, users, sent, got>>

(* Writing to c raises SIGPIPE, which nothing here catches or ignores. *)
BreaksPipe(c) == sock[c].peer = "rst" /\ sock[c].err # "ECONNRESET"

-----------------------------------------------------------------------------
(* poll, lines 84-89 *)

(* The conditions that hold on a descriptor, given the clients with room. *)
Ready(d, writable) ==
  IF d = listenfd
    THEN {b \in {"POLLIN"} : backlog # <<>>}
    ELSE LET s == sock[owner[d]]
         IN  {b \in Bits :
                \/ b = "POLLIN" /\ (s.rcvq # <<>> \/ s.peer # "open")
                \/ b = "POLLRDHUP" /\ s.peer # "open"
                \/ b = "POLLERR" /\ s.err # "none"
                \/ b = "POLLOUT" /\ (owner[d] \in writable \/ s.peer = "rst")}

Poll ==
  /\ pc = "poll"
  /\ \E stuck \in SUBSET SlowReaders :
       LET revents(k) == Ready(fds[k].fd, Clients \ stuck)
                           \cap (fds[k].events \cup {"POLLERR"})
       IN  /\ \E k \in 0 .. user_counter : revents(k) # {}
           /\ fds' = [k \in Slots |->
                        IF k <= user_counter
                          THEN [fds[k] EXCEPT !.revents = revents(k)]
                          ELSE fds[k]]
  /\ pc' = "scan"
  /\ i' = 0
  /\ UNCHANGED <<user_counter, users, owner, backlog, sock, sent, got>>

PollFailure ==
  /\ pc = "poll"
  /\ Terminate("exited")

-----------------------------------------------------------------------------
(* The body of the for loop, lines 92-202 *)

connfd == fds[i].fd
Peer == owner[connfd]

(* The else-if chain over revents. *)
Branch ==
  LET r == fds[i].revents
  IN  IF connfd = listenfd /\ "POLLIN" \in r THEN "accept"
      ELSE IF "POLLERR" \in r THEN "error"
      ELSE IF "POLLRDHUP" \in r THEN "hangup"
      ELSE IF "POLLIN" \in r THEN "read"
      ELSE IF "POLLOUT" \in r THEN "write"
      ELSE "nothing"

At(branch) == pc = "scan" /\ i <= user_counter /\ Branch = branch

OpenFds == {d \in Fds : owner[d] # NoClient}
LowestFree(d) == d \in Fds \ OpenFds /\ \A e \in Fds \ OpenFds : d <= e

(* Mutant: the limit is compared with > (off by one, line 107).            *)
TableFullOffByOne == user_counter > USER_LIMIT

TableFull == user_counter >= USER_LIMIT

(* Mutants: revents of the new entry is not reset (line 123); the new entry *)
(* asks for POLLOUT at once; it does not ask for POLLRDHUP (line 122).      *)
NewEntryStaleRevents(d) ==
  [fds[user_counter + 1] EXCEPT
     !.fd = d, !.events = {"POLLIN", "POLLRDHUP", "POLLERR"}]
NewEntryWithPollout(d) == [fd |-> d, events |-> Bits, revents |-> {}]
NewEntryWithoutRdhup(d) ==
  [fd |-> d, events |-> {"POLLIN", "POLLERR"}, revents |-> {}]

NewEntry(d) ==
  [fd |-> d, events |-> {"POLLIN", "POLLRDHUP", "POLLERR"}, revents |-> {}]

AcceptFails ==
  /\ At("accept")
  /\ i' = i + 1
  /\ UNCHANGED <<pc, fds, user_counter, users, owner, backlog, sock, sent, got>>

(* Mutant: the refused connection is not closed (line 112).                *)
RefuseUserLeaks ==
  /\ At("accept")
  /\ backlog # <<>>
  /\ TableFull
  /\ \E d \in Fds :
       LowestFree(d) /\ owner' = [owner EXCEPT ![d] = Head(backlog)]
  /\ backlog' = Tail(backlog)
  /\ i' = i + 1
  /\ UNCHANGED <<pc, fds, user_counter, users, sock, sent, got>>

RefuseUser ==
  /\ At("accept")
  /\ backlog # <<>>
  /\ TableFull
  /\ ~BreaksPipe(Head(backlog))
  /\ backlog' = Tail(backlog)
  /\ sock' = Closed(Head(backlog), "refused")
  /\ i' = i + 1
  /\ UNCHANGED <<pc, fds, user_counter, users, owner, sent, got>>

AcceptUser ==
  /\ At("accept")
  /\ backlog # <<>>
  /\ ~TableFull
  /\ \E d \in Fds :
       /\ LowestFree(d)
       /\ owner' = [owner EXCEPT ![d] = Head(backlog)]
       /\ fds' = [fds EXCEPT ![user_counter + 1] = NewEntry(d)]
  /\ backlog' = Tail(backlog)
  /\ user_counter' = user_counter + 1
  /\ i' = i + 1
  /\ UNCHANGED <<pc, users, sock, sent, got>>

(* getsockopt(SO_ERROR) reports and clears the pending error. *)
ReportError ==
  /\ At("error")
  /\ sock' = [sock EXCEPT ![Peer].err = "none"]
  /\ i' = i + 1
  /\ UNCHANGED <<pc, fds, user_counter, users, owner, backlog, sent, got>>

(* Mutant: user_counter is decremented before the copy (lines 143-145).    *)
CompactedTooEarly == [fds EXCEPT ![i] = fds[user_counter - 1]]

Compacted == [fds EXCEPT ![i] = fds[user_counter]]

(* Close connfd and move the last entry over entry i, which is examined    *)
(* next: the code decrements i before the loop increments it.              *)
RemoveEntry(data) ==
  /\ users' = [data EXCEPT ![connfd] = data[fds[user_counter].fd]]
  /\ owner' = [owner EXCEPT ![connfd] = NoClient]
  /\ sock' = Closed(Peer, "gone")
  /\ fds' = Compacted
  /\ user_counter' = user_counter - 1
  /\ UNCHANGED <<pc, i, backlog, sent, got>>

Hangup ==
  /\ At("hangup")
  /\ RemoveEntry(users)

(* Mutant: the speaker is not skipped (lines 176-179).                     *)
OthersAndSelf == {fds[k].fd : k \in 1 .. user_counter}

Others == {fds[k].fd : k \in 1 .. user_counter} \ {connfd}

(* recv returned data: point the write_buf of everybody else at it.        *)
RecvData ==
  /\ At("read")
  /\ sock[Peer].rcvq # <<>>
  /\ LET q == sock[Peer].rcvq
         n == IF Len(q) < BUFFER_SIZE THEN Len(q) ELSE BUFFER_SIZE
     IN  /\ sock' = [sock EXCEPT ![Peer].rcvq = SubSeq(q, n + 1, Len(q))]
         /\ users' = [d \in Fds |->
                        [buf |-> IF d = connfd THEN SubSeq(q, 1, n)
                                               ELSE users[d].buf,
                         write_buf |-> IF d \in Others THEN connfd
                                                       ELSE users[d].write_buf]]
  /\ fds' = [k \in Slots |->
               IF k \in 1 .. user_counter /\ fds[k].fd # connfd
                 THEN [fds[k] EXCEPT !.events = @ \cup (Bits \ {"POLLIN"})
                                                  \cup {"POLLOUT"}]
                 ELSE fds[k]]
  /\ i' = i + 1
  /\ UNCHANGED <<pc, user_counter, owner, backlog, sent, got>>

(* recv returned no data, after the memset of the read buffer: -1 with a   *)
(* pending error, or EAGAIN or 0, which the code passes over.              *)
RecvNoData ==
  /\ At("read")
  /\ sock[Peer].rcvq = <<>>
  /\ LET cleared == [users EXCEPT ![connfd].buf = <<>>]
     IN  IF sock[Peer].err # "none"
           THEN RemoveEntry(cleared)
           ELSE /\ users' = cleared
                /\ i' = i + 1
                /\ UNCHANGED <<pc, fds, user_counter, owner, backlog, sock, sent, got>>

PointerCleared == [users EXCEPT ![connfd].write_buf = NULL]

(* The rest of the buffer is lost when a slow reader takes a prefix of it. *)
WritePending ==
  /\ At("write")
  /\ users[connfd].write_buf # NULL
  /\ ~BreaksPipe(Peer)
  /\ LET data == users[users[connfd].write_buf].buf
     IN  \E n \in IF sock[Peer].peer = "rst" THEN {0}
                  ELSE IF Peer \in SlowReaders THEN 0 .. Len(data)
                  ELSE {Len(data)} :
           got' = [got EXCEPT ![Peer] = @ \o SubSeq(data, 1, n)]
  /\ sock' = [sock EXCEPT ![Peer].err = "none"]
  /\ users' = PointerCleared
  /\ fds' = [fds EXCEPT ![i].events = @ \cup (Bits \ {"POLLOUT"}) \cup {"POLLIN"}]
  /\ i' = i + 1
  /\ UNCHANGED <<pc, user_counter, owner, backlog, sent>>

NothingToWrite ==
  /\ At("write")
  /\ users[connfd].write_buf = NULL
  /\ i' = i + 1
  /\ UNCHANGED <<pc, fds, user_counter, users, owner, backlog, sock, sent, got>>

NothingToDo ==
  /\ At("nothing")
  /\ i' = i + 1
  /\ UNCHANGED <<pc, fds, user_counter, users, owner, backlog, sock, sent, got>>

(* send() on a connection that was reset kills the process by SIGPIPE.     *)
KilledWriting ==
  /\ At("write")
  /\ users[connfd].write_buf # NULL
  /\ BreaksPipe(Peer)
  /\ Terminate("killed")

KilledRefusing ==
  /\ At("accept")
  /\ backlog # <<>>
  /\ TableFull
  /\ BreaksPipe(Head(backlog))
  /\ Terminate("killed")

(* Mutant: the loop ends before the last entry (line 92).                  *)
EndOfScanEarly ==
  /\ pc = "scan"
  /\ i >= user_counter
  /\ pc' = "poll"
  /\ i' = 0
  /\ UNCHANGED <<fds, user_counter, users, owner, backlog, sock, sent, got>>

EndOfScan ==
  /\ pc = "scan"
  /\ i > user_counter
  /\ pc' = "poll"
  /\ i' = 0
  /\ UNCHANGED <<fds, user_counter, users, owner, backlog, sock, sent, got>>

-----------------------------------------------------------------------------
ServerStep ==
  \/ Poll
  \/ AcceptFails \/ RefuseUser \/ AcceptUser
  \/ ReportError \/ Hangup \/ RecvData \/ RecvNoData
  \/ WritePending \/ NothingToWrite \/ NothingToDo
  \/ KilledWriting \/ KilledRefusing
  \/ EndOfScan

ClientStep == \E c \in Clients : Connect(c) \/ Say(c) \/ Leave(c) \/ Abort(c)

Next == ServerStep \/ PollFailure \/ ClientStep

Spec == Init /\ [][Next]_vars

(* The server thread is scheduled; poll need not fail, clients owe nothing.*)
FairSpec == Spec /\ WF_vars(ServerStep)
-----------------------------------------------------------------------------
(* Properties *)

(* The poll table and the descriptor table agree (lines 116-145, 155-165): *)
(* while the server runs, its client entries name exactly the open client  *)
(* descriptors, each once, and entry 0 is the listening socket.  A removal *)
(* neither loses a connection, nor leaves a closed descriptor to be        *)
(* polled, nor polls a descriptor twice.                                   *)
TableMatchesDescriptors ==
  Running =>
    /\ fds[0].fd = listenfd
    /\ {fds[k].fd : k \in 1 .. user_counter} = OpenFds
    /\ \A j, k \in 1 .. user_counter : fds[j].fd = fds[k].fd => j = k

(* What poll reported is still true when the loop comes to it, although    *)
(* entries move, arrive and leave during the scan: accept does not block   *)
(* the (blocking) listening socket, recv has data or an error to return,   *)
(* and a connection is dropped as hung up only if its peer is gone (lines  *)
(* 94, 123, 138-148).  Hence recv never returns 0 or EAGAIN.               *)
ReportsAreCurrent ==
  /\ At("accept") => backlog # <<>>
  /\ At("read") => sock[Peer].rcvq # <<>> \/ sock[Peer].err # "none"
  /\ At("hangup") => sock[Peer].peer \in {"fin", "rst"}

(* write_buf, which new client_data[] leaves uninitialised and which        *)
(* compaction copies between objects (lines 68, 141, 161), is never read    *)
(* for an entry before a broadcast has set it: POLLOUT is registered only   *)
(* on entries whose object holds NULL or a pointer.                         *)
NoUninitialisedPointer ==
  Running => \A k \in 1 .. user_counter :
    "POLLOUT" \in fds[k].events => users[fds[k].fd].write_buf # Uninit

(* The descriptor number indexes users[] (lines 63-68): because the kernel  *)
(* hands out the lowest free number and a refused connection is closed at   *)
(* once, descriptors of clients never exceed USER_LIMIT, far inside users[].*)
DescriptorsStaySmall == OpenFds \subseteq 1 .. USER_LIMIT

(* As long as no member has left, passing pointers instead of data is safe  *)
(* (lines 173-200): the server is a ChatRoom.  A member is written only what *)
(* others said and the server has read, never bytes nobody said, and of each *)
(* author in the order said, without gaps in a write and never twice.        *)
Room == INSTANCE ChatRoom WITH
          calm <- \A c \in Clients : sock[c].peer # "gone",
          said <- [c \in Clients |-> sent[c] - Len(sock[c].rcvq)],
          heard <- got

ImplementsRoom == Room!Spec

(* A member that closes or resets its connection is taken out of the table  *)
(* and its descriptor closed (lines 126-147), unless the server ends.       *)
DepartureReclaimed ==
  \A c \in Clients :
    (c \in {owner[d] : d \in Fds} /\ sock[c].peer \in {"fin", "rst"})
      ~> c \notin {owner[d] : d \in Fds}

(* A member that has room and nothing more to say is written the data that  *)
(* waits for it (lines 187-201), unless it leaves or the server ends.  The  *)
(* read branch comes first, so a member that never stops talking may starve.*)
Waiting(c) ==
  \E k \in 1 .. user_counter :
    /\ owner[fds[k].fd] = c
    /\ "POLLOUT" \in fds[k].events
    /\ users[fds[k].fd].write_buf # NULL

QuietMemberIsWritten ==
  \A c \in Clients \ SlowReaders :
    (Running /\ Waiting(c) /\ sent[c] = MaxSend /\ sock[c].rcvq = <<>>)
      ~> ~(Running /\ Waiting(c))

-----------------------------------------------------------------------------
(* What comments of the source say and the code does not do *)

(* Line 173: data from a client is announced to the OTHER connections, so   *)
(* nobody is written his own words.                                         *)
OnlyOthersWords ==
  \A c \in Clients : \A j \in 1 .. Len(got[c]) : got[c][j][1] # c
=============================================================================
