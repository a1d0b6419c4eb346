-------------------------- MODULE TalkServerProofs --------------------------
(***************************************************************************)
(* Proofs about the chat server, for every number of clients, every limit  *)
(* and every schedule.  Three invariants need each other, so they are      *)
(* proved together, from one inductive invariant; the bound of descriptors,*)
(* the truth of poll's reports and, as long as nobody has left, the        *)
(* refinement of ChatRoom follow on top of it.                             *)
(***************************************************************************)
EXTENDS TalkServer, SequenceTheorems, FiniteSetTheorems, WellFoundedInduction, TLAPS

(* The poll table lists exactly the open descriptors.                      *)
Table ==
  Running =>
    /\ fds[0].fd = listenfd
    /\ \A k \in 1 .. user_counter :
         fds[k].fd \in Fds /\ owner[fds[k].fd] # NoClient
    /\ \A d \in Fds :
         owner[d] # NoClient => \E k \in 1 .. user_counter : fds[k].fd = d
    /\ \A j, k \in 1 .. user_counter : fds[j].fd = fds[k].fd => j = k

(* Nothing is reported that was not asked for: so the listening socket is  *)
(* never read or hung up, and write_buf is read only if POLLOUT was asked. *)
Reports ==
  Running =>
    /\ fds[0].revents \subseteq {"POLLIN"}
    /\ \A k \in 1 .. user_counter :
         fds[k].revents \subseteq fds[k].events \cup {"POLLERR"}

Pointers ==
  Running => \A k \in 1 .. user_counter :
    "POLLOUT" \in fds[k].events => users[fds[k].fd].write_buf # Uninit

IndexInTable == pc = "scan" => i <= user_counter + 1

IInv == TypeOK /\ Table /\ Reports /\ Pointers /\ IndexInTable

-----------------------------------------------------------------------------
(* An entry with something to do other than accept is a client entry, and  *)
(* its owner is a client.                                                  *)
LEMMA ClientEntry ==
  ASSUME IInv, NEW b \in {"error", "hangup", "read", "write"}, At(b)
  PROVE  /\ i \in 1 .. user_counter
         /\ connfd \in Fds
         /\ Peer \in Clients
         /\ user_counter \in 1 .. USER_LIMIT
  BY TalkAssumption
     DEF IInv, TypeOK, Table, Reports, At, Branch, connfd, Peer, Running,
         listenfd, Fds, Slots, Bits, PollFd

(* The server starts with an empty table and nothing reported (lines 68-80).*)
LEMMA InitInv == Init => IInv
  BY TalkAssumption
     DEF Init, IInv, TypeOK, Table, Reports, Pointers, IndexInTable, Running,
         listenfd, Fds, Slots, Bits, PollFd, ClientData, Socket, Unit,
         UninitData, NULL, Uninit

-----------------------------------------------------------------------------
(* One lemma per group of actions.                                         *)

(* Connections, data, FIN and RST touch neither the table nor users[].      *)
LEMMA EnvironmentStep ==
  ASSUME IInv, ClientStep
  PROVE  IInv'
<1>1. PICK c \in Clients : Connect(c) \/ Say(c) \/ Leave(c) \/ Abort(c)
  BY DEF ClientStep
<1>2. UNCHANGED <<pc, i, fds, user_counter, users, owner, got>>
  BY <1>1 DEF Connect, Say, Leave, Abort, server
<1>3. backlog' \in Seq(Clients)
  <2>1. CASE Connect(c)
    BY <2>1, AppendProperties DEF Connect, IInv, TypeOK
  <2>2. CASE Say(c) \/ Leave(c) \/ Abort(c)
    BY <2>2 DEF Say, Leave, Abort, IInv, TypeOK
  <2>3. QED
    BY <1>1, <2>1, <2>2
<1>4. sent' \in [Clients -> Nat]
  BY <1>1 DEF Connect, Say, Leave, Abort, IInv, TypeOK
<1>5. sock' \in [Clients -> Socket]
  <2>1. CASE Connect(c)
    BY <2>1 DEF Connect, IInv, TypeOK, Socket
  <2>2. CASE Say(c)
    <3>1. <<c, sent[c] + 1>> \in Unit /\ sock[c].rcvq \in Seq(Unit)
      BY DEF Unit, IInv, TypeOK, Socket
    <3>2. Append(sock[c].rcvq, <<c, sent[c] + 1>>) \in Seq(Unit)
      BY <3>1, AppendProperties
    <3>3. QED
      BY <2>2, <3>2 DEF Say, IInv, TypeOK, Socket
  <2>3. CASE Leave(c)
    BY <2>3 DEF Leave, IInv, TypeOK, Socket
  <2>4. CASE Abort(c)
    <3>1. PICK kept \in {sock[c].rcvq} \cup (IF RstDiscards THEN {<<>>} ELSE {}) :
            sock' = [sock EXCEPT ![c] =
                       [peer |-> "rst",
                        err  |-> IF @.peer = "fin" THEN "EPIPE" ELSE "ECONNRESET",
                        rcvq |-> kept]]
      BY <2>4 DEF Abort
    <3>2. kept \in Seq(Unit)
      <4>1. sock[c].rcvq \in Seq(Unit)
        BY DEF IInv, TypeOK, Socket
      <4>2. <<>> \in Seq(Unit)
        BY EmptySeq
      <4>3. QED
        BY <4>1, <4>2
    <3>3. QED
      BY <3>1, <3>2 DEF IInv, TypeOK, Socket
  <2>5. QED
    BY <1>1, <2>1, <2>2, <2>3, <2>4
<1>6. TypeOK'
  BY <1>2, <1>3, <1>4, <1>5 DEF IInv, TypeOK
<1>7. QED
  BY <1>2, <1>6 DEF IInv, Table, Reports, Pointers, IndexInTable, Running

(* Exit and SIGPIPE: the kernel closes everything, and nothing runs on.     *)
LEMMA TerminateStep ==
  ASSUME IInv, NEW how \in {"exited", "killed"}, Terminate(how)
  PROVE  IInv'
<1>1. TypeOK'
  BY DEF Terminate, IInv, TypeOK, Socket
<1>2. QED
  BY <1>1 DEF Terminate, IInv, Table, Reports, Pointers, IndexInTable, Running

(* poll reports only what is registered, or POLLERR (line 84).              *)
LEMMA PollStep ==
  ASSUME IInv, Poll
  PROVE  IInv'
<1> DEFINE R(k, stuck) == Ready(fds[k].fd, Clients \ stuck)
                            \cap (fds[k].events \cup {"POLLERR"})
<1>1. PICK stuck \in SUBSET SlowReaders :
        fds' = [k \in Slots |->
                  IF k <= user_counter
                    THEN [fds[k] EXCEPT !.revents = R(k, stuck)] ELSE fds[k]]
  BY DEF Poll
<1>2. \A k \in Slots : R(k, stuck) \subseteq Bits
  BY DEF IInv, TypeOK, PollFd, Bits
<1>3. ASSUME NEW k \in Slots
      PROVE  /\ fds'[k] \in PollFd
             /\ fds'[k].fd = fds[k].fd
             /\ fds'[k].events = fds[k].events
             /\ k <= user_counter => fds'[k].revents = R(k, stuck)
  <2> HIDE DEF R
  <2>1. fds[k] \in PollFd
    BY DEF IInv, TypeOK
  <2>2. QED
    BY <1>1, <1>2, <2>1 DEF PollFd
<1>4. /\ UNCHANGED <<user_counter, users, owner, backlog, sock, sent, got>>
      /\ pc = "poll" /\ pc' = "scan" /\ i' = 0
  BY DEF Poll
<1>5. TypeOK'
  <2> HIDE DEF R
  <2>1. fds' \in [Slots -> PollFd]
    BY <1>1, <1>3, Zenon
  <2>2. QED
    BY <1>4, <2>1, TalkAssumption DEF IInv, TypeOK
<1>6. Reports'
  <2>1. 0 \in Slots /\ 1 .. user_counter \subseteq Slots /\ 0 <= user_counter
    BY TalkAssumption DEF IInv, TypeOK, Slots
  <2>2. fds'[0].revents \subseteq {"POLLIN"}
    BY <1>3, <1>4, <2>1 DEF IInv, Table, Running, Ready
  <2>3. \A k \in 1 .. user_counter :
          fds'[k].revents \subseteq fds'[k].events \cup {"POLLERR"}
    BY <1>3, <2>1
  <2>4. QED
    BY <1>4, <2>2, <2>3 DEF Reports
<1>7. Table' /\ Pointers' /\ IndexInTable'
  <2> HIDE DEF R
  <2>1. 0 \in Slots /\ 1 .. user_counter \subseteq Slots /\ 0 <= user_counter + 1
    BY TalkAssumption DEF IInv, TypeOK, Slots
  <2>2. Table'
    BY <1>3, <1>4, <2>1 DEF IInv, Table, Running
  <2>3. Pointers'
    BY <1>3, <1>4, <2>1 DEF IInv, Pointers, Running
  <2>4. IndexInTable'
    BY <1>4, <2>1 DEF IndexInTable
  <2>5. QED
    BY <2>2, <2>3, <2>4
<1>8. QED
  BY <1>5, <1>6, <1>7 DEF IInv

(* The steps that only pass over an entry, or answer a waiting client      *)
(* without touching the tables.                                            *)
LEMMA PassStep ==
  ASSUME IInv,
         \/ AcceptFails \/ RefuseUser \/ ReportError
         \/ NothingToWrite \/ NothingToDo \/ EndOfScan
  PROVE  IInv'
<1>1. UNCHANGED <<fds, user_counter, users, owner, sent, got>>
  BY DEF AcceptFails, RefuseUser, ReportError, NothingToWrite, NothingToDo,
         EndOfScan
<1>2. /\ Running
      /\ \/ pc' = pc /\ i' = i + 1 /\ i <= user_counter
         \/ pc' = "poll" /\ i' = 0
  BY DEF AcceptFails, RefuseUser, ReportError, NothingToWrite, NothingToDo,
         EndOfScan, At, Running
<1>3. backlog' \in Seq(Clients)
  <2>1. CASE RefuseUser
    BY <2>1, HeadTailProperties DEF RefuseUser, IInv, TypeOK
  <2>2. CASE ~RefuseUser
    BY <2>2 DEF AcceptFails, ReportError, NothingToWrite, NothingToDo, EndOfScan,
                IInv, TypeOK
  <2>3. QED
    BY <2>1, <2>2
<1>4. sock' \in [Clients -> Socket]
  <2>1. CASE RefuseUser
    BY <2>1 DEF RefuseUser, Closed, IInv, TypeOK, Socket
  <2>2. CASE ReportError
    BY <2>2 DEF ReportError, IInv, TypeOK, Socket
  <2>3. CASE AcceptFails \/ NothingToWrite \/ NothingToDo \/ EndOfScan
    BY <2>3 DEF AcceptFails, NothingToWrite, NothingToDo, EndOfScan, IInv, TypeOK
  <2>4. QED
    BY <2>1, <2>2, <2>3
<1>5. TypeOK'
  BY <1>1, <1>2, <1>3, <1>4, TalkAssumption DEF IInv, TypeOK, Slots
<1>6. QED
  BY <1>1, <1>2, <1>5
     DEF IInv, TypeOK, Table, Reports, Pointers, IndexInTable, Running, Slots

(* A new entry goes behind the last, on a descriptor no entry has, and asks *)
(* for no POLLOUT (lines 116-124).                                          *)
LEMMA AcceptStep ==
  ASSUME IInv, AcceptUser
  PROVE  IInv'
<1>1. PICK d \in Fds :
        /\ owner[d] = NoClient
        /\ owner' = [owner EXCEPT ![d] = Head(backlog)]
        /\ fds' = [fds EXCEPT ![user_counter + 1] = NewEntry(d)]
  BY DEF AcceptUser, LowestFree, OpenFds
<1>2. /\ pc = "scan" /\ i <= user_counter
      /\ user_counter' = user_counter + 1 /\ i' = i + 1
      /\ UNCHANGED <<pc, users, sock, sent, got>>
      /\ user_counter + 1 \in Slots
      /\ user_counter' \in Nat \ {0}
  BY TalkAssumption DEF AcceptUser, At, TableFull, IInv, TypeOK, Slots
<1>3. /\ Head(backlog) \in Clients
      /\ backlog' \in Seq(Clients)
  BY DEF AcceptUser, IInv, TypeOK
<1>4. NewEntry(d) \in PollFd
  BY DEF NewEntry, PollFd, Fds, Bits
<1>5. TypeOK'
  BY <1>1, <1>2, <1>3, <1>4, TalkAssumption DEF IInv, TypeOK, Slots
<1>6. /\ fds'[user_counter'] = NewEntry(d)
      /\ \A k \in 0 .. user_counter : fds'[k] = fds[k]
      /\ owner'[d] = Head(backlog)
      /\ \A e \in Fds \ {d} : owner'[e] = owner[e]
  BY <1>1, <1>2, TalkAssumption DEF IInv, TypeOK, Slots
<1>7. Table'
  BY <1>1, <1>2, <1>3, <1>6, TalkAssumption
     DEF IInv, TypeOK, Table, Running, NewEntry, Slots, listenfd
<1>8. Reports' /\ Pointers' /\ IndexInTable'
  BY <1>1, <1>2, <1>6
     DEF IInv, TypeOK, Table, Reports, Pointers, IndexInTable, Running, NewEntry, Slots
<1>9. QED
  BY <1>5, <1>7, <1>8 DEF IInv

(* The removal of entry i, where data is users[], or users[] with the read *)
(* buffer of the leaving client cleared.                                   *)
LEMMA RemovalStep ==
  ASSUME IInv, pc = "scan",
         i \in 1 .. user_counter, connfd \in Fds, Peer \in Clients,
         user_counter \in 1 .. USER_LIMIT,
         NEW data \in [Fds -> ClientData],
         \A d \in Fds : data[d].write_buf = users[d].write_buf,
         RemoveEntry(data)
  PROVE  IInv'
<1> DEFINE last == fds[user_counter]
<1>1. /\ i \in Slots /\ user_counter \in Slots /\ user_counter - 1 \in Slots
      /\ last \in PollFd /\ last.fd \in Fds
      /\ Running
      /\ 1 .. user_counter \subseteq Slots
  BY TalkAssumption DEF IInv, TypeOK, Table, Running, Slots
<1>2. /\ users' = [data EXCEPT ![connfd] = data[last.fd]]
      /\ owner' = [owner EXCEPT ![connfd] = NoClient]
      /\ fds' = [fds EXCEPT ![i] = last]
      /\ user_counter' = user_counter - 1
      /\ UNCHANGED <<pc, i, backlog, sent, got>>
  BY DEF RemoveEntry, Compacted
<1>3. sock' \in [Clients -> Socket]
  <2>1. <<>> \in Seq(Unit)
    BY EmptySeq
  <2>2. QED
    BY <2>1 DEF RemoveEntry, Closed, IInv, TypeOK, Socket
<1>4. TypeOK'
  BY <1>1, <1>2, <1>3 DEF IInv, TypeOK
<1>5. /\ fds'[0] = fds[0]
      /\ \A k \in 1 .. user_counter' :
           fds'[k] = IF k = i THEN last ELSE fds[k]
      /\ \A k \in 1 .. user_counter' : k \in 1 .. user_counter /\ k # user_counter
  BY <1>1, <1>2 DEF IInv, TypeOK
(* The leaving descriptor is no longer listed, and nobody else is lost.    *)
<1>6. \A k \in 1 .. user_counter' :
        /\ fds'[k].fd \in Fds \ {connfd}
        /\ owner[fds'[k].fd] # NoClient
  BY <1>1, <1>5 DEF IInv, Table, connfd
<1>7. Table'
  <2>1. fds'[0].fd = listenfd
    BY <1>1, <1>5 DEF IInv, Table
  <2>2. \A k \in 1 .. user_counter' : fds'[k].fd \in Fds /\ owner'[fds'[k].fd] # NoClient
    BY <1>2, <1>6 DEF IInv, TypeOK
  <2>3. ASSUME NEW d \in Fds, owner'[d] # NoClient
        PROVE  \E k \in 1 .. user_counter' : fds'[k].fd = d
    <3>1. d # connfd /\ owner[d] # NoClient
      BY <1>2, <2>3 DEF IInv, TypeOK
    <3>2. PICK k \in 1 .. user_counter : fds[k].fd = d
      BY <1>1, <3>1 DEF IInv, Table
    <3>3. k # i
      BY <3>1, <3>2 DEF connfd
    <3>4. CASE k = user_counter
      <4>1. i \in 1 .. user_counter'
        BY <1>1, <1>2, <3>3, <3>4 DEF Slots
      <4>2. fds'[i].fd = d
        BY <1>5, <3>2, <3>4, <4>1
      <4>3. QED
        BY <4>1, <4>2
    <3>5. CASE k # user_counter
      BY <1>2, <1>5, <3>2, <3>3, <3>5
    <3>6. QED
      BY <3>4, <3>5
  <2>4. \A j, k \in 1 .. user_counter' : fds'[j].fd = fds'[k].fd => j = k
    BY <1>1, <1>5 DEF IInv, Table
  <2>5. QED
    BY <2>1, <2>2, <2>3, <2>4 DEF Table
<1>8. Reports'
  BY <1>1, <1>5 DEF IInv, Reports
<1>9. Pointers'
  <2>1. ASSUME NEW k \in 1 .. user_counter', "POLLOUT" \in fds'[k].events
        PROVE  users'[fds'[k].fd].write_buf # Uninit
    <3>1. users'[fds'[k].fd].write_buf = users[fds'[k].fd].write_buf
      BY <1>2, <1>6
    <3>2. users[fds'[k].fd].write_buf # Uninit
      BY <1>1, <1>5, <2>1 DEF IInv, Pointers
    <3>3. QED
      BY <3>1, <3>2
  <2>2. QED
    BY <2>1 DEF Pointers
<1>10. IndexInTable'
  BY <1>1, <1>2 DEF IndexInTable
<1>11. QED
  BY <1>4, <1>7, <1>8, <1>9, <1>10 DEF IInv

(* The peer has closed: remove its entry (lines 138-147).                   *)
LEMMA HangupStep ==
  ASSUME IInv, Hangup
  PROVE  IInv'
<1>1. At("hangup") /\ RemoveEntry(users)
  BY DEF Hangup
<1>2. users \in [Fds -> ClientData] /\ pc = "scan"
  BY <1>1 DEF At, IInv, TypeOK
<1>3. QED
  BY <1>1, <1>2, ClientEntry, RemovalStep

(* recv fails, and the entry is removed, or is passed over (lines 148-170). *)
LEMMA RecvNoDataStep ==
  ASSUME IInv, RecvNoData
  PROVE  IInv'
<1> DEFINE cleared == [users EXCEPT ![connfd].buf = <<>>]
<1>1. At("read") /\ pc = "scan" /\ i <= user_counter
  BY DEF RecvNoData, At
<1>2. /\ i \in 1 .. user_counter /\ connfd \in Fds /\ Peer \in Clients
      /\ user_counter \in 1 .. USER_LIMIT
  BY <1>1, ClientEntry
<1>3. /\ cleared \in [Fds -> ClientData]
      /\ \A d \in Fds : cleared[d].write_buf = users[d].write_buf
  <2>1. <<>> \in Seq(Unit)
    BY EmptySeq
  <2>2. users \in [Fds -> ClientData]
    BY DEF IInv, TypeOK
  <2>3. QED
    BY <1>2, <2>1, <2>2 DEF ClientData
<1>4. CASE RemoveEntry(cleared)
  BY <1>1, <1>2, <1>3, <1>4, RemovalStep
<1>5. CASE /\ users' = cleared /\ i' = i + 1
           /\ UNCHANGED <<pc, fds, user_counter, owner, backlog, sock, sent, got>>
  <2>1. TypeOK'
    BY <1>1, <1>2, <1>3, <1>5, TalkAssumption DEF IInv, TypeOK, Slots
  <2>2. Pointers'
    BY <1>1, <1>3, <1>5 DEF IInv, Pointers, Table, Running
  <2>3. Table' /\ Reports'
    BY <1>5 DEF IInv, Table, Reports, Running
  <2>4. IndexInTable'
    BY <1>1, <1>2, <1>5 DEF IndexInTable
  <2>5. QED
    BY <2>1, <2>2, <2>3, <2>4 DEF IInv
<1>6. QED
  BY <1>4, <1>5 DEF RecvNoData

(* POLLOUT is registered only with a pointer to a buffer (lines 171-185).   *)
LEMMA RecvDataStep ==
  ASSUME IInv, RecvData
  PROVE  IInv'
<1> DEFINE q == sock[Peer].rcvq
           n == IF Len(q) < BUFFER_SIZE THEN Len(q) ELSE BUFFER_SIZE
<1>1. At("read") /\ pc = "scan" /\ i <= user_counter
  BY DEF RecvData, At
<1>2. /\ i \in 1 .. user_counter /\ connfd \in Fds /\ Peer \in Clients
      /\ user_counter \in 1 .. USER_LIMIT
      /\ 1 .. user_counter \subseteq Slots
  <2>1. /\ i \in 1 .. user_counter /\ connfd \in Fds /\ Peer \in Clients
        /\ user_counter \in 1 .. USER_LIMIT
    BY <1>1, ClientEntry
  <2>2. QED
    BY <2>1, TalkAssumption DEF Slots
<1>3. /\ sock' = [sock EXCEPT ![Peer].rcvq = SubSeq(q, n + 1, Len(q))]
      /\ users' = [d \in Fds |->
                     [buf |-> IF d = connfd THEN SubSeq(q, 1, n) ELSE users[d].buf,
                      write_buf |-> IF d \in Others THEN connfd
                                                    ELSE users[d].write_buf]]
      /\ fds' = [k \in Slots |->
                   IF k \in 1 .. user_counter /\ fds[k].fd # connfd
                     THEN [fds[k] EXCEPT !.events = @ \cup (Bits \ {"POLLIN"})
                                                      \cup {"POLLOUT"}]
                     ELSE fds[k]]
      /\ i' = i + 1
      /\ UNCHANGED <<pc, user_counter, owner, backlog, sent, got>>
  BY DEF RecvData
<1>4. /\ SubSeq(q, 1, n) \in Seq(Unit)
      /\ SubSeq(q, n + 1, Len(q)) \in Seq(Unit)
  <2>1. q \in Seq(Unit)
    BY <1>2 DEF IInv, TypeOK, Socket
  <2>2. Len(q) \in Nat /\ \A k \in 1 .. Len(q) : q[k] \in Unit
    BY <2>1, LenProperties, ElementOfSeq
  <2>3. n \in 0 .. Len(q)
    BY <2>2, TalkAssumption
  <2> HIDE DEF q, n
  <2>4. SubSeq(q, 1, n) \in Seq(Unit)
    <3>1. 1 \in Int /\ n \in Int
      BY <2>2, <2>3
    <3>2. \A k \in 1 .. n : q[k] \in Unit
      BY <2>2, <2>3
    <3>3. QED
      BY <3>1, <3>2, SubSeqProperties
  <2>5. SubSeq(q, n + 1, Len(q)) \in Seq(Unit)
    <3>1. n + 1 \in Int /\ Len(q) \in Int
      BY <2>2, <2>3
    <3>2. \A k \in n + 1 .. Len(q) : q[k] \in Unit
      BY <2>2, <2>3
    <3>3. QED
      BY <3>1, <3>2, SubSeqProperties
  <2>6. QED
    BY <2>4, <2>5
<1>5. sock' \in [Clients -> Socket]
  <2> HIDE DEF q, n
  <2>1. QED
    BY <1>2, <1>3, <1>4 DEF IInv, TypeOK, Socket
<1>6. users' \in [Fds -> ClientData]
  <2> HIDE DEF q, n
  <2>1. users \in [Fds -> ClientData]
    BY DEF IInv, TypeOK
  <2>2. QED
    BY <1>2, <1>3, <1>4, <2>1 DEF ClientData
<1>7. ASSUME NEW k \in Slots
      PROVE  /\ fds'[k] \in PollFd
             /\ fds'[k].fd = fds[k].fd
             /\ fds'[k].revents = fds[k].revents
             /\ fds[k].events \subseteq fds'[k].events
             /\ ~(k \in 1 .. user_counter /\ fds[k].fd # connfd) =>
                  fds'[k].events = fds[k].events
  BY <1>3 DEF IInv, TypeOK, PollFd, Bits
<1>8. TypeOK'
  <2>1. fds' \in [Slots -> PollFd]
    BY <1>3, <1>7, Zenon
  <2>2. i' \in 0 .. USER_LIMIT + 1
    BY <1>2, <1>3, TalkAssumption DEF Slots
  <2>3. QED
    BY <1>3, <1>5, <1>6, <2>1, <2>2 DEF IInv, TypeOK
<1>9. Table' /\ Reports'
  <2>1. 0 \in Slots
    BY TalkAssumption DEF Slots
  <2>2. Table'
    BY <1>1, <1>2, <1>3, <1>7, <2>1 DEF IInv, Table, Running
  <2>3. Reports'
    BY <1>1, <1>2, <1>3, <1>7, <2>1 DEF IInv, Reports, Running
  <2>4. QED
    BY <2>2, <2>3
(* Whoever is now asked for POLLOUT has been given a pointer.              *)
<1>10. Pointers'
  <2>1. ASSUME NEW k \in 1 .. user_counter, "POLLOUT" \in fds'[k].events
        PROVE  users'[fds'[k].fd].write_buf # Uninit
    <3>1. k \in Slots /\ fds[k].fd \in Fds /\ Running
      BY <1>1, <1>2 DEF IInv, Table, Running
    <3>2. users'[fds'[k].fd].write_buf =
            IF fds[k].fd \in Others THEN connfd ELSE users[fds[k].fd].write_buf
      BY <1>3, <1>7, <3>1
    <3>3. CASE fds[k].fd # connfd
      <4>1. fds[k].fd \in Others
        BY <3>3 DEF Others
      <4>2. QED
        BY <1>2, <3>2, <4>1 DEF Fds, Uninit
    <3>4. CASE fds[k].fd = connfd
      <4>1. fds[k].fd \notin Others
        BY <3>4 DEF Others
      <4>2. "POLLOUT" \in fds[k].events
        BY <1>7, <2>1, <3>1, <3>4
      <4>3. QED
        BY <3>1, <3>2, <4>1, <4>2 DEF IInv, Pointers
    <3>5. QED
      BY <3>3, <3>4
  <2>2. QED
    BY <1>3, <2>1 DEF Pointers
<1>11. IndexInTable'
  BY <1>2, <1>3 DEF IndexInTable
<1>12. QED
  BY <1>8, <1>9, <1>10, <1>11 DEF IInv

(* What is written is a buffer some client filled (lines 187-201).          *)
LEMMA WritePendingStep ==
  ASSUME IInv, WritePending
  PROVE  IInv'
<1>1. At("write") /\ pc = "scan" /\ i <= user_counter
  BY DEF WritePending, At
<1>2. /\ i \in 1 .. user_counter /\ connfd \in Fds /\ Peer \in Clients
      /\ user_counter \in 1 .. USER_LIMIT
  BY <1>1, ClientEntry
<1>3. i \in Slots /\ 0 \in Slots /\ 1 .. user_counter \subseteq Slots /\ Running
  BY <1>1, <1>2, TalkAssumption DEF Slots, Running
(* POLLOUT was reported, so it was asked for, so a pointer was set.        *)
<1>4. users[connfd].write_buf \in Fds
  <2>1. "POLLOUT" \in fds[i].revents
    BY <1>1 DEF At, Branch
  <2>2. "POLLOUT" \in fds[i].events
    BY <1>2, <1>3, <2>1 DEF IInv, Reports
  <2>3. users[connfd].write_buf \notin {NULL, Uninit}
    BY <1>2, <1>3, <2>2 DEF IInv, Pointers, connfd, WritePending
  <2>4. users[connfd] \in ClientData
    BY <1>2 DEF IInv, TypeOK
  <2>5. QED
    BY <2>3, <2>4 DEF ClientData
<1>5. got' \in [Clients -> Seq(Unit)]
  <2> DEFINE data == users[users[connfd].write_buf].buf
  <2>1. data \in Seq(Unit)
    BY <1>4 DEF IInv, TypeOK, ClientData
  <2>2. Len(data) \in Nat /\ \A k \in 1 .. Len(data) : data[k] \in Unit
    BY <2>1, LenProperties, ElementOfSeq
  <2>3. PICK n \in 0 .. Len(data) :
          got' = [got EXCEPT ![Peer] = @ \o SubSeq(data, 1, n)]
    <3>1. PICK m \in IF sock[Peer].peer = "rst" THEN {0}
                     ELSE IF Peer \in SlowReaders THEN 0 .. Len(data)
                     ELSE {Len(data)} :
            got' = [got EXCEPT ![Peer] = @ \o SubSeq(data, 1, m)]
      BY DEF WritePending
    <3>2. m \in 0 .. Len(data)
      BY <2>2
    <3>3. QED
      BY <3>1, <3>2
  <2> HIDE DEF data
  <2>4. SubSeq(data, 1, n) \in Seq(Unit)
    <3>1. 1 \in Int /\ n \in Int
      BY <2>2, <2>3
    <3>2. \A k \in 1 .. n : data[k] \in Unit
      BY <2>2, <2>3
    <3>3. QED
      BY <3>1, <3>2, SubSeqProperties
  <2>5. got \in [Clients -> Seq(Unit)]
    BY DEF IInv, TypeOK
  <2>6. got[Peer] \o SubSeq(data, 1, n) \in Seq(Unit)
    BY <1>2, <2>4, <2>5, ConcatProperties
  <2>7. QED
    BY <1>2, <2>3, <2>5, <2>6
<1>6. /\ users' = [users EXCEPT ![connfd].write_buf = NULL]
      /\ fds' = [fds EXCEPT ![i].events = @ \cup (Bits \ {"POLLOUT"}) \cup {"POLLIN"}]
      /\ i' = i + 1
      /\ UNCHANGED <<pc, user_counter, owner, backlog, sent>>
  BY DEF WritePending, PointerCleared
<1>7. sock' \in [Clients -> Socket]
  BY <1>2, ZenonT(30) DEF WritePending, IInv, TypeOK, Socket
<1>8. users' \in [Fds -> ClientData]
  BY <1>2, <1>6 DEF IInv, TypeOK, ClientData
<1>9. /\ fds' \in [Slots -> PollFd]
      /\ \A k \in Slots : /\ fds'[k].fd = fds[k].fd
                          /\ fds'[k].revents = fds[k].revents
                          /\ fds[k].events \subseteq fds'[k].events
                          /\ k # i => fds'[k].events = fds[k].events
  <2>1. fds \in [Slots -> PollFd]
    BY DEF IInv, TypeOK
  <2>2. fds[i].events \cup (Bits \ {"POLLOUT"}) \cup {"POLLIN"} \in SUBSET Bits
    BY <1>3, <2>1 DEF PollFd, Bits
  <2>3. QED
    BY <1>3, <1>6, <2>1, <2>2 DEF PollFd
<1>10. TypeOK'
  <2>1. i' \in 0 .. USER_LIMIT + 1
    BY <1>2, <1>6, TalkAssumption
  <2>2. QED
    BY <1>5, <1>6, <1>7, <1>8, <1>9, <2>1 DEF IInv, TypeOK
<1>11. Table'
  BY <1>3, <1>6, <1>9 DEF IInv, Table, Running
<1>12. Reports'
  BY <1>3, <1>6, <1>9 DEF IInv, Reports, Running
<1>13. Pointers'
  <2>1. ASSUME NEW k \in 1 .. user_counter, "POLLOUT" \in fds'[k].events
        PROVE  users'[fds'[k].fd].write_buf # Uninit
    <3>1. k \in Slots /\ fds'[k].fd = fds[k].fd /\ fds[k].fd \in Fds
      BY <1>3, <1>9 DEF IInv, Table
    <3>2. CASE k = i
      BY <1>2, <1>6, <3>1, <3>2 DEF IInv, TypeOK, ClientData, connfd, NULL, Uninit
    <3>3. CASE k # i
      <4>1. fds[k].fd # connfd
        BY <1>2, <1>3, <3>3 DEF IInv, Table, connfd
      <4>2. users'[fds[k].fd] = users[fds[k].fd]
        BY <1>6, <3>1, <4>1 DEF IInv, TypeOK
      <4>3. "POLLOUT" \in fds[k].events
        BY <1>9, <2>1, <3>1, <3>3
      <4>4. QED
        BY <1>3, <3>1, <4>2, <4>3 DEF IInv, Pointers
    <3>4. QED
      BY <3>2, <3>3
  <2>2. QED
    BY <1>6, <2>1 DEF Pointers
<1>14. IndexInTable'
  BY <1>2, <1>6 DEF IndexInTable
<1>15. QED
  BY <1>10, <1>11, <1>12, <1>13, <1>14 DEF IInv

-----------------------------------------------------------------------------
(* Every step preserves the inductive invariant.                           *)
LEMMA NextInv == IInv /\ [Next]_vars => IInv'
<1> SUFFICES ASSUME IInv, [Next]_vars
             PROVE  IInv'
  OBVIOUS
<1>1. CASE ClientStep
  BY <1>1, EnvironmentStep
<1>2. CASE Poll
  BY <1>2, PollStep
<1>3. CASE PollFailure \/ KilledWriting \/ KilledRefusing
  <2>1. Terminate("exited") \/ Terminate("killed")
    BY <1>3 DEF PollFailure, KilledWriting, KilledRefusing
  <2>2. QED
    BY <2>1, TerminateStep
<1>4. CASE \/ AcceptFails \/ RefuseUser \/ ReportError
           \/ NothingToWrite \/ NothingToDo \/ EndOfScan
  BY <1>4, PassStep
<1>5. CASE AcceptUser
  BY <1>5, AcceptStep
<1>6. CASE Hangup
  BY <1>6, HangupStep
<1>7. CASE RecvData
  BY <1>7, RecvDataStep
<1>8. CASE RecvNoData
  BY <1>8, RecvNoDataStep
<1>9. CASE WritePending
  BY <1>9, WritePendingStep
<1>10. CASE UNCHANGED vars
  <2>1. UNCHANGED <<pc, i, fds, user_counter, users, owner, backlog, sock, sent, got>>
    BY <1>10 DEF vars
  <2>2. QED
    BY <2>1 DEF IInv, TypeOK, Table, Reports, Pointers, IndexInTable, Running
<1>11. QED
  BY <1>1, <1>2, <1>3, <1>4, <1>5, <1>6, <1>7, <1>8, <1>9, <1>10 DEF Next, ServerStep

(* The invariant holds throughout.                                          *)
LEMMA Invariance == Spec => []IInv
  BY InitInv, NextInv, PTL DEF Spec

(* The three properties are parts of the invariant.                        *)
LEMMA InvImplies == IInv => TypeOK /\ TableMatchesDescriptors /\ NoUninitialisedPointer
<1> SUFFICES ASSUME IInv
             PROVE  TypeOK /\ TableMatchesDescriptors /\ NoUninitialisedPointer
  OBVIOUS
<1>1. TypeOK
  BY DEF IInv
<1>2. ASSUME Running
      PROVE  {fds[k].fd : k \in 1 .. user_counter} = OpenFds
  BY <1>2 DEF IInv, Table, OpenFds
<1>3. TableMatchesDescriptors
  BY <1>2 DEF IInv, Table, TableMatchesDescriptors
<1>4. NoUninitialisedPointer
  BY DEF IInv, Pointers, NoUninitialisedPointer
<1>5. QED
  BY <1>1, <1>3, <1>4

(* The variables keep their types: in particular the loop index and the    *)
(* user count never leave the poll table, and no undefined element of      *)
(* users[] is written to a client.                                         *)
THEOREM TypeCorrect == Spec => []TypeOK
  BY Invariance, InvImplies, PTL

(* Lines 116-145 and 155-165 keep the poll table and the open descriptors  *)
(* the same set, without duplicates, for every number of clients and every *)
(* USER_LIMIT.                                                             *)
THEOREM TableCorrect == Spec => []TableMatchesDescriptors
  BY Invariance, InvImplies, PTL

(* The pointer that new client_data[] leaves uninitialised is never        *)
(* followed: POLLOUT is registered only together with a pointer.           *)
THEOREM PointerInitialised == Spec => []NoUninitialisedPointer
  BY Invariance, InvImplies, PTL

-----------------------------------------------------------------------------
(* Descriptor numbers: a pigeon-hole argument on top of the table.         *)

(* While the table is not full, the lowest free descriptor is at most      *)
(* USER_LIMIT: the open ones are in the table, and too few to be all of    *)
(* 1 .. USER_LIMIT.                                                        *)
LEMMA LowestFreeIsSmall ==
  ASSUME IInv, Running, ~TableFull, NEW d, LowestFree(d)
  PROVE  d \in 1 .. USER_LIMIT
<1> SUFFICES ASSUME d \notin 1 .. USER_LIMIT
             PROVE  FALSE
  OBVIOUS
<1>1. \A e \in 1 .. USER_LIMIT : e \in Fds /\ owner[e] # NoClient
  BY TalkAssumption DEF LowestFree, OpenFds, Fds
<1> DEFINE f == [e \in 1 .. USER_LIMIT |->
                   CHOOSE k \in 1 .. user_counter : fds[k].fd = e]
<1>2. \A e \in 1 .. USER_LIMIT : f[e] \in 1 .. user_counter /\ fds[f[e]].fd = e
  BY <1>1 DEF IInv, Table
<1>3. /\ IsFiniteSet(1 .. USER_LIMIT) /\ IsFiniteSet(1 .. user_counter)
      /\ Cardinality(1 .. user_counter) < Cardinality(1 .. USER_LIMIT)
  <2>1. user_counter \in Nat /\ USER_LIMIT \in Nat /\ user_counter < USER_LIMIT
    BY TalkAssumption DEF IInv, TypeOK, Slots, TableFull
  <2>2. /\ IsFiniteSet(1 .. USER_LIMIT) /\ Cardinality(1 .. USER_LIMIT) = USER_LIMIT
        /\ IsFiniteSet(1 .. user_counter) /\ Cardinality(1 .. user_counter) = user_counter
    BY <2>1, FS_Interval
  <2>3. QED
    BY <2>1, <2>2
<1>4. f \in [1 .. USER_LIMIT -> 1 .. user_counter]
  BY <1>2
<1> HIDE DEF f
<1>5. \E x, y \in 1 .. USER_LIMIT : x # y /\ f[x] = f[y]
  BY <1>3, <1>4, FS_PigeonHole
<1>6. QED
  BY <1>2, <1>5

(* Only accept opens a descriptor; refused connections are closed at once. *)
LEMMA SmallNext ==
  ASSUME IInv, [Next]_vars, DescriptorsStaySmall
  PROVE  DescriptorsStaySmall'
<1>1. CASE AcceptUser
  <2>1. PICK d \in Fds : LowestFree(d) /\ owner' = [owner EXCEPT ![d] = Head(backlog)]
    BY <1>1 DEF AcceptUser
  <2>2. d \in 1 .. USER_LIMIT
    BY <1>1, <2>1, LowestFreeIsSmall DEF AcceptUser, At, Running
  <2>3. QED
    BY <2>1, <2>2 DEF DescriptorsStaySmall, OpenFds, IInv, TypeOK
<1>2. CASE Hangup \/ RecvNoData
  <2>1. owner' = owner \/ owner' = [owner EXCEPT ![connfd] = NoClient]
    BY <1>2 DEF Hangup, RecvNoData, RemoveEntry
  <2>2. QED
    BY <2>1 DEF DescriptorsStaySmall, OpenFds, IInv, TypeOK
<1>3. CASE PollFailure \/ KilledWriting \/ KilledRefusing
  BY <1>3 DEF PollFailure, KilledWriting, KilledRefusing, Terminate,
              DescriptorsStaySmall, OpenFds
<1>4. CASE \/ Poll \/ AcceptFails \/ RefuseUser \/ ReportError \/ RecvData
           \/ WritePending \/ NothingToWrite \/ NothingToDo \/ EndOfScan
  BY <1>4 DEF Poll, AcceptFails, RefuseUser, ReportError, RecvData, WritePending,
              NothingToWrite, NothingToDo, EndOfScan, DescriptorsStaySmall, OpenFds
<1>5. CASE ClientStep
  BY <1>5 DEF ClientStep, Connect, Say, Leave, Abort, DescriptorsStaySmall, OpenFds
<1>6. CASE UNCHANGED vars
  BY <1>6 DEF vars, DescriptorsStaySmall, OpenFds
<1>7. QED
  BY <1>1, <1>2, <1>3, <1>4, <1>5, <1>6 DEF Next, ServerStep

(* Descriptors of clients never exceed USER_LIMIT, so users[] is never     *)
(* indexed outside (lines 63-68, 106-124), whatever FD_LIMIT above it.     *)
THEOREM DescriptorsSmall == Spec => []DescriptorsStaySmall
<1>1. Init => DescriptorsStaySmall
  BY DEF Init, DescriptorsStaySmall, OpenFds
<1>2. IInv /\ [Next]_vars /\ DescriptorsStaySmall => DescriptorsStaySmall'
  BY SmallNext
<1>3. QED
  BY <1>1, <1>2, Invariance, PTL DEF Spec
-----------------------------------------------------------------------------
(* Reports: what poll said stays true until the loop comes to it.  On top   *)
(* of the table this needs the kernel's side: a connection is behind one    *)
(* descriptor or waits in the backlog once, and nothing but its own client  *)
(* or the handling of its own entry changes it.                             *)

Alive == {"open", "fin", "rst"}
Waits(c) == \E k \in 1 .. Len(backlog) : backlog[k] = c

Linked ==
  /\ \A d \in OpenFds : sock[owner[d]].peer \in Alive /\ ~Waits(owner[d])
  /\ \A d, e \in OpenFds : owner[d] = owner[e] => d = e
  /\ \A k \in 1 .. Len(backlog) : sock[backlog[k]].peer \in Alive
  /\ \A j, k \in 1 .. Len(backlog) : backlog[j] = backlog[k] => j = k
  /\ \A c \in Clients : sock[c].err # "none" => sock[c].peer = "rst"

(* So a client that is gone is reported by POLLRDHUP or POLLERR, which are *)
(* looked at before POLLIN.                                                *)
Asks ==
  Running => \A k \in 1 .. user_counter :
    {"POLLIN", "POLLRDHUP", "POLLERR"} \subseteq fds[k].events

(* The report r about the connection of c is true.                         *)
Holds(r, c) ==
  /\ "POLLRDHUP" \in r => sock[c].peer \in {"fin", "rst"}
  /\ "POLLIN" \in r =>
       \/ "POLLRDHUP" \in r
       \/ "POLLERR" \in r
       \/ sock[c].rcvq # <<>>
       \/ sock[c].err # "none"

Unvisited ==
  pc = "scan" =>
    /\ i = 0 /\ "POLLIN" \in fds[0].revents => backlog # <<>>
    /\ \A k \in 1 .. user_counter :
         k >= i => Holds(fds[k].revents, owner[fds[k].fd])

CInv == Linked /\ Asks /\ Unvisited

(* Nobody else is behind another entry.                                    *)
LEMMA OtherEntries ==
  ASSUME IInv, Linked, Running, i \in 1 .. user_counter
  PROVE  /\ \A k \in 1 .. user_counter :
              /\ fds[k].fd \in OpenFds
              /\ owner[fds[k].fd] \in Clients
              /\ k # i => fds[k].fd # connfd /\ owner[fds[k].fd] # Peer
         /\ connfd \in OpenFds
  BY DEF IInv, TypeOK, Table, Linked, OpenFds, connfd, Peer

(* An entry's connection is open, and does not wait for accept.            *)
LEMMA EntryFacts ==
  ASSUME IInv, Linked, Running, NEW k \in 1 .. user_counter
  PROVE  /\ k \in Slots
         /\ fds[k].fd \in OpenFds
         /\ fds[k].fd \in Fds
         /\ owner[fds[k].fd] \in Clients
         /\ sock[owner[fds[k].fd]].peer \in Alive
         /\ ~Waits(owner[fds[k].fd])
  BY TalkAssumption DEF IInv, TypeOK, Table, Linked, OpenFds, Slots

-----------------------------------------------------------------------------
(* A client connects once, so its connection is new to the server.         *)
LEMMA LinkedEnvironment ==
  ASSUME IInv, Linked, ClientStep
  PROVE  Linked'
<1>1. PICK c \in Clients : Connect(c) \/ Say(c) \/ Leave(c) \/ Abort(c)
  BY DEF ClientStep
<1>2. CASE Connect(c)
  <2>1. /\ sock[c].peer = "none" /\ owner' = owner
        /\ backlog' = Append(backlog, c)
        /\ sock' = [sock EXCEPT ![c].peer = "open"]
        /\ backlog \in Seq(Clients) /\ sock \in [Clients -> Socket]
        /\ owner \in [Fds -> Clients \cup {NoClient}]
    BY <1>2 DEF Connect, IInv, TypeOK
  <2>2. /\ Len(backlog') = Len(backlog) + 1 /\ Len(backlog) \in Nat
        /\ \A k \in 1 .. Len(backlog) : backlog'[k] = backlog[k] /\ backlog[k] \in Clients
        /\ backlog'[Len(backlog) + 1] = c
    BY <2>1
  <2>3. /\ \A x \in Clients \ {c} : sock'[x] = sock[x]
        /\ sock'[c].peer = "open" /\ sock'[c].err = sock[c].err
    BY <2>1 DEF Socket
  <2>4. ~Waits(c)
    BY <2>1 DEF Linked, Waits, Alive
  <2>5. \A d \in OpenFds : owner[d] # c /\ owner[d] \in Clients
    BY <2>1 DEF Linked, OpenFds, Alive
  <2>6. OpenFds' = OpenFds
    BY <2>1 DEF OpenFds
  <2>7. \A d \in OpenFds' : sock'[owner'[d]].peer \in Alive /\ ~(Waits(owner[d])')
    <3>1. ASSUME NEW d \in OpenFds, NEW k \in 1 .. Len(backlog'), backlog'[k] = owner[d]
          PROVE  FALSE
      BY <2>2, <2>5, <3>1 DEF Linked, Waits
    <3>2. QED BY <2>1, <2>3, <2>5, <2>6, <3>1 DEF Linked, Waits
  <2>8. \A k \in 1 .. Len(backlog') : sock'[backlog'[k]].peer \in Alive
    BY <2>2, <2>3, <2>4 DEF Linked, Waits, Alive
  <2>9. \A j, k \in 1 .. Len(backlog') : backlog'[j] = backlog'[k] => j = k
    BY <2>2, <2>4 DEF Linked, Waits
  <2>10. \A x \in Clients : sock'[x].err # "none" => sock'[x].peer = "rst"
    BY <2>1, <2>3 DEF Linked
  <2>11. QED
    BY <2>1, <2>6, <2>7, <2>8, <2>9, <2>10 DEF Linked, Waits
<1>3. CASE Say(c) \/ Leave(c) \/ Abort(c)
  <2>1. UNCHANGED <<owner, backlog>>
    BY <1>3 DEF Say, Leave, Abort
  <2>2. \A x \in Clients :
          /\ sock[x].peer \in Alive => sock'[x].peer \in Alive
          /\ sock'[x].err # "none" => sock'[x].peer = "rst"
    <3>1. CASE Say(c)
      BY <3>1 DEF Say, Linked, IInv, TypeOK, Socket
    <3>2. CASE Leave(c)
      BY <3>2 DEF Leave, Linked, IInv, TypeOK, Socket, Alive
    <3>3. CASE Abort(c)
      BY <3>3 DEF Abort, Linked, IInv, TypeOK, Socket, Alive
    <3>4. QED
      BY <1>3, <3>1, <3>2, <3>3
  <2>3. /\ \A d \in OpenFds : owner[d] \in Clients
        /\ \A k \in 1 .. Len(backlog) : backlog[k] \in Clients
    BY DEF OpenFds, IInv, TypeOK
  <2>4. QED
    BY <2>1, <2>2, <2>3 DEF Linked, Waits, OpenFds
<1>4. QED
  BY <1>1, <1>2, <1>3

(* The kernel takes everything back at the end.                            *)
LEMMA TerminatedLinked ==
  ASSUME NEW how, Terminate(how)
  PROVE  Linked'
<1>1. Len(backlog') = 0 /\ OpenFds' = {}
  BY DEF Terminate, OpenFds
<1>2. \A c \in Clients : sock'[c].err = "none"
  BY DEF Terminate
<1>3. QED
  BY <1>1, <1>2 DEF Linked

(* accept takes a connection that is behind no descriptor yet.             *)
LEMMA LinkedTaken ==
  ASSUME IInv, Linked, backlog # <<>>, backlog' = Tail(backlog)
  PROVE  /\ Head(backlog) \in Clients /\ Waits(Head(backlog))
         /\ sock[Head(backlog)].peer \in Alive
         /\ \A c \in Clients : ~Waits(c) => ~(Waits(c)')
         /\ \A k \in 1 .. Len(backlog') :
              backlog'[k] \in Clients /\ backlog'[k] # Head(backlog) /\ Waits(backlog'[k])
         /\ \A j, k \in 1 .. Len(backlog') : backlog'[j] = backlog'[k] => j = k
<1>1. backlog \in Seq(Clients) /\ Len(backlog) \in Nat \ {0}
  BY DEF IInv, TypeOK
<1>2. /\ Head(backlog) = backlog[1] /\ Head(backlog) \in Clients
      /\ Len(backlog') = Len(backlog) - 1
      /\ \A k \in 1 .. Len(backlog') :
           /\ backlog'[k] = backlog[k + 1]
           /\ k + 1 \in 1 .. Len(backlog)
           /\ backlog[k + 1] \in Clients
  BY <1>1
<1>3. 1 \in 1 .. Len(backlog)
  BY <1>1
<1>4. \A k \in 1 .. Len(backlog') : backlog'[k] # Head(backlog)
  BY <1>2, <1>3 DEF Linked
<1>5. \A j, k \in 1 .. Len(backlog') : backlog'[j] = backlog'[k] => j = k
  BY <1>2 DEF Linked
<1>6. /\ Waits(Head(backlog))
      /\ sock[Head(backlog)].peer \in Alive
  BY <1>2, <1>3, <1>4 DEF Linked, Waits
<1>7. \A k \in 1 .. Len(backlog') : backlog'[k] \in Clients /\ Waits(backlog'[k])
  BY <1>2 DEF Waits
<1>8. \A c \in Clients : ~Waits(c) => ~(Waits(c)')
  BY <1>7 DEF Waits
<1>9. QED
  BY <1>2, <1>4, <1>5, <1>6, <1>7, <1>8

(* The server accepts from the backlog and closes what it owns.            *)
LEMMA LinkedServer ==
  ASSUME IInv, Linked, ServerStep
  PROVE  Linked'
<1>1. CASE /\ UNCHANGED <<owner, backlog>>
           /\ \A c \in Clients :
                /\ sock'[c].peer = sock[c].peer
                /\ sock'[c].err \in {sock[c].err, "none"}
  <2>1. /\ \A d \in OpenFds : owner[d] \in Clients
        /\ \A k \in 1 .. Len(backlog) : backlog[k] \in Clients
    BY DEF OpenFds, IInv, TypeOK
  <2>2. QED
    BY <1>1, <2>1 DEF Linked, Waits, OpenFds
<1>2. CASE Poll \/ AcceptFails \/ NothingToWrite \/ NothingToDo \/ EndOfScan
  BY <1>1, <1>2 DEF Poll, AcceptFails, NothingToWrite, NothingToDo, EndOfScan
<1>3. CASE ReportError \/ RecvData \/ WritePending
  <2>1. \A c \in Clients :
          /\ sock'[c].peer = sock[c].peer
          /\ sock'[c].err \in {sock[c].err, "none"}
    <3>1. CASE ReportError
      BY <3>1 DEF ReportError, IInv, TypeOK, Socket
    <3>2. CASE RecvData
      BY <3>2 DEF RecvData, IInv, TypeOK, Socket
    <3>3. CASE WritePending
      BY <3>3 DEF WritePending, IInv, TypeOK, Socket
    <3>4. QED
      BY <1>3, <3>1, <3>2, <3>3
  <2>2. QED
    BY <1>1, <1>3, <2>1 DEF ReportError, RecvData, WritePending
<1>4. CASE RefuseUser
  <2>1. /\ backlog # <<>> /\ backlog' = Tail(backlog) /\ owner' = owner
        /\ sock' = Closed(Head(backlog), "refused")
    BY <1>4 DEF RefuseUser
  <2>2. /\ \A c \in Clients \ {Head(backlog)} : sock'[c] = sock[c]
        /\ sock'[Head(backlog)].err = "none"
    BY <2>1, LinkedTaken DEF Closed, IInv, TypeOK
  <2>3. OpenFds' = OpenFds /\ \A d \in OpenFds : owner[d] \in Clients
    BY <2>1 DEF OpenFds, IInv, TypeOK
  <2>4. \A d \in OpenFds' :
          sock'[owner'[d]].peer \in Alive /\ ~(Waits(owner[d]))'
    BY <2>1, <2>2, <2>3, LinkedTaken DEF Linked
  <2>5. \A k \in 1 .. Len(backlog') : sock'[backlog'[k]].peer \in Alive
    BY <2>1, <2>2, LinkedTaken DEF Linked, Waits
  <2>6. \A c \in Clients : sock'[c].err # "none" => sock'[c].peer = "rst"
    BY <2>2 DEF Linked
  <2>7. QED
    BY <2>1, <2>3, <2>4, <2>5, <2>6, LinkedTaken DEF Linked
<1>5. CASE AcceptUser
  <2>1. PICK d \in Fds :
          /\ owner[d] = NoClient
          /\ owner' = [owner EXCEPT ![d] = Head(backlog)]
    BY <1>5 DEF AcceptUser, LowestFree, OpenFds
  <2>2. backlog # <<>> /\ backlog' = Tail(backlog) /\ sock' = sock
    BY <1>5 DEF AcceptUser
  <2>3. \A e \in OpenFds' :
          \/ e = d /\ owner'[e] = Head(backlog)
          \/ e # d /\ e \in OpenFds /\ owner'[e] = owner[e] /\ owner[e] \in Clients
    BY <2>1 DEF OpenFds, IInv, TypeOK
  <2>4. \A e \in OpenFds' :
          /\ sock'[owner'[e]].peer \in Alive
          /\ \A k \in 1 .. Len(backlog') : backlog'[k] # owner'[e]
    <3>1. \A e \in OpenFds : \A k \in 1 .. Len(backlog') : backlog'[k] # owner[e]
      BY <2>2, LinkedTaken DEF Linked
    <3>2. \A k \in 1 .. Len(backlog') : backlog'[k] # Head(backlog)
      BY <2>2, LinkedTaken
    <3>3. ASSUME NEW e \in OpenFds'
          PROVE  \A k \in 1 .. Len(backlog') : backlog'[k] # owner'[e]
      BY <2>3, <3>1, <3>2
    <3>4. ASSUME NEW e \in OpenFds'
          PROVE  sock'[owner'[e]].peer \in Alive
      <4>1. sock[Head(backlog)].peer \in Alive
        BY <2>2, LinkedTaken
      <4>2. \A f \in OpenFds : sock[owner[f]].peer \in Alive
        BY DEF Linked
      <4>3. QED
        BY <2>2, <2>3, <4>1, <4>2
    <3>5. QED
      BY <3>3, <3>4
  <2>5. \A e, f \in OpenFds' : owner'[e] = owner'[f] => e = f
    BY <2>2, <2>3, LinkedTaken DEF Linked
  <2>6. \A k \in 1 .. Len(backlog') : sock'[backlog'[k]].peer \in Alive
    BY <2>2, LinkedTaken DEF Linked, Waits
  <2>7. QED
    BY <2>2, <2>4, <2>5, <2>6, LinkedTaken DEF Linked, Waits
<1>6. CASE Hangup \/ RecvNoData
  <2>1. CASE UNCHANGED <<owner, backlog, sock>>
    BY <1>1, <2>1
  <2>2. CASE /\ owner' = [owner EXCEPT ![connfd] = NoClient]
             /\ sock' = Closed(Peer, "gone") /\ backlog' = backlog
             /\ connfd \in Fds /\ Peer \in Clients
    <3>1. \A d \in OpenFds' :
            /\ d \in OpenFds /\ owner'[d] = owner[d]
            /\ owner[d] \in Clients \ {Peer}
      BY <2>2 DEF Linked, OpenFds, IInv, TypeOK, Peer
    <3>2. /\ \A c \in Clients \ {Peer} : sock'[c] = sock[c]
          /\ sock'[Peer].err = "none"
      BY <2>2 DEF Closed, IInv, TypeOK
    <3>3. \A k \in 1 .. Len(backlog) : backlog[k] \in Clients \ {Peer}
      <4>1. connfd \in OpenFds
        BY <2>2, TalkAssumption DEF OpenFds, Peer
      <4>2. QED
        BY <4>1 DEF Linked, Waits, IInv, TypeOK, Peer
    <3>4. \A c : (Waits(c))' <=> Waits(c)
      BY <2>2 DEF Waits
    <3>5. QED
      BY <2>2, <3>1, <3>2, <3>3, <3>4 DEF Linked
  <2>3. QED
    BY <1>6, <2>1, <2>2, ClientEntry DEF Hangup, RecvNoData, RemoveEntry
<1>7. CASE KilledWriting \/ KilledRefusing
  <2>1. PICK how \in {"exited", "killed"} : Terminate(how)
    BY <1>7 DEF KilledWriting, KilledRefusing
  <2>2. QED
    BY <2>1, TerminatedLinked
<1>8. QED
  BY <1>2, <1>3, <1>4, <1>5, <1>6, <1>7 DEF ServerStep

-----------------------------------------------------------------------------
(* Every step keeps each connection in one place.                          *)
LEMMA LinkedNext ==
  ASSUME IInv, Linked, [Next]_vars
  PROVE  Linked'
<1>1. CASE ClientStep
  BY <1>1, LinkedEnvironment
<1>2. CASE ServerStep
  BY <1>2, LinkedServer
<1>3. CASE PollFailure
  BY <1>3, TerminatedLinked DEF PollFailure
<1>4. CASE UNCHANGED vars
  BY <1>4 DEF vars, Linked, Waits, OpenFds
<1>5. QED
  BY <1>1, <1>2, <1>3, <1>4 DEF Next

(* No handler takes POLLIN, POLLRDHUP or POLLERR away from an entry.       *)
LEMMA AsksNext ==
  ASSUME IInv, IInv', Asks, [Next]_vars
  PROVE  Asks'
<1> DEFINE Wanted == {"POLLIN", "POLLRDHUP", "POLLERR"}
<1>1. CASE UNCHANGED <<pc, fds, user_counter>>
  BY <1>1 DEF Asks, Running
<1>2. CASE \/ AcceptFails \/ RefuseUser \/ ReportError \/ NothingToWrite
           \/ NothingToDo \/ ClientStep \/ UNCHANGED vars
  BY <1>1, <1>2 DEF AcceptFails, RefuseUser, ReportError, NothingToWrite,
       NothingToDo, ClientStep, Connect, Say, Leave, Abort, server, vars
<1>3. CASE PollFailure \/ KilledWriting \/ KilledRefusing
  BY <1>3 DEF PollFailure, KilledWriting, KilledRefusing, Terminate, Asks, Running
<1>4. CASE EndOfScan
  BY <1>4 DEF EndOfScan, Asks, Running
<1>5. Running => /\ 1 .. user_counter \subseteq Slots
                 /\ \A k \in 1 .. user_counter : fds[k] \in PollFd
                 /\ fds \in [Slots -> PollFd] /\ user_counter \in Nat
                 /\ \A k \in 1 .. user_counter : Wanted \subseteq fds[k].events
  <2>1. fds \in [Slots -> PollFd] /\ user_counter \in Slots
    BY DEF IInv, TypeOK
  <2>2. user_counter \in Nat /\ 1 .. user_counter \subseteq Slots
    BY <2>1, TalkAssumption DEF Slots
  <2>3. QED
    BY <2>1, <2>2 DEF Asks
<1> HIDE DEF Wanted
<1>6. CASE Poll
  <2>1. /\ Running /\ user_counter' = user_counter
        /\ \A k \in Slots : fds'[k].events = fds[k].events
    BY <1>6 DEF Poll, Running, IInv, TypeOK, PollFd
  <2>2. QED
    BY <1>5, <2>1 DEF Asks, Wanted
<1>7. CASE RecvData
  <2>1. /\ Running /\ user_counter' = user_counter
        /\ fds' = [k \in Slots |->
               IF k \in 1 .. user_counter /\ fds[k].fd # connfd
                 THEN [fds[k] EXCEPT !.events = @ \cup (Bits \ {"POLLIN"})
                                                  \cup {"POLLOUT"}]
                 ELSE fds[k]]
    BY <1>7 DEF RecvData, At, Running
  <2>2. \A k \in 1 .. user_counter : fds[k].events \subseteq fds'[k].events
    BY <1>5, <2>1 DEF PollFd
  <2>3. QED
    BY <1>5, <2>1, <2>2 DEF Asks, Wanted
<1>8. CASE WritePending
  <2>1. /\ Running /\ user_counter' = user_counter
        /\ i \in 1 .. user_counter
        /\ fds' = [fds EXCEPT ![i].events = @ \cup (Bits \ {"POLLOUT"})
                                              \cup {"POLLIN"}]
    BY <1>8, ClientEntry DEF WritePending, At, Running
  <2>2. \A k \in 1 .. user_counter : fds[k].events \subseteq fds'[k].events
    BY <1>5, <2>1 DEF PollFd
  <2>3. QED
    BY <1>5, <2>1, <2>2 DEF Asks, Wanted
<1>9. CASE AcceptUser
  <2>1. PICK d \in Fds : fds' = [fds EXCEPT ![user_counter + 1] = NewEntry(d)]
    BY <1>9 DEF AcceptUser
  <2>2. Running /\ user_counter' = user_counter + 1 /\ user_counter + 1 \in Slots
    BY <1>9, TalkAssumption DEF AcceptUser, At, Running, TableFull, IInv, TypeOK, Slots
  <2>3. fds'[user_counter + 1].events = Wanted
    BY <1>5, <2>1, <2>2 DEF NewEntry, Wanted
  <2>4. \A k \in 1 .. user_counter : fds'[k] = fds[k]
    BY <1>5, <2>1, <2>2
  <2>5. QED
    BY <1>5, <2>2, <2>3, <2>4 DEF Asks, Wanted
<1>10. CASE Hangup \/ RecvNoData
  <2>1. CASE UNCHANGED <<pc, fds, user_counter>>
    BY <1>1, <2>1
  <2>2. CASE /\ fds' = [fds EXCEPT ![i] = fds[user_counter]] /\ Running
             /\ i \in 1 .. user_counter /\ user_counter' = user_counter - 1
    <3>1. \A k \in 1 .. user_counter' :
            k \in 1 .. user_counter /\ fds'[k] \in {fds[k], fds[user_counter]}
      BY <1>5, <2>2
    <3>2. user_counter \in 1 .. user_counter
      BY <1>5, <2>2
    <3>3. QED
      BY <1>5, <2>2, <3>1, <3>2 DEF Asks, Wanted
  <2>3. QED
    BY <1>10, <2>1, <2>2, ClientEntry
       DEF Hangup, RecvNoData, RemoveEntry, Compacted, At, Running
<1>11. QED
  BY <1>2, <1>3, <1>4, <1>6, <1>7, <1>8, <1>9, <1>10 DEF Next, ServerStep

-----------------------------------------------------------------------------
(* A step of the environment, or of the server on another connection,      *)
(* leaves a report true.                                                   *)
LEMMA HoldsEnvironment ==
  ASSUME IInv, Linked, Running, ClientStep, NEW r, NEW c \in Clients,
         sock[c].peer \in Alive, Holds(r, c)
  PROVE  Holds(r, c)'
<1>1. PICK x \in Clients : Connect(x) \/ Say(x) \/ Leave(x) \/ Abort(x)
  BY DEF ClientStep
<1>2. CASE x # c
  <2>1. sock'[c] = sock[c]
    BY <1>1, <1>2 DEF Connect, Say, Leave, Abort, IInv, TypeOK
  <2>2. QED
    BY <2>1 DEF Holds
<1>3. CASE x = c
  <2>1. ~Connect(c)
    BY DEF Connect, Alive
  <2>2. CASE Say(c)
    <3>1. sock' = [sock EXCEPT ![c].rcvq = Append(@, <<c, sent[c] + 1>>)]
      BY <2>2 DEF Say
    <3>2. sock'[c].peer = sock[c].peer
          /\ sock'[c].rcvq = Append(sock[c].rcvq, <<c, sent[c] + 1>>)
      BY <3>1 DEF IInv, TypeOK, Socket
    <3>3. sock[c].rcvq \in Seq(Unit) /\ <<c, sent[c] + 1>> \in Unit
      BY DEF IInv, TypeOK, Socket, Unit
    <3>4. sock'[c].rcvq # <<>>
      BY <3>2, <3>3, AppendProperties, SMTT(20)
    <3>5. QED
      BY <3>2, <3>4 DEF Holds
  <2>3. CASE Leave(c)
    BY <2>3 DEF Leave, IInv, TypeOK, Socket, Holds
  <2>4. CASE Abort(c)
    <3>1. sock'[c].peer = "rst" /\ sock'[c].err # "none"
      BY <2>4 DEF Abort, IInv, TypeOK
    <3>2. QED
      BY <3>1 DEF Holds
  <2>5. QED
    BY <1>1, <1>3, <2>1, <2>2, <2>3, <2>4
<1>4. QED
  BY <1>2, <1>3

(* poll tells the truth when it returns (line 84).                         *)
LEMMA UnvisitedPoll ==
  ASSUME IInv, Linked, Asks, Poll
  PROVE  Unvisited'
<1> DEFINE R(k, stuck) == Ready(fds[k].fd, Clients \ stuck)
                            \cap (fds[k].events \cup {"POLLERR"})
<1>1. PICK stuck \in SUBSET SlowReaders :
        fds' = [k \in Slots |->
                  IF k <= user_counter
                    THEN [fds[k] EXCEPT !.revents = R(k, stuck)] ELSE fds[k]]
  BY DEF Poll
<1>2. /\ pc = "poll" /\ Running
      /\ UNCHANGED <<user_counter, owner, backlog, sock>>
      /\ fds \in [Slots -> PollFd] /\ 0 \in Slots /\ user_counter \in Nat
      /\ \A k \in 1 .. user_counter : k \in Slots /\ k <= user_counter
  BY TalkAssumption DEF Poll, Running, IInv, TypeOK, Slots
<1>3. \A k \in 0 .. user_counter :
        fds'[k].revents = R(k, stuck) /\ fds'[k].fd = fds[k].fd
  <2> HIDE DEF R
  <2>1. \A k \in 0 .. user_counter : k \in Slots /\ k <= user_counter
    BY <1>2
  <2>2. QED
    BY <1>1, <1>2, <2>1 DEF PollFd
<1>4. "POLLIN" \in fds'[0].revents => backlog # <<>>
  <2>1. fds'[0].revents = R(0, stuck) /\ fds[0].fd = listenfd
    <3> HIDE DEF R
    <3>1. QED
      BY <1>2, <1>3 DEF IInv, Table
  <2>2. QED
    BY <2>1 DEF Ready
<1>5. ASSUME NEW k \in 1 .. user_counter
      PROVE  Holds(fds[k].revents, owner[fds[k].fd])'
  <2>1. /\ fds[k].fd # listenfd
        /\ sock[owner[fds[k].fd]].peer \in Alive
        /\ {"POLLIN", "POLLRDHUP"} \subseteq fds[k].events
    BY <1>2, EntryFacts DEF Asks, Fds, listenfd
  <2>2. fds'[k].revents = R(k, stuck) /\ fds'[k].fd = fds[k].fd
    <3> HIDE DEF R
    <3>1. QED
      BY <1>2, <1>3
  <2>3. /\ "POLLRDHUP" \in fds'[k].revents <=> sock[owner[fds[k].fd]].peer # "open"
        /\ "POLLIN" \in fds'[k].revents =>
             sock[owner[fds[k].fd]].rcvq # <<>> \/ sock[owner[fds[k].fd]].peer # "open"
    BY <2>1, <2>2 DEF Ready, Bits
  <2>4. QED
    BY <1>2, <2>1, <2>2, <2>3 DEF Holds, Alive
<1>6. QED
  BY <1>2, <1>4, <1>5 DEF Unvisited

(* A step of the loop to the next entry.                                   *)
LEMMA UnvisitedPass ==
  ASSUME IInv, Linked, Unvisited, pc = "scan", i <= user_counter,
         pc' = pc, i' = i + 1,
         UNCHANGED <<user_counter, owner>>,
         \A k \in 0 .. user_counter :
           fds'[k].fd = fds[k].fd /\ fds'[k].revents = fds[k].revents,
         \A k \in 1 .. user_counter : k # i =>
           sock'[owner[fds[k].fd]] = sock[owner[fds[k].fd]]
  PROVE  Unvisited'
<1>1. i \in Nat /\ user_counter \in Nat
  BY DEF IInv, TypeOK, Slots
<1>2. i' # 0
  BY <1>1
<1>3. ASSUME NEW k \in 1 .. user_counter, k >= i'
      PROVE  Holds(fds[k].revents, owner[fds[k].fd])'
  <2>1. k >= i /\ k # i /\ k \in 0 .. user_counter
    BY <1>1, <1>3
  <2>2. Holds(fds[k].revents, owner[fds[k].fd])
    BY <2>1 DEF Unvisited
  <2>3. QED
    BY <2>1, <2>2 DEF Holds
<1>4. QED
  BY <1>2, <1>3 DEF Unvisited

(* Every step leaves the reports on what is not visited yet true.          *)
LEMMA UnvisitedNext ==
  ASSUME IInv, IInv', Linked, Asks, Unvisited, [Next]_vars
  PROVE  Unvisited'
<1>1. CASE pc' # "scan"
  BY <1>1 DEF Unvisited
<1>2. CASE \/ PollFailure \/ KilledWriting \/ KilledRefusing \/ EndOfScan
  BY <1>1, <1>2 DEF PollFailure, KilledWriting, KilledRefusing, Terminate, EndOfScan
<1>3. CASE Poll
  BY <1>3, UnvisitedPoll
<1>4. CASE UNCHANGED vars
  BY <1>4 DEF vars, Unvisited, Holds
<1>5. CASE ClientStep /\ pc' = "scan"
  <2>1. PICK x \in Clients : Connect(x) \/ Say(x) \/ Leave(x) \/ Abort(x)
    BY <1>5 DEF ClientStep
  <2>2. UNCHANGED server /\ owner' = owner
    BY <2>1 DEF Connect, Say, Leave, Abort
  <2>3. UNCHANGED <<pc, i, fds, user_counter, owner>> /\ pc = "scan" /\ Running
    BY <1>5, <2>2 DEF server, Running
  <2>4. backlog # <<>> => backlog' # <<>>
    <3>1. CASE Connect(x)
      BY <3>1, AppendProperties DEF Connect, IInv, TypeOK
    <3>2. QED
      BY <2>1, <3>1 DEF Say, Leave, Abort
  <2>5. ASSUME NEW k \in 1 .. user_counter, k >= i
        PROVE  Holds(fds[k].revents, owner[fds[k].fd])'
    <3>1. PICK r, c : /\ r = fds[k].revents /\ c = owner[fds[k].fd]
      OBVIOUS
    <3>2. /\ Holds(r, c) /\ c \in Clients /\ sock[c].peer \in Alive
      BY <2>3, <2>5, <3>1, EntryFacts DEF Unvisited
    <3>3. Holds(r, c)'
      BY <1>5, <2>3, <3>2, HoldsEnvironment
    <3>4. QED
      BY <2>3, <3>1, <3>3 DEF Holds
  <2>6. QED
    BY <2>3, <2>4, <2>5 DEF Unvisited
<1>6. CASE AcceptFails \/ NothingToWrite \/ NothingToDo
  BY <1>6, UnvisitedPass DEF AcceptFails, NothingToWrite, NothingToDo, At
<1>7. CASE RefuseUser
  <2>1. /\ backlog # <<>> /\ sock' = Closed(Head(backlog), "refused")
        /\ Running /\ backlog' = Tail(backlog)
    BY <1>7 DEF RefuseUser, At, Running
  <2>2. \A k \in 1 .. user_counter :
          owner[fds[k].fd] \in Clients \ {Head(backlog)}
    BY <2>1, EntryFacts, LinkedTaken
  <2>3. \A k \in 1 .. user_counter : sock'[owner[fds[k].fd]] = sock[owner[fds[k].fd]]
    BY <2>1, <2>2 DEF Closed, IInv, TypeOK
  <2>4. QED
    BY <1>7, <2>3, UnvisitedPass DEF RefuseUser, At
<1>8. CASE ReportError
  <2>1. /\ i \in 1 .. user_counter /\ Running
        /\ sock' = [sock EXCEPT ![Peer].err = "none"]
    BY <1>8, ClientEntry DEF ReportError, At, Running
  <2>2. \A k \in 1 .. user_counter : k # i =>
          sock'[owner[fds[k].fd]] = sock[owner[fds[k].fd]]
    BY <2>1, OtherEntries DEF IInv, TypeOK
  <2>3. QED
    BY <1>8, <2>2, UnvisitedPass DEF ReportError, At
<1>9. CASE RecvData
  <2>1. /\ i \in 1 .. user_counter /\ Running /\ 0 .. user_counter \subseteq Slots
    BY <1>9, ClientEntry, TalkAssumption DEF RecvData, At, Running, Slots
  <2>2. \A k \in 1 .. user_counter : k # i =>
          sock'[owner[fds[k].fd]] = sock[owner[fds[k].fd]]
    BY <1>9, <2>1, OtherEntries DEF RecvData, IInv, TypeOK
  <2>3. \A k \in 0 .. user_counter :
          fds'[k].fd = fds[k].fd /\ fds'[k].revents = fds[k].revents
    BY <1>9, <2>1 DEF RecvData, IInv, TypeOK, PollFd
  <2>4. QED
    BY <1>9, <2>2, <2>3, UnvisitedPass DEF RecvData, At
<1>10. CASE WritePending
  <2>1. /\ i \in 1 .. user_counter /\ Running /\ 0 .. user_counter \subseteq Slots
        /\ sock' = [sock EXCEPT ![Peer].err = "none"]
        /\ fds' = [fds EXCEPT ![i].events = @ \cup (Bits \ {"POLLOUT"})
                                              \cup {"POLLIN"}]
    BY <1>10, ClientEntry, TalkAssumption DEF WritePending, At, Running, Slots
  <2>2. \A k \in 1 .. user_counter : k # i =>
          sock'[owner[fds[k].fd]] = sock[owner[fds[k].fd]]
    BY <2>1, OtherEntries DEF IInv, TypeOK
  <2>3. \A k \in 0 .. user_counter :
          fds'[k].fd = fds[k].fd /\ fds'[k].revents = fds[k].revents
    BY <2>1 DEF IInv, TypeOK, PollFd
  <2>4. QED
    BY <1>10, <2>2, <2>3, UnvisitedPass DEF WritePending, At
<1>11. CASE AcceptUser
  <2>1. PICK d \in Fds :
          /\ owner[d] = NoClient
          /\ owner' = [owner EXCEPT ![d] = Head(backlog)]
          /\ fds' = [fds EXCEPT ![user_counter + 1] = NewEntry(d)]
    BY <1>11 DEF AcceptUser, LowestFree, OpenFds
  <2>2. /\ Running /\ pc = "scan" /\ user_counter' = user_counter + 1 /\ i' = i + 1
        /\ user_counter \in Nat /\ user_counter + 1 \in Slots /\ i \in Nat
        /\ sock' = sock
    BY <1>11, TalkAssumption DEF AcceptUser, At, Running, TableFull, IInv, TypeOK, Slots
  <2>3. ASSUME NEW k \in 1 .. user_counter', k >= i'
        PROVE  Holds(fds[k].revents, owner[fds[k].fd])'
    <3>1. CASE k = user_counter + 1
      <4>1. fds'[k].revents = {}
        BY <2>1, <2>2, <3>1 DEF NewEntry, IInv, TypeOK
      <4>2. QED
        BY <4>1 DEF Holds
    <3>2. CASE k # user_counter + 1
      <4>1. k \in 1 .. user_counter /\ k >= i /\ fds'[k] = fds[k]
        BY <2>1, <2>2, <2>3, <3>2 DEF IInv, TypeOK
      <4>2. owner[fds[k].fd] # NoClient /\ fds[k].fd \in Fds
        BY <2>2, <4>1 DEF IInv, Table
      <4>3. owner'[fds[k].fd] = owner[fds[k].fd]
        BY <2>1, <4>2 DEF IInv, TypeOK
      <4>4. Holds(fds[k].revents, owner[fds[k].fd])
        BY <2>2, <4>1 DEF Unvisited
      <4>5. QED
        BY <2>2, <4>1, <4>3, <4>4 DEF Holds
    <3>3. QED
      BY <3>1, <3>2
  <2>4. QED
    BY <2>2, <2>3 DEF Unvisited
<1>12. CASE Hangup \/ RecvNoData
  <2>1. /\ pc = "scan" /\ Running /\ i \in 1 .. user_counter
        /\ connfd \in Fds /\ Peer \in Clients /\ user_counter \in 1 .. USER_LIMIT
        /\ 1 .. user_counter \subseteq Slots
    <3>1. \E b \in {"hangup", "read"} : At(b)
      BY <1>12 DEF Hangup, RecvNoData
    <3>2. i \in 1 .. user_counter /\ connfd \in Fds /\ Peer \in Clients
          /\ user_counter \in 1 .. USER_LIMIT
      BY <3>1, ClientEntry
    <3>3. QED
      BY <3>1, <3>2, TalkAssumption DEF At, Running, Slots
  <2>2. CASE /\ i' = i + 1
             /\ UNCHANGED <<pc, fds, user_counter, owner, backlog, sock>>
    BY <2>1, <2>2, UnvisitedPass
  <2>3. CASE /\ fds' = [fds EXCEPT ![i] = fds[user_counter]]
             /\ owner' = [owner EXCEPT ![connfd] = NoClient]
             /\ sock' = Closed(Peer, "gone")
             /\ user_counter' = user_counter - 1
             /\ UNCHANGED <<pc, i>>
    <3>1. ASSUME NEW k \in 1 .. user_counter', k >= i
          PROVE  Holds(fds[k].revents, owner[fds[k].fd])'
      <4>1. PICK j \in 1 .. user_counter : j >= i /\ j # i /\ fds'[k] = fds[j]
        <5>1. CASE k = i
          BY <2>1, <2>3, <3>1, <5>1 DEF IInv, TypeOK
        <5>2. CASE k # i
          BY <2>1, <2>3, <3>1, <5>2 DEF IInv, TypeOK
        <5>3. QED
          BY <5>1, <5>2
      <4>2. /\ fds[j].fd # connfd /\ owner[fds[j].fd] \in Clients \ {Peer}
            /\ fds[j].fd \in Fds
        BY <2>1, <4>1, OtherEntries DEF OpenFds
      <4>3. /\ owner'[fds[j].fd] = owner[fds[j].fd]
            /\ sock'[owner[fds[j].fd]] = sock[owner[fds[j].fd]]
        BY <2>3, <4>2 DEF Closed, IInv, TypeOK
      <4>4. Holds(fds[j].revents, owner[fds[j].fd])
        BY <2>1, <4>1 DEF Unvisited
      <4>5. QED
        BY <4>1, <4>3, <4>4 DEF Holds
    <3>2. i' # 0
      BY <2>1, <2>3
    <3>3. QED
      BY <2>3, <3>1, <3>2 DEF Unvisited
  <2>4. QED
    BY <1>12, <2>2, <2>3 DEF Hangup, RecvNoData, RemoveEntry, Compacted
<1>13. QED
  BY <1>1, <1>2, <1>3, <1>4, <1>5, <1>6, <1>7, <1>8, <1>9, <1>10, <1>11, <1>12
     DEF Next, ServerStep

(* accept does not block, recv has something to return, and only who has   *)
(* left is dropped as hung up (lines 94, 123, 138-148), for every number   *)
(* of clients, every limit and whatever moves in the table during a scan.  *)
THEOREM ReportsStayCurrent == Spec => []ReportsAreCurrent
<1>1. Init => CInv
  BY DEF Init, CInv, Linked, Asks, Unvisited, Running, OpenFds, Waits
<1>2. IInv /\ IInv' /\ CInv /\ [Next]_vars => CInv'
  BY LinkedNext, AsksNext, UnvisitedNext DEF CInv
<1>3. IInv /\ CInv => ReportsAreCurrent
  <2> SUFFICES ASSUME IInv, CInv
               PROVE  ReportsAreCurrent
    OBVIOUS
  <2>1. ASSUME At("accept")
        PROVE  backlog # <<>>
    <3>1. /\ pc = "scan" /\ connfd = listenfd /\ "POLLIN" \in fds[i].revents
          /\ i <= user_counter /\ i \in Nat /\ user_counter \in Nat /\ Running
      BY <2>1 DEF At, Branch, Running, IInv, TypeOK, Slots
    <3>2. i \notin 1 .. user_counter
      BY <3>1 DEF IInv, Table, connfd, listenfd, Fds
    <3>3. i = 0
      BY <3>1, <3>2
    <3>4. QED
      BY <3>1, <3>3 DEF CInv, Unvisited
  <2>2. ASSUME NEW b \in {"read", "hangup"}, At(b)
        PROVE  /\ i \in 1 .. user_counter /\ i >= i
               /\ Holds(fds[i].revents, Peer)
    <3>1. i \in 1 .. user_counter
      BY <2>2, ClientEntry
    <3>2. QED
      BY <2>2, <3>1 DEF CInv, Unvisited, At, Peer, connfd
  <2>3. At("read") => sock[Peer].rcvq # <<>> \/ sock[Peer].err # "none"
    BY <2>2 DEF At, Branch, Holds
  <2>4. At("hangup") => sock[Peer].peer \in {"fin", "rst"}
    BY <2>2 DEF At, Branch, Holds
  <2>5. QED
    BY <2>1, <2>3, <2>4 DEF ReportsAreCurrent
<1>4. QED
  BY <1>1, <1>2, <1>3, Invariance, PTL DEF Spec

-----------------------------------------------------------------------------
(* The room: as long as nobody is gone, descriptors are neither closed nor *)
(* handed out again and no entry moves, so a pointer names the author of   *)
(* what it points at.  What is pointed at has been said, and comes after   *)
(* all of that author that was written to the pointing member before.      *)

Calm == \A c \in Clients : sock[c].peer # "gone"

(* How many units of c the server has taken (what a reset throws away      *)
(* counts as taken).                                                       *)
Said(c) == sent[c] - Len(sock[c].rcvq)

InOrder ==
  \A c \in Clients :
    /\ sent[c] <= MaxSend
    /\ Len(sock[c].rcvq) <= sent[c]
    /\ \A k \in 1 .. Len(sock[c].rcvq) : sock[c].rcvq[k] = <<c, Said(c) + k>>

Told ==
  \A c \in Clients : \A j \in 1 .. Len(got[c]) :
    got[c][j][1] \in Clients /\ got[c][j][2] <= Said(got[c][j][1])

(* The buffer of e holds words of its owner from first on, all of them new *)
(* to the owner of d.                                                      *)
Fresh(d, e, first) ==
  /\ \A k \in 1 .. Len(users[e].buf) : users[e].buf[k] = <<owner[e], first + k - 1>>
  /\ first + Len(users[e].buf) - 1 <= Said(owner[e])
  /\ \A j \in 1 .. Len(got[owner[d]]) :
       got[owner[d]][j][1] = owner[e] => got[owner[d]][j][2] < first

Pointed ==
  \A d, e \in Fds : users[d].write_buf = e =>
    /\ d # e /\ owner[d] # NoClient /\ owner[e] # NoClient
    /\ \E first \in Nat \ {0} : Fresh(d, e, first)

RoomInv == Calm => InOrder /\ Told /\ Pointed

LEMMA RoomTypes ==
  ASSUME IInv, NEW c \in Clients
  PROVE  /\ sent[c] \in Nat /\ Len(sock[c].rcvq) \in Nat
         /\ sock[c].rcvq \in Seq(Unit) /\ Said(c) \in Int
         /\ sock[c].peer \in {"none", "open", "fin", "rst", "refused", "gone"}
         /\ got[c] \in Seq(Unit) /\ Len(got[c]) \in Nat
         /\ MaxSend \in Nat
<1>1. sent[c] \in Nat /\ sock[c] \in Socket /\ got[c] \in Seq(Unit) /\ MaxSend \in Nat
  BY TalkAssumption DEF IInv, TypeOK
<1>2. /\ sock[c].rcvq \in Seq(Unit)
      /\ sock[c].peer \in {"none", "open", "fin", "rst", "refused", "gone"}
  BY <1>1 DEF Socket
<1> QED BY <1>1, <1>2, LenProperties DEF Said

(* A unit that was written has a number.                                   *)
LEMMA ToldUnit ==
  ASSUME IInv, NEW c \in Clients, NEW j \in 1 .. Len(got[c])
  PROVE  got[c][j] \in Unit /\ got[c][j][2] \in Nat
<1>1. got[c] \in Seq(Unit)
  BY RoomTypes
<1>2. got[c][j] \in Unit
  BY <1>1, ElementOfSeq
<1> QED BY <1>2 DEF Unit

-----------------------------------------------------------------------------
(* Once somebody is gone he stays gone.                                    *)
LEMMA GoneForGood ==
  ASSUME IInv, Linked, [Next]_vars, Calm'
  PROVE  Calm
<1> SUFFICES ASSUME NEW c \in Clients, sock[c].peer = "gone"
             PROVE  sock'[c].peer = "gone"
  BY DEF Calm
<1>0. sock \in [Clients -> Socket]
  BY DEF IInv, TypeOK
<1>1. CASE ClientStep
  <2>1. PICK x \in Clients : Connect(x) \/ Say(x) \/ Leave(x) \/ Abort(x)
    BY <1>1 DEF ClientStep
  <2>2. x # c
    BY <2>1 DEF Connect, Say, Leave, Abort
  <2> QED BY <1>0, <2>1, <2>2 DEF Connect, Say, Leave, Abort
<1>2. CASE PollFailure \/ KilledWriting \/ KilledRefusing
  BY <1>2 DEF PollFailure, KilledWriting, KilledRefusing, Terminate
<1>3. CASE UNCHANGED sock
  BY <1>3
<1>4. CASE RefuseUser
  <2>1. Head(backlog) # c /\ sock' = Closed(Head(backlog), "refused")
    BY <1>4, LinkedTaken DEF RefuseUser, Alive
  <2> QED BY <1>0, <2>1 DEF Closed
<1>5. CASE ReportError \/ WritePending
  <2>1. sock' = [sock EXCEPT ![Peer].err = "none"] /\ sock[c] \in Socket
    BY <1>0, <1>5 DEF ReportError, WritePending
  <2> QED BY <1>0, <2>1 DEF Socket
<1>6. CASE Hangup \/ RecvNoData
  BY <1>0, <1>6 DEF Hangup, RecvNoData, RemoveEntry, Closed
<1>7. CASE RecvData
  BY <1>0, <1>7 DEF RecvData
<1> QED
  BY <1>1, <1>2, <1>3, <1>4, <1>5, <1>6, <1>7
     DEF Next, ServerStep, vars, Poll, AcceptFails, AcceptUser, NothingToWrite,
         NothingToDo, EndOfScan

-----------------------------------------------------------------------------
(* What steps other than reading and writing do: a client says more, or    *)
(* the kernel drops what waits.                                            *)

LEMMA OnlyMoreSaid ==
  ASSUME IInv, IInv', Told, Pointed, UNCHANGED <<users, got>>,
         \A d \in Fds : owner[d] # NoClient => owner'[d] = owner[d],
         \A c \in Clients : Said(c) <= Said(c)'
  PROVE  Told' /\ Pointed'
<1>0. \A c \in Clients : Said(c) \in Int /\ Said(c)' \in Int
  <2>1. ASSUME NEW c \in Clients PROVE Said(c)' \in Int
    <3>1. sent'[c] \in Nat /\ sock'[c].rcvq \in Seq(Unit)
      BY DEF IInv, TypeOK, Socket, Unit
    <3> QED BY <3>1, LenProperties DEF Said
  <2> QED BY <2>1, RoomTypes
<1>1. Told'
  <2> SUFFICES ASSUME NEW c \in Clients, NEW j \in 1 .. Len(got[c])
               PROVE  got[c][j][1] \in Clients /\ got[c][j][2] <= Said(got[c][j][1])'
    BY DEF Told
  <2>1. PICK a : a = got[c][j][1]
    OBVIOUS
  <2>2. a \in Clients /\ got[c][j][2] <= Said(a)
    BY <2>1 DEF Told
  <2>3. got[c][j][2] <= Said(a)'
    BY <1>0, <2>2, ToldUnit
  <2> QED BY <2>1, <2>2, <2>3
<1>2. Pointed'
  <2> SUFFICES ASSUME NEW d \in Fds, NEW e \in Fds, users[d].write_buf = e
               PROVE  /\ d # e /\ owner'[d] # NoClient /\ owner'[e] # NoClient
                      /\ \E first \in Nat \ {0} : Fresh(d, e, first)'
    BY DEF Pointed
  <2>1. PICK first \in Nat \ {0} :
          /\ d # e /\ owner[d] # NoClient /\ owner[e] # NoClient
          /\ Fresh(d, e, first)
    BY DEF Pointed
  <2>2. owner'[d] = owner[d] /\ owner'[e] = owner[e]
    BY <2>1
  <2>3. PICK a \in Clients : a = owner[e]
    BY <2>1 DEF IInv, TypeOK
  <2>4. PICK n \in Nat : n = Len(users[e].buf)
    <3>1. users[e].buf \in Seq(Unit)
      BY DEF IInv, TypeOK, ClientData
    <3> QED BY <3>1, LenProperties
  <2>5. first + n - 1 <= Said(a)'
    BY <1>0, <2>1, <2>3, <2>4 DEF Fresh
  <2>6. Fresh(d, e, first)'
    BY <2>1, <2>2, <2>3, <2>4, <2>5 DEF Fresh
  <2> QED BY <2>1, <2>2, <2>6
<1> QED BY <1>1, <1>2

(* Queues that stay, or are thrown away.                                   *)
LEMMA QueuesDropped ==
  ASSUME IInv, InOrder, sent' = sent,
         \A c \in Clients : sock'[c].rcvq = sock[c].rcvq \/ sock'[c].rcvq = <<>>
  PROVE  /\ InOrder'
         /\ \A c \in Clients : Said(c) <= Said(c)'
<1> SUFFICES ASSUME NEW c \in Clients
             PROVE  /\ sent[c] <= MaxSend /\ Len(sock'[c].rcvq) <= sent[c]
                    /\ \A k \in 1 .. Len(sock'[c].rcvq) :
                         sock'[c].rcvq[k] = <<c, Said(c)' + k>>
                    /\ Said(c) <= Said(c)'
  BY DEF InOrder
<1>1. /\ sent[c] \in Nat /\ Len(sock[c].rcvq) \in Nat
      /\ sent[c] <= MaxSend /\ Len(sock[c].rcvq) <= sent[c]
      /\ \A k \in 1 .. Len(sock[c].rcvq) : sock[c].rcvq[k] = <<c, Said(c) + k>>
  BY RoomTypes DEF InOrder
<1>2. CASE sock'[c].rcvq = sock[c].rcvq
  <2>1. Said(c)' = Said(c)
    BY <1>2 DEF Said
  <2>2. Said(c) <= Said(c)
    BY RoomTypes
  <2> QED BY <1>1, <1>2, <2>1, <2>2
<1>3. CASE sock'[c].rcvq = <<>>
  <2>1. Len(sock'[c].rcvq) = 0
    BY <1>3
  <2>2. Said(c)' = sent[c] /\ Said(c) <= sent[c]
    BY <1>1, <2>1 DEF Said
  <2> QED BY <1>1, <2>1, <2>2
<1> QED BY <1>2, <1>3

LEMMA SayInOrder ==
  ASSUME IInv, InOrder, NEW c \in Clients, Say(c)
  PROVE  InOrder' /\ \A x \in Clients : Said(x)' = Said(x)
<1>1. /\ sent[c] < MaxSend
      /\ sent' = [sent EXCEPT ![c] = sent[c] + 1]
      /\ sock' = [sock EXCEPT ![c].rcvq = Append(sock[c].rcvq, <<c, sent[c] + 1>>)]
      /\ sent \in [Clients -> Nat] /\ sock \in [Clients -> Socket]
  BY DEF Say, IInv, TypeOK
<1>2. /\ sent'[c] = sent[c] + 1
      /\ sock'[c].rcvq = Append(sock[c].rcvq, <<c, sent[c] + 1>>)
      /\ \A x \in Clients \ {c} : sent'[x] = sent[x] /\ sock'[x] = sock[x]
  BY <1>1 DEF Socket
<1>3. PICK q \in Seq(Unit), n \in Nat, s \in Nat :
        q = sock[c].rcvq /\ n = Len(q) /\ s = sent[c]
  BY RoomTypes
<1>4. <<c, s + 1>> \in Unit
  BY <1>3 DEF Unit
<1>5. /\ Len(Append(q, <<c, s + 1>>)) = n + 1
      /\ \A k \in 1 .. n : Append(q, <<c, s + 1>>)[k] = q[k]
      /\ Append(q, <<c, s + 1>>)[n + 1] = <<c, s + 1>>
  BY <1>3, <1>4
<1>6. /\ s <= MaxSend /\ n <= s /\ \A k \in 1 .. n : q[k] = <<c, (s - n) + k>>
  BY <1>3 DEF InOrder, Said
<1>7. Said(c) = s - n /\ Said(c)' = s - n
  <2>1. s + 1 - (n + 1) = s - n
    BY <1>3
  <2>2. Len(sock'[c].rcvq) = n + 1 /\ sent'[c] = s + 1
    BY <1>2, <1>3, <1>5
  <2>3. Said(c) = s - n
    BY <1>3 DEF Said
  <2>4. Said(c)' = (s + 1) - (n + 1)
    BY <2>2, Zenon DEF Said
  <2> QED BY <2>1, <2>3, <2>4
<1>8. ASSUME NEW k \in 1 .. n + 1
      PROVE  Append(q, <<c, s + 1>>)[k] = <<c, (s - n) + k>>
  <2>1. k \in 1 .. n \/ k = n + 1
    BY <1>3
  <2>2. (s - n) + (n + 1) = s + 1
    BY <1>3
  <2> QED BY <1>5, <1>6, <2>1, <2>2
<1>9. \A x \in Clients : Said(x)' = Said(x)
  BY <1>2, <1>7 DEF Said
<1>10. InOrder'
  <2> SUFFICES ASSUME NEW x \in Clients
               PROVE  /\ sent'[x] <= MaxSend /\ Len(sock'[x].rcvq) <= sent'[x]
                      /\ \A k \in 1 .. Len(sock'[x].rcvq) :
                           sock'[x].rcvq[k] = <<x, Said(x)' + k>>
    BY DEF InOrder
  <2>1. CASE x = c
    <3>1. s + 1 <= MaxSend /\ n + 1 <= s + 1
      BY <1>1, <1>3, <1>6, TalkAssumption
    <3> QED BY <1>2, <1>3, <1>5, <1>7, <1>8, <2>1, <3>1
  <2>2. CASE x # c
    BY <1>2, <1>9, <2>2 DEF InOrder
  <2> QED BY <2>1, <2>2
<1> QED BY <1>9, <1>10

-----------------------------------------------------------------------------
(* How the steps of the server appear in the room.                         *)

(* Nobody in the room: nothing can change there.                           *)
LEMMA EmptyRoom ==
  ASSUME IInv, IInv', Clients = {}
  PROVE  UNCHANGED Room!vars
<1>1. got \in [Clients -> Seq(Unit)] /\ got' \in [Clients -> Seq(Unit)]
  BY DEF IInv, TypeOK
<1>2. got' = got
  BY <1>1
<1>3. Calm /\ Calm'
  BY DEF Calm
<1>4. (\A c \in Clients : sock[c].peer # "gone")' = (\A c \in Clients : sock[c].peer # "gone")
  BY <1>3, Zenon DEF Calm
<1>5. [c \in Clients |-> sent[c] - Len(sock[c].rcvq)]'
        = [c \in Clients |-> sent[c] - Len(sock[c].rcvq)]
  OBVIOUS
<1> QED BY <1>2, <1>4, <1>5 DEF Room!vars

(* A step that takes something of one member at most.                      *)
LEMMA RoomTakes ==
  ASSUME IInv, IInv', InOrder, InOrder', Calm, Calm', got' = got,
         NEW x \in Clients, Said(x) <= Said(x)',
         \A c \in Clients \ {x} : Said(c)' = Said(c)
  PROVE  [Room!Next]_(Room!vars)
<1> DEFINE said == [c \in Clients |-> sent[c] - Len(sock[c].rcvq)]
<1>1. PICK a \in Nat, b \in Nat : a = Said(x) /\ b = Said(x)' /\ b <= MaxSend
  <2>1. sent[x] \in Nat /\ Len(sock[x].rcvq) \in Nat /\ Len(sock[x].rcvq) <= sent[x]
    BY RoomTypes DEF InOrder
  <2>2. /\ sent'[x] \in Nat /\ Len(sock'[x].rcvq) \in Nat
        /\ Len(sock'[x].rcvq) <= sent'[x] /\ sent'[x] <= MaxSend
    <3>1. sent'[x] \in Nat /\ sock'[x].rcvq \in Seq(Unit)
      BY DEF IInv, TypeOK, Socket
    <3> QED BY <3>1, LenProperties DEF InOrder
  <2>3. Said(x) \in Nat
    BY <2>1 DEF Said
  <2>4. Said(x)' \in Nat /\ Said(x)' <= MaxSend
    BY <2>2, TalkAssumption DEF Said
  <2> QED BY <2>3, <2>4
<1>2. (\A c \in Clients : sock[c].peer # "gone")' = (\A c \in Clients : sock[c].peer # "gone")
  BY Zenon DEF Calm
<1>3. \A c \in Clients : said[c] = Said(c) /\ said'[c] = Said(c)'
  BY DEF Said
<1>4. DOMAIN said = Clients /\ DOMAIN said' = Clients
  OBVIOUS
<1>5. said = [c \in Clients |-> said[c]] /\ said' = [c \in Clients |-> said'[c]]
  OBVIOUS
<1> HIDE DEF said
<1>6. said' = [said EXCEPT ![x] = @ + (b - a)]
  <2>1. said[x] + (b - a) = said'[x]
    BY <1>1, <1>3
  <2>2. \A c \in Clients \ {x} : said'[c] = said[c]
    BY <1>3
  <2> QED BY <1>5, <2>1, <2>2
<1>7. CASE a = b
  <2>1. said' = said
    BY <1>1, <1>3, <1>5, <1>7
  <2> QED BY <1>2, <2>1 DEF Room!vars, said
<1>8. CASE a # b
  <2>1. b - a \in 1 .. MaxSend
    BY <1>1, <1>8, TalkAssumption
  <2>2. Room!Take(x, b - a)
    BY <1>2, <1>6 DEF Room!Take, said
  <2>3. Room!CalmStep
    BY <2>1, <2>2 DEF Room!CalmStep
  <2>4. \A c \in Clients : sock[c].peer # "gone"
    BY DEF Calm
  <2> QED BY <2>3, <2>4 DEF Room!Next
<1> QED BY <1>7, <1>8

(* Steps that neither write to a member, nor change an object, nor close a *)
(* descriptor.                                                             *)
LEMMA QuietStep ==
  ASSUME IInv, IInv', Calm, Calm', InOrder, Told, Pointed,
         UNCHANGED <<users, got, sent>>,
         \A d \in Fds : owner[d] # NoClient => owner'[d] = owner[d],
         NEW x,
         \A c \in Clients :
           sock'[c].rcvq = sock[c].rcvq \/ (c = x /\ sock'[c].rcvq = <<>>)
  PROVE  InOrder' /\ Told' /\ Pointed' /\ [Room!Next]_(Room!vars)
<1>1. InOrder' /\ \A c \in Clients : Said(c) <= Said(c)'
  BY QueuesDropped
<1>2. Told' /\ Pointed'
  BY <1>1, OnlyMoreSaid
<1>3. \A c \in Clients \ {x} : Said(c)' = Said(c)
  BY DEF Said
<1>4. CASE Clients = {}
  BY <1>1, <1>2, <1>4, EmptyRoom
<1>5. CASE x \in Clients
  BY <1>1, <1>2, <1>3, <1>5, RoomTakes
<1>6. CASE Clients # {} /\ x \notin Clients
  <2>1. PICK y \in Clients : TRUE
    BY <1>6
  <2>2. \A c \in Clients \ {y} : Said(c)' = Said(c)
    BY <1>3, <1>6
  <2> QED BY <1>1, <1>2, <2>2, RoomTakes
<1> QED BY <1>4, <1>5, <1>6

LEMMA SayStep ==
  ASSUME IInv, IInv', Calm, Calm', InOrder, Told, Pointed, NEW c \in Clients, Say(c)
  PROVE  InOrder' /\ Told' /\ Pointed' /\ [Room!Next]_(Room!vars)
<1>1. InOrder' /\ \A x \in Clients : Said(x)' = Said(x)
  BY SayInOrder
<1>2. UNCHANGED <<users, owner, got>>
  BY DEF Say, server
<1>3. \A x \in Clients : Said(x) <= Said(x)'
  BY <1>1, RoomTypes
<1>4. Told' /\ Pointed'
  BY <1>2, <1>3, OnlyMoreSaid
<1> QED BY <1>1, <1>2, <1>3, <1>4, RoomTakes

(* Reading from a member points everybody else at his new words.           *)
LEMMA ReadStep ==
  ASSUME IInv, IInv', Linked, Calm, Calm', InOrder, Told, Pointed, RecvData
  PROVE  InOrder' /\ Told' /\ Pointed' /\ [Room!Next]_(Room!vars)
<1>1. /\ i \in 1 .. user_counter /\ connfd \in Fds /\ Peer \in Clients
      /\ pc = "scan" /\ Running
  BY ClientEntry DEF RecvData, At, Running
<1>2. PICK p \in Clients, f \in Fds, q \in Seq(Unit) :
        p = Peer /\ f = connfd /\ q = sock[p].rcvq
  BY <1>1, RoomTypes
<1>3. PICK n \in Nat :
        /\ n = IF Len(q) < BUFFER_SIZE THEN Len(q) ELSE BUFFER_SIZE
        /\ n <= Len(q) /\ n > 0
  <2>1. q # <<>> /\ Len(q) \in Nat /\ BUFFER_SIZE \in Nat \ {0}
    BY <1>2, LenProperties, TalkAssumption DEF RecvData
  <2>2. Len(q) > 0
    BY <1>2, <2>1
  <2> QED BY <2>1, <2>2
<1>4. /\ sock' = [sock EXCEPT ![p].rcvq = SubSeq(q, n + 1, Len(q))]
      /\ users' = [d \in Fds |->
                     [buf |-> IF d = f THEN SubSeq(q, 1, n) ELSE users[d].buf,
                      write_buf |-> IF d \in Others THEN f ELSE users[d].write_buf]]
      /\ UNCHANGED <<pc, user_counter, owner, backlog, sent, got>>
  BY <1>2, <1>3 DEF RecvData
<1>5. /\ SubSeq(q, 1, n) \in Seq(Unit) /\ Len(SubSeq(q, 1, n)) = n
      /\ \A k \in 1 .. n : SubSeq(q, 1, n)[k] = q[k]
  BY <1>2, <1>3, SubSeqProperties, LenProperties
<1>6. /\ Len(SubSeq(q, n + 1, Len(q))) = Len(q) - n
      /\ \A k \in 1 .. Len(q) - n : SubSeq(q, n + 1, Len(q))[k] = q[n + k]
  <2>1. Len(q) \in Nat
    BY LenProperties
  <2>2. /\ n + 1 \in Int /\ Len(q) \in Int
        /\ \A k \in n + 1 .. Len(q) : q[k] \in Unit
    BY <1>2, <1>3, <2>1
  <2>3. /\ Len(SubSeq(q, n + 1, Len(q)))
             = IF n + 1 <= Len(q) THEN Len(q) - (n + 1) + 1 ELSE 0
        /\ \A k \in 1 .. Len(q) - (n + 1) + 1 :
             SubSeq(q, n + 1, Len(q))[k] = q[(n + 1) + k - 1]
    BY <2>2, SubSeqProperties
  <2>4. Len(q) - (n + 1) + 1 = Len(q) - n /\ (~(n + 1 <= Len(q)) => Len(q) - n = 0)
    BY <1>3, <2>1
  <2>5. \A k \in 1 .. Len(q) - n : (n + 1) + k - 1 = n + k
    BY <1>3, <2>1
  <2> QED BY <2>3, <2>4, <2>5
<1>7. PICK s \in Nat : s = Said(p) /\ \A k \in 1 .. Len(q) : q[k] = <<p, s + k>>
  <2>1. Said(p) \in Nat
    BY RoomTypes DEF InOrder, Said
  <2> QED BY <1>2, <2>1 DEF InOrder
<1>8. \A c \in Clients \ {p} : sock'[c] = sock[c]
  BY <1>4 DEF IInv, TypeOK
<1>9. sock'[p].rcvq = SubSeq(q, n + 1, Len(q))
  <2>1. sock \in [Clients -> Socket]
    BY DEF IInv, TypeOK
  <2>2. sock[p] \in Socket /\ sock'[p] = [sock[p] EXCEPT !.rcvq = SubSeq(q, n + 1, Len(q))]
    BY <1>4, <2>1
  <2> QED BY <2>2 DEF Socket
<1>10. Said(p)' = s + n
  <2>1. Said(p) = sent[p] - Len(q) /\ sent[p] \in Nat /\ Len(q) \in Nat
    BY <1>2, RoomTypes DEF Said
  <2>2. Said(p)' = sent[p] - (Len(q) - n)
    BY <1>4, <1>6, <1>9 DEF Said
  <2> QED BY <1>7, <2>1, <2>2
<1>11. \A c \in Clients \ {p} : Said(c)' = Said(c)
  BY <1>4, <1>8 DEF Said
<1>12. \A c \in Clients : Said(c) <= Said(c)'
  BY <1>7, <1>10, <1>11, RoomTypes
<1>13. InOrder'
  <2> SUFFICES ASSUME NEW c \in Clients
               PROVE  /\ sent[c] <= MaxSend /\ Len(sock'[c].rcvq) <= sent[c]
                      /\ \A k \in 1 .. Len(sock'[c].rcvq) :
                           sock'[c].rcvq[k] = <<c, Said(c)' + k>>
    BY <1>4 DEF InOrder
  <2>1. CASE c # p
    BY <1>8, <1>11, <2>1 DEF InOrder
  <2>2. CASE c = p
    <3>1. sent[p] <= MaxSend /\ Len(q) <= sent[p] /\ sent[p] \in Nat /\ Len(q) \in Nat
      BY <1>2, RoomTypes DEF InOrder
    <3>2. Len(q) - n <= sent[p]
      BY <1>3, <3>1
    <3>3. ASSUME NEW k \in 1 .. Len(q) - n
          PROVE  q[n + k] = <<p, (s + n) + k>>
      <4>1. n + k \in 1 .. Len(q) /\ s + (n + k) = (s + n) + k
        BY <1>3, <3>1
      <4> QED BY <1>7, <4>1
    <3> QED BY <1>6, <1>9, <1>10, <2>2, <3>1, <3>2, <3>3
  <2> QED BY <2>1, <2>2
<1>14. Told'
  <2> SUFFICES ASSUME NEW c \in Clients, NEW j \in 1 .. Len(got[c])
               PROVE  got[c][j][1] \in Clients /\ got[c][j][2] <= Said(got[c][j][1])'
    BY <1>4 DEF Told
  <2>1. PICK a : a = got[c][j][1]
    OBVIOUS
  <2>2. a \in Clients /\ got[c][j][2] <= Said(a)
    BY <2>1 DEF Told
  <2>3. Said(a) \in Int /\ Said(a)' \in Int /\ Said(a) <= Said(a)'
    BY <1>7, <1>10, <1>11, <1>12, <2>2, RoomTypes
  <2>4. got[c][j][2] <= Said(a)'
    BY <2>2, <2>3, ToldUnit
  <2> QED BY <1>4, <2>1, <2>2, <2>4
<1>15. Pointed'
  <2> SUFFICES ASSUME NEW d \in Fds, NEW e \in Fds, users'[d].write_buf = e
               PROVE  /\ d # e /\ owner[d] # NoClient /\ owner[e] # NoClient
                      /\ \E first \in Nat \ {0} : Fresh(d, e, first)'
    BY <1>4 DEF Pointed
  <2>0. owner[f] = p
    BY <1>2 DEF Peer
  <2>1. CASE d \in Others
    <3>1. e = f /\ d # f /\ owner[d] # NoClient
      BY <1>1, <1>2, <1>4, <2>1 DEF Others, IInv, Table
    <3>2. owner[f] # NoClient /\ s + 1 \in Nat \ {0}
      BY <2>0, <1>7, TalkAssumption
    <3>3. users'[f].buf = SubSeq(q, 1, n)
      BY <1>4
    <3>4. \A k \in 1 .. n : SubSeq(q, 1, n)[k] = <<p, (s + 1) + k - 1>>
      <4>1. \A k \in 1 .. n : k \in 1 .. Len(q) /\ (s + 1) + k - 1 = s + k
        BY <1>3, <1>7, LenProperties
      <4> QED BY <1>5, <1>7, <4>1
    <3>5. (s + 1) + n - 1 <= Said(p)'
      BY <1>10
    <3>6. owner[d] \in Clients
      BY <3>1 DEF IInv, TypeOK
    <3>7. ASSUME NEW j \in 1 .. Len(got[owner[d]]), got[owner[d]][j][1] = p
          PROVE  got[owner[d]][j][2] < s + 1
      <4>1. got[owner[d]][j][2] \in Nat /\ got[owner[d]][j][2] <= s
        BY <1>7, <3>6, <3>7, ToldUnit DEF Told
      <4> QED BY <4>1
    <3>8. Fresh(d, f, s + 1)'
      BY <1>4, <1>5, <2>0, <3>3, <3>4, <3>5, <3>7 DEF Fresh
    <3> QED BY <3>1, <3>2, <3>8
  <2>2. CASE d \notin Others
    <3>1. users[d].write_buf = e
      BY <1>4, <2>2
    <3>2. PICK first \in Nat \ {0} :
            /\ d # e /\ owner[d] # NoClient /\ owner[e] # NoClient
            /\ Fresh(d, e, first)
      BY <3>1 DEF Pointed
    <3>3. d = f
      BY <1>1, <1>2, <2>2, <3>2 DEF Others, IInv, Table
    <3>4. users'[e].buf = users[e].buf
      BY <1>4, <3>2, <3>3
    <3>5. PICK a \in Clients : a = owner[e] /\ a # p
      BY <1>2, <2>0, <3>2, <3>3 DEF IInv, TypeOK, Linked, OpenFds
    <3>6. Said(a)' = Said(a)
      BY <1>11, <3>5
    <3>7. owner' = owner /\ got' = got
      BY <1>4
    <3>8. Fresh(d, e, first)'
      BY <3>2, <3>4, <3>5, <3>6, <3>7 DEF Fresh
    <3> QED BY <3>2, <3>8
  <2> QED BY <2>1, <2>2
<1> QED BY <1>4, <1>11, <1>12, <1>13, <1>14, <1>15, RoomTakes

(* recv without data, which clears the buffer, or drops the member.        *)
LEMMA ReadNothingStep ==
  ASSUME IInv, IInv', Calm, Calm', InOrder, Told, Pointed, RecvNoData
  PROVE  InOrder' /\ Told' /\ Pointed' /\ [Room!Next]_(Room!vars)
<1>1. connfd \in Fds /\ Peer \in Clients
  BY ClientEntry DEF RecvNoData
<1>2. CASE sock[Peer].err # "none"
  <2>1. sock' = Closed(Peer, "gone")
    BY <1>2 DEF RecvNoData, RemoveEntry
  <2>2. sock'[Peer].peer = "gone"
    BY <1>1, <2>1 DEF Closed, IInv, TypeOK
  <2> QED BY <1>1, <2>2 DEF Calm
<1>3. CASE sock[Peer].err = "none"
  <2>1. /\ users' = [users EXCEPT ![connfd].buf = <<>>]
        /\ UNCHANGED <<owner, sock, sent, got>>
    BY <1>3 DEF RecvNoData
  <2>2. /\ users \in [Fds -> ClientData]
        /\ \A d \in Fds : /\ users'[d].write_buf = users[d].write_buf
                          /\ users'[d].buf = users[d].buf \/ users'[d].buf = <<>>
    BY <1>1, <2>1 DEF IInv, TypeOK, ClientData
  <2>3. \A c \in Clients : Said(c)' = Said(c)
    BY <2>1 DEF Said
  <2>4. InOrder' /\ Told'
    BY <2>1, <2>3 DEF InOrder, Told
  <2>5. Pointed'
    <3> SUFFICES ASSUME NEW d \in Fds, NEW e \in Fds, users[d].write_buf = e
                 PROVE  /\ d # e /\ owner[d] # NoClient /\ owner[e] # NoClient
                        /\ \E first \in Nat \ {0} : Fresh(d, e, first)'
      BY <2>1, <2>2 DEF Pointed
    <3>1. PICK first \in Nat \ {0} :
            /\ d # e /\ owner[d] # NoClient /\ owner[e] # NoClient
            /\ Fresh(d, e, first)
      BY DEF Pointed
    <3>2. PICK a \in Clients : a = owner[e]
      BY <3>1 DEF IInv, TypeOK
    <3>3. CASE users'[e].buf = users[e].buf
      <4>1. Fresh(d, e, first)'
        BY <2>1, <2>3, <3>1, <3>2, <3>3 DEF Fresh
      <4> QED BY <3>1, <4>1
    <3>4. CASE users'[e].buf = <<>>
      <4>1. Len(users'[e].buf) = 0
        BY <3>4
      <4>2. Len(users[e].buf) \in Nat /\ Said(a) \in Int
        BY RoomTypes, LenProperties DEF IInv, TypeOK, ClientData
      <4>3. first + 0 - 1 <= Said(a)'
        BY <2>3, <3>1, <3>2, <4>2 DEF Fresh
      <4>4. Fresh(d, e, first)'
        BY <2>1, <3>1, <3>2, <4>1, <4>3 DEF Fresh
      <4> QED BY <3>1, <4>4
    <3> QED BY <2>2, <3>3, <3>4
  <2>6. [Room!Next]_(Room!vars)
    <3>1. Said(Peer) \in Int
      BY <1>1, RoomTypes
    <3>2. PICK p \in Clients : p = Peer
      BY <1>1
    <3>3. Said(p) <= Said(p)'
      BY <2>3, <3>1, <3>2
    <3> QED BY <2>1, <2>3, <2>4, <3>3, RoomTakes
  <2> QED BY <2>4, <2>5, <2>6
<1> QED BY <1>2, <1>3

(* Where the elements of a concatenation come from.                        *)
LEMMA Concatenated ==
  ASSUME NEW S, NEW s \in Seq(S), NEW t \in Seq(S)
  PROVE  /\ Len(s \o t) = Len(s) + Len(t)
         /\ \A j \in 1 .. Len(s) : (s \o t)[j] = s[j]
         /\ \A l \in 1 .. Len(t) : (s \o t)[Len(s) + l] = t[l]
         /\ \A j \in 1 .. Len(s \o t) :
              j \in 1 .. Len(s) \/ \E l \in 1 .. Len(t) : j = Len(s) + l
<1>1. Len(s) \in Nat /\ Len(t) \in Nat
  BY LenProperties
<1>2. /\ Len(s \o t) = Len(s) + Len(t)
      /\ \A k \in 1 .. Len(s) + Len(t) :
           (s \o t)[k] = IF k <= Len(s) THEN s[k] ELSE t[k - Len(s)]
  BY ConcatProperties
<1>3. ASSUME NEW l \in 1 .. Len(t)
      PROVE  (s \o t)[Len(s) + l] = t[l]
  <2>1. /\ Len(s) + l \in 1 .. Len(s) + Len(t) /\ ~(Len(s) + l <= Len(s))
        /\ (Len(s) + l) - Len(s) = l
    BY <1>1
  <2> QED BY <1>2, <2>1
<1>4. ASSUME NEW j \in 1 .. Len(s) + Len(t), j \notin 1 .. Len(s)
      PROVE  \E l \in 1 .. Len(t) : j = Len(s) + l
  <2>1. j - Len(s) \in 1 .. Len(t) /\ j = Len(s) + (j - Len(s))
    BY <1>1, <1>4
  <2> QED BY <2>1
<1>5. Len(s) + Len(t) = Len(s \o t)
  BY <1>2
<1>6. ASSUME NEW j \in 1 .. Len(s)
      PROVE  (s \o t)[j] = s[j]
  <2>1. j \in 1 .. Len(s) + Len(t) /\ j <= Len(s)
    BY <1>1
  <2> QED BY <1>2, <2>1
<1> QED BY <1>3, <1>4, <1>5, <1>6, Zenon

(* A set of numbers with a bound has a greatest element, or is empty.      *)
LEMMA Greatest ==
  ASSUME NEW S \in SUBSET Nat, NEW b \in Nat, \A k \in S : k <= b
  PROVE  \E n \in S \cup {0} : \A k \in S : k <= n
<1> DEFINE Bounds == {n \in Nat : \A k \in S : k <= n}
<1>1. IsWellFoundedOn(OpToRel(<, Nat), Nat)
  BY NatLessThanWellFounded
<1>2. PICK m \in Bounds : \A n \in Bounds : ~(<<n, m>> \in OpToRel(<, Nat))
  BY <1>1, WFMin
<1>3. m \in Nat /\ \A k \in S : k <= m
  OBVIOUS
<1>4. ASSUME m \notin S, m # 0
      PROVE  FALSE
  <2>1. m - 1 \in Bounds
    BY <1>3, <1>4
  <2>2. <<m - 1, m>> \in OpToRel(<, Nat)
    BY <1>3, <1>4 DEF OpToRel
  <2> QED BY <1>2, <2>1, <2>2
<1> QED BY <1>3, <1>4

(* What was told to the member p of the author a comes before first.       *)
LEMMA LastBefore ==
  ASSUME IInv, NEW p \in Clients, NEW a \in Clients, NEW first \in Nat \ {0},
         \A j \in 1 .. Len(got[p]) : got[p][j][1] = a => got[p][j][2] < first
  PROVE  Room!LastOf(p, a) < first
<1> DEFINE told == {got[p][j][2] : j \in {k \in 1 .. Len(got[p]) : got[p][k][1] = a}}
<1>1. told \in SUBSET Nat
  BY ToldUnit
<1>2. \A k \in told : k < first
  OBVIOUS
<1> HIDE DEF told
<1>3. first \in Nat /\ \A k \in told : k <= first
  BY <1>1, <1>2
<1>4. \E n \in told \cup {0} : \A k \in told : k <= n
  BY <1>1, <1>3, Greatest
<1>5. (CHOOSE n \in told \cup {0} : \A k \in told : k <= n) \in told \cup {0}
  BY <1>4, Zenon
<1>6. \A n \in told \cup {0} : n < first
  BY <1>2
<1> QED BY <1>5, <1>6 DEF Room!LastOf, told

(* What is written to a member is new to him, and somebody else's.         *)
LEMMA WriteStep ==
  ASSUME IInv, IInv', Linked, Calm, Calm', InOrder, Told, Pointed, WritePending
  PROVE  InOrder' /\ Told' /\ Pointed' /\ [Room!Next]_(Room!vars)
<1>1. /\ i \in 1 .. user_counter /\ connfd \in Fds /\ Peer \in Clients
      /\ pc = "scan" /\ Running /\ Branch = "write"
  BY ClientEntry DEF WritePending, At, Running
<1>2. PICK p \in Clients, f \in Fds : p = Peer /\ f = connfd /\ owner[f] = p
  BY <1>1 DEF Peer
<1>3. PICK e \in Fds : e = users[f].write_buf
  <2>1. "POLLOUT" \in fds[i].revents
    BY <1>1 DEF Branch
  <2>2. "POLLOUT" \in fds[i].events
    BY <1>1, <2>1 DEF IInv, Reports
  <2>3. users[f].write_buf # Uninit /\ users[f].write_buf # NULL
    BY <1>1, <1>2, <2>2 DEF IInv, Pointers, WritePending, connfd
  <2>4. users[f].write_buf \in Fds \cup {NULL, Uninit}
    BY DEF IInv, TypeOK, ClientData
  <2> QED BY <2>3, <2>4
<1>4. PICK first \in Nat \ {0} : f # e /\ owner[e] # NoClient /\ Fresh(f, e, first)
  BY <1>3 DEF Pointed
<1>5. PICK a \in Clients : a = owner[e] /\ a # p
  BY <1>2, <1>4, TalkAssumption DEF IInv, TypeOK, Linked, OpenFds
<1>6. PICK data \in Seq(Unit), size \in Nat : data = users[e].buf /\ size = Len(data)
  <2>1. users[e].buf \in Seq(Unit)
    BY DEF IInv, TypeOK, ClientData
  <2> QED BY <2>1, LenProperties
<1>7. PICK m \in 0 .. size : got' = [got EXCEPT ![p] = @ \o SubSeq(data, 1, m)]
  <2>1. PICK m \in IF sock[p].peer = "rst" THEN {0}
                   ELSE IF p \in SlowReaders THEN 0 .. size
                   ELSE {size} :
          got' = [got EXCEPT ![p] = @ \o SubSeq(data, 1, m)]
    BY <1>2, <1>3, <1>6 DEF WritePending
  <2>2. m \in 0 .. size
    BY <1>6, <2>1
  <2> QED BY <2>1, <2>2
<1>8. PICK words \in Seq(Unit) : words = SubSeq(data, 1, m) /\ Len(words) = m
                                  /\ \A k \in 1 .. m : words[k] = data[k]
  <2>1. m \in Nat /\ 1 \in Nat /\ m <= Len(data) /\ Len(data) \in Nat
    BY <1>6, <1>7
  <2>2. SubSeq(data, 1, m) \in Seq(Unit) /\ Len(SubSeq(data, 1, m)) = m
    BY <2>1, SubSeqProperties
  <2>3. \A k \in 1 .. m : SubSeq(data, 1, m)[k] = data[k]
    BY <2>1, SubSeqProperties
  <2> QED BY <2>2, <2>3
<1>9. /\ sock' = [sock EXCEPT ![p].err = "none"]
      /\ users' = [users EXCEPT ![f].write_buf = NULL]
      /\ UNCHANGED <<owner, sent>>
  BY <1>2 DEF WritePending, PointerCleared
<1>10. \A c \in Clients : sock'[c].rcvq = sock[c].rcvq
  BY <1>9 DEF IInv, TypeOK, Socket
<1>11. \A c \in Clients : Said(c)' = Said(c)
  BY <1>9, <1>10 DEF Said
<1>12. InOrder'
  BY <1>9, <1>10, QueuesDropped
<1>13. /\ got' = [got EXCEPT ![p] = got[p] \o words]
       /\ got'[p] = got[p] \o words
       /\ \A c \in Clients \ {p} : got'[c] = got[c]
       /\ got \in [Clients -> Seq(Unit)] /\ got[p] \in Seq(Unit)
  BY <1>7, <1>8 DEF IInv, TypeOK
<1>14. \A k \in 1 .. m : k \in 1 .. size /\ words[k] = <<a, first + k - 1>>
  <2>1. \A k \in 1 .. m : k \in 1 .. size
    BY <1>6, <1>7
  <2> QED BY <1>4, <1>5, <1>6, <1>8, <2>1 DEF Fresh
<1>15. PICK s \in Int : s = Said(a) /\ first + size - 1 <= s
  BY <1>4, <1>5, <1>6, RoomTypes DEF Fresh
<1>16. Told'
  <2> SUFFICES ASSUME NEW c \in Clients, NEW j \in 1 .. Len(got'[c])
               PROVE  \E b \in Clients : b = got'[c][j][1] /\ got'[c][j][2] <= Said(b)'
    BY DEF Told
  <2>1. ASSUME NEW x \in Clients, NEW k \in 1 .. Len(got[x])
        PROVE  \E b \in Clients : b = got[x][k][1] /\ got[x][k][2] <= Said(b)'
    BY <1>11 DEF Told
  <2>2. CASE c # p
    <3>1. got'[c] = got[c]
      BY <1>13, <2>2
    <3> QED BY <2>1, <3>1
  <2>3. CASE c = p
    <3>1. \/ j \in 1 .. Len(got[p]) /\ got'[c][j] = got[p][j]
          \/ \E k \in 1 .. m : got'[c][j] = words[k]
      <4>1. j \in 1 .. Len(got[p] \o words) /\ got'[c][j] = (got[p] \o words)[j]
        BY <1>13, <2>3
      <4>2. CASE j \in 1 .. Len(got[p])
        <5>1. (got[p] \o words)[j] = got[p][j]
          BY <1>13, <4>2, Concatenated
        <5> QED BY <4>1, <4>2, <5>1
      <4>3. CASE \E k \in 1 .. Len(words) : j = Len(got[p]) + k
        <5>1. PICK k \in 1 .. Len(words) : j = Len(got[p]) + k
          BY <4>3
        <5>2. (got[p] \o words)[Len(got[p]) + k] = words[k]
          BY <1>13, Concatenated
        <5> QED BY <1>8, <4>1, <5>1, <5>2
      <4>4. j \in 1 .. Len(got[p]) \/ \E k \in 1 .. Len(words) : j = Len(got[p]) + k
        BY <1>13, <4>1, Concatenated
      <4> QED BY <4>2, <4>3, <4>4
    <3>2. CASE j \in 1 .. Len(got[p]) /\ got'[c][j] = got[p][j]
      BY <2>1, <2>3, <3>2
    <3>3. CASE \E k \in 1 .. m : got'[c][j] = words[k]
      <4>1. PICK k \in 1 .. m : got'[c][j] = <<a, first + k - 1>>
        BY <1>14, <3>3
      <4>2. first + k - 1 <= s
        BY <1>7, <1>15
      <4>3. got'[c][j][1] = a /\ got'[c][j][2] <= Said(a)'
        BY <1>11, <1>15, <4>1, <4>2
      <4> QED BY <4>3
    <3> QED BY <3>1, <3>2, <3>3
  <2> QED BY <2>2, <2>3
<1>17. Pointed'
  <2> SUFFICES ASSUME NEW d \in Fds, NEW g \in Fds, users'[d].write_buf = g
               PROVE  /\ d # g /\ owner[d] # NoClient /\ owner[g] # NoClient
                      /\ \E n \in Nat \ {0} : Fresh(d, g, n)'
    BY <1>9 DEF Pointed
  <2>1. users \in [Fds -> ClientData]
    BY DEF IInv, TypeOK
  <2>2. d # f /\ users[d].write_buf = g /\ users'[g].buf = users[g].buf
    BY <1>9, <2>1 DEF ClientData, NULL, Fds
  <2>3. PICK n \in Nat \ {0} :
          d # g /\ owner[d] # NoClient /\ owner[g] # NoClient /\ Fresh(d, g, n)
    BY <2>2 DEF Pointed
  <2>4. PICK x \in Clients, b \in Clients : x = owner[d] /\ x # p /\ b = owner[g]
    BY <1>2, <2>2, <2>3, TalkAssumption DEF IInv, TypeOK, Linked, OpenFds
  <2>5. owner' = owner /\ got'[x] = got[x] /\ Said(b)' = Said(b)
    BY <1>9, <1>11, <1>13, <2>4
  <2>6. Fresh(d, g, n)'
    BY <2>2, <2>3, <2>4, <2>5 DEF Fresh
  <2> QED BY <2>3, <2>6
<1>18. [Room!Next]_(Room!vars)
  <2>1. CASE m = 0
    <3>1. words = <<>>
      BY <1>8, <2>1, EmptySeq
    <3>2. got' = got
      BY <1>13, <3>1, ConcatEmptySeq
    <3>3. Said(a) <= Said(a)'
      BY <1>11, <1>15
    <3> QED BY <1>11, <1>12, <3>2, <3>3, RoomTakes
  <2>2. CASE m # 0
    <3>1. PICK last \in Nat : last = first + m - 1
      BY <1>7
    <3>2. first \in 1 .. s /\ last \in 1 .. s /\ first <= last /\ last - first + 1 = m
      BY <1>7, <1>15, <2>2, <3>1
    <3>3. Room!LastOf(p, a) < first
      BY <1>2, <1>4, <1>5, LastBefore DEF Fresh
    <3>4. words = [k \in 1 .. last - first + 1 |-> <<a, first + k - 1>>]
      <4>1. words = [k \in 1 .. m |-> words[k]]
        BY <1>8
      <4>2. words = [k \in 1 .. m |-> <<a, first + k - 1>>]
        BY <1>14, <4>1, Zenon
      <4> QED BY <3>2, <4>2
    <3>5. Room!Tell(p, a, first, last)
      <4>1. [c \in Clients |-> sent[c] - Len(sock[c].rcvq)][a] = s
        BY <1>15 DEF Said
      <4>2. (\A c \in Clients : sock[c].peer # "gone")'
              = (\A c \in Clients : sock[c].peer # "gone")
        BY Zenon DEF Calm
      <4>3. [c \in Clients |-> sent[c] - Len(sock[c].rcvq)]'
              = [c \in Clients |-> sent[c] - Len(sock[c].rcvq)]
        BY <1>9, <1>10
      <4>4. got' = [got EXCEPT ![p] = @ \o
                      [k \in 1 .. last - first + 1 |-> <<a, first + k - 1>>]]
        BY <1>13, <3>4
      <4>5. last <= s
        BY <3>2
      <4> QED BY <1>5, <3>2, <3>3, <4>1, <4>2, <4>3, <4>4, <4>5 DEF Room!Tell
    <3>6. Room!CalmStep
      BY <1>15, <3>2, <3>5 DEF Room!CalmStep, Said
    <3>7. \A c \in Clients : sock[c].peer # "gone"
      BY DEF Calm
    <3> QED BY <3>6, <3>7 DEF Room!Next
  <2> QED BY <2>1, <2>2
<1> QED BY <1>12, <1>16, <1>17, <1>18

(* Every step of the server and of its clients is one of the room.         *)
LEMMA CalmRoomNext ==
  ASSUME IInv, IInv', Linked, Calm, Calm', InOrder, Told, Pointed, [Next]_vars
  PROVE  InOrder' /\ Told' /\ Pointed' /\ [Room!Next]_(Room!vars)
<1>0. sock \in [Clients -> Socket] /\ owner \in [Fds -> Clients \cup {NoClient}]
  BY DEF IInv, TypeOK
<1>1. CASE /\ UNCHANGED <<users, got, sent, sock>>
           /\ \A d \in Fds : owner[d] # NoClient => owner'[d] = owner[d]
  <2>1. \A c \in Clients :
          sock'[c].rcvq = sock[c].rcvq \/ (c = NoClient /\ sock'[c].rcvq = <<>>)
    BY <1>1
  <2> QED BY <1>1, <2>1, QuietStep
<1>2. CASE ClientStep
  <2>1. PICK x \in Clients : Connect(x) \/ Say(x) \/ Leave(x) \/ Abort(x)
    BY <1>2 DEF ClientStep
  <2>2. CASE Say(x)
    BY <2>2, SayStep
  <2>3. CASE Connect(x) \/ Leave(x) \/ Abort(x)
    <3>1. UNCHANGED <<users, owner, got, sent>>
      BY <2>3 DEF Connect, Leave, Abort, server
    <3>2. \A c \in Clients :
            sock'[c].rcvq = sock[c].rcvq \/ (c = x /\ sock'[c].rcvq = <<>>)
      <4>1. CASE Connect(x) \/ Leave(x)
        BY <1>0, <4>1 DEF Connect, Leave, Socket
      <4>2. CASE Abort(x)
        BY <1>0, <4>2 DEF Abort, Socket
      <4> QED BY <2>3, <4>1, <4>2
    <3> QED BY <3>1, <3>2, QuietStep
  <2> QED BY <2>1, <2>2, <2>3
<1>3. CASE PollFailure \/ KilledWriting \/ KilledRefusing
  <2>1. /\ sock' = [c \in Clients |-> [peer |-> "gone", err |-> "none", rcvq |-> <<>>]]
        /\ users' = users
    BY <1>3 DEF PollFailure, KilledWriting, KilledRefusing, Terminate
  <2>2. Clients = {}
    BY <2>1 DEF Calm
  <2>3. InOrder' /\ Told'
    BY <2>2 DEF InOrder, Told
  <2>4. Pointed'
    BY <1>0, <2>1, <2>2 DEF Pointed
  <2> QED BY <2>2, <2>3, <2>4, EmptyRoom
<1>4. CASE RefuseUser
  <2>1. /\ sock' = Closed(Head(backlog), "refused")
        /\ UNCHANGED <<users, owner, got, sent>>
    BY <1>4 DEF RefuseUser
  <2>2. PICK x : x = Head(backlog)
    OBVIOUS
  <2>3. \A c \in Clients :
          sock'[c].rcvq = sock[c].rcvq \/ (c = x /\ sock'[c].rcvq = <<>>)
    BY <1>0, <2>1, <2>2 DEF Closed
  <2> QED BY <2>1, <2>3, QuietStep
<1>5. CASE ReportError
  <2>1. /\ sock' = [sock EXCEPT ![Peer].err = "none"]
        /\ UNCHANGED <<users, owner, got, sent>>
    BY <1>5 DEF ReportError
  <2>2. \A c \in Clients :
          sock'[c].rcvq = sock[c].rcvq \/ (c = NoClient /\ sock'[c].rcvq = <<>>)
    BY <1>0, <2>1 DEF Socket
  <2> QED BY <2>1, <2>2, QuietStep
<1>6. ~Hangup
  <2> SUFFICES ASSUME Hangup PROVE FALSE
    OBVIOUS
  <2>1. Peer \in Clients /\ sock' = Closed(Peer, "gone")
    BY ClientEntry DEF Hangup, RemoveEntry
  <2>2. sock'[Peer].peer = "gone"
    BY <1>0, <2>1 DEF Closed
  <2> QED BY <2>1, <2>2 DEF Calm
<1>7. CASE RecvData
  BY <1>7, ReadStep
<1>8. CASE RecvNoData
  BY <1>8, ReadNothingStep
<1>9. CASE WritePending
  BY <1>9, WriteStep
<1>10. CASE AcceptUser
  <2>1. PICK d \in Fds :
          owner[d] = NoClient /\ owner' = [owner EXCEPT ![d] = Head(backlog)]
    BY <1>10 DEF AcceptUser, LowestFree, OpenFds
  <2>2. UNCHANGED <<users, got, sent, sock>>
    BY <1>10 DEF AcceptUser
  <2> QED BY <1>0, <1>1, <2>1, <2>2
<1>11. CASE UNCHANGED vars
  BY <1>1, <1>11 DEF vars
<1>12. CASE Poll \/ AcceptFails \/ NothingToWrite \/ NothingToDo \/ EndOfScan
  BY <1>1, <1>12 DEF Poll, AcceptFails, NothingToWrite, NothingToDo, EndOfScan
<1> QED
  BY <1>2, <1>3, <1>4, <1>5, <1>6, <1>7, <1>8, <1>9, <1>10, <1>11, <1>12
     DEF Next, ServerStep

LEMMA RoomNext ==
  ASSUME IInv, IInv', Linked, RoomInv, [Next]_vars
  PROVE  RoomInv' /\ [Room!Next]_(Room!vars)
<1>1. CASE Calm'
  <2>1. Calm
    BY <1>1, GoneForGood
  <2>2. InOrder' /\ Told' /\ Pointed' /\ [Room!Next]_(Room!vars)
    BY <1>1, <2>1, CalmRoomNext DEF RoomInv
  <2> QED BY <2>2 DEF RoomInv
<1>2. CASE ~Calm'
  <2>1. ~(\A c \in Clients : sock[c].peer # "gone")'
    BY <1>2 DEF Calm
  <2> QED BY <1>2, <2>1 DEF RoomInv, Room!Next, Room!Break
<1> QED BY <1>1, <1>2

LEMMA RoomInit == Init => RoomInv /\ Room!Init
<1> SUFFICES ASSUME Init PROVE RoomInv /\ Room!Init
  OBVIOUS
<1>1. \A c \in Clients :
        /\ sock[c].rcvq = <<>> /\ sock[c].peer # "gone" /\ sent[c] = 0
        /\ Said(c) = 0 /\ got[c] = <<>>
  BY DEF Init, Said
<1>2. InOrder /\ Told
  BY <1>1, TalkAssumption DEF InOrder, Told
<1>3. Pointed
  BY DEF Init, Pointed, Fds, Uninit
<1>4. Room!Init
  BY <1>1 DEF Init, Room!Init, Said
<1> QED BY <1>2, <1>3, <1>4 DEF RoomInv

(* As long as no member has left, passing pointers instead of data is safe *)
(* (lines 173-200), for every number of members, every limit and every     *)
(* schedule: a member is written only what others said and the server has  *)
(* read, of each author in the order said, without gaps in a write and     *)
(* never twice.                                                            *)
THEOREM ImplementsChatRoom == Spec => ImplementsRoom
<1>1. Init => Linked
  BY DEF Init, Linked, OpenFds, Waits
<1>2. Linked /\ IInv /\ [Next]_vars => Linked'
  BY LinkedNext
<1>3. IInv /\ IInv' /\ Linked /\ RoomInv /\ [Next]_vars
        => RoomInv' /\ [Room!Next]_(Room!vars)
  BY RoomNext
<1> QED
  BY <1>1, <1>2, <1>3, RoomInit, Invariance, PTL
     DEF Spec, ImplementsRoom, Room!Spec
=============================================================================
