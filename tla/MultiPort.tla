------------------------------ MODULE MultiPort -----------------------------
(***************************************************************************)
(* The echo server of chap9, 9.8multiPort_server.cpp: one thread and one   *)
(* edge-triggered epoll set with a listening TCP socket, the accepted      *)
(* connections, and a UDP socket on the same port.                         *)
(*                                                                         *)
(* The units a TCP client sends are numbered 1, 2, ...; a datagram is its  *)
(* author, said len times.  events[] is large enough for every descriptor  *)
(* (line 16), and all descriptors are edge-triggered (line 32).            *)
(***************************************************************************)
EXTENDS EpollSet

CONSTANTS
  TCP_BUFFER_SIZE,  \* a recv returns less than this many units (line 127)
  Leavers,          \* clients that may close or reset their connection
  SlowReaders,      \* clients whose socket may have no room for the echo
  Peers,            \* senders of datagrams
  NUL,              \* what memset leaves in a buffer
  UDP_BUFFER_SIZE,  \* a recvfrom returns less than this (line 114)
  Datagrams,        \* what may arrive: a sender and a length
  MaxArrivals       \* bound: units and datagrams that arrive in a run

ASSUME MultiAssumption ==
  /\ TCP_BUFFER_SIZE \in Nat \ {0, 1}
  /\ Leavers \subseteq Clients
  /\ SlowReaders \subseteq Clients
  /\ NUL \notin Peers
  /\ UDP_BUFFER_SIZE \in Nat \ {0, 1}
  /\ Datagrams \subseteq [from : Peers, len : Nat]
  /\ MaxArrivals \in Nat

VARIABLES
  pc,        \* "wait", "loop", or how the process ended
  events,    \* reported descriptors from events[i] on
  buf,       \* the buffer of the UDP branch, on the stack
  echoed,    \* history: units sent back to each client
  udpq,      \* kernel: datagrams received and not yet read
  arrived,   \* history: every datagram received
  replies    \* history: every datagram sent

udp == <<buf, udpq, arrived, replies>>
vars == <<pc, events, kernel, echoed, udp>>

udpfd == -1
Cells == 1 .. UDP_BUFFER_SIZE - 1     \* of buf, but for the last byte

Reply == [to : Peers, text : [Cells -> Peers \cup {NUL}]]

TypeOK ==
  /\ pc \in {"wait", "loop", "exited", "killed"}
  /\ events \in Seq(Fds \cup {listenfd, udpfd})
  /\ buf \in [Cells -> Peers \cup {NUL}]
  /\ KernelTypeOK(Fds \cup {listenfd, udpfd})
  /\ IsInjective(events)
  /\ echoed \in [Clients -> Seq(1 .. MaxSend)]
  /\ udpq \in Seq(Datagrams)
  /\ arrived \in Seq(Datagrams)
  /\ replies \in Seq(Reply)

Init ==
  /\ pc = "wait"
  /\ events = <<>>
  /\ buf = [k \in Cells |-> NUL]
  /\ KernelInit
  /\ echoed = [c \in Clients |-> <<>>]
  /\ udpq = <<>>
  /\ arrived = <<>>
  /\ replies = <<>>

-----------------------------------------------------------------------------
(* The environment *)

Running == pc \in {"wait", "loop"}

Arrivals == Len(arrived) + MapThenSumSet(LAMBDA c : sock[c].sent, Clients)

Connect(c) == Running /\ Connects(c) /\ UNCHANGED <<pc, events, echoed, udp>>

Send(c) ==
  /\ Running /\ Arrivals < MaxArrivals
  /\ Sends(c, Fds)
  /\ UNCHANGED <<pc, events, echoed, udp>>

Leave(c) ==
  Running /\ c \in Leavers /\ Leaves(c, Fds) /\ UNCHANGED <<pc, events, echoed, udp>>

Reset(c) ==
  Running /\ c \in Leavers /\ Resets(c, Fds) /\ UNCHANGED <<pc, events, echoed, udp>>

(* Datagrams that the network loses are never seen here.                   *)
Arrive(g) ==
  /\ Running
  /\ Arrivals < MaxArrivals
  /\ arrived' = Append(arrived, g)
  /\ udpq' = Append(udpq, g)
  /\ rdy' = Queued(rdy, udpfd)
  /\ UNCHANGED <<pc, events, owner, backlog, sock, echoed, buf, replies>>

-----------------------------------------------------------------------------
(* The loop of main, lines 87-99 and 152-153 *)

(* Entries of the ready list that still have an event.                     *)
Reportable == {d \in Range(rdy) : IF d = udpfd THEN udpq # <<>> ELSE HasEvent(d)}

EpollWait ==
  /\ pc = "wait"
  /\ Reportable # {}
  /\ events' \in Kept(rdy, Reportable)
  /\ rdy' = <<>>
  /\ pc' = "loop"
  /\ UNCHANGED <<owner, backlog, sock, echoed, udp>>

EpollFailure ==
  /\ pc = "wait"
  /\ pc' = "exited"
  /\ UNCHANGED <<events, kernel, echoed, udp>>

EndOfEvents ==
  /\ pc = "loop"
  /\ events = <<>>
  /\ pc' = "wait"
  /\ UNCHANGED <<events, kernel, echoed, udp>>

sockfd == Head(events)
At(d) == pc = "loop" /\ events # <<>> /\ sockfd = d

-----------------------------------------------------------------------------
(* The listening socket, lines 99-106 *)

Accept ==
  /\ At(listenfd)
  /\ Accepts
  /\ events' = Tail(events)
  /\ UNCHANGED <<pc, echoed, udp>>

AcceptFails ==
  /\ At(listenfd)
  /\ events' = Tail(events)
  /\ UNCHANGED <<pc, kernel, echoed, udp>>

-----------------------------------------------------------------------------
(* The UDP socket, lines 107-120 *)

(* Mutant: buf is not cleared (line 110).                                  *)
NotCleared == buf

Cleared == [k \in Cells |-> NUL]

(* buf after recvfrom took the datagram g; what does not fit is lost.      *)
Filled(g) == [k \in Cells |-> IF k <= g.len THEN g.from ELSE Cleared[k]]

(* The answer has the length of the buffer, not that of the datagram; it   *)
(* is lost when sendto fails, and an empty datagram gets none.             *)
EchoDatagram ==
  /\ At(udpfd)
  /\ udpq # <<>>
  /\ buf' = Filled(Head(udpq))
  /\ replies' \in {replies} \cup
       {Append(replies, [to |-> Head(udpq).from, text |-> buf'])}
  /\ Head(udpq).len = 0 => replies' = replies
  /\ udpq' = Tail(udpq)
  /\ events' = Tail(events)
  /\ UNCHANGED <<pc, kernel, echoed, arrived>>

-----------------------------------------------------------------------------
(* A connection, lines 121-147 *)

Conn == owner[sockfd]

Handling == pc = "loop" /\ events # <<>> /\ sockfd \in Fds

(* send raises SIGPIPE once the connection was reset after a FIN, or the   *)
(* reset has been reported; nothing here ignores it.                       *)
BreaksPipe == sock[Conn].peer = "rst" /\ sock[Conn].err # "ECONNRESET"

(* Mutant: the whole buffer is sent, whatever recv returned (line 144; the *)
(* UDP branch does so in line 118).                                        *)
WholeBuffer == [k \in 1 .. TCP_BUFFER_SIZE - 1 |-> sock[Conn].read + k]

(* The units one recv takes: as many as there are, and fit.                *)
Taken ==
  LET n == IF Unread(Conn) < TCP_BUFFER_SIZE THEN Unread(Conn) ELSE TCP_BUFFER_SIZE - 1
  IN  [k \in 1 .. n |-> sock[Conn].read + k]

(* Mutant: the connection is read once per event (line 124).               *)
EchoOnce ==
  /\ Handling /\ HasData(Conn)
  /\ ~BreaksPipe
  /\ echoed' = [echoed EXCEPT ![Conn] = @ \o Taken]
  /\ sock' = [sock EXCEPT ![Conn].read = @ + Len(Taken), ![Conn].err = "none"]
  /\ events' = Tail(events)
  /\ UNCHANGED <<pc, rdy, owner, backlog, udp>>

(* recv, and send of what it returned: to a reset connection, nothing;     *)
(* when there is no room, a part.  The rest is not sent again.             *)
EchoData ==
  /\ Handling /\ HasData(Conn)
  /\ ~BreaksPipe
  /\ \E n \in IF sock[Conn].peer = "rst" THEN {0}
              ELSE IF Conn \in SlowReaders THEN 0 .. Len(Taken)
              ELSE {Len(Taken)} :
       echoed' = [echoed EXCEPT ![Conn] = @ \o SubSeq(Taken, 1, n)]
  /\ sock' = [sock EXCEPT ![Conn].read = @ + Len(Taken), ![Conn].err = "none"]
  /\ UNCHANGED <<pc, events, rdy, owner, backlog, udp>>

KilledBySend ==
  /\ Handling /\ HasData(Conn)
  /\ BreaksPipe
  /\ pc' = "killed"
  /\ UNCHANGED <<events, kernel, echoed, udp>>

RecvAgain ==
  /\ Handling /\ HasNothing(Conn)
  /\ sock[Conn].peer = "open"
  /\ events' = Tail(events)
  /\ UNCHANGED <<pc, kernel, echoed, udp>>

RecvError ==
  /\ Handling /\ HasError(Conn)
  /\ Closes(sockfd)
  /\ events' = Tail(events)
  /\ UNCHANGED <<pc, echoed, udp>>

(* End of file closes the socket, but the loop goes on ...                 *)
RecvEof ==
  /\ Handling /\ HasNothing(Conn)
  /\ sock[Conn].peer # "open"
  /\ Closes(sockfd)
  /\ UNCHANGED <<pc, events, echoed, udp>>

(* ... to recv on a closed number: EBADF, and a second, failing close.     *)
RecvClosed ==
  /\ Handling
  /\ Conn = NoClient
  /\ events' = Tail(events)
  /\ UNCHANGED <<pc, kernel, echoed, udp>>

-----------------------------------------------------------------------------
ServerStep ==
  \/ EpollWait \/ EndOfEvents
  \/ Accept \/ AcceptFails
  \/ EchoDatagram
  \/ EchoData \/ KilledBySend \/ RecvAgain \/ RecvError \/ RecvEof \/ RecvClosed

ClientStep ==
  \/ \E c \in Clients : Connect(c) \/ Send(c) \/ Leave(c) \/ Reset(c)
  \/ \E g \in Datagrams : Arrive(g)

Next == ServerStep \/ EpollFailure \/ ClientStep

Spec == Init /\ [][Next]_vars

(* The thread is scheduled; epoll_wait need not fail, clients owe nothing. *)
FairSpec == Spec /\ WF_vars(ServerStep)

-----------------------------------------------------------------------------
(* Properties *)

Patient == Clients \ SlowReaders

Status(c) ==
  IF ~Running \/ sock[c].peer \in {"rst", "closed"} THEN "ended"
  ELSE IF Connected(c) THEN "served"
  ELSE "outside"

Echo == INSTANCE EchoStream WITH
  Clients <- Patient,
  status <- [c \in Patient |-> Status(c)],
  said <- [c \in Patient |-> sock[c].sent],
  heard <- [c \in Patient |-> echoed[c]]

(* Toward clients that have room for the echo, the TCP part implements the  *)
(* echo service (lines 121-147): what a client hears is what it said, in    *)
(* order, without gaps, and nothing after it has gone.                      *)
EchoesStream == Echo!Spec

(* ... and all that an accepted client says is echoed unless it resets or   *)
(* the server ends, although each arrival is reported only once and data    *)
(* may arrive while other events of the batch are handled.                  *)
EchoesAll == Echo!Complete

(* The answer that the datagram g ought to have.                            *)
Answer(g) ==
  [to |-> g.from, text |-> [k \in Cells |-> IF k <= g.len THEN g.from ELSE NUL]]

(* Each answer goes to the sender of a datagram, in the order of arrival    *)
(* and once, and holds that datagram and zeros (lines 109-118): though the  *)
(* whole buffer is sent, no byte of anybody else's datagram is in it.       *)
AnswersOwnDatagrams ==
  LET read == SubSeq(arrived, 1, Len(arrived) - Len(udpq))
  IN  \E answered \in SUBSET DOMAIN read :
        /\ \A k \in answered : read[k].len > 0
        /\ replies = [j \in 1 .. Cardinality(answered) |->
             Answer(read[CHOOSE k \in answered :
                           Cardinality({l \in answered : l <= k}) = j])]

-----------------------------------------------------------------------------
(* What the documentation says and the code does not do *)

(* chap9/README.md, line 311: an event reported in ET mode has to be        *)
(* handled at once, since it is not reported again.  One accept and one     *)
(* recvfrom per event leave the rest of what has arrived behind.            *)
NothingLeftBehind ==
  Running =>
    /\ backlog # <<>> => listenfd \in Range(rdy) \cup Range(events)
    /\ udpq # <<>> => udpfd \in Range(rdy) \cup Range(events)
=============================================================================
