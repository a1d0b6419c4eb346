------------------------------ MODULE EpollSet ------------------------------
(***************************************************************************)
(* What the epoll servers of chap9 (9.3, 9.4, 9.8) use of the kernel: the  *)
(* descriptors of their connections, handed out lowest first; the backlog  *)
(* of the listening socket; each connection's receive queue and error; and *)
(* the ready list of the epoll set, as Linux keeps it.  An arrival appends *)
(* a descriptor, epoll_ctl looks at a descriptor at once, and epoll_wait   *)
(* takes entries off and drops those that have no event any more.          *)
(***************************************************************************)
EXTENDS ReadyList

CONSTANTS
  Clients,   \* connections a run may see
  NoClient,  \* owner of a free descriptor
  FD_LIMIT,  \* descriptors left for connections
  MaxSend    \* bound: units one client sends

ASSUME EpollAssumption ==
  /\ NoClient \notin Clients
  /\ FD_LIMIT \in Nat \ {0}
  /\ MaxSend \in Nat

VARIABLES
  owner,    \* the connection behind each descriptor
  rdy,      \* ready list of the epoll set
  backlog,  \* connections waiting for accept
  sock      \* state of each connection

kernel == <<owner, rdy, backlog, sock>>

listenfd == 0
Fds == 1 .. FD_LIMIT

(* sent and read count units; a RST after a FIN is reported as EPIPE.      *)
Socket == [peer : {"none", "open", "fin", "rst", "closed"},
           err  : {"none", "ECONNRESET", "EPIPE"},
           sent : 0 .. MaxSend, read : 0 .. MaxSend]

KernelTypeOK(descriptors) ==
  /\ owner \in [Fds -> Clients \cup {NoClient}]
  /\ rdy \in Seq(descriptors) /\ IsInjective(rdy)
  /\ backlog \in Seq(Clients)
  /\ sock \in [Clients -> Socket]
  /\ \A c \in Clients : sock[c].read <= sock[c].sent

KernelInit ==
  /\ owner = [d \in Fds |-> NoClient]
  /\ rdy = <<>>
  /\ backlog = <<>>
  /\ sock = [c \in Clients |->
               [peer |-> "none", err |-> "none", sent |-> 0, read |-> 0]]

Connected(c) == \E d \in Fds : owner[d] = c
Unread(c) == sock[c].sent - sock[c].read
Readable(c) == Unread(c) > 0 \/ sock[c].peer # "open"

(* What recv finds: data first, then a pending error, then end of file or  *)
(* EAGAIN; and EBADF where there is no connection.                         *)
HasData(c) == c # NoClient /\ Unread(c) > 0
HasError(c) == c # NoClient /\ Unread(c) = 0 /\ sock[c].err # "none"
HasNothing(c) == c # NoClient /\ Unread(c) = 0 /\ sock[c].err = "none"

-----------------------------------------------------------------------------
(* Arrivals.  Those on c are reported if its descriptor is among armed.    *)

Wake(c, armed) ==
  rdy' = IF \E d \in armed : owner[d] = c
           THEN Queued(rdy, CHOOSE d \in armed : owner[d] = c)
           ELSE rdy

Connects(c) ==
  /\ sock[c].peer = "none"
  /\ sock' = [sock EXCEPT ![c].peer = "open"]
  /\ backlog' = Append(backlog, c)
  /\ rdy' = Queued(rdy, listenfd)
  /\ UNCHANGED owner

Sends(c, armed) ==
  /\ sock[c].peer = "open" /\ sock[c].sent < MaxSend
  /\ sock' = [sock EXCEPT ![c].sent = @ + 1]
  /\ Wake(c, armed)
  /\ UNCHANGED <<owner, backlog>>

(* A FIN: the client says no more, and may still be listening.             *)
Leaves(c, armed) ==
  /\ sock[c].peer = "open"
  /\ sock' = [sock EXCEPT ![c].peer = "fin"]
  /\ Wake(c, armed)
  /\ UNCHANGED <<owner, backlog>>

Resets(c, armed) ==
  /\ sock[c].peer \in {"open", "fin"}
  /\ sock' = [sock EXCEPT ![c].peer = "rst",
                          ![c].err = IF sock[c].peer = "fin" THEN "EPIPE"
                                                             ELSE "ECONNRESET"]
  /\ Wake(c, armed)
  /\ UNCHANGED <<owner, backlog>>

-----------------------------------------------------------------------------
(* System calls *)

HasEvent(d) == IF d = listenfd THEN backlog # <<>> ELSE Readable(owner[d])

(* What epoll_wait can report: entries of the ready list that still have   *)
(* an event.                                                               *)
Pending == {d \in Range(rdy) : HasEvent(d)}

(* EPOLL_CTL_ADD and EPOLL_CTL_MOD on the descriptor d of c.               *)
Look(d, c) == rdy' = IF Readable(c) THEN Queued(rdy, d) ELSE rdy

Free == {d \in Fds : owner[d] = NoClient}
LowestFree == CHOOSE d \in Free : \A e \in Free : d <= e

(* accept, and addfd of the new descriptor.                                *)
Accepts ==
  /\ backlog # <<>> /\ Free # {}
  /\ owner' = [owner EXCEPT ![LowestFree] = Head(backlog)]
  /\ Look(LowestFree, Head(backlog))
  /\ backlog' = Tail(backlog)
  /\ UNCHANGED sock

(* recv of at most size units.                                             *)
Receives(c, size) ==
  /\ sock' = [sock EXCEPT ![c].read = IF Unread(c) < size THEN sock[c].sent
                                                          ELSE @ + size]
  /\ UNCHANGED <<owner, rdy, backlog>>

(* close removes the descriptor from the epoll set.                        *)
Closes(d) ==
  /\ owner' = [owner EXCEPT ![d] = NoClient]
  /\ rdy' \in Kept(rdy, Range(rdy) \ {d})
  /\ sock' = IF owner[d] = NoClient THEN sock
             ELSE [sock EXCEPT ![owner[d]].peer = "closed", ![owner[d]].err = "none"]
  /\ UNCHANGED backlog
=============================================================================
