----------------------------- MODULE TalkClient -----------------------------
(***************************************************************************)
(* The chat client of chap9, 9.6mytalk_client.cpp, one process per member  *)
(* of Clients: it polls its standard input and its connection, prints what *)
(* the server sends, and splices what is typed through a pipe to the       *)
(* server.  Both splices may block.                                        *)
(*                                                                         *)
(* What a client types is numbered 1, 2, 3, ... and never changes places,  *)
(* so stdin, the pipe and the way to the server are counters of one        *)
(* stream.  The variables said and heard are the server's.                 *)
(***************************************************************************)
EXTENDS Naturals, Sequences

CONSTANTS
  Clients,      \* client processes
  PipeStdin,    \* clients whose standard input is a pipe, no terminal or file
  BUFFER_SIZE,  \* units of read_buf, one of them for the final '\0' (line 52)
  PIPE_SIZE,    \* units the pipe holds; a splice asks for less (line 81)
  SNDBUF,       \* units the socket takes before the server reads some
  MaxType       \* bound: units each client types

ASSUME ClientAssumption ==
  /\ PipeStdin \subseteq Clients
  /\ BUFFER_SIZE \in Nat \ {0, 1}
  /\ PIPE_SIZE \in Nat \ {0} /\ SNDBUF \in Nat \ {0}
  /\ MaxType \in [Clients -> Nat]

VARIABLES
  pc,        \* "poll", "scan", "send" (the second splice), "closed", "killed"
  revents,   \* what poll reported and the loop has not yet looked at
  typed,     \* units typed so far
  eof,       \* standard input has ended
  taken,     \* of these, the units the first splice took
  sent,      \* of these, the units the second splice gave to the socket
  conn,      \* the connection: "open", "fin", "rst", and "pipe" for EPIPE
  received,  \* units of heard[c] that recv has taken
  read_buf,  \* the units printf finds in the read buffer
  shown,     \* the units printed
  said,      \* server: units it has read
  heard      \* server: what it has written

loop == <<pc, revents, taken, sent, received, read_buf, shown>>
client == <<loop, typed, eof, conn>>
server == <<said, heard>>

(* The stack under read_buf holds anything: here, units nobody said.       *)
ClientInit ==
  /\ pc = [c \in Clients |-> "poll"]
  /\ revents = [c \in Clients |-> {}]
  /\ typed = [c \in Clients |-> 0]
  /\ eof = [c \in Clients |-> FALSE]
  /\ taken = [c \in Clients |-> 0]
  /\ sent = [c \in Clients |-> 0]
  /\ conn = [c \in Clients |-> "open"]
  /\ received = [c \in Clients |-> 0]
  /\ read_buf = [c \in Clients |-> [k \in 1 .. BUFFER_SIZE |-> <<c, 0>>]]
  /\ shown = [c \in Clients |-> <<>>]
  /\ said = [c \in Clients |-> 0]
  /\ heard = [c \in Clients |-> <<>>]

Alive(c) == pc[c] \notin {"closed", "killed"}
Piped(c) == taken[c] - sent[c]
Unread(c) == SubSeq(heard[c], received[c] + 1, Len(heard[c]))

-----------------------------------------------------------------------------
(* The user and the network *)

Type(c) ==
  /\ Alive(c) /\ typed[c] < MaxType[c] /\ ~eof[c]
  /\ typed' = [typed EXCEPT ![c] = @ + 1]
  /\ UNCHANGED <<loop, eof, conn, server>>

EndOfInput(c) ==
  /\ Alive(c) /\ ~eof[c]
  /\ eof' = [eof EXCEPT ![c] = TRUE]
  /\ UNCHANGED <<loop, typed, conn, server>>

(* The server closes: a RST if it has not read everything.                 *)
HangUp(c) ==
  /\ Alive(c) /\ conn[c] = "open"
  /\ conn' = [conn EXCEPT ![c] = IF said[c] < sent[c] THEN "rst" ELSE "fin"]
  /\ UNCHANGED <<loop, typed, eof, server>>

(* What was sent to a closed connection is answered by a RST.              *)
Reset(c) ==
  /\ Alive(c) /\ conn[c] = "fin" /\ said[c] < sent[c]
  /\ conn' = [conn EXCEPT ![c] = "pipe"]
  /\ UNCHANGED <<loop, typed, eof, server>>

-----------------------------------------------------------------------------
(* The loop, lines 57-87 *)

(* Mutant: the connection is polled for its hang-up only (line 49).        *)
AskedWithoutPollin == {"STDIN", "POLLRDHUP"}

(* The events of the poll table, lines 43-50.                              *)
Asked == {"STDIN", "POLLIN", "POLLRDHUP"}

(* A file at its end is readable for ever.  A pipe without writer is not:  *)
(* it reports POLLHUP only, and the loop spins without looking at it.      *)
Ready(c) ==
  {e \in Asked :
     \/ e = "STDIN" /\ (taken[c] < typed[c] \/ (eof[c] /\ c \notin PipeStdin))
     \/ e = "POLLIN" /\ (Unread(c) # <<>> \/ conn[c] # "open")
     \/ e = "POLLRDHUP" /\ conn[c] # "open"}

Poll(c) ==
  /\ pc[c] = "poll"
  /\ Ready(c) # {}
  /\ pc' = [pc EXCEPT ![c] = "scan"]
  /\ revents' = [revents EXCEPT ![c] = Ready(c)]
  /\ UNCHANGED <<taken, sent, received, read_buf, shown, typed, eof, conn, server>>

PollFails(c) ==
  /\ pc[c] = "poll"
  /\ pc' = [pc EXCEPT ![c] = "closed"]
  /\ UNCHANGED <<revents, taken, sent, received, read_buf, shown, typed, eof, conn, server>>

(* Whatever is unread is dropped, and stdin is not looked at (66-70, 87).  *)
ServerClosed(c) ==
  /\ pc[c] = "scan" /\ "POLLRDHUP" \in revents[c]
  /\ pc' = [pc EXCEPT ![c] = "closed"]
  /\ revents' = [revents EXCEPT ![c] = {}]
  /\ UNCHANGED <<taken, sent, received, read_buf, shown, typed, eof, conn, server>>

(* Mutant: the read buffer is not cleared (line 73).                       *)
NotCleared(c) == read_buf[c]

Cleared(c) == <<>>

(* Data over the beginning of a buffer.                                    *)
Over(buf, data) == data \o SubSeq(buf, Len(data) + 1, Len(buf))

(* Mutant: recv may fill the whole buffer (line 74).                       *)
WholeBuffer == BUFFER_SIZE

RecvSize == BUFFER_SIZE - 1

(* Lines 71-76: recv, whose result is ignored, then print up to a '\0'.    *)
Receive(c) ==
  /\ pc[c] = "scan" /\ "POLLIN" \in revents[c] /\ "POLLRDHUP" \notin revents[c]
  /\ LET q == Unread(c)
         n == IF Len(q) < RecvSize THEN Len(q) ELSE RecvSize
     IN  /\ received' = [received EXCEPT ![c] = @ + n]
         /\ read_buf' = [read_buf EXCEPT ![c] = Over(Cleared(c), SubSeq(q, 1, n))]
  /\ shown' = [shown EXCEPT ![c] = @ \o read_buf'[c]]
  /\ pc' = [pc EXCEPT ![c] = IF "STDIN" \in revents[c] THEN "scan" ELSE "poll"]
  /\ revents' = [revents EXCEPT ![c] = @ \ {"POLLIN"}]
  /\ UNCHANGED <<taken, sent, typed, eof, conn, server>>

(* The first splice, line 81: it takes what there is, as much as the pipe  *)
(* has room for; at the end of input it returns 0 and nobody looks at it.  *)
SpliceIn(c) ==
  /\ pc[c] = "scan" /\ "STDIN" \in revents[c]
  /\ revents[c] \cap {"POLLIN", "POLLRDHUP"} = {}
  /\ Piped(c) < PIPE_SIZE \/ taken[c] = typed[c]
  /\ \E n \in {k \in 0 .. typed[c] - taken[c] :
                 /\ k <= PIPE_SIZE - Piped(c)
                 /\ k = 0 => taken[c] = typed[c]} :
       taken' = [taken EXCEPT ![c] = @ + n]
  /\ pc' = [pc EXCEPT ![c] = "send"]
  /\ revents' = [revents EXCEPT ![c] = @ \ {"STDIN"}]
  /\ UNCHANGED <<sent, received, read_buf, shown, typed, eof, conn, server>>

(* Mutant: the second splice asks for one unit only (line 83).             *)
OneUnitMoved(c) == TRUE

PipeDrained(c) == Piped(c) = 1

(* The second splice, line 83, waits for data in the pipe and for room in  *)
(* the socket, and returns once the pipe is empty.                         *)
SpliceOut(c) ==
  /\ pc[c] = "send"
  /\ Piped(c) > 0
  /\ conn[c] \in {"open", "fin"}
  /\ sent[c] - said[c] < SNDBUF
  /\ sent' = [sent EXCEPT ![c] = @ + 1]
  /\ pc' = [pc EXCEPT ![c] = IF PipeDrained(c) THEN "poll" ELSE "send"]
  /\ UNCHANGED <<revents, taken, received, read_buf, shown, typed, eof, conn, server>>

(* A connection that was reset: -1 and the data stays in the pipe, or      *)
(* SIGPIPE if a FIN had come before, which nothing catches.                *)
SpliceOutFails(c) ==
  /\ pc[c] = "send"
  /\ Piped(c) > 0
  /\ conn[c] \in {"rst", "pipe"}
  /\ pc' = [pc EXCEPT ![c] = IF conn[c] = "rst" THEN "poll" ELSE "killed"]
  /\ UNCHANGED <<revents, taken, sent, received, read_buf, shown, typed, eof, conn, server>>

ClientStep(c) ==
  \/ Poll(c) \/ ServerClosed(c) \/ Receive(c) \/ SpliceIn(c)
  \/ SpliceOut(c) \/ SpliceOutFails(c)
=============================================================================
