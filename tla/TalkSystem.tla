----------------------------- MODULE TalkSystem -----------------------------
(***************************************************************************)
(* The chat: clients of TalkClient around a server of which only what      *)
(* ChatRoom promises is known, and which TalkServer implements.  Once a    *)
(* member is gone the server may write anything that was said to anybody.  *)
(***************************************************************************)
EXTENDS TalkClient

CONSTANT MaxHeard  \* bound: units each client is written

ASSUME SystemAssumption == MaxHeard \in [Clients -> Nat]

VARIABLE calm  \* no member is gone

vars == <<client, server, calm>>

Room == INSTANCE ChatRoom WITH MaxSend <- SNDBUF

TypeOK ==
  /\ pc \in [Clients -> {"poll", "scan", "send", "closed", "killed"}]
  /\ revents \in [Clients -> SUBSET {"STDIN", "POLLIN", "POLLRDHUP"}]
  /\ eof \in [Clients -> BOOLEAN]
  /\ conn \in [Clients -> {"open", "fin", "rst", "pipe"}]
  /\ \A c \in Clients :
       /\ said[c] <= sent[c] /\ sent[c] <= taken[c]
       /\ taken[c] <= typed[c] /\ typed[c] <= MaxType[c]
       /\ taken[c] - sent[c] <= PIPE_SIZE
       /\ sent[c] - said[c] <= SNDBUF
       /\ received[c] > 0 => Len(read_buf[c]) < BUFFER_SIZE
       /\ received[c] <= Len(heard[c]) /\ Len(heard[c]) <= MaxHeard[c]
  /\ calm \in BOOLEAN

Init == ClientInit /\ calm = TRUE

-----------------------------------------------------------------------------
(* The server *)

Connected(c) == Alive(c) /\ conn[c] = "open"

ServerTakes(c) ==
  /\ Connected(c)
  /\ \E n \in 1 .. sent[c] - said[c] : Room!Take(c, n)
  /\ UNCHANGED client

ServerTells(c) ==
  /\ calm /\ Connected(c)
  /\ \E a \in Clients : \E first, last \in 1 .. said[a] :
       /\ Len(heard[c]) + last - first < MaxHeard[c]
       /\ Room!Tell(c, a, first, last)
  /\ UNCHANGED client

ServerGarbles(c) ==
  /\ ~calm /\ Connected(c)
  /\ Len(heard[c]) < MaxHeard[c]
  /\ \E a \in Clients : \E k \in 1 .. said[a] :
       heard' = [heard EXCEPT ![c] = Append(@, <<a, k>>)]
  /\ UNCHANGED <<client, said, calm>>

(* A connection has ended, from either side, and the server knows it.      *)
MemberGone ==
  /\ calm
  /\ \E c \in Clients : ~Connected(c)
  /\ calm' = FALSE
  /\ UNCHANGED <<client, server>>

RoomStep == \E c \in Clients : ServerTakes(c) \/ ServerTells(c) \/ ServerGarbles(c)

-----------------------------------------------------------------------------
Next ==
  \/ \E c \in Clients :
       /\ Type(c) \/ EndOfInput(c) \/ HangUp(c) \/ Reset(c)
            \/ ClientStep(c) \/ PollFails(c)
       /\ UNCHANGED calm
  \/ RoomStep
  \/ MemberGone

Spec == Init /\ [][Next]_vars

(* Each client process runs, and the server reads what it is sent; nobody  *)
(* has to type, to hang up or to answer.                                   *)
FairSpec ==
  /\ Spec
  /\ \A c \in Clients : WF_vars(ClientStep(c) /\ UNCHANGED calm)
  /\ \A c \in Clients : WF_vars(ServerTakes(c))

-----------------------------------------------------------------------------
(* Properties *)

(* A client prints what the server wrote, in order, without leftovers of    *)
(* an earlier message in read_buf (lines 73-75); and while nobody is gone   *)
(* that is what others typed, of each in the order typed and never twice,   *)
(* through two pipes, two connections and the room.                         *)
ShownInOrder ==
  \A c \in Clients :
    /\ shown[c] = SubSeq(heard[c], 1, received[c])
    /\ calm => \A j \in 1 .. Len(shown[c]) :
         /\ shown[c][j][1] # c
         /\ shown[c][j][2] <= typed[shown[c][j][1]]
         /\ \A k \in 1 .. j - 1 :
              shown[c][k][1] = shown[c][j][1] => shown[c][k][2] < shown[c][j][2]

(* The two splices (lines 81-83) wait for ever in one case only, the second *)
(* one on an empty pipe, at the end of a standard input that is no pipe;    *)
(* the first never finds the pipe full, since the second has emptied it,    *)
(* unless the connection was reset, and then the loop ends.                 *)
BlocksOnlyAfterEof ==
  \A c \in Clients :
    /\ pc[c] = "send" /\ Piped(c) = 0 => eof[c] /\ c \notin PipeStdin
    /\ pc[c] \in {"poll", "scan"} /\ Piped(c) > 0 => conn[c] = "rst"

(* What is typed reaches the server, also when standard input ends behind   *)
(* it, and what the server writes is printed, unless the connection or the  *)
(* client ends, or standard input has ended and left the client deaf.       *)
PassesBothWays ==
  \A c \in Clients :
    /\ \A n \in 1 .. MaxType[c] :
         typed[c] >= n ~> said[c] >= n \/ ~Connected(c)
    /\ \A n \in 1 .. MaxHeard[c] :
         Len(heard[c]) >= n
           ~> Len(shown[c]) >= n \/ ~Connected(c) \/ (eof[c] /\ c \notin PipeStdin)
=============================================================================
