------------------------------- MODULE Urgent -------------------------------
(***************************************************************************)
(* Urgent data of TCP, one sender and one receiver.  Senders: chap5,       *)
(* chap5.6-oobsend.cpp, whose "ABC" sent with MSG_OOB has "C" as urgent    *)
(* byte, and chap9, 9.1client.cpp, whose only MSG_OOB send is commented    *)
(* out.  Receivers: chap5, chap5.7-oobrecv.cpp; chap9,                     *)
(* 9.1server_use_select.cpp; chap10, 10.3sigurg.cpp.                       *)
(*                                                                         *)
(* The stream is units 1, 2, 3, ...; sent, arrived and copied are counts.  *)
(* The kernel is Linux without SO_OOBINLINE: the urgent pointer may arrive *)
(* before its byte, a recv stops in front of the urgent byte, and the next *)
(* one jumps over it and forgets it.                                       *)
(***************************************************************************)
EXTENDS Naturals

VARIABLES
  sender,    \* "oobsend" or "9.1client"
  receiver,  \* "oobrecv", "select" or "sigurg"
  sent,      \* units given to the sender's socket
  fin,       \* the sender has closed
  arrived,   \* units in the receiver's kernel
  eof,       \* the FIN has arrived
  copied,    \* units recv has gone past (tcp's copied_seq)
  urg,       \* tcp's urg_data: "none", "notyet", "valid" or "read"
  signal,    \* history of SIGURG: "none" yet, "raised", "unheard" when there
             \* was no owner or handler, "early" when it was handled before
             \* the urgent byte was there
  pc,        \* the receiver: "accept", ..., "done"
  handler,   \* sig_urg is installed (10.3, line 74)
  owned,     \* the socket has an owner (10.3, line 77)
  sig,       \* SIGURG is pending
  isset,     \* 9.1: what select left in read_fds and exception_fds
  normal,    \* units received as normal data
  oob        \* units received as urgent data

channel == <<sender, receiver, sent, fin, arrived, eof>>
tcp == <<copied, urg, signal>>
process == <<handler, owned, sig, isset>>
results == <<normal, oob>>
vars == <<channel, tcp, pc, process, results>>

(* The stream after each send: oobsend sends "123", "AB" with "C", "123"    *)
(* (lines 36-40), 9.1client normal data only (lines 34-62, three of nine). *)
Cuts == IF sender = "oobsend" THEN {1, 3, 4} ELSE 1 .. 3
Total == IF sender = "oobsend" THEN 4 ELSE 3

(* The urgent unit; 0 if there is none.                                    *)
mark == IF sender = "oobsend" THEN 3 ELSE 0

TypeOK ==
  /\ sender \in {"oobsend", "9.1client"}
  /\ receiver \in {"oobrecv", "select", "sigurg"}
  /\ sent \in Cuts \cup {0}
  /\ arrived \in 0 .. sent
  /\ copied \in 0 .. arrived
  /\ fin \in BOOLEAN /\ eof \in BOOLEAN
  /\ eof => fin /\ arrived = Total
  /\ urg \in {"none", "notyet", "valid", "read"}
  /\ signal \in {"none", "raised", "unheard", "early"}
  /\ pc \in {"accept", "first", "oob", "second", "select", "recv",
             "addsig", "setown", "loop", "done", "failed"}
  /\ handler \in BOOLEAN /\ owned \in BOOLEAN
  /\ sig \in BOOLEAN /\ (sig => handler)
  /\ isset \subseteq {"read", "exception"}
  /\ normal \subseteq 1 .. copied
  /\ oob \subseteq {mark} \ {0}

Init ==
  /\ sender \in {"oobsend", "9.1client"}
  /\ receiver \in {"oobrecv", "select", "sigurg"}
  /\ sent = 0 /\ arrived = 0 /\ copied = 0
  /\ fin = FALSE /\ eof = FALSE
  /\ urg = "none"
  /\ signal = "none"
  /\ pc = "accept"
  /\ handler = FALSE /\ owned = FALSE /\ sig = FALSE
  /\ isset = {}
  /\ normal = {} /\ oob = {}

-----------------------------------------------------------------------------
(* The sender and the network *)

Send ==
  /\ sent < Total
  /\ sent' = CHOOSE k \in Cuts : k > sent /\ \A j \in Cuts : j > sent => k <= j
  /\ UNCHANGED <<sender, receiver, fin, arrived, eof, tcp, pc, process, results>>

CloseSender ==
  /\ sent = Total /\ ~fin
  /\ fin' = TRUE
  /\ UNCHANGED <<sender, receiver, sent, arrived, eof, tcp, pc, process, results>>

(* A segment of n units.  It announces the urgent unit if it holds it, and *)
(* may do so before, if it left after that unit was sent.  The announcement *)
(* raises SIGURG, once and for all, if there is an owner and a handler; the *)
(* byte itself raises nothing when it comes later.                         *)
Arrive ==
  \E n \in 1 .. sent - arrived : \E early \in BOOLEAN :
    LET here      == arrived < mark /\ mark <= arrived + n
        announced == /\ urg = "none" /\ arrived < mark
                     /\ here \/ (early /\ mark <= sent)
        heard     == owned /\ handler
    IN  /\ arrived' = arrived + n
        /\ urg' = IF here THEN "valid" ELSE IF announced THEN "notyet" ELSE urg
        /\ sig' = (sig \/ (announced /\ heard))
        /\ signal' = IF ~announced THEN signal ELSE IF heard THEN "raised" ELSE "unheard"
        /\ UNCHANGED <<sender, receiver, sent, fin, eof, copied, pc,
                       handler, owned, isset, results>>

ArriveFin ==
  /\ fin /\ arrived = sent /\ ~eof
  /\ eof' = TRUE
  /\ UNCHANGED <<sender, receiver, sent, fin, arrived, tcp, pc, process, results>>

-----------------------------------------------------------------------------
(* accept; a failure ends oobrecv and sigurg, and the select server goes on *)
(* with the descriptor -1, which is undefined and left out.                *)

Accept ==
  /\ pc = "accept"
  /\ pc' = CASE receiver = "oobrecv" -> "first"
             [] receiver = "select"  -> "select"
             [] receiver = "sigurg"  -> "addsig"
  /\ UNCHANGED <<channel, tcp, process, results>>

AcceptFails ==
  /\ pc = "accept" /\ receiver # "select"
  /\ pc' = "failed"
  /\ UNCHANGED <<channel, tcp, process, results>>

-----------------------------------------------------------------------------
(* recv without flags: 5.7 lines 50 and 58, 9.1 line 74, 10.3 line 83 *)

Reading == pc \in {"first", "second", "recv", "loop"}
AtMark == urg # "none" /\ copied + 1 = mark

AfterData ==
  [first |-> "oob", second |-> "done", recv |-> "select", loop |-> "loop"]
AfterEof ==
  [first |-> "oob", second |-> "done", recv |-> "done", loop |-> "done"]

RecvData ==
  /\ Reading /\ ~AtMark /\ copied < arrived
  /\ copied' = IF urg # "none" /\ copied < mark /\ mark <= arrived
                 THEN mark - 1 ELSE arrived
  /\ normal' = normal \cup (copied + 1 .. copied')
  /\ pc' = AfterData[pc]
  /\ UNCHANGED <<channel, urg, signal, process, oob>>

(* In front of the urgent byte: a pending signal comes first (the call is  *)
(* restarted, SA_RESTART); then the byte is jumped over and recv goes on.  *)
RecvSkipsUrgent ==
  /\ Reading /\ AtMark /\ mark <= arrived /\ ~sig
  /\ copied' = mark
  /\ urg' = "none"
  /\ UNCHANGED <<channel, signal, pc, process, results>>

RecvEof ==
  /\ Reading /\ copied = arrived /\ eof
  /\ pc' = AfterEof[pc]
  /\ UNCHANGED <<channel, tcp, process, results>>

-----------------------------------------------------------------------------
(* recv with MSG_OOB *)

TakeUrgent ==
  /\ urg = "valid"
  /\ urg' = "read"
  /\ oob' = oob \cup {mark}

(* 5.7 line 54, whatever the result; 9.1 line 84, where a failure ends the *)
(* loop.                                                                   *)
OobRecv ==
  /\ pc = "oob"
  /\ TakeUrgent \/ (urg # "valid" /\ UNCHANGED <<urg, oob>>)
  /\ pc' = CASE receiver = "oobrecv" -> "second"
             [] receiver = "select" -> IF urg = "valid" THEN "select" ELSE "done"
  /\ UNCHANGED <<channel, copied, signal, process, normal>>

(* The handler, 10.3 lines 18-28, between any two steps of main.           *)
SigUrg ==
  /\ sig /\ pc # "done"
  /\ sig' = FALSE
  /\ TakeUrgent \/ (urg # "valid" /\ UNCHANGED <<urg, oob>>)
  /\ signal' = IF urg = "notyet" THEN "early" ELSE signal
  /\ UNCHANGED <<channel, copied, pc, handler, owned, isset, normal>>

AddSig ==
  /\ pc = "addsig"
  /\ handler' = TRUE
  /\ pc' = "setown"
  /\ UNCHANGED <<channel, tcp, owned, sig, isset, results>>

SetOwner ==
  /\ pc = "setown"
  /\ owned' = TRUE
  /\ pc' = "loop"
  /\ UNCHANGED <<channel, tcp, handler, sig, isset, results>>

-----------------------------------------------------------------------------
(* The select server, 9.1 lines 56-91 *)

(* Mutant: exception_fds is not filled again (line 63).                    *)
NotSetAgain == isset \cup {"read"}

(* The sets given to select, which leaves in them what has happened.       *)
Watched == isset \cup {"read", "exception"}

(* At the mark one unit more is needed to count as readable.               *)
Happened ==
  {e \in {"read", "exception"} :
     \/ e = "read" /\ (eof \/ arrived - copied > (IF AtMark THEN 1 ELSE 0))
     \/ e = "exception" /\ urg = "valid"}

(* A readable socket is read, and the exception waits for the next turn.   *)
Select ==
  /\ pc = "select"
  /\ Watched \cap Happened # {}
  /\ isset' = Watched \cap Happened
  /\ pc' = IF "read" \in isset' THEN "recv" ELSE "oob"
  /\ UNCHANGED <<channel, tcp, handler, owned, sig, results>>

SelectFails ==
  /\ pc = "select"
  /\ pc' = "failed"
  /\ UNCHANGED <<channel, tcp, process, results>>

-----------------------------------------------------------------------------
ReceiverStep ==
  \/ Accept \/ RecvData \/ RecvSkipsUrgent \/ RecvEof
  \/ OobRecv \/ AddSig \/ SetOwner \/ Select

Next ==
  \/ ReceiverStep \/ SigUrg
  \/ AcceptFails \/ SelectFails
  \/ Send \/ CloseSender \/ Arrive \/ ArriveFin

Spec == Init /\ [][Next]_vars

(* The receiver runs and gets its signals; sender and network owe nothing. *)
FairSpec == Spec /\ WF_vars(ReceiverStep) /\ WF_vars(SigUrg)

-----------------------------------------------------------------------------
(* Properties *)

(* What the select server finds behind the urgent byte: data or the FIN.    *)
Behind == arrived > mark \/ eof

PassedOver == urg = "none" /\ mark # 0 /\ copied >= mark /\ oob = {}

(* 10.3 takes the urgent byte in its handler unless the announcement came   *)
(* before sigaction and F_SETOWN (lines 74-77) or the handler ran before    *)
(* the byte was there (line 24), and in these two cases it never does: recv *)
(* (line 83) does not pass the byte while the signal is pending, but throws *)
(* it away when there is none.                                              *)
TakenBySignal ==
  /\ (receiver = "sigurg" /\ urg = "valid" /\ signal = "raised") ~> oob # {}
  /\ [](receiver = "sigurg" /\ signal \in {"unheard", "early"} => oob = {})

(* 9.1 takes the byte when it comes to it (lines 63, 82-90), unless data or *)
(* the FIN behind it makes the socket readable as well; if that is so when  *)
(* it calls select, line 72 wins and recv (line 74) throws the byte away,   *)
(* and nothing else makes it do so.                                         *)
TakenBySelect ==
  /\ (receiver = "select" /\ urg = "valid" /\ AtMark)
       ~> oob # {} \/ Behind \/ pc = "failed"
  /\ (receiver = "select" /\ pc = "select" /\ urg = "valid" /\ AtMark /\ Behind)
       ~> PassedOver \/ pc = "failed"
  /\ [](receiver = "select" /\ PassedOver => Behind)

(* The normal data suffers from neither: the loops of 9.1 and 10.3 do not   *)
(* end before the sender, although recv with MSG_OOB may fail and recv stops*)
(* short at the mark, and by then they have read all of it (9.1 lines 75,   *)
(* 85; 10.3 line 84).  5.7 makes one recv of each kind and may leave data.  *)
NormalDataComplete ==
  pc = "done" /\ receiver \in {"select", "sigurg"} =>
    eof /\ normal = (1 .. Total) \ {mark}

UrgentNoticed == TakenBySignal /\ TakenBySelect /\ []NormalDataComplete

(* Every receiver ends once the sender has closed.                          *)
ReceiverEnds == eof ~> pc \in {"done", "failed"}
=============================================================================
