------------------------------ MODULE Exchange ------------------------------
(***************************************************************************)
(* The small programs of chapters 5, 6 and 9 that are a straight sequence  *)
(* of calls on one connection, each run against a partner.  What can go    *)
(* wrong in them is between the two: TCP cuts and joins messages, a peer   *)
(* closes early, both wait for each other.                                 *)
(*                                                                         *)
(* A program is the sequence of its calls on the connection, the pipe and  *)
(* stdout, from accept or connect on.  A write puts Parts units into the   *)
(* stream, and a recv returns one unit or more, up to all there are: a     *)
(* piece of a message, a message, or several joined.                       *)
(***************************************************************************)
EXTENDS Naturals, Sequences

VARIABLES
  pair,     \* which two programs run
  tty,      \* stdout of the server is a terminal (else it is fully buffered)
  at,       \* calls each side has made
  how,      \* "running", "exited", "killed" (SIGPIPE) or "aborted"
  wrote,    \* units each side has written to the connection
  read,     \* units of the other side it has read
  conn,     \* it has the descriptor of the connection
  stdout,   \* what descriptor 1 is: "own" or "connection"
  text,     \* texts that wait in the buffer of stdout
  piped,    \* units in its pipe
  closed,   \* its end of the connection: "no", "fin" or "rst"
  err,      \* of its socket: "no", "ECONNRESET" or "EPIPE"
  lost,     \* units on the way to it when a RST came
  pieces    \* history: its recvs that have returned data

process == <<at, how, conn, stdout, text, piped>>
tcp == <<wrote, read, closed, err, lost, pieces>>
vars == <<pair, tty, process, tcp>>

Sides == {"client", "server"}
Peer(s) == IF s = "client" THEN "server" ELSE "client"

(* Bound: the units of one write; TCP may cut it in two.                   *)
Parts == 2

-----------------------------------------------------------------------------
(* The programs *)

(* chap6.1-testdup-client.cpp.  connfd is what connect returned, 0, so line *)
(* 89 closes stdin; the connection is closed at line 94.                   *)
DupClient ==
  <<"send", "send", "send", "recv", "recv", "recv", "recv", "recv", "recv", "close">>

(* Mutant: stdout is not dup'd (lines 80-81).                              *)
DupServerWithoutDup ==
  <<"println", "recv", "recv", "recv", "println", "send", "send", "send",
    "print", "close", "print">>

(* chap6.1-testdup-server.cpp: the last text of line 90 comes after close. *)
DupServer ==
  <<"println", "recv", "recv", "recv", "println", "send", "send", "send",
    "dup", "print", "close", "print">>

(* chap5.10-set_send_buffer(client).cpp: one send of 512 bytes (line 43),   *)
(* which a recv of chap5.11 can take at once, and TCP may cut.             *)
BufferClient == <<"send", "close">>

(* chap5.11-set_recv_buffer(server).cpp                                    *)
BufferServer == <<"drain", "close">>

(* 9.1client.cpp; three of its nine messages.                              *)
NineMessages == <<"send", "send", "send", "close">>

(* chap6.4-test_splice.cpp                                                 *)
SpliceServer == <<"splice_in", "splice_out", "close">>

(* chap6.3-test_sendfile.cpp                                               *)
SendfileServer == <<"send", "close">>

(* chap5.5-testaccept.cpp and chap5.9-reuse_address.cpp                    *)
AcceptServer == <<"close">>

(* chap5.12-access_daytime.cpp: one read, whose result is asserted to be    *)
(* positive (lines 42-43).                                                 *)
DaytimeClient == <<"read", "close">>

(* Partners outside the repository: one reads to the end, one sends a line, *)
(* one says nothing, and one sends a line and resets.                      *)
Reader == <<"drain", "close">>
LineService == <<"send", "close">>
Silent == <<"close">>
Resetter == <<"send", "reset">>

Programs ==
  [dup      |-> [client |-> DupClient,     server |-> DupServer],
   buffer   |-> [client |-> BufferClient,  server |-> BufferServer],
   splice   |-> [client |-> NineMessages,  server |-> SpliceServer],
   silent   |-> [client |-> Silent,        server |-> SpliceServer],
   cutoff   |-> [client |-> Resetter,      server |-> SpliceServer],
   sendfile |-> [client |-> Reader,        server |-> SendfileServer],
   daytime  |-> [client |-> DaytimeClient, server |-> LineService],
   noline   |-> [client |-> DaytimeClient, server |-> Silent],
   badline  |-> [client |-> DaytimeClient, server |-> Resetter],
   accept   |-> [client |-> NineMessages,  server |-> AcceptServer]]

Program(s) == Programs[pair][s]

TypeOK ==
  /\ pair \in DOMAIN Programs
  /\ tty \in BOOLEAN
  /\ how \in [Sides -> {"running", "exited", "killed", "aborted"}]
  /\ conn \in [Sides -> BOOLEAN]
  /\ stdout \in [Sides -> {"own", "connection"}]
  /\ closed \in [Sides -> {"no", "fin", "rst"}]
  /\ err \in [Sides -> {"no", "ECONNRESET", "EPIPE"}]
  /\ \A s \in Sides :
       /\ at[s] \in 0 .. Len(Program(s)) /\ wrote[s] \in Nat
       /\ read[s] + lost[s] <= wrote[Peer(s)]
       /\ pieces[s] <= read[s] /\ piped[s] <= read[s] /\ text[s] <= 4
       /\ closed[s] = "no" <=>
            how[s] = "running" /\ (conn[s] \/ stdout[s] = "connection")

Init ==
  /\ pair \in DOMAIN Programs
  /\ tty \in BOOLEAN
  /\ at = [s \in Sides |-> 0]
  /\ how = [s \in Sides |-> "running"]
  /\ wrote = [s \in Sides |-> 0]
  /\ read = [s \in Sides |-> 0]
  /\ conn = [s \in Sides |-> TRUE]
  /\ stdout = [s \in Sides |-> "own"]
  /\ text = [s \in Sides |-> 0]
  /\ piped = [s \in Sides |-> 0]
  /\ closed = [s \in Sides |-> "no"]
  /\ err = [s \in Sides |-> "no"]
  /\ lost = [s \in Sides |-> 0]
  /\ pieces = [s \in Sides |-> 0]

-----------------------------------------------------------------------------
(* TCP *)

Unread(s) == wrote[Peer(s)] - lost[s] - read[s]

(* The last reference to the end of s goes: a RST if data lies there       *)
(* unread, else a FIN, though more may be on the way.                      *)
Released(s) ==
  {[closed EXCEPT ![s] = c] : c \in IF Unread(s) > 0 THEN {"fin", "rst"} ELSE {"fin"}}

(* The RST of the peer's close, or its answer to data that came after it;  *)
(* what is still on the way to s is lost.  EPIPE if the FIN was there.     *)
ResetArrives(s) ==
  /\ how[s] = "running" /\ closed[s] = "no" /\ err[s] = "no"
  /\ closed[Peer(s)] = "rst" \/ (closed[Peer(s)] = "fin" /\ Unread(Peer(s)) > 0)
  /\ \E n \in 0 .. Unread(s) :
       /\ lost' = [lost EXCEPT ![s] = n]
       /\ err' = [err EXCEPT ![s] =
                    IF closed[Peer(s)] = "fin" /\ n = 0 THEN "EPIPE" ELSE "ECONNRESET"]
  /\ UNCHANGED <<pair, tty, process, wrote, read, closed, pieces>>

(* Nothing more to read: end of file, or an error.                         *)
Ended(s) == Unread(s) = 0 /\ (closed[Peer(s)] = "fin" \/ err[s] # "no")

(* A call that fails takes the error, and the next write meets EPIPE.      *)
ErrorTaken(s) == [err EXCEPT ![s] = IF @ = "ECONNRESET" THEN "EPIPE" ELSE @]

-----------------------------------------------------------------------------
(* The calls *)

Calls(s, call) ==
  /\ how[s] = "running" /\ at[s] < Len(Program(s))
  /\ Program(s)[at[s] + 1] = call

Made(s) == at' = [at EXCEPT ![s] = @ + 1]

Dies(s, death) ==
  /\ how' = [how EXCEPT ![s] = death]
  /\ closed' \in Released(s)

(* A failing send reports the RST; its result is not looked at.            *)
Send(s) ==
  /\ Calls(s, "send")
  /\ err[s] # "EPIPE"
  /\ wrote' = IF err[s] = "no" THEN [wrote EXCEPT ![s] = @ + Parts] ELSE wrote
  /\ err' = ErrorTaken(s)
  /\ Made(s)
  /\ UNCHANGED <<pair, tty, how, conn, stdout, text, piped, read, closed, lost, pieces>>

(* Writing after that: SIGPIPE.                                            *)
KilledBySend(s) ==
  /\ Calls(s, "send")
  /\ err[s] = "EPIPE"
  /\ Dies(s, "killed")
  /\ UNCHANGED <<pair, tty, at, conn, stdout, text, piped, wrote, read, err, lost, pieces>>

(* A receiving call returns n units.                                       *)
Take(s, n) ==
  /\ read' = [read EXCEPT ![s] = @ + n]
  /\ pieces' = [pieces EXCEPT ![s] = @ + 1]

Recv(s) ==
  /\ \/ /\ Calls(s, "recv") \/ Calls(s, "read")
        /\ \E n \in 1 .. Unread(s) : Take(s, n)
        /\ UNCHANGED err
     \/ /\ Calls(s, "recv") /\ Ended(s)
        /\ err' = ErrorTaken(s)
        /\ UNCHANGED <<read, pieces>>
  /\ Made(s)
  /\ UNCHANGED <<pair, tty, how, conn, stdout, text, piped, wrote, closed, lost>>

(* The loop of recv until it returns no data (5.11, line 58).              *)
Drain(s) ==
  /\ Calls(s, "drain")
  /\ \/ (\E n \in 1 .. Unread(s) : Take(s, n)) /\ UNCHANGED at
     \/ Ended(s) /\ Made(s) /\ UNCHANGED <<read, pieces>>
  /\ UNCHANGED <<pair, tty, how, conn, stdout, text, piped, wrote, closed, err, lost>>

(* The first splice of 6.4 (line 57); at end of file it returns 0, which   *)
(* the assertion lets pass.                                                *)
SpliceIn(s) ==
  /\ Calls(s, "splice_in")
  /\ \/ \E n \in 1 .. Unread(s) :
          Take(s, n) /\ piped' = [piped EXCEPT ![s] = n]
     \/ Ended(s) /\ err[s] # "ECONNRESET" /\ UNCHANGED <<read, pieces, piped>>
  /\ Made(s)
  /\ UNCHANGED <<pair, tty, how, conn, stdout, text, wrote, closed, err, lost>>

(* The second splice (line 60) waits as long as the pipe is empty.         *)
SpliceOut(s) ==
  /\ Calls(s, "splice_out")
  /\ piped[s] > 0 /\ err[s] = "no"
  /\ wrote' = [wrote EXCEPT ![s] = @ + piped[s]]
  /\ piped' = [piped EXCEPT ![s] = 0]
  /\ Made(s)
  /\ UNCHANGED <<pair, tty, how, conn, stdout, text, read, closed, err, lost, pieces>>

(* assert: the read of 5.12 has returned 0 or -1 (line 43), a splice of 6.4 *)
(* has returned -1 (lines 58, 61).                                         *)
AssertFails(s) ==
  /\ \/ Calls(s, "read") /\ Ended(s)
     \/ Calls(s, "splice_in") /\ Ended(s) /\ err[s] = "ECONNRESET"
     \/ Calls(s, "splice_out") /\ piped[s] > 0 /\ err[s] = "ECONNRESET"
  /\ Dies(s, "aborted")
  /\ UNCHANGED <<pair, tty, at, conn, stdout, text, piped, wrote, read, err, lost, pieces>>

(* A line goes to a terminal at once, and into the buffer else; the texts  *)
(* after dup end in no newline and stay in the buffer.                     *)
Printf(s) ==
  /\ Calls(s, "print") \/ Calls(s, "println")
  /\ text' = [text EXCEPT ![s] = IF tty /\ Calls(s, "println") THEN @ ELSE @ + 1]
  /\ Made(s)
  /\ UNCHANGED <<pair, tty, how, conn, stdout, piped, tcp>>

(* close(STDOUT_FILENO) and dup, which returns the lowest descriptor, 1.   *)
Dup(s) ==
  /\ Calls(s, "dup")
  /\ stdout' = [stdout EXCEPT ![s] = "connection"]
  /\ Made(s)
  /\ UNCHANGED <<pair, tty, how, conn, text, piped, tcp>>

(* Mutant: shutdown instead of close (line 87).                            *)
ShutDown(s) == TRUE

LastReference(s) == stdout[s] = "own"

Close(s) ==
  /\ Calls(s, "close")
  /\ conn' = [conn EXCEPT ![s] = FALSE]
  /\ IF LastReference(s) THEN closed' \in Released(s) ELSE UNCHANGED closed
  /\ Made(s)
  /\ UNCHANGED <<pair, tty, how, stdout, text, piped, wrote, read, err, lost, pieces>>

(* A partner breaks the connection off.                                    *)
Reset(s) ==
  /\ Calls(s, "reset")
  /\ conn' = [conn EXCEPT ![s] = FALSE]
  /\ closed' = [closed EXCEPT ![s] = "rst"]
  /\ Made(s)
  /\ UNCHANGED <<pair, tty, how, stdout, text, piped, wrote, read, err, lost, pieces>>

(* The end of main: stdio writes its buffer to descriptor 1 in one write.  *)
Exit(s) ==
  /\ how[s] = "running" /\ at[s] = Len(Program(s))
  /\ how' = [how EXCEPT ![s] = "exited"]
  /\ wrote' = IF stdout[s] = "connection" /\ text[s] > 0
                THEN [wrote EXCEPT ![s] = @ + Parts] ELSE wrote
  /\ text' = [text EXCEPT ![s] = 0]
  /\ IF closed[s] = "no" THEN closed' \in Released(s) ELSE UNCHANGED closed
  /\ UNCHANGED <<pair, tty, at, conn, stdout, piped, read, err, lost, pieces>>

-----------------------------------------------------------------------------
SideStep(s) ==
  \/ Send(s) \/ KilledBySend(s) \/ Recv(s) \/ Drain(s)
  \/ SpliceIn(s) \/ SpliceOut(s) \/ AssertFails(s)
  \/ Printf(s) \/ Dup(s) \/ Close(s) \/ Reset(s) \/ Exit(s)

Next == \E s \in Sides : SideStep(s) \/ ResetArrives(s)

Spec == Init /\ [][Next]_vars

(* Both processes run, and TCP delivers.                                   *)
FairSpec ==
  Spec /\ \A s \in Sides : WF_vars(SideStep(s)) /\ WF_vars(ResetArrives(s))

-----------------------------------------------------------------------------
(* Properties *)

(* Who waits for ever: both sides of 6.1, if its three messages came to the *)
(* server in fewer than three pieces, so that one of its recvs (lines 51-59)*)
(* has nothing left and the client has its answer to wait for; and the      *)
(* server of 6.4, if the client closes without a word, at its second splice *)
(* (line 60).                                                               *)
Waits(s) ==
  \/ pair = "dup" /\ pieces["server"] < 3
  \/ pair = "silent" /\ s = "server"

(* What a program that reads once or to the end has read.  The loop of 5.11 *)
(* and the reader of sendfile (6.3) have all; 6.4 sends back the piece that *)
(* its first splice took and leaves the rest.  In 6.1 the client has four   *)
(* messages, of which stdio writes the last after close(connfd) (lines      *)
(* 81-92), provided that the server has left nothing unread and six recvs   *)
(* were enough.  5.5 and 5.9 read nothing, 5.12 one piece of the line.      *)
Received ==
  /\ pair \in {"buffer", "sendfile"} => \A s \in Sides : read[s] = wrote[Peer(s)]
  /\ pair \in {"splice", "cutoff"} /\ how["server"] = "exited" =>
       pieces["server"] = 1 /\ wrote["server"] = read["server"]
  /\ pair = "dup" /\ read["server"] = 3 * Parts /\ pieces["client"] < 6 /\ ~Waits("client") =>
       read["client"] = 4 * Parts

(* Who does not reach the end of main: 5.12, exactly if its read has got    *)
(* nothing (line 43); 6.4 by line 58 or 61, only if the client broke off;   *)
(* and a client by SIGPIPE, only if its server has closed without having    *)
(* read what that client had to say.                                        *)
Deaths ==
  /\ how["client"] = "aborted" <=>
       pair \in {"daytime", "noline", "badline"} /\ read["client"] = 0
  /\ how["server"] = "aborted" => pair = "cutoff"
  /\ \A s \in Sides : how[s] = "killed" =>
       /\ s = "client" /\ how["server"] = "exited"
       /\ pair \in {"dup", "splice", "accept"} /\ read["server"] < 3 * Parts

(* Every exchange comes to rest: exactly those wait that are named, and the *)
(* others have ended with what they could read.                             *)
ComesToRest ==
  <>[](/\ \A s \in Sides : how[s] = "running" <=> Waits(s)
       /\ Received
       /\ Deaths)
=============================================================================
