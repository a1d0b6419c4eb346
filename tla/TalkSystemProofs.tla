-------------------------- MODULE TalkSystemProofs --------------------------
(***************************************************************************)
(* Proofs about the chat: any number of clients, any sizes of pipe, socket *)
(* and read buffer, and any server that keeps the promises of ChatRoom.    *)
(***************************************************************************)
EXTENDS TalkSystem, SequenceTheorems, WellFoundedInduction, TLAPS

Units == Clients \X Nat

Types ==
  /\ typed \in [Clients -> Nat] /\ taken \in [Clients -> Nat]
  /\ sent \in [Clients -> Nat] /\ said \in [Clients -> Nat]
  /\ received \in [Clients -> Nat]
  /\ heard \in [Clients -> Seq(Units)]
  /\ read_buf \in [Clients -> Seq(Units)]
  /\ shown \in [Clients -> Seq(Units)]

(* The first splice is begun only if poll saw data, or the end of a file.  *)
SpliceHasReason ==
  \A c \in Clients :
    pc[c] = "scan" /\ "STDIN" \in revents[c] =>
      taken[c] < typed[c] \/ (eof[c] /\ c \notin PipeStdin)

Copied == \A c \in Clients : shown[c] = SubSeq(heard[c], 1, received[c])

(* What a calm room has written to c, whether c has read it or not.        *)
HeardInOrder ==
  calm => \A c \in Clients : \A j \in 1 .. Len(heard[c]) :
    /\ heard[c][j][1] # c
    /\ heard[c][j][2] <= said[heard[c][j][1]]
    /\ \A k \in 1 .. j - 1 :
         heard[c][k][1] = heard[c][j][1] => heard[c][k][2] < heard[c][j][2]

IInv ==
  Types /\ TypeOK /\ SpliceHasReason /\ BlocksOnlyAfterEof /\ Copied /\ HeardInOrder

-----------------------------------------------------------------------------
(* Reading on from where one stopped gives a longer beginning of the same  *)
(* sequence (lines 73-75).                                                 *)
LEMMA PrefixExtended ==
  ASSUME NEW S, NEW s \in Seq(S), NEW n \in 0 .. Len(s), NEW m \in 0 .. Len(s) - n
  PROVE  /\ SubSeq(SubSeq(s, n + 1, Len(s)), 1, m) \in Seq(S)
         /\ Len(SubSeq(SubSeq(s, n + 1, Len(s)), 1, m)) = m
         /\ SubSeq(s, 1, n) \o SubSeq(SubSeq(s, n + 1, Len(s)), 1, m)
              = SubSeq(s, 1, n + m)
<1> DEFINE rest == SubSeq(s, n + 1, Len(s))
           part == SubSeq(rest, 1, m)
           head == SubSeq(s, 1, n)
<1>0. Len(s) \in Nat /\ n \in Nat /\ m \in Nat /\ n + m <= Len(s)
  BY LenProperties
<1>1. /\ rest \in Seq(S) /\ Len(rest) = Len(s) - n
      /\ \A k \in 1 .. Len(rest) : rest[k] = s[n + k]
  BY <1>0, SubSeqProperties
<1>2. /\ part \in Seq(S) /\ Len(part) = m
      /\ \A k \in 1 .. m : part[k] = rest[k]
  BY <1>0, <1>1, SubSeqProperties
<1>3. /\ head \in Seq(S) /\ Len(head) = n
      /\ \A k \in 1 .. n : head[k] = s[k]
  BY <1>0, SubSeqProperties
<1>4. /\ SubSeq(s, 1, n + m) \in Seq(S) /\ Len(SubSeq(s, 1, n + m)) = n + m
      /\ \A k \in 1 .. n + m : SubSeq(s, 1, n + m)[k] = s[k]
  BY <1>0, SubSeqProperties
<1>5. /\ head \o part \in Seq(S) /\ Len(head \o part) = n + m
      /\ \A k \in 1 .. n + m :
           (head \o part)[k] = IF k <= n THEN head[k] ELSE part[k - n]
  BY <1>2, <1>3, ConcatProperties
<1> HIDE DEF rest, part, head
<1>6. ASSUME NEW k \in 1 .. n + m
      PROVE  (head \o part)[k] = s[k]
  <2>1. CASE k <= n
    BY <1>0, <1>3, <1>5, <2>1
  <2>2. CASE k > n
    <3>1. k - n \in 1 .. m /\ k - n \in 1 .. Len(s) - n /\ n + (k - n) = k
      BY <1>0, <2>2
    <3>2. part[k - n] = rest[k - n] /\ rest[k - n] = s[k]
      BY <1>1, <1>2, <3>1
    <3> QED BY <1>5, <2>2, <3>2
  <2>3. k <= n \/ k > n
    BY <1>0
  <2> QED BY <2>1, <2>2, <2>3
<1>7. head \o part = SubSeq(s, 1, n + m)
  BY <1>4, <1>5, <1>6, SeqEqual
<1> QED BY <1>2, <1>7 DEF part, rest, head

(* What has been read does not depend on what is written afterwards.       *)
LEMMA PrefixKept ==
  ASSUME NEW S, NEW s \in Seq(S), NEW t \in Seq(S), NEW n \in 0 .. Len(s)
  PROVE  SubSeq(s \o t, 1, n) = SubSeq(s, 1, n)
<1>0. Len(s) \in Nat /\ Len(t) \in Nat
  BY LenProperties
<1>1. /\ s \o t \in Seq(S) /\ Len(s \o t) = Len(s) + Len(t)
      /\ \A k \in 1 .. Len(s) : (s \o t)[k] = s[k]
  BY <1>0, ConcatProperties
<1>2. /\ SubSeq(s, 1, n) \in Seq(S) /\ Len(SubSeq(s, 1, n)) = n
      /\ \A k \in 1 .. n : SubSeq(s, 1, n)[k] = s[k]
  BY <1>0, SubSeqProperties
<1>3. /\ SubSeq(s \o t, 1, n) \in Seq(S) /\ Len(SubSeq(s \o t, 1, n)) = n
      /\ \A k \in 1 .. n : SubSeq(s \o t, 1, n)[k] = (s \o t)[k]
  BY <1>0, <1>1, SubSeqProperties
<1>4. \A k \in 1 .. n : SubSeq(s \o t, 1, n)[k] = SubSeq(s, 1, n)[k]
  BY <1>0, <1>1, <1>2, <1>3
<1> QED BY <1>2, <1>3, <1>4, SeqEqual

(* Where the elements of a concatenation come from.                        *)
LEMMA Concatenated ==
  ASSUME NEW S, NEW s \in Seq(S), NEW t \in Seq(S)
  PROVE  /\ Len(s \o t) = Len(s) + Len(t)
         /\ \A j \in 1 .. Len(s) : (s \o t)[j] = s[j]
         /\ \A i \in 1 .. Len(t) : (s \o t)[Len(s) + i] = t[i]
         /\ \A j \in 1 .. Len(s \o t) :
              j \in 1 .. Len(s) \/ \E i \in 1 .. Len(t) : j = Len(s) + i
<1>1. Len(s) \in Nat /\ Len(t) \in Nat
  BY LenProperties
<1>2. /\ Len(s \o t) = Len(s) + Len(t)
      /\ \A k \in 1 .. Len(s) + Len(t) :
           (s \o t)[k] = IF k <= Len(s) THEN s[k] ELSE t[k - Len(s)]
  BY ConcatProperties
<1>3. ASSUME NEW i \in 1 .. Len(t)
      PROVE  (s \o t)[Len(s) + i] = t[i]
  <2>1. /\ Len(s) + i \in 1 .. Len(s) + Len(t) /\ ~(Len(s) + i <= Len(s))
        /\ (Len(s) + i) - Len(s) = i
    BY <1>1
  <2> QED BY <1>2, <2>1
<1>4. ASSUME NEW j \in 1 .. Len(s) + Len(t), j \notin 1 .. Len(s)
      PROVE  \E i \in 1 .. Len(t) : j = Len(s) + i
  <2>1. j - Len(s) \in 1 .. Len(t) /\ j = Len(s) + (j - Len(s))
    BY <1>1, <1>4
  <2> QED BY <2>1
<1> QED BY <1>1, <1>2, <1>3, <1>4

(* A set of numbers with a bound has a greatest element, or is empty.      *)
LEMMA Greatest ==
  ASSUME NEW S \in SUBSET Nat, NEW b \in Nat, \A k \in S : k <= b
  PROVE  \E n \in S \cup {0} : \A k \in S : k <= n
<1> DEFINE Bounds == {n \in Nat : \A k \in S : k <= n}
<1>1. IsWellFoundedOn(OpToRel(<, Nat), Nat)
  BY NatLessThanWellFounded
<1>2. PICK m \in Bounds : \A n \in Bounds : ~(<<n, m>> \in OpToRel(<, Nat))
  BY <1>1, WFMin
<1>3. m \in Nat /\ \A k \in S : k <= m
  OBVIOUS
<1>4. ASSUME m \notin S, m # 0
      PROVE  FALSE
  <2>1. m - 1 \in Bounds
    BY <1>3, <1>4
  <2>2. <<m - 1, m>> \in OpToRel(<, Nat)
    BY <1>3, <1>4 DEF OpToRel
  <2> QED BY <1>2, <2>1, <2>2
<1> QED BY <1>3, <1>4

-----------------------------------------------------------------------------
LEMMA InitInv == Init => IInv
<1> SUFFICES ASSUME Init PROVE IInv
  OBVIOUS
<1> USE DEF Init, ClientInit
<1>2. Types
  <2>1. ASSUME NEW c \in Clients
        PROVE  [k \in 1 .. BUFFER_SIZE |-> <<c, 0>>] \in Seq(Units)
    <3>1. BUFFER_SIZE \in Nat /\ <<c, 0>> \in Units
      BY ClientAssumption DEF Units
    <3> QED BY <3>1, SeqDef
  <2>2. read_buf \in [Clients -> Seq(Units)]
    BY <2>1
  <2>3. shown \in [Clients -> Seq(Units)] /\ heard \in [Clients -> Seq(Units)]
    BY EmptySeq
  <2> QED BY <2>2, <2>3 DEF Types
<1>3. TypeOK
  BY ClientAssumption, SystemAssumption DEF TypeOK
<1>4. SpliceHasReason /\ BlocksOnlyAfterEof
  BY DEF SpliceHasReason, BlocksOnlyAfterEof, Piped
<1>5. Copied
  <2>1. SubSeq(<<>>, 1, 0) = <<>>
    BY SubSeqProperties, EmptySeq
  <2> QED BY <2>1 DEF Copied
<1>6. HeardInOrder
  BY EmptySeq DEF HeardInOrder
<1> QED BY <1>2, <1>3, <1>4, <1>5, <1>6 DEF IInv

(* The user and the network: nothing that was said or shown changes.       *)
LEMMA EnvironmentStep ==
  ASSUME IInv, NEW c \in Clients, Type(c) \/ EndOfInput(c) \/ HangUp(c) \/ Reset(c),
         UNCHANGED calm
  PROVE  IInv'
<1> USE DEF Type, EndOfInput, HangUp, Reset, loop, server
<1>1. /\ UNCHANGED <<pc, revents, taken, sent, received, read_buf, shown, said, heard>>
      /\ UNCHANGED calm
  OBVIOUS
<1>2. /\ typed' \in [Clients -> Nat]
      /\ \A d \in Clients : typed[d] <= typed'[d] /\ typed'[d] <= MaxType[d]
  <2>1. /\ typed \in [Clients -> Nat] /\ MaxType \in [Clients -> Nat]
        /\ \A d \in Clients : typed[d] <= MaxType[d]
    BY ClientAssumption DEF IInv, Types, TypeOK
  <2>2. typed' = typed \/ (typed' = [typed EXCEPT ![c] = @ + 1] /\ typed[c] < MaxType[c])
    OBVIOUS
  <2> QED BY <2>1, <2>2
<1>3. Types' /\ Copied' /\ HeardInOrder'
  BY <1>1, <1>2, SMTT(20) DEF IInv, Types, Copied, HeardInOrder
<1>4. TypeOK'
  <2>1. /\ eof' \in [Clients -> BOOLEAN]
        /\ conn' \in [Clients -> {"open", "fin", "rst", "pipe"}]
    BY DEF IInv, TypeOK
  <2>2. \A d \in Clients : taken[d] <= typed'[d] /\ typed'[d] <= MaxType[d]
    BY <1>2, SMTT(20) DEF IInv, Types, TypeOK
  <2> QED BY <1>1, <2>1, <2>2 DEF IInv, TypeOK
<1>5. SpliceHasReason'
  <2>1. \A d \in Clients : eof[d] => eof'[d]
    BY DEF IInv, TypeOK
  <2>2. \A k, m, n \in Nat : k < m /\ m <= n => k < n
    OBVIOUS
  <2>3. /\ taken \in [Clients -> Nat] /\ typed \in [Clients -> Nat]
        /\ typed' \in [Clients -> Nat]
        /\ \A d \in Clients : typed[d] <= typed'[d]
    BY <1>2 DEF IInv, Types
  <2>4. \A d \in Clients : taken[d] < typed[d] => taken[d] < typed'[d]
    BY <2>2, <2>3, Zenon
  <2> QED BY <1>1, <2>1, <2>4 DEF IInv, SpliceHasReason
<1>6. BlocksOnlyAfterEof'
  <2>1. \A d \in Clients : (eof[d] => eof'[d]) /\ (conn[d] = "rst" => conn'[d] = "rst")
    BY DEF IInv, TypeOK
  <2> QED BY <1>1, <2>1 DEF IInv, BlocksOnlyAfterEof, Piped
<1> QED BY <1>3, <1>4, <1>5, <1>6 DEF IInv

(* poll, and the two ways out of the loop, move no data.                   *)
LEMMA PollStep ==
  ASSUME IInv, NEW c \in Clients,
         Poll(c) \/ PollFails(c) \/ ServerClosed(c) \/ SpliceOutFails(c),
         UNCHANGED calm
  PROVE  IInv'
<1> USE DEF Poll, PollFails, ServerClosed, SpliceOutFails, server
<1>1. UNCHANGED <<taken, sent, received, read_buf, shown, typed, eof, conn, said, heard, calm>>
  OBVIOUS
<1>2. Types' /\ Copied' /\ HeardInOrder'
  BY <1>1, SMTT(20) DEF IInv, Types, Copied, HeardInOrder
<1>3. TypeOK'
  <2>1. pc' \in [Clients -> {"poll", "scan", "send", "closed", "killed"}]
    BY DEF IInv, TypeOK
  <2>2. revents' \in [Clients -> SUBSET {"STDIN", "POLLIN", "POLLRDHUP"}]
    <3>1. Ready(c) \in SUBSET {"STDIN", "POLLIN", "POLLRDHUP"}
      BY DEF Ready, Asked
    <3> QED BY <3>1 DEF IInv, TypeOK
  <2> QED BY <1>1, <2>1, <2>2 DEF IInv, TypeOK
<1>4. SpliceHasReason'
  <2>1. "STDIN" \in Ready(c) => taken[c] < typed[c] \/ (eof[c] /\ c \notin PipeStdin)
    BY DEF Ready
  <2> HIDE DEF server
  <2> QED BY <1>1, <2>1 DEF IInv, TypeOK, SpliceHasReason
<1>5. BlocksOnlyAfterEof'
  BY <1>1 DEF IInv, TypeOK, BlocksOnlyAfterEof, Piped
<1> QED BY <1>2, <1>3, <1>4, <1>5 DEF IInv

(* recv and printf: what is shown is what is read, and no more.            *)
LEMMA ReceiveStep ==
  ASSUME IInv, NEW c \in Clients, Receive(c), UNCHANGED calm
  PROVE  IInv'
<1> DEFINE q == Unread(c)
           n == IF Len(q) < RecvSize THEN Len(q) ELSE RecvSize
           data == SubSeq(q, 1, n)
<1>1. /\ UNCHANGED <<taken, sent, typed, eof, conn, said, heard, calm>>
      /\ pc[c] = "scan"
      /\ received' = [received EXCEPT ![c] = @ + n]
      /\ read_buf' = [read_buf EXCEPT ![c] = Over(Cleared(c), data)]
      /\ shown' = [shown EXCEPT ![c] = @ \o read_buf'[c]]
      /\ pc' = [pc EXCEPT ![c] = IF "STDIN" \in revents[c] THEN "scan" ELSE "poll"]
      /\ revents' = [revents EXCEPT ![c] = @ \ {"POLLIN"}]
  BY DEF Receive, server
<1>2. /\ heard[c] \in Seq(Units) /\ Len(heard[c]) \in Nat
      /\ received[c] \in 0 .. Len(heard[c])
      /\ shown[c] = SubSeq(heard[c], 1, received[c])
  BY LenProperties DEF IInv, Types, TypeOK, Copied
<1>3. q \in Seq(Units) /\ Len(q) = Len(heard[c]) - received[c]
  BY <1>2, SubSeqProperties DEF Unread
<1>4. n \in 0 .. Len(heard[c]) - received[c] /\ n < BUFFER_SIZE
  BY <1>2, <1>3, ClientAssumption DEF RecvSize
<1> HIDE DEF n
<1>5. /\ data \in Seq(Units) /\ Len(data) = n
      /\ shown[c] \o data = SubSeq(heard[c], 1, received[c] + n)
  <2>1. n \in 0 .. Len(heard[c]) - received[c]
    BY <1>4
  <2>2. LET part == SubSeq(SubSeq(heard[c], received[c] + 1, Len(heard[c])), 1, n)
        IN  /\ part \in Seq(Units) /\ Len(part) = n
            /\ SubSeq(heard[c], 1, received[c]) \o part
                 = SubSeq(heard[c], 1, received[c] + n)
    BY <1>2, <2>1, PrefixExtended, ZenonT(30)
  <2> QED BY <1>2, <2>2 DEF Unread
<1> HIDE DEF q, data
<1>6. Over(Cleared(c), data) = data
  <2>1. SubSeq(<<>>, Len(data) + 1, Len(<<>>)) = <<>>
    BY <1>4, <1>5, SubSeqProperties, EmptySeq
  <2> QED BY <1>5, <2>1, ConcatEmptySeq DEF Over, Cleared
<1>7. /\ read_buf' = [read_buf EXCEPT ![c] = data]
      /\ shown' = [shown EXCEPT ![c] = shown[c] \o data]
  BY <1>1, <1>6 DEF IInv, Types
<1>8. Types'
  <2>1. shown[c] \o data \in Seq(Units)
    BY <1>5, ConcatProperties DEF IInv, Types
  <2>2. received[c] + n \in Nat
    BY <1>2, <1>4
  <2> QED BY <1>1, <1>5, <1>7, <2>1, <2>2, SMTT(20) DEF IInv, Types
<1>9. TypeOK'
  <2>1. /\ pc' \in [Clients -> {"poll", "scan", "send", "closed", "killed"}]
        /\ revents' \in [Clients -> SUBSET {"STDIN", "POLLIN", "POLLRDHUP"}]
    BY <1>1 DEF IInv, TypeOK
  <2>2. \A d \in Clients :
          /\ received'[d] > 0 => Len(read_buf'[d]) < BUFFER_SIZE
          /\ received'[d] <= Len(heard[d])
    BY <1>1, <1>2, <1>4, <1>5, <1>7 DEF IInv, Types, TypeOK
  <2> QED BY <1>1, <2>1, <2>2 DEF IInv, TypeOK
<1>10. SpliceHasReason' /\ BlocksOnlyAfterEof'
  BY <1>1 DEF IInv, TypeOK, SpliceHasReason, BlocksOnlyAfterEof, Piped
<1>11. Copied'
  BY <1>1, <1>2, <1>5, <1>7 DEF IInv, Types, Copied
<1>12. HeardInOrder'
  BY <1>1 DEF IInv, HeardInOrder
<1> QED BY <1>8, <1>9, <1>10, <1>11, <1>12 DEF IInv

(* The two splices: what they move waits in the pipe in between.           *)
LEMMA SpliceStep ==
  ASSUME IInv, NEW c \in Clients, SpliceIn(c) \/ SpliceOut(c), UNCHANGED calm
  PROVE  IInv'
<1>1. /\ UNCHANGED <<received, read_buf, shown, typed, eof, conn, said, heard, calm>>
      /\ revents'[c] \subseteq revents[c]
      /\ revents' = [revents EXCEPT ![c] = revents'[c]]
  BY DEF SpliceIn, SpliceOut, server, IInv, TypeOK
<1>2. /\ taken \in [Clients -> Nat] /\ sent \in [Clients -> Nat]
      /\ typed \in [Clients -> Nat] /\ said \in [Clients -> Nat]
      /\ PIPE_SIZE \in Nat /\ SNDBUF \in Nat
      /\ \A d \in Clients :
           /\ said[d] <= sent[d] /\ sent[d] <= taken[d] /\ taken[d] <= typed[d]
           /\ taken[d] - sent[d] <= PIPE_SIZE
           /\ sent[d] - said[d] <= SNDBUF
  BY ClientAssumption DEF IInv, Types, TypeOK
<1>3. revents' \in [Clients -> SUBSET {"STDIN", "POLLIN", "POLLRDHUP"}]
  BY <1>1 DEF IInv, TypeOK
<1>4. Copied' /\ HeardInOrder'
  BY <1>1 DEF IInv, Copied, HeardInOrder
<1>5. CASE SpliceIn(c)
  <2>1. PICK n \in 0 .. typed[c] - taken[c] :
          /\ n <= PIPE_SIZE - Piped(c)
          /\ n = 0 => taken[c] = typed[c]
          /\ taken' = [taken EXCEPT ![c] = @ + n]
    BY <1>5 DEF SpliceIn
  <2>2. /\ pc[c] = "scan" /\ "STDIN" \in revents[c] /\ UNCHANGED sent
        /\ pc' = [pc EXCEPT ![c] = "send"]
    BY <1>5 DEF SpliceIn
  <2>3. Types'
    <3>1. taken[c] + n \in Nat
      BY <1>2, <2>1
    <3>2. taken' \in [Clients -> Nat]
      BY <1>2, <2>1, <3>1
    <3> QED BY <1>1, <2>2, <3>2 DEF IInv, Types
  <2>4. TypeOK'
    <3>1. pc' \in [Clients -> {"poll", "scan", "send", "closed", "killed"}]
      BY <2>2 DEF IInv, TypeOK
    <3>2. \A d \in Clients :
            /\ sent[d] <= taken'[d] /\ taken'[d] <= typed[d]
            /\ taken'[d] - sent[d] <= PIPE_SIZE
      BY <1>2, <2>1 DEF Piped
    <3> QED BY <1>1, <1>3, <2>2, <3>1, <3>2 DEF IInv, TypeOK
  <2>5. SpliceHasReason'
    BY <1>1, <1>2, <2>1, <2>2 DEF IInv, TypeOK, SpliceHasReason
  <2>6. BlocksOnlyAfterEof'
    <3>1. ASSUME taken'[c] - sent[c] = 0
          PROVE  eof[c] /\ c \notin PipeStdin
      <4>1. taken[c] = typed[c]
        BY <1>2, <2>1, <3>1
      <4> QED BY <1>2, <2>2, <4>1 DEF IInv, SpliceHasReason
    <3> QED BY <1>1, <1>2, <2>1, <2>2, <3>1 DEF IInv, TypeOK, BlocksOnlyAfterEof, Piped
  <2> QED BY <1>4, <2>3, <2>4, <2>5, <2>6 DEF IInv
<1>6. CASE SpliceOut(c)
  <2>1. /\ UNCHANGED <<taken, revents>>
        /\ pc[c] = "send" /\ Piped(c) > 0 /\ sent[c] - said[c] < SNDBUF
        /\ sent' = [sent EXCEPT ![c] = @ + 1]
        /\ pc' = [pc EXCEPT ![c] = IF Piped(c) = 1 THEN "poll" ELSE "send"]
    BY <1>6 DEF SpliceOut, PipeDrained
  <2>2. Types'
    <3>1. sent' \in [Clients -> Nat]
      BY <1>2, <2>1
    <3> QED BY <1>1, <2>1, <3>1 DEF IInv, Types
  <2>3. TypeOK'
    <3>1. pc' \in [Clients -> {"poll", "scan", "send", "closed", "killed"}]
      BY <2>1 DEF IInv, TypeOK
    <3>2. \A d \in Clients :
            /\ said[d] <= sent'[d] /\ sent'[d] <= taken[d]
            /\ taken[d] - sent'[d] <= PIPE_SIZE
            /\ sent'[d] - said[d] <= SNDBUF
      BY <1>2, <2>1 DEF Piped
    <3> QED BY <1>1, <1>3, <2>1, <3>1, <3>2 DEF IInv, TypeOK
  <2>4. SpliceHasReason'
    BY <1>1, <2>1 DEF IInv, TypeOK, SpliceHasReason
  <2>5. BlocksOnlyAfterEof'
    BY <1>1, <1>2, <2>1, SMTT(20) DEF IInv, TypeOK, BlocksOnlyAfterEof, Piped
  <2> QED BY <1>4, <2>2, <2>3, <2>4, <2>5 DEF IInv
<1> QED BY <1>5, <1>6

-----------------------------------------------------------------------------
LEMMA HeardUnit ==
  ASSUME Types, NEW c \in Clients, NEW j \in 1 .. Len(heard[c])
  PROVE  heard[c][j][1] \in Clients /\ heard[c][j][2] \in Nat
<1>1. heard[c] \in Seq(Units)
  BY DEF Types
<1>2. heard[c][j] \in Units
  BY <1>1, ElementOfSeq
<1> QED BY <1>2 DEF Units

(* The words first .. last of an author, as Tell writes them.              *)
LEMMA Stretch ==
  ASSUME NEW a \in Clients, NEW first \in Nat, NEW n \in Nat, first > 0
  PROVE  LET words == [k \in 1 .. n |-> <<a, first + k - 1>>]
         IN  /\ words \in Seq(Units)
             /\ Len(words) = n
             /\ \A k \in 1 .. n : words[k] = <<a, first + k - 1>>
<1> DEFINE words == [k \in 1 .. n |-> <<a, first + k - 1>>]
<1>1. \A k \in 1 .. n : first + k - 1 \in Nat
  OBVIOUS
<1>2. \A k \in 1 .. n : <<a, first + k - 1>> \in Units
  BY <1>1 DEF Units
<1>3. words \in [1 .. n -> Units] /\ DOMAIN words = 1 .. n
  BY <1>2
<1>4. words \in Seq(Units)
  BY <1>3, SeqDef
<1>5. DOMAIN words = 1 .. Len(words) /\ Len(words) \in Nat
  BY <1>4, LenProperties
<1> HIDE DEF words
<1>6. Len(words) = n
  BY <1>3, <1>5
<1> QED BY <1>4, <1>6 DEF words

(* The server takes what was sent, ...                                     *)
LEMMA TakeStep ==
  ASSUME IInv, NEW c \in Clients, ServerTakes(c)
  PROVE  IInv'
<1>1. PICK n \in 1 .. sent[c] - said[c] :
        /\ said' = [said EXCEPT ![c] = @ + n]
        /\ UNCHANGED <<calm, heard>>
  BY DEF ServerTakes, Room!Take
<1>2. UNCHANGED <<pc, revents, taken, sent, received, read_buf, shown, typed, eof, conn>>
  BY DEF ServerTakes, client, loop
<1>3. /\ said \in [Clients -> Nat] /\ sent \in [Clients -> Nat] /\ SNDBUF \in Nat
      /\ \A d \in Clients : said[d] <= sent[d] /\ sent[d] - said[d] <= SNDBUF
  BY ClientAssumption DEF IInv, Types, TypeOK
<1>4. /\ said' \in [Clients -> Nat]
      /\ \A d \in Clients :
           /\ said[d] <= said'[d] /\ said'[d] <= sent[d]
           /\ sent[d] - said'[d] <= SNDBUF
  BY <1>1, <1>3
<1>5. Types' /\ TypeOK'
  BY <1>1, <1>2, <1>4 DEF IInv, Types, TypeOK
<1>6. SpliceHasReason' /\ BlocksOnlyAfterEof' /\ Copied'
  BY <1>1, <1>2 DEF IInv, SpliceHasReason, BlocksOnlyAfterEof, Piped, Copied
<1>7. HeardInOrder'
  <2>1. ASSUME NEW d \in Clients, NEW j \in 1 .. Len(heard[d])
        PROVE  heard[d][j][1] \in Clients /\ heard[d][j][2] \in Nat
    BY HeardUnit DEF IInv
  <2>2. ASSUME calm, NEW d \in Clients, NEW j \in 1 .. Len(heard[d])
        PROVE  heard[d][j][2] <= said'[heard[d][j][1]]
    <3>1. heard[d][j][2] <= said[heard[d][j][1]]
      BY <2>2 DEF IInv, HeardInOrder
    <3>2. /\ said[heard[d][j][1]] \in Nat /\ said'[heard[d][j][1]] \in Nat
          /\ said[heard[d][j][1]] <= said'[heard[d][j][1]]
      BY <1>3, <1>4, <2>1
    <3> QED BY <2>1, <3>1, <3>2
  <2> QED BY <1>1, <2>2 DEF IInv, HeardInOrder
<1> QED BY <1>5, <1>6, <1>7 DEF IInv

(* ... and writes more, which changes nothing of what has been read.       *)
LEMMA MoreHeard ==
  ASSUME IInv, NEW c \in Clients, NEW words \in Seq(Units),
         Len(heard[c]) + Len(words) <= MaxHeard[c],
         heard' = [heard EXCEPT ![c] = @ \o words],
         UNCHANGED <<client, said, calm>>,
         HeardInOrder'
  PROVE  IInv'
<1>1. UNCHANGED <<pc, revents, taken, sent, received, read_buf, shown, typed, eof, conn, said, calm>>
  BY DEF client, loop
<1>2. /\ heard \in [Clients -> Seq(Units)]
      /\ heard[c] \o words \in Seq(Units)
      /\ Len(heard[c] \o words) = Len(heard[c]) + Len(words)
      /\ Len(heard[c]) \in Nat /\ Len(words) \in Nat
      /\ received[c] \in 0 .. Len(heard[c])
  BY ConcatProperties, LenProperties DEF IInv, Types, TypeOK
<1>3. Types'
  BY <1>1, <1>2 DEF IInv, Types
<1>4. TypeOK'
  <2>1. \A d \in Clients :
          received[d] <= Len(heard'[d]) /\ Len(heard'[d]) <= MaxHeard[d]
    BY <1>2 DEF IInv, TypeOK
  <2> QED BY <1>1, <2>1 DEF IInv, TypeOK
<1>5. SpliceHasReason' /\ BlocksOnlyAfterEof'
  BY <1>1 DEF IInv, SpliceHasReason, BlocksOnlyAfterEof, Piped
<1>6. Copied'
  <2>1. SubSeq(heard[c] \o words, 1, received[c]) = SubSeq(heard[c], 1, received[c])
    BY <1>2, PrefixKept
  <2> QED BY <1>1, <1>2, <2>1 DEF IInv, Copied
<1> QED BY <1>3, <1>4, <1>5, <1>6 DEF IInv

(* LastOf is what its name says: the greatest number told of an author.    *)
LEMMA LastOfIsLast ==
  ASSUME IInv, calm, NEW c \in Clients, NEW a \in Clients
  PROVE  /\ Room!LastOf(c, a) \in Nat
         /\ \A k \in 1 .. Len(heard[c]) :
              heard[c][k][1] = a => heard[c][k][2] <= Room!LastOf(c, a)
<1> DEFINE told == {heard[c][j][2] : j \in {k \in 1 .. Len(heard[c]) : heard[c][k][1] = a}}
<1>1. ASSUME NEW j \in 1 .. Len(heard[c])
      PROVE  heard[c][j][2] \in Nat
  BY HeardUnit DEF IInv
<1>2. told \in SUBSET Nat
  BY <1>1
<1>3. said[a] \in Nat /\ \A k \in told : k <= said[a]
  BY DEF IInv, Types, HeardInOrder
<1>4. \E n \in told \cup {0} : \A k \in told : k <= n
  <2> HIDE DEF told
  <2> QED BY <1>2, <1>3, Greatest
<1>5. Room!LastOf(c, a) = CHOOSE n \in told \cup {0} : \A k \in told : k <= n
  BY DEF Room!LastOf
<1>6. Room!LastOf(c, a) \in told \cup {0} /\ \A k \in told : k <= Room!LastOf(c, a)
  <2> HIDE DEF told
  <2> QED BY <1>4, <1>5
<1> QED BY <1>2, <1>6

LEMMA TellStep ==
  ASSUME IInv, NEW c \in Clients, ServerTells(c)
  PROVE  IInv'
<1>0. PICK a \in Clients : \E first, last \in 1 .. said[a] :
        Len(heard[c]) + last - first < MaxHeard[c] /\ Room!Tell(c, a, first, last)
  BY DEF ServerTells
<1>1. PICK first \in 1 .. said[a], last \in 1 .. said[a] :
        Len(heard[c]) + last - first < MaxHeard[c] /\ Room!Tell(c, a, first, last)
  BY <1>0
<1> DEFINE n == last - first + 1
           words == [k \in 1 .. n |-> <<a, first + k - 1>>]
<1>2. /\ a # c /\ Room!LastOf(c, a) < first /\ first <= last /\ last <= said[a]
      /\ heard' = [heard EXCEPT ![c] = @ \o words]
      /\ UNCHANGED <<calm, said, client>> /\ calm
  BY <1>1 DEF ServerTells, Room!Tell
<1>3. /\ said[a] \in Nat /\ first \in Nat /\ first > 0 /\ last \in Nat /\ n \in Nat
      /\ heard[c] \in Seq(Units) /\ Len(heard[c]) \in Nat
      /\ MaxHeard[c] \in Nat
  <2>1. said[a] \in Nat /\ heard[c] \in Seq(Units)
    BY DEF IInv, Types
  <2>2. first \in Nat /\ first > 0 /\ last \in Nat
    BY <2>1
  <2> QED BY <1>2, <2>1, <2>2, LenProperties, SystemAssumption
<1>4. /\ words \in Seq(Units) /\ Len(words) = n
      /\ \A k \in 1 .. n : words[k] = <<a, first + k - 1>>
  <2> HIDE DEF n
  <2> QED BY <1>3, Stretch, ZenonT(30)
<1> HIDE DEF words
<1>5. Len(heard[c]) + Len(words) <= MaxHeard[c]
  <2>1. Len(heard[c]) + last - first < MaxHeard[c]
    BY <1>1
  <2>2. Len(heard[c]) + (last - first + 1) <= MaxHeard[c]
    BY <2>1, <1>3
  <2> QED BY <2>2, <1>4
<1> DEFINE all == heard[c] \o words
           old == Len(heard[c])
<1>6. /\ Len(all) = old + n
      /\ \A j \in 1 .. old : all[j] = heard[c][j]
      /\ \A i \in 1 .. n : all[old + i] = <<a, first + i - 1>>
      /\ \A j \in 1 .. Len(all) :
           j \in 1 .. old \/ \E i \in 1 .. n : j = old + i
  <2> HIDE DEF n
  <2>1. /\ Len(all) = old + Len(words)
        /\ \A j \in 1 .. old : all[j] = heard[c][j]
        /\ \A i \in 1 .. Len(words) : all[old + i] = words[i]
        /\ \A j \in 1 .. Len(all) :
             j \in 1 .. old \/ \E i \in 1 .. Len(words) : j = old + i
    <3>1. heard[c] \in Seq(Units) /\ words \in Seq(Units)
      BY <1>3, <1>4
    <3>2. Len(all) = old + Len(words)
      BY <3>1, Concatenated, Zenon
    <3>3. \A j \in 1 .. old : all[j] = heard[c][j]
      BY <3>1, Concatenated, ZenonT(30)
    <3>4. \A i \in 1 .. Len(words) : all[old + i] = words[i]
      <4> SUFFICES ASSUME NEW i \in 1 .. Len(words)
                   PROVE  (heard[c] \o words)[Len(heard[c]) + i] = words[i]
        OBVIOUS
      <4> QED BY <3>1, Concatenated
    <3>5. \A j \in 1 .. Len(all) :
            j \in 1 .. old \/ \E i \in 1 .. Len(words) : j = old + i
      <4> SUFFICES ASSUME NEW j \in 1 .. Len(heard[c] \o words), j \notin 1 .. Len(heard[c])
                   PROVE  \E i \in 1 .. Len(words) : j = Len(heard[c]) + i
        OBVIOUS
      <4> QED BY <3>1, Concatenated
    <3> QED BY <3>2, <3>3, <3>4, <3>5
  <2> HIDE DEF all
  <2> QED BY <1>4, <2>1
<1>7. \A i \in 1 .. n : first + i - 1 \in Nat /\ first + i - 1 <= said[a]
  BY <1>2, <1>3
<1> HIDE DEF all, n
(* The new words are another's, said, and follow on all that was told.     *)
<1>8. ASSUME NEW j \in 1 .. Len(all)
      PROVE  /\ all[j][1] # c /\ all[j][2] <= said[all[j][1]]
             /\ \A k \in 1 .. j - 1 : all[k][1] = all[j][1] => all[k][2] < all[j][2]
  <2>1. CASE j \in 1 .. old
    <3>1. all[j] = heard[c][j] /\ \A k \in 1 .. j - 1 : all[k] = heard[c][k]
      <4>1. \A k \in 1 .. j - 1 : k \in 1 .. old
        BY <1>3, <2>1
      <4> QED BY <1>6, <2>1, <4>1
    <3> QED BY <1>2, <2>1, <3>1 DEF IInv, HeardInOrder
  <2>2. ASSUME NEW i \in 1 .. n, j = old + i
        PROVE  /\ all[j][1] # c /\ all[j][2] <= said[all[j][1]]
               /\ \A k \in 1 .. j - 1 : all[k][1] = all[j][1] => all[k][2] < all[j][2]
    <3>1. all[j] = <<a, first + i - 1>>
      BY <1>6, <2>2
    <3>2. ASSUME NEW k \in 1 .. j - 1, all[k][1] = a
          PROVE  all[k][2] < first + i - 1
      <4>1. CASE k \in 1 .. old
        <5>1. heard[c][k][2] \in Nat
          BY <4>1, HeardUnit DEF IInv
        <5>2. /\ Room!LastOf(c, a) \in Nat
              /\ heard[c][k][2] <= Room!LastOf(c, a)
          BY <1>2, <1>6, <3>2, <4>1, LastOfIsLast
        <5>3. first <= first + i - 1
          BY <1>3
        <5> QED BY <1>2, <1>3, <1>6, <1>7, <4>1, <5>1, <5>2, <5>3, SMTT(20)
      <4>2. ASSUME NEW m \in 1 .. n, k = old + m
            PROVE  all[k][2] < first + i - 1
        <5>1. all[k] = <<a, first + m - 1>>
          BY <1>6, <4>2
        <5>2. m < i
          BY <1>3, <2>2, <4>2
        <5>3. first + m - 1 < first + i - 1
          BY <1>3, <5>2
        <5> QED BY <5>1, <5>3
      <4>3. k \in 1 .. Len(all)
        BY <1>3, <1>6
      <4> QED BY <1>6, <4>1, <4>2, <4>3
    <3> QED BY <1>2, <1>7, <3>1, <3>2
  <2> QED BY <1>6, <2>1, <2>2
<1>9. HeardInOrder'
  <2>1. heard'[c] = all
    BY <1>2 DEF IInv, Types, all
  <2>2. \A d \in Clients \ {c} : heard'[d] = heard[d]
    BY <1>2 DEF IInv, Types
  <2>3. ASSUME NEW d \in Clients, NEW j \in 1 .. Len(heard'[d])
        PROVE  /\ heard'[d][j][1] # d
               /\ heard'[d][j][2] <= said[heard'[d][j][1]]
               /\ \A k \in 1 .. j - 1 :
                    heard'[d][k][1] = heard'[d][j][1] => heard'[d][k][2] < heard'[d][j][2]
    <3>1. CASE d = c
      BY <1>8, <2>1, <3>1
    <3>2. CASE d # c
      <4>1. heard'[d] = heard[d]
        BY <2>2, <3>2
      <4> QED BY <1>2, <4>1 DEF IInv, HeardInOrder
    <3> QED BY <3>1, <3>2
  <2> QED BY <1>2, <2>3 DEF HeardInOrder
<1> QED BY <1>2, <1>4, <1>5, <1>9, MoreHeard

(* Once somebody is gone, anything may be written, if it was said.         *)
LEMMA GarbleStep ==
  ASSUME IInv, NEW c \in Clients, ServerGarbles(c)
  PROVE  IInv'
<1>0. PICK a \in Clients : \E k \in 1 .. said[a] :
        heard' = [heard EXCEPT ![c] = Append(@, <<a, k>>)]
  BY DEF ServerGarbles
<1>1. PICK k \in 1 .. said[a] : heard' = [heard EXCEPT ![c] = Append(@, <<a, k>>)]
  BY <1>0
<1>2. /\ ~calm /\ Len(heard[c]) < MaxHeard[c] /\ UNCHANGED <<client, said, calm>>
  BY DEF ServerGarbles
<1>3. /\ heard[c] \in Seq(Units) /\ Len(heard[c]) \in Nat /\ MaxHeard[c] \in Nat
      /\ <<a, k>> \in Units
  <2>1. said[a] \in Nat /\ heard[c] \in Seq(Units)
    BY DEF IInv, Types
  <2>2. k \in Nat
    BY <2>1
  <2> QED BY <2>1, <2>2, LenProperties, SystemAssumption DEF Units
<1>4. /\ <<<<a, k>>>> \in Seq(Units) /\ Len(<<<<a, k>>>>) = 1
      /\ Append(heard[c], <<a, k>>) = heard[c] \o <<<<a, k>>>>
  BY <1>3, AppendIsConcat
<1>5. heard' = [heard EXCEPT ![c] = @ \o <<<<a, k>>>>]
  BY <1>1, <1>4
<1>6. HeardInOrder'
  BY <1>2 DEF HeardInOrder
<1>7. Len(heard[c]) + Len(<<<<a, k>>>>) <= MaxHeard[c]
  BY <1>2, <1>3, <1>4
<1> QED BY <1>2, <1>4, <1>5, <1>6, <1>7, MoreHeard

(* A member is gone: from now on the room need not be calm.                *)
LEMMA GoneStep ==
  ASSUME IInv, MemberGone
  PROVE  IInv'
<1>1. /\ UNCHANGED <<pc, revents, taken, sent, received, read_buf, shown, typed, eof,
                     conn, said, heard>>
      /\ calm' = FALSE
  BY DEF MemberGone, client, loop, server
<1>2. Types' /\ TypeOK' /\ HeardInOrder'
  BY <1>1 DEF IInv, Types, TypeOK, HeardInOrder
<1>3. SpliceHasReason' /\ BlocksOnlyAfterEof' /\ Copied'
  BY <1>1 DEF IInv, SpliceHasReason, BlocksOnlyAfterEof, Piped, Copied
<1> QED BY <1>2, <1>3 DEF IInv

LEMMA NextInv == IInv /\ [Next]_vars => IInv'
<1> SUFFICES ASSUME IInv, [Next]_vars PROVE IInv'
  OBVIOUS
<1>1. ASSUME NEW c \in Clients, UNCHANGED calm,
             Type(c) \/ EndOfInput(c) \/ HangUp(c) \/ Reset(c)
      PROVE  IInv'
  BY <1>1, EnvironmentStep
<1>2. ASSUME NEW c \in Clients, UNCHANGED calm,
             Poll(c) \/ PollFails(c) \/ ServerClosed(c) \/ SpliceOutFails(c)
      PROVE  IInv'
  BY <1>2, PollStep
<1>3. ASSUME NEW c \in Clients, UNCHANGED calm, Receive(c)
      PROVE  IInv'
  BY <1>3, ReceiveStep
<1>4. ASSUME NEW c \in Clients, UNCHANGED calm, SpliceIn(c) \/ SpliceOut(c)
      PROVE  IInv'
  BY <1>4, SpliceStep
<1>5. ASSUME NEW c \in Clients, ServerTakes(c) \/ ServerTells(c) \/ ServerGarbles(c)
      PROVE  IInv'
  BY <1>5, TakeStep, TellStep, GarbleStep
<1>6. CASE MemberGone
  BY <1>6, GoneStep
<1>7. CASE UNCHANGED vars
  <2>1. UNCHANGED <<pc, revents, taken, sent, received, read_buf, shown, typed, eof,
                    conn, said, heard, calm>>
    BY <1>7 DEF vars, client, loop, server
  <2>2. Types' /\ TypeOK' /\ HeardInOrder'
    BY <2>1 DEF IInv, Types, TypeOK, HeardInOrder
  <2>3. SpliceHasReason' /\ BlocksOnlyAfterEof' /\ Copied'
    BY <2>1 DEF IInv, SpliceHasReason, BlocksOnlyAfterEof, Piped, Copied
  <2> QED BY <2>2, <2>3 DEF IInv
<1> QED BY <1>1, <1>2, <1>3, <1>4, <1>5, <1>6, <1>7 DEF Next, RoomStep, ClientStep

THEOREM Invariance == Spec => []IInv
<1> QED BY InitInv, NextInv, PTL DEF Spec

(* No counter overtakes another, and neither the pipe, nor the socket, nor *)
(* the read buffer holds more than it can (lines 52, 73-83).               *)
THEOREM TypeCorrect == Spec => []TypeOK
<1>1. IInv => TypeOK
  BY DEF IInv
<1> QED BY <1>1, Invariance, PTL

(* The second splice finds the pipe empty only behind the end of a file,   *)
(* and the first never finds it filled, but for a connection that was      *)
(* reset (lines 81-83).                                                    *)
THEOREM NeverBlocksBeforeEof == Spec => []BlocksOnlyAfterEof
<1>1. IInv => BlocksOnlyAfterEof
  BY DEF IInv
<1> QED BY <1>1, Invariance, PTL

(* A client prints what it was written, in order, and in a calm room that  *)
(* is what others typed, in the order typed and never twice (lines 73-75): *)
(* whatever the sizes of messages, pipes and buffers.                      *)
THEOREM ShowsInOrder == Spec => []ShownInOrder
<1>1. IInv => ShownInOrder
  <2> SUFFICES ASSUME IInv, NEW c \in Clients
               PROVE  /\ shown[c] = SubSeq(heard[c], 1, received[c])
                      /\ calm => \A j \in 1 .. Len(shown[c]) :
                           /\ shown[c][j][1] # c
                           /\ shown[c][j][2] <= typed[shown[c][j][1]]
                           /\ \A k \in 1 .. j - 1 :
                                shown[c][k][1] = shown[c][j][1]
                                  => shown[c][k][2] < shown[c][j][2]
    BY DEF ShownInOrder
  <2>1. /\ shown[c] = SubSeq(heard[c], 1, received[c])
        /\ heard[c] \in Seq(Units) /\ Len(heard[c]) \in Nat
        /\ received[c] \in 0 .. Len(heard[c])
    BY LenProperties DEF IInv, Types, TypeOK, Copied
  <2>2. /\ Len(shown[c]) = received[c]
        /\ \A j \in 1 .. Len(shown[c]) : shown[c][j] = heard[c][j]
    BY <2>1, SubSeqProperties
  <2>3. ASSUME calm, NEW j \in 1 .. Len(shown[c])
        PROVE  /\ heard[c][j][1] # c
               /\ heard[c][j][2] <= typed[heard[c][j][1]]
               /\ \A k \in 1 .. j - 1 :
                    heard[c][k][1] = heard[c][j][1] => heard[c][k][2] < heard[c][j][2]
    <3>1. j \in 1 .. Len(heard[c])
      BY <2>1, <2>2
    <3>2. heard[c][j][1] \in Clients /\ heard[c][j][2] \in Nat
      BY <3>1, HeardUnit DEF IInv
    <3>3. \A a \in Clients : said[a] <= typed[a] /\ said[a] \in Nat /\ typed[a] \in Nat
      BY SMTT(20) DEF IInv, Types, TypeOK
    <3>4. heard[c][j][2] <= said[heard[c][j][1]]
      BY <2>3, <3>1 DEF IInv, HeardInOrder
    <3>5. heard[c][j][2] <= typed[heard[c][j][1]]
      BY <3>2, <3>3, <3>4
    <3> QED BY <2>3, <3>1, <3>5 DEF IInv, HeardInOrder
  <2>4. \A j \in 1 .. Len(shown[c]) : \A k \in 1 .. j - 1 : shown[c][k] = heard[c][k]
    BY <2>1, <2>2
  <2> QED BY <2>1, <2>2, <2>3, <2>4
<1> QED BY <1>1, Invariance, PTL
=============================================================================
