--------------------------- MODULE EpollSetProofs ---------------------------
(***************************************************************************)
(* What the kernel's part of the epoll servers keeps true, whatever the    *)
(* server does with it: lemmas that the proofs about EtServer, OneShot and *)
(* MultiPort share.  D is what the server's epoll set may hold.  They rest *)
(* on what the operators of ReadyList return, for every list: no           *)
(* descriptor is reported twice in a batch, and none that has an event is  *)
(* left out.                                                               *)
(***************************************************************************)
EXTENDS EpollSet, FiniteSetTheorems, SequenceTheorems, WellFoundedInduction, TLAPS

-----------------------------------------------------------------------------
(* The ready list *)

(* An event puts its descriptor on the list, once (the epoll callback).    *)
LEMMA QueuedType ==
  ASSUME NEW D, NEW list \in Seq(D), IsInjective(list), NEW d \in D
  PROVE  /\ Queued(list, d) \in Seq(D)
         /\ IsInjective(Queued(list, d))
         /\ Range(Queued(list, d)) = Range(list) \cup {d}
<1>1. CASE d \in Range(list)
  BY <1>1 DEF Queued
<1>2. CASE d \notin Range(list)
  <2>1. Queued(list, d) = Append(list, d)
    BY <1>2 DEF Queued
  <2>2. /\ Append(list, d) \in Seq(D)
        /\ Len(Append(list, d)) = Len(list) + 1
        /\ \A k \in 1 .. Len(list) : Append(list, d)[k] = list[k]
        /\ Append(list, d)[Len(list) + 1] = d
    OBVIOUS
  <2>3. /\ DOMAIN list = 1 .. Len(list) /\ Len(list) \in Nat
        /\ DOMAIN Append(list, d) = 1 .. Len(list) + 1
    BY <2>2, LenProperties
  <2>4. \A k \in 1 .. Len(list) + 1 : k \in 1 .. Len(list) \/ k = Len(list) + 1
    BY <2>3
  <2>5. /\ Len(list) + 1 \in 1 .. Len(list) + 1
        /\ 1 .. Len(list) \subseteq 1 .. Len(list) + 1
    BY <2>3
  <2>6. \A k \in 1 .. Len(list) : list[k] # d
    BY <1>2, <2>3 DEF Range
  <2>7. Range(Append(list, d)) = Range(list) \cup {d}
    BY <2>2, <2>3, <2>4, <2>5, Zenon DEF Range
  <2>8. IsInjective(Append(list, d))
    BY <2>2, <2>3, <2>4, <2>6 DEF IsInjective
  <2> QED BY <2>1, <2>2, <2>7, <2>8
<1> QED BY <1>1, <1>2

(* The entries of a list that are of interest are finitely many.           *)
LEMMA RangeIsFinite ==
  ASSUME NEW D, NEW list \in Seq(D), NEW S
  PROVE  IsFiniteSet(Range(list) \cap S)
<1>1. list \in [1 .. Len(list) -> Range(list)]
  BY DEF Range
<1>2. list \in Surjection(1 .. Len(list), Range(list))
  BY <1>1 DEF Surjection, Range
<1>3. Len(list) \in Nat /\ IsFiniteSet(1 .. Len(list))
  BY LenProperties, FS_Interval
<1>4. IsFiniteSet(Range(list))
  BY <1>2, <1>3, FS_Surjection
<1> QED BY <1>4, FS_Intersection

(* Taking entries off a list without duplicates leaves such a list, with   *)
(* the other entries and no others (epoll_wait; close).                    *)
LEMMA KeptType ==
  ASSUME NEW D, NEW list \in Seq(D), IsInjective(list), NEW S, NEW q \in Kept(list, S)
  PROVE  /\ q \in Seq(D)
         /\ IsInjective(q)
         /\ Range(q) = Range(list) \cap S
<1> DEFINE entries == Range(list) \cap S
           n == Cardinality(entries)
<1>1. n \in Nat
  BY RangeIsFinite, FS_CardinalityType
<1>2. /\ q \in [1 .. n -> entries]
      /\ Range(q) = entries
      /\ \A i, j \in DOMAIN q : i < j => Precedes(list, q[i], q[j])
  BY DEF Kept
<1>3. entries \subseteq D
  BY DEF Range
<1> HIDE DEF n, entries
<1>4. q \in [1 .. n -> D]
  BY <1>2, <1>3
<1>5. q \in Seq(D)
  BY <1>1, <1>4, SeqDef
<1>6. ASSUME NEW i \in DOMAIN q, NEW j \in DOMAIN q, i < j
      PROVE  q[i] # q[j]
  <2>1. PICK k \in DOMAIN list, l \in DOMAIN list :
          k < l /\ list[k] = q[i] /\ list[l] = q[j]
    BY <1>2, <1>6 DEF Precedes
  <2>2. k # l
    BY <2>1
  <2> QED BY <2>1, <2>2 DEF IsInjective
<1>7. ASSUME NEW i \in DOMAIN q, NEW j \in DOMAIN q, q[i] = q[j]
      PROVE  i = j
  BY <1>1, <1>2, <1>6, <1>7
<1>8. IsInjective(q)
  BY <1>7 DEF IsInjective
<1> QED BY <1>2, <1>5, <1>8 DEF entries

(* Handling the first of the reported descriptors leaves the others.       *)
LEMMA TailType ==
  ASSUME NEW D, NEW list \in Seq(D), IsInjective(list), list # <<>>
  PROVE  /\ Head(list) \in D
         /\ Tail(list) \in Seq(D)
         /\ IsInjective(Tail(list))
         /\ Range(Tail(list)) = Range(list) \ {Head(list)}
<1>1. /\ Head(list) = list[1]
      /\ Tail(list) \in Seq(D)
      /\ Len(list) \in Nat \ {0}
      /\ Len(Tail(list)) = Len(list) - 1
      /\ \A i \in 1 .. Len(Tail(list)) : Tail(list)[i] = list[i + 1]
  BY HeadTailProperties, EmptySeq, LenProperties
<1>2. IsInjective(Tail(list))
  BY <1>1 DEF IsInjective
<1>3. Range(Tail(list)) \subseteq Range(list) \ {Head(list)}
  BY <1>1 DEF IsInjective, Range
<1>4. ASSUME NEW d \in Range(list) \ {Head(list)}
      PROVE  d \in Range(Tail(list))
  <2>1. PICK i \in 1 .. Len(list) : list[i] = d
    BY <1>1 DEF Range
  <2>2. i # 1 /\ i - 1 \in 1 .. Len(Tail(list)) /\ Tail(list)[i - 1] = d
    BY <1>1, <1>4, <2>1
  <2>3. DOMAIN Tail(list) = 1 .. Len(Tail(list))
    BY <1>1, LenProperties
  <2> QED BY <2>2, <2>3 DEF Range
<1> QED BY <1>1, <1>2, <1>3, <1>4

(* A batch is the first of a list; the others stay behind (epoll_wait).    *)
LEMMA SplitType ==
  ASSUME NEW D, NEW list \in Seq(D), IsInjective(list), NEW n \in 0 .. Len(list)
  PROVE  LET front == SubSeq(list, 1, n)
             back == SubSeq(list, n + 1, Len(list))
         IN  /\ front \in Seq(D) /\ IsInjective(front) /\ Len(front) = n
             /\ back \in Seq(D) /\ IsInjective(back)
             /\ Range(front) \cup Range(back) = Range(list)
             /\ Range(front) \cap Range(back) = {}
<1> DEFINE front == SubSeq(list, 1, n)
           back == SubSeq(list, n + 1, Len(list))
<1>1. /\ Len(list) \in Nat /\ n \in Nat /\ n <= Len(list)
      /\ list \in [1 .. Len(list) -> D]
  BY LenProperties
<1>2. /\ front \in Seq(D) /\ Len(front) = n
      /\ \A i \in 1 .. n : front[i] = list[i]
  <2>1. \A i \in 1 .. n : list[i] \in D
    BY <1>1
  <2>2. /\ front \in Seq(D) /\ Len(front) = IF 1 <= n THEN n - 1 + 1 ELSE 0
        /\ \A i \in 1 .. n - 1 + 1 : front[i] = list[1 + i - 1]
    BY <1>1, <2>1, SubSeqProperties
  <2> HIDE DEF front
  <2> QED BY <1>1, <2>2
<1>3. /\ back \in Seq(D) /\ Len(back) = Len(list) - n
      /\ \A i \in 1 .. Len(list) - n : back[i] = list[n + i]
  <2>1. \A i \in n + 1 .. Len(list) : list[i] \in D
    BY <1>1
  <2>2. /\ back \in Seq(D)
        /\ Len(back) = IF n + 1 <= Len(list) THEN Len(list) - (n + 1) + 1 ELSE 0
        /\ \A i \in 1 .. Len(list) - (n + 1) + 1 : back[i] = list[(n + 1) + i - 1]
    BY <1>1, <2>1, SubSeqProperties
  <2> HIDE DEF back
  <2>3. Len(back) = Len(list) - n
    <3>1. CASE n = Len(list)
      BY <1>1, <2>2, <3>1
    <3>2. CASE n < Len(list)
      <4>1. n + 1 <= Len(list) /\ Len(list) - (n + 1) + 1 = Len(list) - n
        BY <1>1, <3>2
      <4> QED BY <2>2, <4>1
    <3>3. n = Len(list) \/ n < Len(list)
      <4>1. n \in Nat /\ Len(list) \in Nat /\ n <= Len(list)
        BY <1>1
      <4>2. \A i, j \in Nat : i <= j => i = j \/ i < j
        OBVIOUS
      <4> QED BY <4>1, <4>2, Zenon
    <3> QED BY <3>1, <3>2, <3>3, Zenon
  <2>4. ASSUME NEW i \in 1 .. Len(list) - n
        PROVE  back[i] = list[n + i]
    <3>1. i \in 1 .. Len(list) - (n + 1) + 1 /\ (n + 1) + i - 1 = n + i
      BY <1>1
    <3> QED BY <2>2, <3>1
  <2> QED BY <2>2, <2>3, <2>4
<1> HIDE DEF front, back
<1>4. /\ DOMAIN list = 1 .. Len(list)
      /\ DOMAIN front = 1 .. n
      /\ DOMAIN back = 1 .. Len(list) - n
  BY <1>2, <1>3, LenProperties
<1>5. \A i \in DOMAIN front : i \in DOMAIN list /\ i <= n /\ front[i] = list[i]
  BY <1>1, <1>2, <1>4
<1>6. \A i \in DOMAIN back : n + i \in DOMAIN list /\ ~(n + i <= n) /\ back[i] = list[n + i]
  BY <1>1, <1>3, <1>4
<1>7. IsInjective(front) /\ IsInjective(back)
  <2>1. IsInjective(front)
    BY <1>5 DEF IsInjective
  <2>2. ASSUME NEW i \in DOMAIN back, NEW j \in DOMAIN back, back[i] = back[j]
        PROVE  i = j
    <3>1. n + i = n + j
      BY <1>6, <2>2 DEF IsInjective
    <3> QED BY <1>1, <1>4, <3>1
  <2> QED BY <2>1, <2>2 DEF IsInjective
<1>8. ASSUME NEW i \in DOMAIN front, NEW j \in DOMAIN back, front[i] = back[j]
      PROVE  FALSE
  <2>1. i = n + j
    BY <1>5, <1>6, <1>8 DEF IsInjective
  <2> QED BY <1>5, <1>6, <2>1
<1>9. Range(front) \cap Range(back) = {}
  BY <1>8 DEF Range
<1>10. Range(front) \cup Range(back) \subseteq Range(list)
  BY <1>5, <1>6 DEF Range
<1>11. ASSUME NEW i \in 1 .. Len(list)
      PROVE  list[i] \in Range(front) \cup Range(back)
  <2>1. CASE i <= n
    BY <1>2, <1>4, <2>1 DEF Range
  <2>2. CASE ~(i <= n)
    <3>1. i - n \in 1 .. Len(list) - n /\ n + (i - n) = i
      BY <1>1, <2>2
    <3> QED BY <1>3, <1>4, <3>1 DEF Range
  <2> QED BY <2>1, <2>2
<1>12. Range(list) \subseteq Range(front) \cup Range(back)
  BY <1>4, <1>11 DEF Range
<1> QED BY <1>2, <1>3, <1>7, <1>9, <1>10, <1>12 DEF front, back

(* What is put back goes to the end of the list (level-triggered entries). *)
LEMMA JoinType ==
  ASSUME NEW D, NEW s \in Seq(D), IsInjective(s), NEW t \in Seq(D), IsInjective(t),
         Range(s) \cap Range(t) = {}
  PROVE  /\ s \o t \in Seq(D)
         /\ IsInjective(s \o t)
         /\ Range(s \o t) = Range(s) \cup Range(t)
<1> DEFINE all == s \o t
<1>1. /\ all \in Seq(D) /\ Len(all) = Len(s) + Len(t)
      /\ \A i \in 1 .. Len(s) + Len(t) : all[i] = IF i <= Len(s) THEN s[i] ELSE t[i - Len(s)]
  BY ConcatProperties
<1> HIDE DEF all
<1>2. /\ Len(s) \in Nat /\ DOMAIN s = 1 .. Len(s)
      /\ Len(t) \in Nat /\ DOMAIN t = 1 .. Len(t)
      /\ DOMAIN all = 1 .. Len(s) + Len(t)
  BY <1>1, LenProperties
<1>3. ASSUME NEW i \in DOMAIN all
      PROVE  \/ i \in DOMAIN s /\ all[i] = s[i]
             \/ i - Len(s) \in DOMAIN t /\ all[i] = t[i - Len(s)] /\ i \notin DOMAIN s
  BY <1>1, <1>2
<1>4. \A i \in DOMAIN s : i \in DOMAIN all /\ all[i] = s[i]
  BY <1>1, <1>2
<1>5. ASSUME NEW i \in DOMAIN t
      PROVE  Len(s) + i \in DOMAIN all /\ all[Len(s) + i] = t[i]
  <2>1. Len(s) + i \in 1 .. Len(s) + Len(t) /\ ~(Len(s) + i <= Len(s))
        /\ (Len(s) + i) - Len(s) = i
    BY <1>2
  <2> QED BY <1>1, <1>2, <2>1
<1>6. Range(all) = Range(s) \cup Range(t)
  BY <1>3, <1>4, <1>5 DEF Range
<1>7. ASSUME NEW i \in DOMAIN all, NEW j \in DOMAIN all, all[i] = all[j]
      PROVE  i = j
  <2>1. CASE i \in DOMAIN s /\ j \in DOMAIN s
    BY <1>4, <1>7, <2>1 DEF IsInjective
  <2>2. CASE i \notin DOMAIN s /\ j \notin DOMAIN s
    <3>1. i - Len(s) = j - Len(s)
      BY <1>3, <1>7, <2>2 DEF IsInjective
    <3> QED BY <1>2, <3>1
  <2>3. \A k \in DOMAIN s, l \in DOMAIN t : s[k] # t[l]
    BY DEF Range
  <2>4. CASE i \in DOMAIN s /\ j \notin DOMAIN s
    BY <1>3, <1>7, <2>3, <2>4
  <2>5. CASE i \notin DOMAIN s /\ j \in DOMAIN s
    BY <1>3, <1>7, <2>3, <2>5
  <2> QED BY <2>1, <2>2, <2>4, <2>5
<1>8. IsInjective(all)
  BY <1>7 DEF IsInjective
<1> QED BY <1>1, <1>6, <1>8 DEF all

-----------------------------------------------------------------------------
(* The kernel *)

(* A connection is there to be closed, and its descriptor is its own.      *)
Present == {"open", "fin", "rst"}

Owned ==
  /\ \A d, e \in Fds : owner[d] = owner[e] /\ owner[d] # NoClient => d = e
  /\ \A d \in Fds : owner[d] # NoClient => sock[owner[d]].peer \in Present

(* Nobody waits for accept twice, or has been accepted already.            *)
Waiting ==
  /\ IsInjective(backlog)
  /\ \A c \in Range(backlog) :
       sock[c].peer \in Present /\ \A d \in Fds : owner[d] # c

Listed == \A d \in Range(rdy) : d \in Fds => owner[d] # NoClient

Errors == \A c \in Clients : sock[c].err # "none" => sock[c].peer = "rst"

KernelInv(D) == KernelTypeOK(D) /\ Owned /\ Waiting /\ Listed /\ Errors

-----------------------------------------------------------------------------
LEMMA DescriptorsFacts ==
  /\ FD_LIMIT \in Nat /\ NoClient \notin Clients
  /\ listenfd = 0 /\ listenfd \notin Fds
  /\ \A d \in Fds : d \in Nat
BY EpollAssumption DEF listenfd, Fds

(* The numbers and states of a socket.                                     *)
LEMMA SocketFacts ==
  ASSUME NEW D, KernelTypeOK(D), NEW c \in Clients
  PROVE  /\ sock[c] \in Socket
         /\ sock[c].peer \in Present \cup {"none", "closed"}
         /\ sock[c].err \in {"none", "ECONNRESET", "EPIPE"}
         /\ sock[c].sent \in Nat /\ sock[c].sent <= MaxSend
         /\ sock[c].read \in Nat /\ sock[c].read <= sock[c].sent
         /\ Unread(c) \in Nat /\ Unread(c) <= sock[c].sent
         /\ MaxSend \in Nat
<1>1. sock[c] \in Socket /\ sock[c].read <= sock[c].sent /\ MaxSend \in Nat
  BY EpollAssumption DEF KernelTypeOK
<1>2. /\ sock[c].peer \in Present \cup {"none", "closed"}
      /\ sock[c].err \in {"none", "ECONNRESET", "EPIPE"}
      /\ sock[c].sent \in 0 .. MaxSend /\ sock[c].read \in 0 .. MaxSend
  BY <1>1 DEF Socket, Present
<1>3. /\ sock[c].sent \in Nat /\ sock[c].sent <= MaxSend
      /\ sock[c].read \in Nat /\ sock[c].read <= sock[c].sent
  BY <1>1, <1>2
<1>4. Unread(c) \in Nat /\ Unread(c) <= sock[c].sent
  BY <1>3 DEF Unread
<1> QED BY <1>1, <1>2, <1>3, <1>4

LEMMA KernelInitInv ==
  ASSUME NEW D, KernelInit
  PROVE  KernelInv(D)
<1> USE DEF KernelInit
<1>1. rdy = <<>> /\ backlog = <<>> /\ Range(rdy) = {} /\ Range(backlog) = {}
  BY DEF Range
<1>2. rdy \in Seq(D) /\ backlog \in Seq(Clients)
  BY <1>1
<1>3. IsInjective(rdy) /\ IsInjective(backlog)
  BY <1>1 DEF IsInjective
<1>4. sock \in [Clients -> Socket] /\ \A c \in Clients : sock[c].read <= sock[c].sent
  <2>1. 0 \in 0 .. MaxSend
    BY EpollAssumption
  <2> QED BY <2>1 DEF Socket
<1>5. Owned /\ Waiting /\ Listed /\ Errors
  BY <1>1, <1>3 DEF Owned, Waiting, Listed, Errors
<1> QED BY <1>2, <1>3, <1>4, <1>5 DEF KernelInv, KernelTypeOK

LEMMA KernelUnchanged ==
  ASSUME NEW D, KernelInv(D), UNCHANGED kernel
  PROVE  KernelInv(D)'
BY DEF kernel, KernelInv, KernelTypeOK, Owned, Waiting, Listed, Errors

(* A step that changes the ready list only.                                *)
LEMMA ListStep ==
  ASSUME NEW D, KernelInv(D), UNCHANGED <<owner, backlog, sock>>,
         rdy' \in Seq(D), IsInjective(rdy'),
         \A d \in Range(rdy') : d \in Fds => owner[d] # NoClient
  PROVE  KernelInv(D)'
BY DEF KernelInv, KernelTypeOK, Owned, Waiting, Listed, Errors

-----------------------------------------------------------------------------
(* A step that changes one socket: what it must do to keep the invariant.  *)
LEMMA SocketStep ==
  ASSUME NEW D, KernelInv(D), NEW c \in Clients, NEW s \in Socket,
         sock' = [sock EXCEPT ![c] = s], s.read <= s.sent,
         s.err # "none" => s.peer = "rst",
         sock[c].peer \in Present => s.peer \in Present,
         rdy' \in Seq(D), IsInjective(rdy'),
         \A d \in Range(rdy') : d \in Fds => owner[d] # NoClient,
         UNCHANGED <<owner, backlog>>
  PROVE  KernelInv(D)'
<1> USE DEF KernelInv
<1>1. /\ sock' \in [Clients -> Socket]
      /\ sock'[c] = s
      /\ \A e \in Clients \ {c} : sock'[e] = sock[e]
  BY DEF KernelTypeOK
<1>2. KernelTypeOK(D)'
  BY <1>1 DEF KernelTypeOK
<1>3. \A e \in Clients : sock[e].peer \in Present => sock'[e].peer \in Present
  BY <1>1
<1>4. Owned'
  <2>1. \A d \in Fds : owner[d] # NoClient => owner[d] \in Clients
    BY DEF KernelTypeOK
  <2> QED BY <1>3, <2>1 DEF Owned
<1>5. Waiting'
  <2>1. Range(backlog) \subseteq Clients
    BY DEF KernelTypeOK, Range
  <2> QED BY <1>3, <2>1 DEF Waiting
<1>6. Listed' /\ Errors'
  BY <1>1 DEF Listed, Errors
<1> QED BY <1>2, <1>4, <1>5, <1>6

(* An arrival on c: its descriptor, if it is armed, gets on the ready list *)
(* and no other does.                                                      *)
LEMMA WakeType ==
  ASSUME NEW D, KernelInv(D), NEW armed \in SUBSET Fds, Fds \subseteq D,
         NEW c \in Clients, Wake(c, armed)
  PROVE  /\ rdy' \in Seq(D) /\ IsInjective(rdy')
         /\ Range(rdy') = Range(rdy) \cup {d \in armed : owner[d] = c}
         /\ \A d \in Range(rdy') : d \in Fds => owner[d] # NoClient
<1> USE DEF KernelInv
<1>1. CASE \E d \in armed : owner[d] = c
  <2>1. PICK d \in armed : d = (CHOOSE e \in armed : owner[e] = c) /\ owner[d] = c
    BY <1>1
  <2>2. rdy' = Queued(rdy, d)
    BY <1>1, <2>1 DEF Wake
  <2>3. rdy' \in Seq(D) /\ IsInjective(rdy') /\ Range(rdy') = Range(rdy) \cup {d}
    BY <2>2, QueuedType DEF KernelTypeOK
  <2>4. {e \in armed : owner[e] = c} = {d}
    BY <2>1, DescriptorsFacts DEF Owned
  <2> QED BY <2>1, <2>3, <2>4, DescriptorsFacts DEF Listed
<1>2. CASE ~(\E d \in armed : owner[d] = c)
  BY <1>2 DEF Wake, KernelTypeOK, Listed
<1> QED BY <1>1, <1>2

LEMMA ConnectsInv ==
  ASSUME NEW D, KernelInv(D), listenfd \in D, NEW c \in Clients, Connects(c)
  PROVE  /\ KernelInv(D)'
         /\ Range(rdy') = Range(rdy) \cup {listenfd}
         /\ \A e \in Clients \ {c} : sock'[e] = sock[e]
         /\ \A d \in Fds : owner[d] # c
         /\ UNCHANGED owner
<1> USE DEF KernelInv, Connects
<1>1. /\ rdy' \in Seq(D) /\ IsInjective(rdy')
      /\ Range(rdy') = Range(rdy) \cup {listenfd}
  BY QueuedType DEF KernelTypeOK
<1>2. c \notin Range(backlog) /\ \A d \in Fds : owner[d] # c
  <2>1. "none" \notin Present
    BY DEF Present
  <2> QED BY <2>1, DescriptorsFacts DEF Waiting, Owned
<1>3. /\ backlog' \in Seq(Clients) /\ IsInjective(backlog')
      /\ Range(backlog') = Range(backlog) \cup {c}
  <2>1. backlog' = Queued(backlog, c)
    BY <1>2 DEF Queued
  <2> QED BY <2>1, QueuedType DEF KernelTypeOK, Waiting
<1>4. /\ sock' \in [Clients -> Socket]
      /\ sock'[c] = [sock[c] EXCEPT !.peer = "open"]
      /\ sock'[c].peer = "open" /\ sock'[c].err = sock[c].err
      /\ sock'[c].read = sock[c].read /\ sock'[c].sent = sock[c].sent
      /\ \A e \in Clients \ {c} : sock'[e] = sock[e]
  BY DEF KernelTypeOK, Socket
<1>5. KernelTypeOK(D)'
  BY <1>1, <1>3, <1>4 DEF KernelTypeOK
<1>6. Owned'
  BY <1>2, <1>4, DescriptorsFacts DEF Owned, KernelTypeOK
<1>7. Waiting'
  <2>1. \A e \in Range(backlog) : e \in Clients \ {c}
    BY <1>2 DEF KernelTypeOK, Range
  <2>2. "open" \in Present
    BY DEF Present
  <2> QED BY <1>2, <1>3, <1>4, <2>1, <2>2 DEF Waiting
<1>8. Listed'
  BY <1>1, DescriptorsFacts DEF Listed
<1>9. Errors'
  BY <1>4 DEF Errors
<1> QED BY <1>1, <1>2, <1>4, <1>5, <1>6, <1>7, <1>8, <1>9

(* What the other arrivals have in common.                                 *)
LEMMA ArrivesInv ==
  ASSUME NEW D, KernelInv(D), Fds \subseteq D, NEW armed \in SUBSET Fds,
         NEW c \in Clients, Sends(c, armed) \/ Leaves(c, armed) \/ Resets(c, armed)
  PROVE  /\ KernelInv(D)'
         /\ Range(rdy') = Range(rdy) \cup {d \in armed : owner[d] = c}
         /\ \A e \in Clients \ {c} : sock'[e] = sock[e]
         /\ sock[c].peer \in Present /\ sock'[c].peer \in Present
         /\ Readable(c)' /\ sock'[c].read = sock[c].read
         /\ UNCHANGED <<owner, backlog>>
<1>1. /\ rdy' \in Seq(D) /\ IsInjective(rdy')
      /\ Range(rdy') = Range(rdy) \cup {d \in armed : owner[d] = c}
      /\ \A d \in Range(rdy') : d \in Fds => owner[d] # NoClient
  BY WakeType DEF Sends, Leaves, Resets
<1>2. KernelTypeOK(D) /\ Errors
  BY DEF KernelInv
<1>3. sock \in [Clients -> Socket]
  BY <1>2 DEF KernelTypeOK
<1>4. /\ sock[c].sent \in Nat /\ sock[c].sent <= MaxSend /\ MaxSend \in Nat
      /\ sock[c].read \in Nat /\ sock[c].read <= sock[c].sent
  BY <1>2, SocketFacts
<1>5. PICK s \in Socket :
        /\ sock' = [sock EXCEPT ![c] = s]
        /\ sock[c].peer \in Present /\ s.peer \in Present
        /\ s.read = sock[c].read /\ s.sent \in Nat /\ sock[c].sent <= s.sent
        /\ s.peer # "open" \/ sock[c].sent < s.sent
        /\ s.err # "none" => s.peer = "rst"
  <2>1. CASE Sends(c, armed)
    <3> DEFINE s == [sock[c] EXCEPT !.sent = @ + 1]
    <3>1. sock' = [sock EXCEPT ![c] = s] /\ sock[c].peer = "open"
      BY <1>3, <2>1 DEF Sends
    <3>2. sock[c].sent + 1 \in 0 .. MaxSend
      BY <1>4, <2>1 DEF Sends
    <3>3. /\ s \in Socket
          /\ s.peer = sock[c].peer /\ s.err = sock[c].err
          /\ s.read = sock[c].read /\ s.sent = sock[c].sent + 1
      BY <1>3, <3>2 DEF Socket
    <3> HIDE DEF s
    <3>4. sock[c].err = "none"
      BY <1>2, <3>1 DEF Errors
    <3>5. s.sent \in Nat /\ sock[c].sent < s.sent
      BY <1>4, <3>3
    <3>6. sock[c].sent <= s.sent
      BY <1>4, <3>5
    <3> QED BY <3>1, <3>3, <3>4, <3>5, <3>6 DEF Present
  <2>2. CASE Leaves(c, armed)
    <3> DEFINE s == [sock[c] EXCEPT !.peer = "fin"]
    <3>1. sock' = [sock EXCEPT ![c] = s] /\ sock[c].peer = "open"
      BY <1>3, <2>2 DEF Leaves
    <3>2. /\ s \in Socket
          /\ s.peer = "fin" /\ s.err = sock[c].err
          /\ s.read = sock[c].read /\ s.sent = sock[c].sent
      BY <1>3 DEF Socket
    <3> HIDE DEF s
    <3>3. sock[c].err = "none"
      BY <1>2, <3>1 DEF Errors
    <3>4. sock[c].peer \in Present /\ s.peer \in Present
      BY <3>1, <3>2 DEF Present
    <3>5. s.sent \in Nat /\ sock[c].sent <= s.sent
      BY <1>4, <3>2
    <3> QED BY <3>1, <3>2, <3>3, <3>4, <3>5
  <2>3. CASE Resets(c, armed)
    <3> DEFINE e == IF sock[c].peer = "fin" THEN "EPIPE" ELSE "ECONNRESET"
               s == [sock[c] EXCEPT !.peer = "rst", !.err = e]
    <3>1. sock' = [sock EXCEPT ![c] = s] /\ sock[c].peer \in {"open", "fin"}
      BY <1>3, <2>3 DEF Resets
    <3>2. /\ s \in Socket
          /\ s.peer = "rst"
          /\ s.read = sock[c].read /\ s.sent = sock[c].sent
      BY <1>3 DEF Socket
    <3> HIDE DEF s
    <3>3. sock[c].peer \in Present /\ s.peer \in Present
      BY <3>1, <3>2 DEF Present
    <3>4. s.sent \in Nat /\ sock[c].sent <= s.sent
      BY <1>4, <3>2
    <3> QED BY <3>1, <3>2, <3>3, <3>4
  <2> QED BY <2>1, <2>2, <2>3
<1>6. UNCHANGED <<owner, backlog>>
  BY DEF Sends, Leaves, Resets
<1>7. s.read <= s.sent
  BY <1>4, <1>5
<1>8. KernelInv(D)'
  BY <1>1, <1>5, <1>6, <1>7, SocketStep
<1>9. sock'[c] = s /\ \A e \in Clients \ {c} : sock'[e] = sock[e]
  BY <1>3, <1>5
<1>10. Readable(c)'
  BY <1>4, <1>5, <1>9 DEF Readable, Unread
<1> QED BY <1>1, <1>5, <1>6, <1>8, <1>9, <1>10

-----------------------------------------------------------------------------
(* accept takes a descriptor that nobody has.                              *)
LEMMA LowestIsFree ==
  ASSUME Free # {}
  PROVE  LowestFree \in Free
<1>1. Free \subseteq Nat
  BY DescriptorsFacts DEF Free
<1>2. IsWellFoundedOn(OpToRel(<, Nat), Nat)
  BY NatLessThanWellFounded
<1>3. PICK d \in Free : \A e \in Free : ~(<<e, d>> \in OpToRel(<, Nat))
  BY <1>1, <1>2, WFMin
<1>4. ASSUME NEW e \in Free
      PROVE  d <= e
  <2>1. d \in Nat /\ e \in Nat
    BY <1>1
  <2>2. ASSUME e < d
        PROVE  FALSE
    <3>1. <<e, d>> \in OpToRel(<, Nat)
      BY <2>1, <2>2 DEF OpToRel
    <3> QED BY <1>3, <3>1
  <2> QED BY <2>1, <2>2
<1> QED BY <1>4 DEF LowestFree

LEMMA AcceptsInv ==
  ASSUME NEW D, KernelInv(D), Fds \subseteq D, Accepts
  PROVE  /\ KernelInv(D)'
         /\ LowestFree \in Fds /\ owner[LowestFree] = NoClient
         /\ backlog # <<>> /\ Head(backlog) \in Clients
         /\ \A d \in Fds : owner[d] # Head(backlog)
         /\ owner' = [owner EXCEPT ![LowestFree] = Head(backlog)]
         /\ Range(rdy') = Range(rdy) \cup
              (IF Readable(Head(backlog)) THEN {LowestFree} ELSE {})
         /\ UNCHANGED sock
<1> USE DEF KernelInv
<1> DEFINE d == LowestFree
           c == Head(backlog)
<1>1. d \in Fds /\ owner[d] = NoClient
  BY LowestIsFree DEF Accepts, Free
<1>2. /\ backlog # <<>> /\ c \in Clients
      /\ Tail(backlog) \in Seq(Clients) /\ IsInjective(Tail(backlog))
      /\ Range(Tail(backlog)) = Range(backlog) \ {c}
  BY TailType DEF Accepts, KernelTypeOK, Waiting
<1>3. c \in Range(backlog)
  <2>1. c = backlog[1] /\ 1 \in DOMAIN backlog
    BY <1>2, EmptySeq, LenProperties DEF KernelTypeOK
  <2> QED BY <2>1 DEF Range
<1>4. sock[c].peer \in Present /\ \A e \in Fds : owner[e] # c
  BY <1>3 DEF Waiting
<1> HIDE DEF d, c
<1>5. /\ owner' = [owner EXCEPT ![d] = c]
      /\ rdy' = IF Readable(c) THEN Queued(rdy, d) ELSE rdy
      /\ backlog' = Tail(backlog) /\ sock' = sock
  BY DEF Accepts, Look, d, c
<1>6. owner' \in [Fds -> Clients \cup {NoClient}]
  BY <1>1, <1>2, <1>5 DEF KernelTypeOK
<1>7. owner'[d] = c /\ \A e \in Fds \ {d} : owner'[e] = owner[e]
  BY <1>1, <1>5 DEF KernelTypeOK
<1>8. /\ rdy' \in Seq(D) /\ IsInjective(rdy')
      /\ Range(rdy') = Range(rdy) \cup (IF Readable(c) THEN {d} ELSE {})
  BY <1>1, <1>5, QueuedType DEF KernelTypeOK
<1>9. KernelTypeOK(D)'
  BY <1>2, <1>5, <1>6, <1>8 DEF KernelTypeOK
<1>10. Owned'
  <2>1. ASSUME NEW e \in Fds, NEW f \in Fds, owner'[e] = owner'[f], owner'[e] # NoClient
        PROVE  e = f
    BY <1>4, <1>7, <2>1 DEF Owned
  <2>2. ASSUME NEW e \in Fds, owner'[e] # NoClient
        PROVE  sock[owner'[e]].peer \in Present
    BY <1>4, <1>7, <2>2 DEF Owned
  <2> QED BY <1>5, <2>1, <2>2 DEF Owned
<1>11. Waiting'
  BY <1>2, <1>4, <1>5, <1>7 DEF Waiting
<1>12. Listed'
  BY <1>2, <1>7, <1>8, DescriptorsFacts DEF Listed
<1>13. Errors'
  BY <1>5 DEF Errors
<1> QED BY <1>1, <1>2, <1>4, <1>5, <1>8, <1>9, <1>10, <1>11, <1>12, <1>13 DEF d, c

LEMMA ReceivesInv ==
  ASSUME NEW D, KernelInv(D), NEW c \in Clients, NEW size \in Nat \ {0},
         Receives(c, size)
  PROVE  /\ KernelInv(D)'
         /\ \A e \in Clients \ {c} : sock'[e] = sock[e]
         /\ sock'[c].peer = sock[c].peer
         /\ Unread(c)' \in Nat
         /\ UNCHANGED <<owner, rdy, backlog>>
<1> USE DEF KernelInv
<1> DEFINE n == IF Unread(c) < size THEN sock[c].sent ELSE sock[c].read + size
           s == [sock[c] EXCEPT !.read = n]
<1>1. sock \in [Clients -> Socket] /\ sock[c] \in Socket
  BY DEF KernelTypeOK
<1>2. /\ sock[c].sent \in Nat /\ sock[c].sent <= MaxSend /\ MaxSend \in Nat
      /\ sock[c].read \in Nat /\ sock[c].read <= sock[c].sent
  BY SocketFacts
<1>3. n \in Nat /\ n <= sock[c].sent /\ n \in 0 .. MaxSend
  BY <1>2 DEF Unread
<1>4. sock' = [sock EXCEPT ![c] = s] /\ UNCHANGED <<owner, rdy, backlog>>
  BY <1>1 DEF Receives
<1> HIDE DEF n
<1>5. /\ s \in Socket /\ s.read = n
      /\ s.peer = sock[c].peer /\ s.err = sock[c].err /\ s.sent = sock[c].sent
  BY <1>1, <1>3 DEF Socket
<1> HIDE DEF s
<1>6. s.err # "none" => s.peer = "rst"
  BY <1>5 DEF Errors
<1>7. /\ rdy' \in Seq(D) /\ IsInjective(rdy')
      /\ \A d \in Range(rdy') : d \in Fds => owner[d] # NoClient
  BY <1>4 DEF KernelTypeOK, Listed
<1>8. KernelInv(D)'
  BY <1>3, <1>4, <1>5, <1>6, <1>7, SocketStep
<1>9. sock'[c] = s /\ \A e \in Clients \ {c} : sock'[e] = sock[e]
  BY <1>1, <1>4
<1>10. Unread(c)' \in Nat
  BY <1>2, <1>3, <1>5, <1>9 DEF Unread
<1> QED BY <1>4, <1>5, <1>8, <1>9, <1>10

(* close gives the descriptor back; the epoll set forgets it.              *)
LEMMA ClosesInv ==
  ASSUME NEW D, KernelInv(D), NEW d \in Fds, Closes(d)
  PROVE  /\ KernelInv(D)'
         /\ owner'[d] = NoClient
         /\ \A e \in Fds \ {d} : owner'[e] = owner[e]
         /\ \A c \in Clients : c # owner[d] => sock'[c] = sock[c]
         /\ Range(rdy') = Range(rdy) \ {d}
         /\ UNCHANGED backlog
<1> USE DEF KernelInv
<1>1. /\ owner' = [owner EXCEPT ![d] = NoClient]
      /\ rdy' \in Kept(rdy, Range(rdy) \ {d})
      /\ backlog' = backlog
  BY DEF Closes
<1>2. /\ owner' \in [Fds -> Clients \cup {NoClient}]
      /\ owner'[d] = NoClient
      /\ \A e \in Fds \ {d} : owner'[e] = owner[e]
  BY <1>1 DEF KernelTypeOK
<1>3. /\ rdy' \in Seq(D) /\ IsInjective(rdy')
      /\ Range(rdy') = Range(rdy) \ {d}
  <2>1. rdy \in Seq(D) /\ IsInjective(rdy)
    BY DEF KernelTypeOK
  <2>2. /\ rdy' \in Seq(D) /\ IsInjective(rdy')
        /\ Range(rdy') = Range(rdy) \cap (Range(rdy) \ {d})
    BY <1>1, <2>1, KeptType
  <2> QED BY <2>2
<1>4. /\ sock' \in [Clients -> Socket]
      /\ \A c \in Clients :
           /\ c # owner[d] => sock'[c] = sock[c]
           /\ sock'[c].sent = sock[c].sent /\ sock'[c].read = sock[c].read
           /\ sock'[c].err # "none" => sock'[c].peer = "rst"
  <2>1. CASE owner[d] = NoClient
    BY <2>1 DEF Closes, KernelTypeOK, Errors
  <2>2. CASE owner[d] # NoClient
    <3> DEFINE c == owner[d]
               s == [sock[c] EXCEPT !.peer = "closed", !.err = "none"]
    <3>1. c \in Clients /\ sock \in [Clients -> Socket]
      BY <2>2 DEF KernelTypeOK
    <3>2. sock' = [sock EXCEPT ![c] = s]
      BY <2>2, <3>1 DEF Closes
    <3>3. /\ s \in Socket /\ s.err = "none"
          /\ s.sent = sock[c].sent /\ s.read = sock[c].read
      BY <3>1 DEF Socket
    <3> HIDE DEF s
    <3> QED BY <3>1, <3>2, <3>3 DEF Errors
  <2> QED BY <2>1, <2>2
<1>5. KernelTypeOK(D)'
  BY <1>1, <1>2, <1>3, <1>4 DEF KernelTypeOK
<1>6. Owned'
  <2>1. \A e \in Fds \ {d} : owner[e] # NoClient => owner[e] # owner[d] /\ owner[e] \in Clients
    BY DEF Owned, KernelTypeOK
  <2> QED BY <1>2, <1>4, <2>1 DEF Owned
<1>7. Waiting'
  <2>1. \A c \in Range(backlog) : c \in Clients /\ c # owner[d] /\ \A e \in Fds : owner[e] # c
    BY DEF Waiting, KernelTypeOK, Range
  <2>2. \A c \in Range(backlog) : c # NoClient
    BY <2>1, DescriptorsFacts
  <2>3. ASSUME NEW c \in Range(backlog)
        PROVE  sock'[c].peer \in Present /\ \A e \in Fds : owner'[e] # c
    BY <1>2, <1>4, <2>1, <2>2 DEF Waiting
  <2> QED BY <1>1, <2>3 DEF Waiting
<1>8. Listed' /\ Errors'
  BY <1>2, <1>3, <1>4 DEF Listed, Errors
<1> QED BY <1>1, <1>2, <1>3, <1>4, <1>5, <1>6, <1>7, <1>8
=============================================================================
