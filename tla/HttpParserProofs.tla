-------------------------- MODULE HttpParserProofs --------------------------
(***************************************************************************)
(* Proofs about the HTTP parser, for every set of requests, every size of  *)
(* the buffer and every way of cutting a request into chunks: the indices  *)
(* keep their order (Indices), and the answer is that of the reference     *)
(* (Agrees), for which parse_requestline is shown to accept what the       *)
(* reference calls a request line, and the lines that were analysed to be  *)
(* those that the reference finds.                                         *)
(***************************************************************************)
EXTENDS HttpParser, SequenceTheorems, WellFoundedInduction, TLAPS

-----------------------------------------------------------------------------
(* Numbers and sequences *)

(* A set of natural numbers that is not empty has a least one.             *)
LEMMA Least ==
  ASSUME NEW S \in SUBSET Nat, S # {}
  PROVE  Min(S) \in S /\ \A k \in S : Min(S) <= k
<1>1. IsWellFoundedOn(OpToRel(<, Nat), Nat)
  BY NatLessThanWellFounded
<1>2. PICK m \in S : \A k \in S : ~(<<k, m>> \in OpToRel(<, Nat))
  BY <1>1, WFMin
<1>3. ASSUME NEW k \in S
      PROVE  m <= k
  <2>1. k \in Nat /\ m \in Nat
    OBVIOUS
  <2>2. ASSUME k < m PROVE FALSE
    <3>1. <<k, m>> \in OpToRel(<, Nat)
      BY <2>1, <2>2 DEF OpToRel
    <3> QED BY <1>2, <3>1
  <2> QED BY <2>1, <2>2
<1>4. \E x \in S : \A k \in S : x <= k
  BY <1>3
<1> QED BY <1>4 DEF Min

(* The part of a sequence from position a to position b.                   *)
LEMMA PartOf ==
  ASSUME NEW S, NEW s \in Seq(S), NEW a \in Nat, NEW b \in Int, a >= 1, b <= Len(s)
  PROVE  /\ SubSeq(s, a, b) \in Seq(S)
         /\ Len(SubSeq(s, a, b)) = IF a <= b THEN b - a + 1 ELSE 0
         /\ \A k \in 1 .. b - a + 1 : SubSeq(s, a, b)[k] = s[a + k - 1]
<1>1. \A k \in a .. b : s[k] \in S
  BY ElementOfSeq, LenProperties
<1> QED BY <1>1, SubSeqProperties

(* Parts of two sequences that agree there are equal.                      *)
LEMMA SamePart ==
  ASSUME NEW S, NEW s \in Seq(S), NEW t \in Seq(S), NEW a \in Nat, NEW b \in Int,
         a >= 1, b <= Len(s), b <= Len(t), \A k \in a .. b : s[k] = t[k]
  PROVE  SubSeq(s, a, b) = SubSeq(t, a, b)
<1>1. /\ SubSeq(s, a, b) \in Seq(S)
      /\ Len(SubSeq(s, a, b)) = IF a <= b THEN b - a + 1 ELSE 0
      /\ \A k \in 1 .. b - a + 1 : SubSeq(s, a, b)[k] = s[a + k - 1]
  BY PartOf
<1>2. /\ SubSeq(t, a, b) \in Seq(S)
      /\ Len(SubSeq(t, a, b)) = IF a <= b THEN b - a + 1 ELSE 0
      /\ \A k \in 1 .. b - a + 1 : SubSeq(t, a, b)[k] = t[a + k - 1]
  BY PartOf
<1>3. \A k \in 1 .. b - a + 1 : a + k - 1 \in a .. b
  OBVIOUS
<1>4. \A k \in 1 .. b - a + 1 : SubSeq(s, a, b)[k] = SubSeq(t, a, b)[k]
  BY <1>1, <1>2, <1>3
<1>5. \A k \in 1 .. Len(SubSeq(s, a, b)) : k \in 1 .. b - a + 1
  BY <1>1
<1> QED BY <1>1, <1>2, <1>4, <1>5, SeqEqual

(* One thing after another.                                                *)
LEMMA Joined ==
  ASSUME NEW S, NEW s \in Seq(S), NEW t \in Seq(S)
  PROVE  /\ s \o t \in Seq(S) /\ Len(s \o t) = Len(s) + Len(t)
         /\ \A j \in 1 .. Len(s) : (s \o t)[j] = s[j]
         /\ \A j \in Len(s) + 1 .. Len(s) + Len(t) : (s \o t)[j] = t[j - Len(s)]
<1>1. Len(s) \in Nat /\ Len(t) \in Nat
  BY LenProperties
<1>2. /\ s \o t \in Seq(S) /\ Len(s \o t) = Len(s) + Len(t)
      /\ \A j \in 1 .. Len(s) + Len(t) :
           (s \o t)[j] = IF j <= Len(s) THEN s[j] ELSE t[j - Len(s)]
  BY ConcatProperties
<1>3. \A j \in 1 .. Len(s) : j \in 1 .. Len(s) + Len(t) /\ j <= Len(s)
  BY <1>1
<1>4. \A j \in Len(s) + 1 .. Len(s) + Len(t) :
        j \in 1 .. Len(s) + Len(t) /\ ~(j <= Len(s))
  BY <1>1
<1> QED BY <1>2, <1>3, <1>4

-----------------------------------------------------------------------------
(* The indices *)

(* Behind the start of the line there is a NUL, never a CR (line 56).      *)
NulBehind == start_line > 0 => Byte(start_line - 1) = "NUL"

ReadIsSent == read_index <= Len(request)

Indices == TypeOK /\ IndexOrder /\ NulBehind /\ ReadIsSent

LEMMA IndexTypes ==
  ASSUME TypeOK
  PROVE  /\ read_index \in Nat /\ checked_index \in Nat /\ start_line \in Nat
         /\ Len(buffer) = read_index /\ buffer \in Seq(Token)
         /\ request \in Seq(Token) /\ Len(request) \in Nat
         /\ BUFFER_SIZE \in Nat
  BY HttpAssumption, LenProperties DEF TypeOK

(* The first CR or LF that is not analysed yet.                            *)
LEMMA FirstStop ==
  ASSUME TypeOK, Stops # {}
  PROVE  /\ Min(Stops) \in checked_index .. read_index - 1
         /\ Byte(Min(Stops)) \in {"CR", "LF"}
         /\ \A j \in checked_index .. Min(Stops) - 1 : Byte(j) \notin {"CR", "LF"}
<1>1. checked_index \in Nat /\ read_index \in Nat
  BY IndexTypes
<1>2. Stops \in SUBSET Nat
  BY <1>1 DEF Stops
<1>3. Min(Stops) \in Stops /\ \A k \in Stops : Min(Stops) <= k
  BY <1>2, Least
<1>4. PICK m \in Nat : m = Min(Stops)
  BY <1>2, <1>3
<1>5. m \in checked_index .. read_index - 1 /\ Byte(m) \in {"CR", "LF"}
  BY <1>3, <1>4 DEF Stops
<1>6. ASSUME NEW j \in checked_index .. m - 1
      PROVE  Byte(j) \notin {"CR", "LF"}
  <2>1. j \in checked_index .. read_index - 1 /\ ~(m <= j)
    BY <1>1, <1>5
  <2> QED BY <1>3, <1>4, <2>1 DEF Stops
<1> QED BY <1>4, <1>5, <1>6

(* Why no LF that the scan meets has its CR behind it: that CR would have  *)
(* been met first, or is a NUL by now.                                     *)
LEMMA LfIsStray ==
  ASSUME Indices, Stops # {}, Byte(Min(Stops)) = "LF"
  PROVE  Min(Stops) = 0 \/ Byte(Min(Stops) - 1) # "CR"
<1>1. /\ read_index \in Nat /\ checked_index \in Nat /\ start_line \in Nat
      /\ start_line <= checked_index
  BY IndexTypes DEF Indices, IndexOrder
<1>2. PICK m \in Nat : /\ m = Min(Stops) /\ m >= checked_index
                       /\ \A j \in checked_index .. m - 1 : Byte(j) \notin {"CR", "LF"}
  BY <1>1, FirstStop DEF Indices
<1>3. CASE m - 1 >= checked_index
  BY <1>1, <1>2, <1>3
<1>4. CASE m = checked_index /\ m - 1 >= start_line
  <2>1. m - 1 \in start_line .. checked_index - 1
    BY <1>1, <1>2, <1>4
  <2> QED BY <1>2, <2>1 DEF Indices, IndexOrder
<1>5. CASE m = checked_index /\ m = start_line
  BY <1>1, <1>2, <1>5 DEF Indices, NulBehind
<1>6. m - 1 >= checked_index \/ (m = checked_index /\ m - 1 >= start_line)
        \/ (m = checked_index /\ m = start_line)
  BY <1>1, <1>2
<1> QED BY <1>3, <1>4, <1>5, <1>6

(* What parse_line returns (lines 32-77): from checked_index to the new    *)
(* one, or to the CR of the line, there is neither CR nor LF; and either   *)
(* the data ends there, perhaps with a CR, or a line does, or there is a   *)
(* CR or LF without its partner.                                           *)
Clean(from, to) == \A j \in from .. to - 1 : Byte(j) \notin {"CR", "LF"}

EndsData(p) ==
  /\ p.checked \in checked_index .. read_index
  /\ Clean(checked_index, p.checked)
  /\ \/ p.checked = read_index
     \/ p.checked = read_index - 1 /\ Byte(p.checked) = "CR"

EndsLine(p) ==
  /\ p.checked \in checked_index + 2 .. read_index
  /\ Clean(checked_index, p.checked - 2)
  /\ Byte(p.checked - 2) = "CR" /\ Byte(p.checked - 1) = "LF"
  /\ p.nuls = {p.checked - 2, p.checked - 1}

FindsStray(p) ==
  /\ p.checked \in checked_index .. read_index - 1
  /\ Clean(checked_index, p.checked)
  /\ \/ /\ Byte(p.checked) = "CR"
        /\ p.checked + 1 < read_index /\ Byte(p.checked + 1) # "LF"
     \/ /\ Byte(p.checked) = "LF"
        /\ p.checked = 0 \/ Byte(p.checked - 1) # "CR"

LEMMA LineIsFound ==
  ASSUME Indices
  PROVE  \/ parse_line.status = "OPEN" /\ EndsData(parse_line)
         \/ parse_line.status = "OK" /\ EndsLine(parse_line)
         \/ parse_line.status = "BAD" /\ FindsStray(parse_line)
<1>1. /\ read_index \in Nat /\ checked_index \in Nat
      /\ checked_index <= read_index
  BY IndexTypes DEF Indices, IndexOrder
<1>2. CASE Stops = {}
  <2>1. parse_line = Line("OPEN", read_index, {})
    BY <1>2 DEF parse_line
  <2>2. Clean(checked_index, read_index)
    BY <1>2 DEF Stops, Clean
  <2> QED BY <1>1, <2>1, <2>2 DEF Line, EndsData
<1>3. CASE Stops # {}
  <2>1. PICK m \in Nat :
          /\ m = Min(Stops) /\ m \in checked_index .. read_index - 1
          /\ Byte(m) \in {"CR", "LF"} /\ Clean(checked_index, m)
          /\ Byte(m) = "LF" => m = 0 \/ Byte(m - 1) # "CR"
    BY <1>1, <1>3, FirstStop, LfIsStray DEF Indices, Clean
  <2>2. CASE Byte(m) = "CR" /\ m + 1 = read_index
    <3>1. parse_line = Line("OPEN", m, {})
      BY <1>3, <2>1, <2>2 DEF parse_line, WaitAt
    <3>2. m = read_index - 1 /\ m \in checked_index .. read_index
      BY <1>1, <2>1, <2>2
    <3> QED BY <2>1, <2>2, <3>1, <3>2 DEF Line, EndsData
  <2>3. CASE Byte(m) = "CR" /\ m + 1 # read_index /\ Byte(m + 1) = "LF"
    <3>1. parse_line = Line("OK", m + 2, {m, m + 1})
      BY <1>3, <2>1, <2>3 DEF parse_line
    <3>2. /\ m + 2 \in checked_index + 2 .. read_index
          /\ (m + 2) - 2 = m /\ (m + 2) - 1 = m + 1
      BY <1>1, <2>1, <2>3
    <3> QED BY <2>1, <2>3, <3>1, <3>2 DEF Line, EndsLine
  <2>4. CASE Byte(m) = "CR" /\ m + 1 # read_index /\ Byte(m + 1) # "LF"
    <3>1. parse_line = Line("BAD", m, {})
      BY <1>3, <2>1, <2>4 DEF parse_line
    <3>2. m + 1 < read_index
      BY <1>1, <2>1, <2>4
    <3> QED BY <2>1, <2>4, <3>1, <3>2 DEF Line, FindsStray
  <2>5. CASE Byte(m) = "LF"
    <3>1. ~(m > 1 /\ Byte(m - 1) = "CR")
      BY <2>1, <2>5
    <3>2. parse_line = Line("BAD", m, {})
      BY <1>3, <2>1, <2>5, <3>1 DEF parse_line
    <3> QED BY <2>1, <2>5, <3>2 DEF Line, FindsStray
  <2> QED BY <2>1, <2>2, <2>3, <2>4, <2>5
<1> QED BY <1>2, <1>3

-----------------------------------------------------------------------------
(* The steps *)

(* A chunk is put behind what was read (line 258).                         *)
LEMMA ChunkRead ==
  ASSUME Indices, NEW n \in 1 .. Room, read_index + n <= Len(request)
  PROVE  LET all == buffer \o SubSeq(request, read_index + 1, read_index + n)
         IN  /\ all \in Seq(Token) /\ Len(all) = read_index + n
             /\ \A k \in 1 .. read_index : all[k] = buffer[k]
             /\ \A k \in read_index + 1 .. read_index + n : all[k] = request[k]
<1> DEFINE chunk == SubSeq(request, read_index + 1, read_index + n)
           all == buffer \o chunk
<1>1. /\ read_index \in Nat /\ buffer \in Seq(Token) /\ Len(buffer) = read_index
      /\ request \in Seq(Token) /\ n \in Nat /\ n >= 1
  BY IndexTypes DEF Indices, Room
<1>2. /\ chunk \in Seq(Token) /\ Len(chunk) = n
      /\ \A k \in 1 .. n : chunk[k] = request[read_index + k]
  <2>1. /\ read_index + 1 \in Nat /\ read_index + n \in Int
        /\ read_index + 1 >= 1 /\ read_index + 1 <= read_index + n
        /\ (read_index + n) - (read_index + 1) + 1 = n
        /\ \A k \in 1 .. n : (read_index + 1) + k - 1 = read_index + k
    BY <1>1
  <2>2. /\ chunk \in Seq(Token)
        /\ Len(chunk) = IF read_index + 1 <= read_index + n
                          THEN (read_index + n) - (read_index + 1) + 1 ELSE 0
        /\ \A k \in 1 .. (read_index + n) - (read_index + 1) + 1 :
             chunk[k] = request[(read_index + 1) + k - 1]
    BY <1>1, <2>1, PartOf
  <2> HIDE DEF chunk
  <2> QED BY <2>1, <2>2
<1> HIDE DEF chunk
<1>3. PICK b \in Seq(Token), c \in Seq(Token), r \in Nat :
        b = buffer /\ c = chunk /\ r = read_index /\ Len(b) = r /\ Len(c) = n
  BY <1>1, <1>2
<1>4. /\ b \o c \in Seq(Token) /\ Len(b \o c) = Len(b) + Len(c)
      /\ \A k \in 1 .. Len(b) : (b \o c)[k] = b[k]
      /\ \A k \in Len(b) + 1 .. Len(b) + Len(c) : (b \o c)[k] = c[k - Len(b)]
  BY Joined
<1>5. ASSUME NEW k \in r + 1 .. r + n
      PROVE  (b \o c)[k] = request[k]
  <2>1. k \in Len(b) + 1 .. Len(b) + Len(c) /\ k - Len(b) = k - r
    BY <1>1, <1>3
  <2>2. k - r \in 1 .. n /\ r + (k - r) = k
    BY <1>1
  <2>3. (b \o c)[k] = c[k - r]
    BY <1>4, <2>1
  <2>4. chunk[k - r] = request[r + (k - r)]
    BY <1>2, <1>3, <2>2
  <2> QED BY <1>3, <2>2, <2>3, <2>4
<1>6. Len(b \o c) = r + n /\ \A k \in 1 .. r : (b \o c)[k] = b[k]
  BY <1>3, <1>4
<1>7. all = b \o c
  BY <1>3
<1> HIDE DEF all
<1>8. /\ all \in Seq(Token) /\ Len(all) = read_index + n
      /\ \A k \in 1 .. read_index : all[k] = buffer[k]
      /\ \A k \in read_index + 1 .. read_index + n : all[k] = request[k]
  BY <1>3, <1>4, <1>5, <1>6, <1>7
<1> QED BY <1>8 DEF all, chunk

(* The line that ParseLine analyses is complete, and its end is erased.    *)
LEMMA LineIsErased ==
  ASSUME Indices, ParseLine
  PROVE  \E p \in {parse_line} :
           /\ EndsLine(p)
           /\ checked_index' = p.checked /\ start_line' = p.checked
           /\ UNCHANGED <<request, closed, read_index>>
           /\ buffer' \in Seq(Token) /\ Len(buffer') = read_index
           /\ buffer'[p.checked] = "NUL"
           /\ \A k \in p.checked + 1 .. read_index : buffer'[k] = buffer[k]
<1>1. PICK p \in {parse_line} :
        /\ p.status = "OK"
        /\ buffer' = [k \in 1 .. read_index |->
                        IF k - 1 \in p.nuls THEN "NUL" ELSE buffer[k]]
        /\ checked_index' = p.checked
        /\ start_line' = p.checked
  BY DEF ParseLine
<1>2. EndsLine(p)
  BY <1>1, LineIsFound
<1>3. /\ read_index \in Nat /\ checked_index \in Nat
      /\ buffer \in Seq(Token) /\ Len(buffer) = read_index
  BY IndexTypes DEF Indices
<1>4. PICK c \in Nat : /\ c = p.checked /\ c - 2 \in Nat /\ c <= read_index
                       /\ p.nuls = {c - 2, c - 1}
  BY <1>2, <1>3 DEF EndsLine
<1>5. \A k \in 1 .. read_index : buffer[k] \in Token
  BY <1>3, ElementOfSeq
<1>6. \A k \in 1 .. read_index :
        (IF k - 1 \in p.nuls THEN "NUL" ELSE buffer[k]) \in Token
  BY <1>5 DEF Token
<1>7. buffer' \in [1 .. read_index -> Token]
  BY <1>1, <1>6
<1>8. buffer' \in Seq(Token) /\ Len(buffer') = read_index
  BY <1>3, <1>7, SeqDef
<1>9. buffer'[c] = "NUL"
  <2>1. c \in 1 .. read_index /\ c - 1 \in p.nuls
    BY <1>3, <1>4
  <2> QED BY <1>1, <2>1
<1>10. \A k \in c + 1 .. read_index : buffer'[k] = buffer[k]
  <2>1. \A k \in c + 1 .. read_index : k \in 1 .. read_index /\ k - 1 \notin p.nuls
    BY <1>3, <1>4
  <2> QED BY <1>1, <2>1
<1> QED BY <1>1, <1>2, <1>4, <1>8, <1>9, <1>10 DEF ParseLine

(* What depends on the buffer behind start_line only.                      *)
LEMMA CleanKept ==
  ASSUME NEW from \in Nat, NEW to \in Int, Clean(from, to),
         \A k \in from + 1 .. to : buffer'[k] = buffer[k]
  PROVE  \A j \in from .. to - 1 : Byte(j)' \notin {"CR", "LF"}
<1> SUFFICES ASSUME NEW j \in from .. to - 1
             PROVE  Byte(j)' \notin {"CR", "LF"}
  OBVIOUS
<1>1. j + 1 \in from + 1 .. to
  OBVIOUS
<1> QED BY <1>1 DEF Clean, Byte

LEMMA IndicesInit == Init => Indices
<1> SUFFICES ASSUME Init PROVE Indices
  OBVIOUS
<1>1. request \in Seq(Token) /\ Len(request) \in Nat /\ BUFFER_SIZE \in Nat
  BY HttpAssumption, LenProperties DEF Init
<1>2. buffer \in Seq(Token) /\ Len(buffer) = 0
  BY EmptySeq DEF Init
<1>3. TypeOK
  <2>1. /\ pc = "recv" /\ closed = FALSE /\ checkstate = "REQUESTLINE"
        /\ read_index = 0 /\ checked_index = 0 /\ start_line = 0
        /\ result = "NO_REQUEST"
    BY DEF Init
  <2>2. {read_index, checked_index, start_line} \subseteq 0 .. BUFFER_SIZE
    BY <1>1, <2>1
  <2> QED BY <1>1, <1>2, <2>1, <2>2, Zenon DEF TypeOK
<1>4. IndexOrder /\ NulBehind /\ ReadIsSent
  BY <1>1 DEF Init, IndexOrder, NulBehind, ReadIsSent
<1> QED BY <1>3, <1>4 DEF Indices

LEMMA IndicesRecv ==
  ASSUME Indices, Recv
  PROVE  Indices'
<1>1. PICK n \in 1 .. Room :
        /\ read_index + n <= Len(request)
        /\ buffer' = buffer \o SubSeq(request, read_index + 1, read_index + n)
        /\ read_index' = read_index + n
  BY DEF Recv
<1>2. /\ buffer' \in Seq(Token) /\ Len(buffer') = read_index + n
      /\ \A k \in 1 .. read_index : buffer'[k] = buffer[k]
  BY <1>1, ChunkRead
<1>3. /\ read_index \in Nat /\ checked_index \in Nat /\ start_line \in Nat
      /\ n \in Nat /\ read_index + n <= BUFFER_SIZE /\ BUFFER_SIZE \in Nat
      /\ start_line <= checked_index /\ checked_index <= read_index
  BY IndexTypes DEF Indices, Room, IndexOrder
<1>4. /\ UNCHANGED <<request, closed, checked_index, start_line, checkstate, result>>
      /\ pc' = "parse"
  BY DEF Recv
<1>5. TypeOK'
  BY <1>1, <1>2, <1>3, <1>4 DEF Indices, TypeOK
<1>6. \A j \in start_line .. checked_index - 1 : Byte(j)' \notin {"CR", "LF"}
  <2>1. Clean(start_line, checked_index)
    BY DEF Indices, IndexOrder, Clean
  <2>2. \A k \in start_line + 1 .. checked_index : buffer'[k] = buffer[k]
    BY <1>2, <1>3
  <2> QED BY <1>3, <2>1, <2>2, CleanKept
<1>7. IndexOrder'
  <2>1. start_line' <= checked_index' /\ checked_index' <= read_index'
    BY <1>1, <1>3, <1>4
  <2>2. \A j \in start_line' .. checked_index' - 1 : Byte(j)' \notin {"CR", "LF"}
    BY <1>4, <1>6
  <2> QED BY <2>1, <2>2, Zenon DEF IndexOrder
<1>8. NulBehind'
  <2>1. start_line > 0 => (start_line - 1) + 1 \in 1 .. read_index
    BY <1>3
  <2> QED BY <1>2, <1>4, <2>1 DEF Indices, NulBehind, Byte
<1>9. ReadIsSent'
  BY <1>1, <1>4 DEF ReadIsSent
<1> QED BY <1>5, <1>7, <1>8, <1>9 DEF Indices

LEMMA IndicesParseLine ==
  ASSUME Indices, ParseLine
  PROVE  Indices'
<1>1. PICK c \in Nat :
        /\ checked_index' = c /\ start_line' = c /\ c >= 2 /\ c <= read_index
        /\ UNCHANGED <<request, closed, read_index>>
        /\ buffer' \in Seq(Token) /\ Len(buffer') = read_index /\ buffer'[c] = "NUL"
  <2>1. PICK p \in {parse_line} :
          /\ EndsLine(p)
          /\ checked_index' = p.checked /\ start_line' = p.checked
          /\ UNCHANGED <<request, closed, read_index>>
          /\ buffer' \in Seq(Token) /\ Len(buffer') = read_index
          /\ buffer'[p.checked] = "NUL"
    BY LineIsErased
  <2>2. p.checked \in Nat /\ p.checked >= 2 /\ p.checked <= read_index
    BY <2>1, IndexTypes DEF EndsLine, Indices
  <2> QED BY <2>1, <2>2
<1>2. /\ read_index \in Nat /\ BUFFER_SIZE \in Nat /\ read_index <= BUFFER_SIZE
  BY IndexTypes DEF Indices, TypeOK
<1>3. /\ pc' \in {"recv", "parse", "done"}
      /\ checkstate' \in {"REQUESTLINE", "HEADER"}
      /\ result' \in {"NO_REQUEST", "GET_REQUEST", "BAD_REQUEST"}
  BY DEF ParseLine, Answer, Indices, TypeOK
<1>4. TypeOK'
  BY <1>1, <1>2, <1>3 DEF Indices, TypeOK
<1>5. IndexOrder'
  BY <1>1, <1>2 DEF IndexOrder
<1>6. NulBehind'
  <2>1. (c - 1) + 1 = c
    OBVIOUS
  <2> QED BY <1>1, <2>1 DEF NulBehind, Byte
<1>7. ReadIsSent'
  BY <1>1 DEF Indices, ReadIsSent
<1> QED BY <1>4, <1>5, <1>6, <1>7 DEF Indices

(* The scan goes on over what it has found clean, or stops in front of it. *)
LEMMA IndicesScan ==
  ASSUME Indices, LineOpen \/ LineBad
  PROVE  Indices'
<1>1. PICK c \in Nat :
        /\ checked_index' = c /\ c \in checked_index .. read_index
        /\ Clean(checked_index, c)
  <2>1. CASE LineOpen
    <3>1. EndsData(parse_line) /\ checked_index' = parse_line.checked
      BY <2>1, LineIsFound DEF LineOpen
    <3> QED BY <3>1, IndexTypes DEF EndsData, Indices
  <2>2. CASE LineBad
    <3>1. FindsStray(parse_line) /\ checked_index' = parse_line.checked
      BY <2>2, LineIsFound DEF LineBad
    <3>2. parse_line.checked \in checked_index .. read_index
      BY <3>1, IndexTypes DEF FindsStray, Indices
    <3> QED BY <3>1, <3>2, IndexTypes DEF FindsStray, Indices
  <2> QED BY <2>1, <2>2
<1>2. /\ UNCHANGED <<request, closed, buffer, read_index, start_line, checkstate>>
      /\ pc' \in {"recv", "done"}
      /\ result' \in {"NO_REQUEST", "GET_REQUEST", "BAD_REQUEST"}
  BY DEF LineOpen, LineBad, Answer, Indices, TypeOK
<1>3. /\ read_index \in Nat /\ checked_index \in Nat /\ start_line \in Nat
      /\ BUFFER_SIZE \in Nat /\ read_index <= BUFFER_SIZE
      /\ start_line <= checked_index
  BY IndexTypes DEF Indices, TypeOK, IndexOrder
<1>4. TypeOK'
  BY <1>1, <1>2, <1>3 DEF Indices, TypeOK
<1>5. IndexOrder'
  <2>1. ASSUME NEW j \in start_line .. c - 1
        PROVE  Byte(j) \notin {"CR", "LF"}
    <3>1. j \in start_line .. checked_index - 1 \/ j \in checked_index .. c - 1
      BY <1>1, <1>3
    <3> QED BY <1>1, <3>1 DEF Indices, IndexOrder, Clean
  <2> QED BY <1>1, <1>2, <1>3, <2>1 DEF IndexOrder, Byte
<1>6. NulBehind' /\ ReadIsSent'
  BY <1>2 DEF Indices, NulBehind, ReadIsSent, Byte
<1> QED BY <1>4, <1>5, <1>6 DEF Indices

LEMMA IndicesNext == Indices /\ [Next]_vars => Indices'
<1> SUFFICES ASSUME Indices, [Next]_vars PROVE Indices'
  OBVIOUS
<1>1. CASE UNCHANGED <<request, buffer, indices, checkstate, result>>
           /\ pc' \in {"recv", "parse", "done"} /\ closed' \in BOOLEAN
  BY <1>1 DEF indices, Indices, TypeOK, IndexOrder, NulBehind, ReadIsSent, Byte
<1>2. CASE RecvZero \/ RecvFails \/ ClientCloses \/ UNCHANGED vars
  BY <1>1, <1>2 DEF RecvZero, RecvFails, ClientCloses, vars, Indices, TypeOK
<1> QED
  BY <1>2, IndicesRecv, IndicesParseLine, IndicesScan DEF Next, ServerStep

LEMMA IndicesAlways == Spec => []Indices
  BY IndicesInit, IndicesNext, PTL DEF Spec

(* The buffer is never overrun: no index exceeds its size (line 258).      *)
THEOREM TypeCorrect == Spec => []TypeOK
<1>1. Indices => TypeOK
  BY DEF Indices
<1> QED BY <1>1, IndicesAlways, PTL

(* No end of line is passed over or seen twice, however the request is cut *)
(* into chunks (lines 35-38, 166-169).                                     *)
THEOREM IndicesInOrder == Spec => []IndexOrder
<1>1. Indices => IndexOrder
  BY DEF Indices
<1> QED BY <1>1, IndicesAlways, PTL

(* An LF that the scan meets never has its CR behind it, for every request *)
(* and every chunking: the branch of lines 66-71 is not taken.             *)
THEOREM LfNeverHasItsCr == Spec => []LfAlwaysStray
<1>1. Indices => LfAlwaysStray
  BY LfIsStray DEF LfAlwaysStray
<1> QED BY <1>1, IndicesAlways, PTL

-----------------------------------------------------------------------------
(* The request line: what the parser looks for and what the reference      *)
(* says are the same form, with m and n blanks and a URL that ends at k.   *)

HasForm(line, m, k, n) ==
  /\ m >= 1 /\ n >= 1 /\ k >= m + 2
  /\ Len(line) = k + n + 1
  /\ line[1] = "GET" /\ line[k + n + 1] = "HTTP/1.1"
  /\ \A j \in 2 .. m + 1 : line[j] = "SP"
  /\ \A j \in m + 2 .. k : line[j] # "SP"
  /\ \A j \in k + 1 .. k + n : line[j] = "SP"
  /\ UrlOk(SubSeq(line, m + 2, k))

LEMMA One ==
  ASSUME NEW S, NEW x \in S
  PROVE  <<x>> \in Seq(S) /\ Len(<<x>>) = 1 /\ <<x>>[1] = x
  OBVIOUS

(* A part of a sequence that has one element.                              *)
LEMMA PartOfOne ==
  ASSUME NEW S, NEW s \in Seq(S), NEW a \in Nat, NEW b \in Int, a >= 1, b <= Len(s),
         NEW x
  PROVE  SubSeq(s, a, b) = <<x>> <=> a = b /\ s[a] = x
<1>1. /\ SubSeq(s, a, b) \in Seq(S)
      /\ Len(SubSeq(s, a, b)) = IF a <= b THEN b - a + 1 ELSE 0
      /\ \A k \in 1 .. b - a + 1 : SubSeq(s, a, b)[k] = s[a + k - 1]
  BY PartOf
<1>2. ASSUME SubSeq(s, a, b) = <<x>>
      PROVE  a = b /\ s[a] = x
  <2>1. Len(SubSeq(s, a, b)) = 1 /\ SubSeq(s, a, b)[1] = x
    BY <1>2
  <2>2. a = b
    BY <1>1, <2>1
  <2>3. 1 \in 1 .. b - a + 1 /\ a + 1 - 1 = a
    BY <2>2
  <2> QED BY <1>1, <2>1, <2>2, <2>3
<1>3. ASSUME a = b, s[a] = x
      PROVE  SubSeq(s, a, b) = <<x>>
  <2>1. Len(SubSeq(s, a, b)) = 1 /\ 1 \in 1 .. b - a + 1 /\ a + 1 - 1 = a
    BY <1>1, <1>3
  <2>2. SubSeq(s, a, b)[1] = x
    BY <1>1, <1>3, <2>1
  <2>3. x \in S
    <3>1. a \in 1 .. Len(s)
      BY <1>3, LenProperties
    <3> QED BY <1>3, <3>1, ElementOfSeq
  <2>4. <<x>> \in Seq(S) /\ Len(<<x>>) = 1 /\ <<x>>[1] = x
    BY <2>3
  <2>5. \A k \in 1 .. 1 : k = 1
    OBVIOUS
  <2> QED BY <1>1, <2>1, <2>2, <2>4, <2>5, SeqEqual
<1> QED BY <1>2, <1>3

LEMMA FirstOnly ==
  ASSUME NEW S, NEW s \in Seq(S), NEW b \in Int, b <= Len(s), NEW x,
         SubSeq(s, 1, b) = <<x>>
  PROVE  b = 1 /\ s[1] = x
<1>1. PICK a \in Nat : a = 1 /\ a >= 1
  OBVIOUS
<1> QED BY <1>1, PartOfOne

LEMMA ParserSeesForm ==
  ASSUME NEW line \in Seq(Token)
  PROVE  parse_requestline(line) <=> \E m, k, n \in Nat : HasForm(line, m, k, n)
<1> DEFINE blanks == {j \in 1 .. Len(line) : line[j] = "SP"}
           others == (1 .. Len(line)) \ blanks
<1>0. Len(line) \in Nat
  BY LenProperties
<1>1. ASSUME parse_requestline(line)
      PROVE  \E m, k, n \in Nat : HasForm(line, m, k, n)
  <2>1. PICK g \in blanks, v \in blanks, u \in others, w \in others :
          /\ IsNext(g, blanks, 0) /\ IsNext(u, others, g)
          /\ IsNext(v, blanks, u) /\ IsNext(w, others, v)
          /\ UpTo(line, g) = <<"GET">>
          /\ From(line, w) = <<"HTTP/1.1">>
          /\ UrlOk(SubSeq(line, u, v - 1))
    BY <1>1 DEF parse_requestline
  <2>2. /\ g \in 1 .. Len(line) /\ v \in 1 .. Len(line)
        /\ u \in 1 .. Len(line) /\ w \in 1 .. Len(line)
    OBVIOUS
  <2>3. g = 2 /\ line[1] = "GET"
    <3> HIDE DEF blanks, others
    <3>1. PICK b \in Int : b = g - 1 /\ b <= Len(line)
      BY <1>0, <2>2
    <3>2. SubSeq(line, 1, b) = <<"GET">>
      BY <2>1, <3>1 DEF UpTo
    <3>3. b <= Len(line)
      BY <3>1
    <3>4. b = 1 /\ line[1] = "GET"
      BY <3>2, <3>3, FirstOnly
    <3> QED BY <2>2, <3>1, <3>4
  <2>4. w = Len(line) /\ line[w] = "HTTP/1.1"
    <3> HIDE DEF blanks, others
    <3>1. w \in Nat /\ w >= 1
      BY <1>0, <2>2
    <3>2. PICK b \in Int : b = Len(line) /\ b <= Len(line)
      BY <1>0
    <3>3. SubSeq(line, w, b) = <<"HTTP/1.1">>
      BY <2>1, <3>2 DEF From
    <3>4. w = b /\ line[w] = "HTTP/1.1"
      BY <3>1, <3>2, <3>3, PartOfOne
    <3> QED BY <3>2, <3>4
  <2>5. /\ u > 2 /\ v > u /\ w > v
    BY <2>1, <2>3 DEF IsNext
  <2>6. \A j \in 2 .. u - 1 : line[j] = "SP"
    <3> SUFFICES ASSUME NEW j \in 2 .. u - 1 PROVE line[j] = "SP"
      OBVIOUS
    <3>1. j \in 1 .. Len(line) /\ (j = 2 \/ (2 < j /\ j < u))
      BY <1>0, <2>2
    <3> QED BY <2>1, <2>3, <3>1 DEF IsNext
  <2>7. \A j \in u .. v - 1 : line[j] # "SP"
    <3> SUFFICES ASSUME NEW j \in u .. v - 1 PROVE line[j] # "SP"
      OBVIOUS
    <3>1. j \in 1 .. Len(line) /\ (j = u \/ (u < j /\ j < v))
      BY <1>0, <2>2
    <3> QED BY <2>1, <3>1 DEF IsNext
  <2>8. \A j \in v .. w - 1 : line[j] = "SP"
    <3> SUFFICES ASSUME NEW j \in v .. w - 1 PROVE line[j] = "SP"
      OBVIOUS
    <3>1. j \in 1 .. Len(line) /\ (j = v \/ (v < j /\ j < w))
      BY <1>0, <2>2
    <3> QED BY <2>1, <3>1 DEF IsNext
  <2> HIDE DEF blanks, others
  <2>9. PICK m \in Nat, k \in Nat, n \in Nat : m = u - 2 /\ k = v - 1 /\ n = w - v
    BY <2>2, <2>5
  <2>10. /\ m >= 1 /\ n >= 1 /\ k >= m + 2 /\ k + n + 1 = w
         /\ m + 1 = u - 1 /\ m + 2 = u /\ k + 1 = v /\ k + n = w - 1
    BY <2>2, <2>5, <2>9
  <2>11. HasForm(line, m, k, n)
    BY <2>1, <2>3, <2>4, <2>6, <2>7, <2>8, <2>9, <2>10 DEF HasForm
  <2> QED BY <2>11
<1>2. ASSUME NEW m \in Nat, NEW k \in Nat, NEW n \in Nat, HasForm(line, m, k, n)
      PROVE  parse_requestline(line)
  <2>1. /\ m >= 1 /\ n >= 1 /\ k >= m + 2 /\ Len(line) = k + n + 1
        /\ line[1] = "GET" /\ line[k + n + 1] = "HTTP/1.1"
        /\ \A j \in 2 .. m + 1 : line[j] = "SP"
        /\ \A j \in m + 2 .. k : line[j] # "SP"
        /\ \A j \in k + 1 .. k + n : line[j] = "SP"
        /\ UrlOk(SubSeq(line, m + 2, k))
    BY <1>2 DEF HasForm
  <2>2. /\ 2 \in blanks /\ k + 1 \in blanks
        /\ m + 2 \in others /\ k + n + 1 \in others /\ 1 \in others
    BY <2>1
  <2>3. IsNext(2, blanks, 0)
    <3>1. \A l \in blanks : ~(0 < l /\ l < 2)
      BY <2>1
    <3> QED BY <2>2, <3>1 DEF IsNext
  <2>4. IsNext(m + 2, others, 2)
    <3>1. \A l \in others : ~(2 < l /\ l < m + 2)
      BY <2>1
    <3> QED BY <2>1, <2>2, <3>1 DEF IsNext
  <2>5. IsNext(k + 1, blanks, m + 2)
    <3>1. \A l \in blanks : ~(m + 2 < l /\ l < k + 1)
      BY <2>1
    <3> QED BY <2>1, <2>2, <3>1 DEF IsNext
  <2>6. IsNext(k + n + 1, others, k + 1)
    <3>1. \A l \in others : ~(k + 1 < l /\ l < k + n + 1)
      BY <2>1
    <3> QED BY <2>1, <2>2, <3>1 DEF IsNext
  <2>7. UpTo(line, 2) = <<"GET">>
    <3>1. 1 \in Nat /\ 1 >= 1 /\ 2 - 1 \in Int /\ 2 - 1 <= Len(line) /\ 1 = 2 - 1
      BY <2>1
    <3> QED BY <2>1, <3>1, PartOfOne DEF UpTo
  <2>8. From(line, k + n + 1) = <<"HTTP/1.1">>
    <3>1. /\ k + n + 1 \in Nat /\ k + n + 1 >= 1 /\ Len(line) \in Int
          /\ Len(line) <= Len(line)
      BY <2>1
    <3> QED BY <2>1, <3>1, PartOfOne DEF From
  <2>9. (k + 1) - 1 = k
    OBVIOUS
  <2>10. UrlOk(SubSeq(line, m + 2, (k + 1) - 1))
    BY <2>1, <2>9
  <2> HIDE DEF blanks, others
  <2>11. \E g, v \in blanks, u, w \in others :
           /\ IsNext(g, blanks, 0) /\ IsNext(u, others, g)
           /\ IsNext(v, blanks, u) /\ IsNext(w, others, v)
           /\ UpTo(line, g) = <<"GET">>
           /\ From(line, w) = <<"HTTP/1.1">>
           /\ UrlOk(SubSeq(line, u, v - 1))
    BY <2>2, <2>3, <2>4, <2>5, <2>6, <2>7, <2>8, <2>10
  <2> QED BY <2>11 DEF parse_requestline, blanks, others
<1> QED BY <1>1, <1>2

LEMMA SpacesAre ==
  ASSUME NEW n \in Nat
  PROVE  /\ Spaces(n) \in Seq(Token) /\ Len(Spaces(n)) = n
         /\ \A j \in 1 .. n : Spaces(n)[j] = "SP"
<1>1. Spaces(n) \in [1 .. n -> Token]
  BY DEF Spaces, Token
<1> QED BY <1>1, SeqDef DEF Spaces

(* The text of the reference, spelled out; l is the length of its URL.     *)
Written(text, m, url, l, n) ==
  /\ text \in Seq(Token) /\ Len(text) = m + l + n + 2
  /\ text[1] = "GET" /\ text[m + l + n + 2] = "HTTP/1.1"
  /\ \A j \in 2 .. m + 1 : text[j] = "SP"
  /\ \A j \in m + 2 .. m + l + 1 : text[j] = url[j - (m + 1)]
  /\ \A j \in m + l + 2 .. m + l + n + 1 : text[j] = "SP"

LEMMA WrittenOut ==
  ASSUME NEW m \in Nat, NEW n \in Nat, NEW url \in Seq(Token), NEW l \in Nat, l = Len(url),
         NEW text,
         text = <<"GET">> \o Spaces(m) \o url \o Spaces(n) \o <<"HTTP/1.1">>
  PROVE  Written(text, m, url, l, n)
<1>0. "GET" \in Token /\ "HTTP/1.1" \in Token
  BY DEF Token, Words
<1>1. PICK a \in Seq(Token) : a = <<"GET">> /\ Len(a) = 1 /\ a[1] = "GET"
  BY <1>0, One, Zenon
<1>2. PICK z \in Seq(Token) : z = <<"HTTP/1.1">> /\ Len(z) = 1 /\ z[1] = "HTTP/1.1"
  BY <1>0, One, Zenon
<1>3. PICK b \in Seq(Token) :
        b = Spaces(m) /\ Len(b) = m /\ \A j \in 1 .. m : b[j] = "SP"
  BY SpacesAre
<1>4. PICK d \in Seq(Token) :
        d = Spaces(n) /\ Len(d) = n /\ \A j \in 1 .. n : d[j] = "SP"
  BY SpacesAre
<1>5. PICK ab \in Seq(Token) :
        /\ ab = a \o b /\ Len(ab) = m + 1 /\ ab[1] = "GET"
        /\ \A j \in 2 .. m + 1 : ab[j] = "SP"
  <2>1. /\ a \o b \in Seq(Token) /\ Len(a \o b) = Len(a) + Len(b)
        /\ \A j \in 1 .. Len(a) : (a \o b)[j] = a[j]
        /\ \A j \in Len(a) + 1 .. Len(a) + Len(b) : (a \o b)[j] = b[j - Len(a)]
    BY Joined
  <2>2. Len(a \o b) = m + 1
    BY <1>1, <1>3, <2>1
  <2>3. (a \o b)[1] = "GET"
    BY <1>1, <2>1
  <2>4. ASSUME NEW j \in 2 .. m + 1
        PROVE  (a \o b)[j] = "SP"
    <3>1. j \in Len(a) + 1 .. Len(a) + Len(b) /\ j - Len(a) \in 1 .. m
      BY <1>1, <1>3
    <3> QED BY <1>3, <2>1, <3>1
  <2> QED BY <2>1, <2>2, <2>3, <2>4
<1>6. PICK abc \in Seq(Token) :
        /\ abc = ab \o url /\ Len(abc) = m + l + 1 /\ abc[1] = "GET"
        /\ \A j \in 2 .. m + 1 : abc[j] = "SP"
        /\ \A j \in m + 2 .. m + l + 1 : abc[j] = url[j - (m + 1)]
  <2>1. /\ ab \o url \in Seq(Token) /\ Len(ab \o url) = Len(ab) + Len(url)
        /\ \A j \in 1 .. Len(ab) : (ab \o url)[j] = ab[j]
        /\ \A j \in Len(ab) + 1 .. Len(ab) + Len(url) :
             (ab \o url)[j] = url[j - Len(ab)]
    BY Joined
  <2>2. Len(ab \o url) = m + l + 1
    BY <1>5, <2>1
  <2>3. \A j \in 1 .. m + 1 : (ab \o url)[j] = ab[j]
    BY <1>5, <2>1
  <2>4. ASSUME NEW j \in m + 2 .. m + l + 1
        PROVE  (ab \o url)[j] = url[j - (m + 1)]
    <3>1. j \in Len(ab) + 1 .. Len(ab) + Len(url) /\ Len(ab) = m + 1
      BY <1>5
    <3> QED BY <2>1, <3>1
  <2>5. 1 \in 1 .. m + 1 /\ \A j \in 2 .. m + 1 : j \in 1 .. m + 1
    OBVIOUS
  <2>6. (ab \o url)[1] = "GET" /\ \A j \in 2 .. m + 1 : (ab \o url)[j] = "SP"
    BY <1>5, <2>3, <2>5
  <2> QED BY <2>1, <2>2, <2>4, <2>6, Zenon
<1>7. PICK abcd \in Seq(Token) :
        /\ abcd = abc \o d /\ Len(abcd) = m + l + n + 1 /\ abcd[1] = "GET"
        /\ \A j \in 2 .. m + 1 : abcd[j] = "SP"
        /\ \A j \in m + 2 .. m + l + 1 : abcd[j] = url[j - (m + 1)]
        /\ \A j \in m + l + 2 .. m + l + n + 1 : abcd[j] = "SP"
  <2>1. /\ abc \o d \in Seq(Token) /\ Len(abc \o d) = Len(abc) + Len(d)
        /\ \A j \in 1 .. Len(abc) : (abc \o d)[j] = abc[j]
        /\ \A j \in Len(abc) + 1 .. Len(abc) + Len(d) : (abc \o d)[j] = d[j - Len(abc)]
    BY Joined
  <2>2. Len(abc \o d) = m + l + n + 1
    BY <1>4, <1>6, <2>1
  <2>3. \A j \in 1 .. m + l + 1 : (abc \o d)[j] = abc[j]
    BY <1>6, <2>1
  <2>4. ASSUME NEW j \in m + l + 2 .. m + l + n + 1
        PROVE  (abc \o d)[j] = "SP"
    <3>1. j \in Len(abc) + 1 .. Len(abc) + Len(d) /\ j - Len(abc) \in 1 .. n
      BY <1>4, <1>6
    <3> QED BY <1>4, <2>1, <3>1
  <2>5. /\ 1 \in 1 .. m + l + 1
        /\ \A j \in 2 .. m + 1 : j \in 1 .. m + l + 1
        /\ \A j \in m + 2 .. m + l + 1 : j \in 1 .. m + l + 1
    OBVIOUS
  <2>6. (abc \o d)[1] = "GET" /\ \A j \in 2 .. m + 1 : (abc \o d)[j] = "SP"
    BY <1>6, <2>3, <2>5
  <2>7. \A j \in m + 2 .. m + l + 1 : (abc \o d)[j] = url[j - (m + 1)]
    BY <1>6, <2>3, <2>5
  <2> QED BY <2>1, <2>2, <2>4, <2>6, <2>7, Zenon
<1>8. text = abcd \o z
  BY <1>1, <1>2, <1>3, <1>4, <1>5, <1>6, <1>7, Zenon
<1>9. /\ text \in Seq(Token) /\ Len(text) = m + l + n + 2
      /\ \A j \in 1 .. m + l + n + 1 : text[j] = abcd[j]
      /\ text[m + l + n + 2] = "HTTP/1.1"
  <2>1. /\ abcd \o z \in Seq(Token) /\ Len(abcd \o z) = Len(abcd) + Len(z)
        /\ \A j \in 1 .. Len(abcd) : (abcd \o z)[j] = abcd[j]
        /\ \A j \in Len(abcd) + 1 .. Len(abcd) + Len(z) :
             (abcd \o z)[j] = z[j - Len(abcd)]
    BY Joined
  <2>2. Len(abcd \o z) = m + l + n + 2
    BY <1>2, <1>7, <2>1
  <2>3. \A j \in 1 .. m + l + n + 1 : (abcd \o z)[j] = abcd[j]
    BY <1>7, <2>1
  <2>4. /\ m + l + n + 2 \in Len(abcd) + 1 .. Len(abcd) + Len(z)
        /\ (m + l + n + 2) - Len(abcd) = 1
    BY <1>2, <1>7
  <2>5. (abcd \o z)[m + l + n + 2] = "HTTP/1.1"
    BY <1>2, <2>1, <2>4
  <2> QED BY <1>8, <2>1, <2>2, <2>3, <2>5, Zenon
<1>10. /\ \A j \in 2 .. m + 1 : j \in 1 .. m + l + n + 1
       /\ \A j \in m + 2 .. m + l + 1 : j \in 1 .. m + l + n + 1
       /\ \A j \in m + l + 2 .. m + l + n + 1 : j \in 1 .. m + l + n + 1
       /\ 1 \in 1 .. m + l + n + 1
  OBVIOUS
<1>11. text[1] = "GET" /\ \A j \in 2 .. m + 1 : text[j] = "SP"
  BY <1>7, <1>9, <1>10
<1>12. \A j \in m + 2 .. m + l + 1 : text[j] = url[j - (m + 1)]
  BY <1>7, <1>9, <1>10
<1>13. \A j \in m + l + 2 .. m + l + n + 1 : text[j] = "SP"
  BY <1>7, <1>9, <1>10
<1> QED BY <1>9, <1>11, <1>12, <1>13, Zenon DEF Written

LEMMA ReferenceSaysForm ==
  ASSUME NEW line \in Seq(Token)
  PROVE  ValidRequestLine(line) <=> \E m, k, n \in Nat : HasForm(line, m, k, n)
<1>0. Len(line) \in Nat
  BY LenProperties
<1>1. ASSUME ValidRequestLine(line)
      PROVE  \E m, k, n \in Nat : HasForm(line, m, k, n)
  <2>1. PICK m \in 1 .. Len(line), n \in 1 .. Len(line), k \in 1 .. Len(line) :
          LET url == SubSeq(line, 2 + m, k)
          IN  /\ url # <<>> /\ "SP" \notin Range(url) /\ UrlOk(url)
              /\ line = <<"GET">> \o Spaces(m) \o url \o Spaces(n) \o <<"HTTP/1.1">>
    BY <1>1 DEF ValidRequestLine
  <2>2. m \in Nat /\ n \in Nat /\ k \in Nat /\ m >= 1 /\ n >= 1 /\ k <= Len(line)
    BY <1>0
  <2>3. PICK url \in Seq(Token) :
          /\ url = SubSeq(line, m + 2, k)
          /\ Len(url) = IF m + 2 <= k THEN k - (m + 2) + 1 ELSE 0
          /\ \A j \in 1 .. k - (m + 2) + 1 : url[j] = line[(m + 2) + j - 1]
    <3>1. PICK a \in Nat : a = m + 2 /\ a >= 1
      BY <2>2
    <3>2. k \in Int /\ k <= Len(line)
      BY <2>2
    <3>3. /\ SubSeq(line, a, k) \in Seq(Token)
          /\ Len(SubSeq(line, a, k)) = IF a <= k THEN k - a + 1 ELSE 0
          /\ \A j \in 1 .. k - a + 1 : SubSeq(line, a, k)[j] = line[a + j - 1]
      BY <3>1, <3>2, PartOf
    <3> QED BY <3>1, <3>3, Zenon
  <2>4. 2 + m = m + 2
    BY <2>2
  <2>5. /\ url # <<>> /\ "SP" \notin Range(url) /\ UrlOk(url)
        /\ line = <<"GET">> \o Spaces(m) \o url \o Spaces(n) \o <<"HTTP/1.1">>
    BY <2>1, <2>3, <2>4
  <2>6. m + 2 <= k
    BY <2>3, <2>5, EmptySeq
  <2>7. PICK l \in Nat : l = Len(url) /\ l = k - (m + 1) /\ m + l + 1 = k
    BY <2>2, <2>3, <2>6
  <2>8. PICK text : text = <<"GET">> \o Spaces(m) \o url \o Spaces(n) \o <<"HTTP/1.1">>
    OBVIOUS
  <2>9. /\ Len(text) = m + l + n + 2
        /\ text[1] = "GET" /\ text[m + l + n + 2] = "HTTP/1.1"
        /\ \A j \in 2 .. m + 1 : text[j] = "SP"
        /\ \A j \in m + l + 2 .. m + l + n + 1 : text[j] = "SP"
    <3>1. Len(url) = l
      BY <2>7
    <3>2. m \in Nat /\ n \in Nat
      BY <2>2
    <3>3. Written(text, m, url, l, n)
      BY <2>8, <3>1, <3>2, WrittenOut
    <3> QED BY <3>3 DEF Written
  <2>10. /\ Len(line) = m + l + n + 2
         /\ line[1] = "GET" /\ line[m + l + n + 2] = "HTTP/1.1"
         /\ \A j \in 2 .. m + 1 : line[j] = "SP"
         /\ \A j \in m + l + 2 .. m + l + n + 1 : line[j] = "SP"
    <3>1. line = text
      BY <2>5, <2>8
    <3> QED BY <2>9, <3>1
  <2>11. /\ m + l + n + 2 = k + n + 1 /\ m + l + 2 = k + 1 /\ m + l + n + 1 = k + n
    BY <2>2, <2>7
  <2>12. ASSUME NEW j \in m + 2 .. k
         PROVE  line[j] # "SP"
    <3>1. /\ j - (m + 1) \in 1 .. l /\ j - (m + 1) \in 1 .. k - (m + 2) + 1
          /\ (m + 2) + (j - (m + 1)) - 1 = j
      BY <2>2, <2>7
    <3>2. url[j - (m + 1)] = line[j]
      BY <2>3, <3>1
    <3>3. j - (m + 1) \in DOMAIN url
      BY <2>7, <3>1, LenProperties
    <3> QED BY <2>5, <3>2, <3>3 DEF Range
  <2>13. UrlOk(SubSeq(line, m + 2, k))
    BY <2>3, <2>5
  <2>14. HasForm(line, m, k, n)
    BY <2>2, <2>6, <2>10, <2>11, <2>12, <2>13 DEF HasForm
  <2> QED BY <2>2, <2>14
<1>2. ASSUME NEW m \in Nat, NEW k \in Nat, NEW n \in Nat, HasForm(line, m, k, n)
      PROVE  ValidRequestLine(line)
  <2>1. /\ m >= 1 /\ n >= 1 /\ k >= m + 2 /\ Len(line) = k + n + 1
        /\ line[1] = "GET" /\ line[k + n + 1] = "HTTP/1.1"
        /\ \A j \in 2 .. m + 1 : line[j] = "SP"
        /\ \A j \in m + 2 .. k : line[j] # "SP"
        /\ \A j \in k + 1 .. k + n : line[j] = "SP"
        /\ UrlOk(SubSeq(line, m + 2, k))
    BY <1>2 DEF HasForm
  <2>2. /\ m \in 1 .. Len(line) /\ n \in 1 .. Len(line) /\ k \in 1 .. Len(line)
        /\ k <= Len(line)
    BY <2>1
  <2>3. PICK url \in Seq(Token) :
          /\ url = SubSeq(line, m + 2, k)
          /\ Len(url) = IF m + 2 <= k THEN k - (m + 2) + 1 ELSE 0
          /\ \A j \in 1 .. k - (m + 2) + 1 : url[j] = line[(m + 2) + j - 1]
    <3>1. PICK a \in Nat : a = m + 2 /\ a >= 1
      BY <2>2
    <3>2. k \in Int /\ k <= Len(line)
      BY <2>2
    <3>3. /\ SubSeq(line, a, k) \in Seq(Token)
          /\ Len(SubSeq(line, a, k)) = IF a <= k THEN k - a + 1 ELSE 0
          /\ \A j \in 1 .. k - a + 1 : SubSeq(line, a, k)[j] = line[a + j - 1]
      BY <3>1, <3>2, PartOf
    <3> QED BY <3>1, <3>3, Zenon
  <2>4. PICK l \in Nat : l = Len(url) /\ l = k - (m + 1) /\ m + l + 1 = k /\ l > 0
    BY <2>1, <2>3
  <2>5. "SP" \notin Range(url)
    <3> SUFFICES ASSUME NEW j \in DOMAIN url PROVE url[j] # "SP"
      BY DEF Range
    <3>1. j \in 1 .. l
      BY <2>4, LenProperties
    <3>2. j \in 1 .. k - (m + 2) + 1 /\ (m + 2) + j - 1 \in m + 2 .. k
      BY <2>4, <3>1
    <3> QED BY <2>1, <2>3, <3>2
  <2>6. PICK text : text = <<"GET">> \o Spaces(m) \o url \o Spaces(n) \o <<"HTTP/1.1">>
    OBVIOUS
  <2>7. /\ text \in Seq(Token) /\ Len(text) = m + l + n + 2
        /\ text[1] = "GET" /\ text[m + l + n + 2] = "HTTP/1.1"
        /\ \A j \in 2 .. m + 1 : text[j] = "SP"
        /\ \A j \in m + 2 .. m + l + 1 : text[j] = url[j - (m + 1)]
        /\ \A j \in m + l + 2 .. m + l + n + 1 : text[j] = "SP"
    <3>1. Len(url) = l
      BY <2>4
    <3>2. Written(text, m, url, l, n)
      BY <2>6, <3>1, WrittenOut
    <3> QED BY <3>2 DEF Written
  <2>8. Len(text) = Len(line)
    BY <2>1, <2>4, <2>7
  <2>9. ASSUME NEW j \in 1 .. Len(line)
        PROVE  line[j] = text[j]
    <3>1. \/ j = 1 \/ j \in 2 .. m + 1 \/ j \in m + 2 .. k
          \/ j \in k + 1 .. k + n \/ j = k + n + 1
      BY <2>1
    <3>2. CASE j = 1
      BY <2>1, <2>7, <3>2
    <3>3. CASE j = k + n + 1
      <4>1. k + n + 1 = m + l + n + 2
        BY <2>4
      <4> QED BY <2>1, <2>7, <3>3, <4>1
    <3>4. CASE j \in 2 .. m + 1
      BY <2>1, <2>7, <3>4
    <3>5. CASE j \in k + 1 .. k + n
      <4>1. j \in m + l + 2 .. m + l + n + 1
        BY <2>4, <3>5
      <4> QED BY <2>1, <2>7, <3>5, <4>1
    <3>6. CASE j \in m + 2 .. k
      <4>1. /\ j \in m + 2 .. m + l + 1
            /\ j - (m + 1) \in 1 .. k - (m + 2) + 1
            /\ (m + 2) + (j - (m + 1)) - 1 = j
        BY <2>4, <3>6
      <4> QED BY <2>3, <2>7, <4>1
    <3> QED BY <3>1, <3>2, <3>4, <3>5, <3>6, <3>3
  <2>10. line = text
    BY <2>7, <2>8, <2>9, SeqEqual
  <2>11. url # <<>>
    <3>1. Len(<<>>) = 0
      BY EmptySeq, Zenon
    <3>2. Len(url) # 0
      BY <2>4
    <3> QED BY <3>1, <3>2, Zenon
  <2>12. 2 + m = m + 2
    OBVIOUS
  <2>13. /\ SubSeq(line, 2 + m, k) # <<>>
         /\ "SP" \notin Range(SubSeq(line, 2 + m, k))
         /\ UrlOk(SubSeq(line, 2 + m, k))
         /\ line = <<"GET">> \o Spaces(m) \o SubSeq(line, 2 + m, k)
                      \o Spaces(n) \o <<"HTTP/1.1">>
    BY <2>1, <2>3, <2>5, <2>6, <2>10, <2>11, <2>12, Zenon
  <2> QED BY <2>2, <2>13, Zenon DEF ValidRequestLine
<1> QED BY <1>1, <1>2

(* parse_requestline accepts exactly what the reference calls valid (lines *)
(* 80-141), for every line.                                                *)
THEOREM SameRequestLine ==
  ASSUME NEW line \in Seq(Token)
  PROVE  parse_requestline(line) <=> ValidRequestLine(line)
  BY ParserSeesForm, ReferenceSaysForm

-----------------------------------------------------------------------------
(* The verdict of the reference on what was received, in terms of the      *)
(* request itself.                                                         *)

Crs == {k \in 1 .. read_index : request[k] = "CR"}
Lfs == {k \in 1 .. read_index : request[k] = "LF"}
Stray == {k \in Crs \ {read_index} : k + 1 \notin Lfs} \cup {k \in Lfs : k - 1 \notin Crs}
Ends == {k \in Crs : k + 1 \in Lfs /\ \A j \in Stray : k < j}

FirstLineIs(first) == first \in Ends /\ \A k \in Ends : first <= k

Adjacent(k, j) == k < j /\ ~\E e \in Ends : k < e /\ e < j

EmptyLine ==
  \E k, j \in Ends : Adjacent(k, j) /\ CString(SubSeq(request, k + 2, j - 1)) = <<>>

FirstLineOk ==
  \A first \in Ends :
    FirstLineIs(first) => ValidRequestLine(CString(UpTo(request, first)))

LEMMA VerdictIs ==
  ASSUME Indices
  PROVE  Verdict(Received) = IF ~FirstLineOk THEN "BAD_REQUEST"
                             ELSE IF EmptyLine THEN "GET_REQUEST"
                             ELSE IF Stray # {} THEN "BAD_REQUEST"
                             ELSE "NO_REQUEST"
<1>1. PICK r \in Nat, q \in Seq(Token) : r = read_index /\ q = request /\ r <= Len(q)
  BY IndexTypes DEF Indices, ReadIsSent
<1>2. PICK text \in Seq(Token) :
        text = Received /\ Len(text) = r /\ \A k \in 1 .. r : text[k] = request[k]
  <2>1. Received = SubSeq(q, 1, r)
    BY <1>1 DEF Received, UpTo
  <2>2. /\ SubSeq(q, 1, r) \in Seq(Token)
        /\ Len(SubSeq(q, 1, r)) = IF 1 <= r THEN r - 1 + 1 ELSE 0
        /\ \A k \in 1 .. r - 1 + 1 : SubSeq(q, 1, r)[k] = q[1 + k - 1]
    BY <1>1, PartOf
  <2>3. Len(SubSeq(q, 1, r)) = r
    BY <2>2
  <2>4. ASSUME NEW k \in 1 .. r
        PROVE  SubSeq(q, 1, r)[k] = q[k]
    <3>1. k \in 1 .. r - 1 + 1 /\ 1 + k - 1 = k
      OBVIOUS
    <3> QED BY <2>2, <3>1
  <2> QED BY <1>1, <2>1, <2>2, <2>3, <2>4
<1> DEFINE n == Len(text)
           crs == {k \in 1 .. n : text[k] = "CR"}
           lfs == {k \in 1 .. n : text[k] = "LF"}
           stray == {k \in crs \ {n} : k + 1 \notin lfs} \cup {k \in lfs : k - 1 \notin crs}
           ends == {k \in crs : k + 1 \in lfs /\ \A j \in stray : k < j}
           lines == {l \in ends \X ends :
                       l[1] < l[2] /\ ~\E e \in ends : l[1] < e /\ e < l[2]}
           badline == ends # {} /\ \E line \in {CString(UpTo(text, Min(ends)))} :
                                     ~ValidRequestLine(line)
           empty == \E l \in lines : CString(SubSeq(text, l[1] + 2, l[2] - 1)) = <<>>
<1>3. crs = Crs /\ lfs = Lfs /\ n = read_index
  BY <1>1, <1>2 DEF Crs, Lfs
<1>4. stray = Stray
  BY <1>3 DEF Stray
<1>5. ends = Ends
  BY <1>3, <1>4 DEF Ends
<1>6. Ends \in SUBSET Nat /\ \A e \in Ends : e \in 1 .. r
  BY <1>1 DEF Ends, Crs
<1>7. ASSUME NEW a \in Nat, NEW b \in Int, a >= 1, b <= r
      PROVE  SubSeq(text, a, b) = SubSeq(request, a, b)
  <2>1. b <= Len(text) /\ b <= Len(q)
    BY <1>1, <1>2, <1>7
  <2>2. \A k \in a .. b : text[k] = q[k]
    BY <1>1, <1>2, <1>7
  <2> QED BY <1>1, <1>7, <2>1, <2>2, SamePart
<1>8. Verdict(text) = IF badline THEN "BAD_REQUEST"
                      ELSE IF empty THEN "GET_REQUEST"
                      ELSE IF stray # {} THEN "BAD_REQUEST"
                      ELSE "NO_REQUEST"
  BY DEF Verdict
<1>9. badline <=> ~FirstLineOk
  <2> HIDE DEF crs, lfs, stray, ends
  <2>1. CASE Ends = {}
    BY <1>5, <2>1 DEF FirstLineOk
  <2>2. CASE Ends # {}
    <3>1. Min(Ends) \in Ends /\ \A k \in Ends : Min(Ends) <= k
      BY <1>6, <2>2, Least
    <3>2. PICK f \in Ends : f = Min(Ends) /\ FirstLineIs(f)
      BY <3>1 DEF FirstLineIs
    <3>3. \A g \in Ends : FirstLineIs(g) => g = f
      <4> SUFFICES ASSUME NEW g \in Ends, FirstLineIs(g) PROVE g = f
        OBVIOUS
      <4>1. g <= f /\ f <= g /\ g \in Nat /\ f \in Nat
        BY <1>6, <3>2 DEF FirstLineIs
      <4> QED BY <4>1
    <3>4. UpTo(text, f) = UpTo(request, f)
      <4>1. 1 \in Nat /\ 1 >= 1 /\ f - 1 \in Int /\ f - 1 <= r
        BY <1>6
      <4> QED BY <1>7, <4>1 DEF UpTo
    <3>5. badline <=> ~ValidRequestLine(CString(UpTo(request, f)))
      BY <1>5, <2>2, <3>2, <3>4
    <3> QED BY <3>2, <3>3, <3>5 DEF FirstLineOk
  <2> QED BY <2>1, <2>2
<1>10. empty <=> EmptyLine
  <2> HIDE DEF crs, lfs, stray, ends
  <2>1. ASSUME NEW k \in Ends, NEW j \in Ends
        PROVE  SubSeq(text, k + 2, j - 1) = SubSeq(request, k + 2, j - 1)
    <3>1. PICK a \in Nat, b \in Int : a = k + 2 /\ b = j - 1 /\ a >= 1 /\ b <= r
      BY <1>6
    <3> QED BY <1>7, <3>1
  <2>2. ASSUME empty PROVE EmptyLine
    <3>1. PICK l \in lines : CString(SubSeq(text, l[1] + 2, l[2] - 1)) = <<>>
      BY <2>2
    <3>2. PICK k \in Ends, j \in Ends : l = <<k, j>>
      BY <1>5
    <3>3. Adjacent(k, j)
      BY <1>5, <3>2 DEF Adjacent
    <3>4. CString(SubSeq(text, k + 2, j - 1)) = <<>>
      BY <3>1, <3>2
    <3> QED BY <2>1, <3>3, <3>4 DEF EmptyLine
  <2>3. ASSUME EmptyLine PROVE empty
    <3>1. PICK k \in Ends, j \in Ends :
            Adjacent(k, j) /\ CString(SubSeq(request, k + 2, j - 1)) = <<>>
      BY <2>3 DEF EmptyLine
    <3>2. <<k, j>> \in lines
      BY <1>5, <3>1 DEF Adjacent
    <3>3. CString(SubSeq(text, <<k, j>>[1] + 2, <<k, j>>[2] - 1)) = <<>>
      BY <2>1, <3>1
    <3> QED BY <3>2, <3>3
  <2> QED BY <2>2, <2>3
<1> HIDE DEF badline, empty, stray
<1> QED BY <1>2, <1>4, <1>8, <1>9, <1>10

(* A C string has no more characters than there are.                       *)
LEMMA CStringType ==
  ASSUME NEW s \in Seq(Token)
  PROVE  CString(s) \in Seq(Token)
<1> DEFINE nuls == {i \in 1 .. Len(s) : s[i] = "NUL"}
<1>1. Len(s) \in Nat
  BY LenProperties
<1>2. SelectInSeq(s, LAMBDA t : t = "NUL") = IF nuls # {} THEN Min(nuls) ELSE 0
  BY DEF SelectInSeq
<1>3. CASE nuls = {}
  BY <1>2, <1>3 DEF CString
<1>4. CASE nuls # {}
  <2>1. nuls \in SUBSET Nat
    BY <1>1
  <2>2. Min(nuls) \in nuls
    BY <1>4, <2>1, Least
  <2>3. PICK k \in 1 .. Len(s) : k = Min(nuls)
    BY <2>2
  <2>4. Min(nuls) # 0
    BY <2>3
  <2>5. CString(s) = SubSeq(s, 1, k - 1)
    <3>1. CString(s) = UpTo(s, Min(nuls))
      BY <1>4, <2>4 DEF CString, SelectInSeq
    <3> QED BY <2>3, <3>1 DEF UpTo
  <2>6. 1 \in Nat /\ 1 >= 1 /\ k - 1 \in Int /\ k - 1 <= Len(s)
    BY <1>1
  <2> QED BY <2>5, <2>6, PartOf
<1> QED BY <1>3, <1>4

-----------------------------------------------------------------------------
(* What was analysed so far: up to s there are complete lines only.        *)

Breaks(s) == {k \in 1 .. s : request[k] = "CR"}

OnlyLines(s) ==
  /\ \A k \in 1 .. s : request[k] = "CR" => k < s /\ request[k + 1] = "LF"
  /\ \A k \in 1 .. s : request[k] = "LF" => k - 1 \in Breaks(s)

FirstValid(s) ==
  \E first \in Breaks(s) :
    /\ \A k \in Breaks(s) : first <= k
    /\ ValidRequestLine(CString(UpTo(request, first)))

NoneEmpty(s) ==
  \A k, j \in Breaks(s) :
    k < j /\ (~\E e \in Breaks(s) : k < e /\ e < j)
      => CString(SubSeq(request, k + 2, j - 1)) # <<>>

(* What is known of the lines of a request that is not answered yet.       *)
Undecided(s, state) ==
  /\ OnlyLines(s)
  /\ state = "REQUESTLINE" => s = 0
  /\ state = "HEADER" => s - 1 \in Breaks(s) /\ FirstValid(s) /\ NoneEmpty(s)

(* Neither CR nor LF from a to b.                                          *)
Plain(a, b) == \A k \in a .. b : request[k] \notin {"CR", "LF"}

LEMMA ReadTypes ==
  ASSUME Indices
  PROVE  read_index \in Nat /\ request \in Seq(Token) /\ read_index <= Len(request)
  BY IndexTypes DEF Indices, ReadIsSent

(* The complete lines are those of the reference: no CR or LF among them   *)
(* is stray.                                                               *)
LEMMA BreaksAreEnds ==
  ASSUME Indices, NEW s \in Nat, s <= read_index, OnlyLines(s)
  PROVE  /\ \A j \in Stray : j > s
         /\ \A k \in 1 .. s : k \in Ends <=> k \in Breaks(s)
<1>0. PICK r \in Nat : r = read_index
  BY ReadTypes
<1>1. ASSUME NEW j \in Stray
      PROVE  j > s
  <2>1. j \in 1 .. r
    BY <1>0 DEF Stray, Crs, Lfs
  <2>2. ASSUME j <= s PROVE FALSE
    <3>1. j \in 1 .. s
      BY <2>1, <2>2
    <3>2. CASE j \in Crs /\ j + 1 \notin Lfs
      <4>1. j < s /\ request[j + 1] = "LF"
        BY <3>1, <3>2 DEF OnlyLines, Crs
      <4>2. j + 1 \in 1 .. r
        BY <1>0, <2>1, <4>1
      <4> QED BY <1>0, <3>2, <4>1, <4>2 DEF Lfs
    <3>3. CASE j \in Lfs /\ j - 1 \notin Crs
      <4>1. j - 1 \in 1 .. s /\ request[j - 1] = "CR"
        BY <3>1, <3>3 DEF OnlyLines, Lfs, Breaks
      <4>2. j - 1 \in 1 .. r
        BY <1>0, <2>1, <4>1
      <4> QED BY <1>0, <3>3, <4>1, <4>2 DEF Crs
    <3> QED BY <3>2, <3>3 DEF Stray
  <2> QED BY <2>1, <2>2
<1>2. ASSUME NEW k \in 1 .. s
      PROVE  k \in Ends <=> k \in Breaks(s)
  <2>1. ASSUME k \in Ends PROVE k \in Breaks(s)
    BY <2>1 DEF Ends, Crs, Breaks
  <2>2. ASSUME k \in Breaks(s) PROVE k \in Ends
    <3>1. request[k] = "CR" /\ k < s /\ request[k + 1] = "LF"
      BY <2>2 DEF OnlyLines, Breaks
    <3>2. k \in 1 .. r /\ k + 1 \in 1 .. r
      BY <1>0, <3>1
    <3>3. k \in Crs /\ k + 1 \in Lfs
      BY <1>0, <3>1, <3>2 DEF Crs, Lfs
    <3>4. ASSUME NEW j \in Stray PROVE k < j
      <4>1. j > s /\ j \in Nat
        BY <1>0, <1>1 DEF Stray, Crs, Lfs
      <4> QED BY <4>1
    <3> QED BY <3>3, <3>4 DEF Ends
  <2> QED BY <2>1, <2>2
<1> QED BY <1>1, <1>2

(* Nothing more than the lines that were accepted: the reference sees no   *)
(* fault in them.                                                          *)
LEMMA NoFaultSoFar ==
  ASSUME Indices, NEW s \in Nat, s <= read_index, NEW state \in {"REQUESTLINE", "HEADER"},
         Undecided(s, state), Ends = Breaks(s)
  PROVE  FirstLineOk /\ ~EmptyLine
<1>1. CASE state = "REQUESTLINE"
  <2>1. Ends = {}
    BY <1>1 DEF Undecided, Breaks
  <2> QED BY <2>1 DEF FirstLineOk, EmptyLine
<1>2. CASE state = "HEADER"
  <2>1. FirstValid(s) /\ NoneEmpty(s)
    BY <1>2 DEF Undecided
  <2>2. PICK first \in Ends :
          /\ \A k \in Ends : first <= k
          /\ ValidRequestLine(CString(UpTo(request, first)))
    BY <2>1 DEF FirstValid
  <2>3. ASSUME NEW g \in Ends, FirstLineIs(g)
        PROVE  g = first
    <3>1. g <= first /\ first <= g /\ g \in Nat /\ first \in Nat
      BY <2>2, <2>3, ReadTypes DEF FirstLineIs, Breaks
    <3> QED BY <3>1
  <2>4. FirstLineOk
    BY <2>2, <2>3 DEF FirstLineOk
  <2>5. ~EmptyLine
    BY <2>1 DEF NoneEmpty, EmptyLine, Adjacent
  <2> QED BY <2>4, <2>5
<1> QED BY <1>1, <1>2

(* The data ends in the middle of a line, perhaps behind its CR.           *)
LEMMA NotDecidedYet ==
  ASSUME Indices, NEW s \in Nat, s <= read_index, NEW state \in {"REQUESTLINE", "HEADER"},
         Undecided(s, state), NEW c \in Nat, s <= c, Plain(s + 1, c),
         c = read_index \/ (c = read_index - 1 /\ request[c + 1] = "CR")
  PROVE  Verdict(Received) = "NO_REQUEST"
<1>0. PICK r \in Nat : r = read_index
  BY ReadTypes
<1>1. OnlyLines(s)
  BY DEF Undecided
<1>2. \A j \in Stray : j > s
  BY <1>1, BreaksAreEnds
<1>3. \A k \in 1 .. s : k \in Ends <=> k \in Breaks(s)
  BY <1>1, BreaksAreEnds
<1>4. ASSUME NEW k \in 1 .. r, k > s, request[k] \in {"CR", "LF"}
      PROVE  k = r /\ request[k] = "CR"
  <2>1. k \notin s + 1 .. c
    BY <1>4 DEF Plain
  <2>2. k > c
    BY <1>4, <2>1
  <2>3. c = r - 1 /\ request[c + 1] = "CR" /\ k = r /\ k = c + 1
    BY <1>0, <2>2
  <2> QED BY <2>3
<1>5. Stray = {}
  <2> SUFFICES ASSUME NEW j \in Stray PROVE FALSE
    OBVIOUS
  <2>1. j \in 1 .. r /\ j > s /\ request[j] \in {"CR", "LF"}
    BY <1>0, <1>2 DEF Stray, Crs, Lfs
  <2>2. j = r /\ request[j] = "CR"
    BY <1>4, <2>1
  <2> QED BY <1>0, <2>2 DEF Stray, Crs, Lfs
<1>6. ASSUME NEW k \in Ends
      PROVE  k \in 1 .. s
  <2>1. k \in 1 .. r /\ k + 1 \in 1 .. r /\ request[k] = "CR"
    BY <1>0 DEF Ends, Crs, Lfs
  <2>2. ~(k > s)
    BY <1>4, <2>1
  <2> QED BY <2>1, <2>2
<1>7. Ends = Breaks(s)
  BY <1>3, <1>6 DEF Breaks
<1>8. FirstLineOk /\ ~EmptyLine
  BY <1>7, NoFaultSoFar
<1> QED BY <1>5, <1>8, VerdictIs

(* Behind the complete lines comes a CR without LF, or an LF.              *)
LEMMA DecidedByStray ==
  ASSUME Indices, NEW s \in Nat, s <= read_index, NEW state \in {"REQUESTLINE", "HEADER"},
         Undecided(s, state), NEW c \in Nat, s <= c, Plain(s + 1, c), c < read_index,
         \/ request[c + 1] = "CR" /\ c + 1 < read_index /\ request[c + 2] # "LF"
         \/ request[c + 1] = "LF"
  PROVE  Verdict(Received) = "BAD_REQUEST"
<1>0. PICK r \in Nat : r = read_index
  BY ReadTypes
<1>1. OnlyLines(s)
  BY DEF Undecided
<1>2. \A j \in Stray : j > s
  BY <1>1, BreaksAreEnds
<1>3. \A k \in 1 .. s : k \in Ends <=> k \in Breaks(s)
  BY <1>1, BreaksAreEnds
<1>4. ASSUME NEW k \in 1 .. r, k > s, request[k] \in {"CR", "LF"}
      PROVE  k >= c + 1
  <2>1. k \notin s + 1 .. c
    BY <1>4 DEF Plain
  <2> QED BY <1>4, <2>1
<1>5. c + 1 \in 1 .. r
  BY <1>0
<1>6. c + 1 \in Stray
  <2>1. CASE request[c + 1] = "CR"
    <3>1. c + 1 \in Crs \ {read_index}
      BY <1>0, <1>5, <2>1 DEF Crs
    <3>2. request[(c + 1) + 1] # "LF"
      <4>1. (c + 1) + 1 = c + 2
        OBVIOUS
      <4> QED BY <2>1, <4>1
    <3>3. (c + 1) + 1 \notin Lfs
      BY <3>2 DEF Lfs
    <3> QED BY <3>1, <3>3 DEF Stray
  <2>2. CASE request[c + 1] = "LF"
    <3>1. c + 1 \in Lfs
      BY <1>0, <1>5, <2>2 DEF Lfs
    <3>2. ASSUME (c + 1) - 1 \in Crs PROVE FALSE
      <4>1. c \in 1 .. r /\ request[c] = "CR"
        BY <1>0, <3>2 DEF Crs
      <4>2. ~(c > s)
        BY <1>4, <4>1
      <4>3. c = s /\ c \in 1 .. s
        BY <4>1, <4>2
      <4> QED BY <1>1, <4>1, <4>3 DEF OnlyLines
    <3> QED BY <3>1, <3>2 DEF Stray
  <2> QED BY <2>1, <2>2
<1>7. ASSUME NEW k \in Ends
      PROVE  k \in 1 .. s
  <2>1. k \in 1 .. r /\ request[k] = "CR" /\ k < c + 1
    BY <1>0, <1>6 DEF Ends, Crs
  <2>2. ~(k > s)
    BY <1>4, <2>1
  <2> QED BY <2>1, <2>2
<1>8. Ends = Breaks(s)
  BY <1>3, <1>7 DEF Breaks
<1>9. FirstLineOk /\ ~EmptyLine
  BY <1>8, NoFaultSoFar
<1> QED BY <1>6, <1>9, VerdictIs

(* One more complete line, whose CR is at c + 1.                           *)
LEMMA LineAdded ==
  ASSUME Indices, NEW s \in Nat, OnlyLines(s), NEW c \in Nat, s <= c, Plain(s + 1, c),
         request[c + 1] = "CR", request[c + 2] = "LF"
  PROVE  OnlyLines(c + 2) /\ Breaks(c + 2) = Breaks(s) \cup {c + 1}
<1>1. ASSUME NEW k \in 1 .. c + 2, request[k] \in {"CR", "LF"}
      PROVE  k \in 1 .. s \/ k = c + 1 \/ k = c + 2
  <2>1. k \notin s + 1 .. c
    BY <1>1 DEF Plain
  <2> QED BY <2>1
<1>2. Breaks(c + 2) = Breaks(s) \cup {c + 1}
  <2>1. ASSUME NEW k \in Breaks(c + 2)
        PROVE  k \in Breaks(s) \cup {c + 1}
    <3>1. k \in 1 .. c + 2 /\ request[k] = "CR"
      BY DEF Breaks
    <3>2. k # c + 2
      BY <3>1
    <3> QED BY <1>1, <3>1, <3>2 DEF Breaks
  <2>2. ASSUME NEW k \in Breaks(s) \cup {c + 1}
        PROVE  k \in Breaks(c + 2)
    BY DEF Breaks
  <2> QED BY <2>1, <2>2
<1>3. ASSUME NEW k \in 1 .. c + 2, request[k] = "CR"
      PROVE  k < c + 2 /\ request[k + 1] = "LF"
  <2>1. CASE k \in 1 .. s
    BY <1>3, <2>1 DEF OnlyLines
  <2>2. CASE k = c + 1
    <3>1. k + 1 = c + 2 /\ k < c + 2
      BY <2>2
    <3> QED BY <3>1
  <2>3. k # c + 2
    BY <1>3
  <2> QED BY <1>1, <1>3, <2>1, <2>2, <2>3
<1>4. ASSUME NEW k \in 1 .. c + 2, request[k] = "LF"
      PROVE  k - 1 \in Breaks(c + 2)
  <2>1. CASE k \in 1 .. s
    <3>1. k - 1 \in Breaks(s)
      BY <1>4, <2>1 DEF OnlyLines
    <3> QED BY <1>2, <3>1
  <2>2. CASE k = c + 2
    <3>1. k - 1 = c + 1
      BY <2>2
    <3> QED BY <1>2, <3>1
  <2>3. k # c + 1
    BY <1>4
  <2> QED BY <1>1, <1>4, <2>1, <2>2, <2>3
<1> QED BY <1>2, <1>3, <1>4 DEF OnlyLines

-----------------------------------------------------------------------------
(* A line that is complete: its text, of which the NULs matter only.       *)
Text(s, c) == CString(SubSeq(request, s + 1, c))

(* The first line is complete.                                             *)
LEMMA FirstLineRead ==
  ASSUME Indices, NEW c \in Nat, c + 2 <= read_index, OnlyLines(c + 2),
         Breaks(c + 2) = {c + 1}
  PROVE  /\ ~ValidRequestLine(Text(0, c)) => Verdict(Received) = "BAD_REQUEST"
         /\ ValidRequestLine(Text(0, c)) => Undecided(c + 2, "HEADER")
<1>1. c + 2 \in Nat /\ c + 1 \in 1 .. c + 2 /\ (c + 1) - 1 = c /\ (c + 2) - 1 = c + 1
  OBVIOUS
<1>2. UpTo(request, c + 1) = SubSeq(request, 0 + 1, c)
  BY <1>1 DEF UpTo
<1>3. \A k \in 1 .. c + 2 : k \in Ends <=> k \in Breaks(c + 2)
  BY <1>1, BreaksAreEnds
<1>4. FirstLineIs(c + 1)
  <2>1. c + 1 \in Ends
    BY <1>1, <1>3
  <2>2. ASSUME NEW k \in Ends PROVE c + 1 <= k
    <3>1. k \in Nat /\ k >= 1
      BY ReadTypes DEF Ends, Crs
    <3>2. CASE k <= c + 2
      <4>1. k \in 1 .. c + 2
        BY <3>1, <3>2
      <4> QED BY <1>3, <4>1
    <3> QED BY <3>1, <3>2
  <2> QED BY <2>1, <2>2 DEF FirstLineIs
<1>5. ASSUME ~ValidRequestLine(Text(0, c))
      PROVE  Verdict(Received) = "BAD_REQUEST"
  <2>1. ~FirstLineOk
    BY <1>2, <1>4, <1>5 DEF FirstLineOk, FirstLineIs, Text
  <2> QED BY <2>1, VerdictIs
<1>6. ASSUME ValidRequestLine(Text(0, c))
      PROVE  Undecided(c + 2, "HEADER")
  <2>1. FirstValid(c + 2)
    <3>1. ValidRequestLine(CString(UpTo(request, c + 1)))
      BY <1>2, <1>6 DEF Text
    <3>2. \A k \in Breaks(c + 2) : c + 1 <= k
      OBVIOUS
    <3> QED BY <3>1, <3>2 DEF FirstValid
  <2>2. NoneEmpty(c + 2)
    BY DEF NoneEmpty
  <2> QED BY <1>1, <2>1, <2>2 DEF Undecided
<1> QED BY <1>5, <1>6

(* A later line is complete.                                               *)
LEMMA HeaderRead ==
  ASSUME Indices, NEW s \in Nat, Undecided(s, "HEADER"), NEW c \in Nat, s <= c,
         c + 2 <= read_index, OnlyLines(c + 2), Breaks(c + 2) = Breaks(s) \cup {c + 1}
  PROVE  /\ Text(s, c) = <<>> => Verdict(Received) = "GET_REQUEST"
         /\ Text(s, c) # <<>> => Undecided(c + 2, "HEADER")
<1>1. c + 2 \in Nat /\ c + 1 \in 1 .. c + 2 /\ (c + 1) - 1 = c /\ (c + 2) - 1 = c + 1
      /\ (s - 1) + 2 = s + 1
  OBVIOUS
<1>2. \A k \in 1 .. c + 2 : k \in Ends <=> k \in Breaks(c + 2)
  BY <1>1, BreaksAreEnds
<1>3. s - 1 \in Breaks(s) /\ FirstValid(s) /\ NoneEmpty(s) /\ OnlyLines(s)
  BY DEF Undecided
<1>4. \A k \in Breaks(s) : k \in 1 .. s /\ k <= s - 1
  BY DEF Undecided, OnlyLines, Breaks
<1>5. s - 1 \in Nat /\ s - 1 < c + 1
  BY <1>3, <1>4
<1>6. PICK first \in Breaks(s) :
        /\ \A k \in Breaks(s) : first <= k
        /\ ValidRequestLine(CString(UpTo(request, first)))
  BY <1>3 DEF FirstValid
<1>7. \A k \in Breaks(c + 2) : first <= k
  <2>1. first <= c + 1
    BY <1>4, <1>5
  <2> QED BY <1>6, <2>1
<1>8. SubSeq(request, (s - 1) + 2, (c + 1) - 1) = SubSeq(request, s + 1, c)
  BY <1>1
<1>9. ASSUME Text(s, c) = <<>>
      PROVE  Verdict(Received) = "GET_REQUEST"
  <2>1. \A k \in Ends : k \in Nat /\ k >= 1
    BY ReadTypes DEF Ends, Crs
  <2>2. \A k \in Ends : k \in Breaks(c + 2) \/ k > c + 2
    <3> SUFFICES ASSUME NEW k \in Ends PROVE k \in Breaks(c + 2) \/ k > c + 2
      OBVIOUS
    <3>1. k \in 1 .. c + 2 \/ k > c + 2
      BY <2>1
    <3> QED BY <1>2, <3>1
  <2>3. first \in Ends /\ s - 1 \in Ends /\ c + 1 \in Ends
    <3>1. first \in 1 .. c + 2 /\ s - 1 \in 1 .. c + 2 /\ c + 1 \in 1 .. c + 2
      BY <1>3, <1>4, <1>5
    <3> QED BY <1>2, <1>3, <3>1
  <2>4. FirstLineIs(first)
    <3>1. ASSUME NEW k \in Ends PROVE first <= k
      <4>1. CASE k \in Breaks(c + 2)
        BY <1>7, <4>1
      <4>2. CASE k > c + 2
        BY <1>4, <1>5, <2>1, <4>2
      <4> QED BY <2>2, <4>1, <4>2
    <3> QED BY <2>3, <3>1 DEF FirstLineIs
  <2>5. FirstLineOk
    <3>1. ASSUME NEW g \in Ends, FirstLineIs(g)
          PROVE  g = first
      <4>1. g <= first /\ first <= g /\ g \in Nat /\ first \in Nat
        BY <2>1, <2>3, <2>4, <3>1 DEF FirstLineIs
      <4> QED BY <4>1
    <3> QED BY <1>6, <3>1 DEF FirstLineOk
  <2>6. Adjacent(s - 1, c + 1)
    <3>1. ASSUME NEW e \in Ends, s - 1 < e, e < c + 1
          PROVE  FALSE
      <4>1. ~(e > c + 2)
        BY <2>1, <3>1
      <4>2. e \in Breaks(s) \cup {c + 1}
        BY <2>2, <4>1
      <4>3. e # c + 1
        BY <2>1, <3>1
      <4>4. e <= s - 1
        BY <1>4, <4>2, <4>3
      <4> QED BY <1>5, <2>1, <3>1, <4>4
    <3> QED BY <1>5, <3>1 DEF Adjacent
  <2>7. EmptyLine
    BY <1>8, <1>9, <2>3, <2>6 DEF EmptyLine, Text
  <2> QED BY <2>5, <2>7, VerdictIs
<1>10. ASSUME Text(s, c) # <<>>
       PROVE  Undecided(c + 2, "HEADER")
  <2>1. FirstValid(c + 2)
    <3>1. first \in Breaks(c + 2)
      OBVIOUS
    <3> QED BY <1>6, <1>7, <3>1 DEF FirstValid
  <2>2. NoneEmpty(c + 2)
    <3> SUFFICES ASSUME NEW k \in Breaks(c + 2), NEW j \in Breaks(c + 2), k < j,
                        ~\E e \in Breaks(c + 2) : k < e /\ e < j
                 PROVE  CString(SubSeq(request, k + 2, j - 1)) # <<>>
      BY DEF NoneEmpty
    <3>0. k \in Nat /\ j \in Nat
      BY DEF Breaks
    <3>1. CASE j \in Breaks(s)
      <4>1. k # c + 1
        BY <1>4, <1>5, <3>0, <3>1
      <4>2. k \in Breaks(s) /\ ~\E e \in Breaks(s) : k < e /\ e < j
        BY <4>1
      <4> QED BY <1>3, <3>1, <4>2 DEF NoneEmpty
    <3>2. CASE j = c + 1
      <4>1. k # c + 1
        BY <3>0, <3>2
      <4>2. k \in Breaks(s) /\ k <= s - 1
        BY <1>4, <4>1
      <4>3. ~(k < s - 1)
        BY <1>3, <1>5, <3>2
      <4>4. k = s - 1
        BY <1>5, <3>0, <4>2, <4>3
      <4> QED BY <1>8, <1>10, <3>2, <4>4 DEF Text
    <3> QED BY <3>1, <3>2
  <2> QED BY <1>1, <2>1, <2>2 DEF Undecided
<1> QED BY <1>9, <1>10

-----------------------------------------------------------------------------
(* The parser and the reference *)

(* As long as there is no answer, the line that is analysed is what was    *)
(* sent, and the lines before it were accepted.                            *)
Parsing ==
  pc # "done" =>
    /\ result = "NO_REQUEST"
    /\ \A k \in start_line + 1 .. read_index : buffer[k] = request[k]
    /\ Undecided(start_line, checkstate)

(* More data is asked for when all of it has been scanned, but for a CR.   *)
Waits ==
  pc = "recv" => \/ checked_index = read_index
                 \/ checked_index = read_index - 1 /\ request[checked_index + 1] = "CR"

Decided == pc = "done" => Verdict(Received) = result

Agrees == Indices /\ Parsing /\ Waits /\ Decided

LEMMA Scanned ==
  ASSUME Indices, Parsing, pc # "done"
  PROVE  \E s \in Nat, c \in Nat, r \in Nat, state \in {"REQUESTLINE", "HEADER"} :
           /\ s = start_line /\ c = checked_index /\ r = read_index /\ state = checkstate
           /\ s <= c /\ c <= r /\ Undecided(s, state)
           /\ \A k \in s + 1 .. r : buffer[k] = request[k]
           /\ \A j \in s .. r - 1 : Byte(j) = request[j + 1]
           /\ Plain(s + 1, c)
<1>1. PICK s \in Nat, c \in Nat, r \in Nat, state \in {"REQUESTLINE", "HEADER"} :
        /\ s = start_line /\ c = checked_index /\ r = read_index /\ state = checkstate
        /\ s <= c /\ c <= r
  BY IndexTypes DEF Indices, IndexOrder, TypeOK
<1>2. Undecided(s, state) /\ \A k \in s + 1 .. r : buffer[k] = request[k]
  BY <1>1 DEF Parsing
<1>3. ASSUME NEW j \in s .. r - 1 PROVE Byte(j) = request[j + 1]
  <2>1. j + 1 \in s + 1 .. r
    BY <1>1
  <2> QED BY <1>2, <2>1 DEF Byte
<1>4. ASSUME NEW k \in s + 1 .. c PROVE request[k] \notin {"CR", "LF"}
  <2>1. k - 1 \in s .. c - 1 /\ k - 1 \in s .. r - 1 /\ (k - 1) + 1 = k
    BY <1>1
  <2>2. Byte(k - 1) \notin {"CR", "LF"}
    BY <1>1, <2>1 DEF Indices, IndexOrder
  <2> QED BY <1>3, <2>1, <2>2
<1>5. Plain(s + 1, c)
  BY <1>4 DEF Plain
<1> QED BY <1>1, <1>2, <1>3, <1>5

LEMMA StillPlain ==
  ASSUME NEW s \in Nat, NEW c \in Nat, NEW d \in Nat, NEW r \in Nat, s <= c, d <= r,
         Plain(s + 1, c), Clean(c, d), \A j \in s .. r - 1 : Byte(j) = request[j + 1]
  PROVE  Plain(s + 1, d)
<1> SUFFICES ASSUME NEW k \in s + 1 .. d PROVE request[k] \notin {"CR", "LF"}
  BY DEF Plain
<1>1. CASE k <= c
  <2>1. k \in s + 1 .. c
    BY <1>1
  <2> QED BY <2>1 DEF Plain
<1>2. CASE k > c
  <2>1. k - 1 \in c .. d - 1 /\ k - 1 \in s .. r - 1 /\ (k - 1) + 1 = k
    BY <1>2
  <2> QED BY <2>1 DEF Clean
<1> QED BY <1>1, <1>2

(* The parser asks for more only while the reference is undecided.         *)
LEMMA AsksWhileUndecided ==
  ASSUME Agrees, pc = "recv"
  PROVE  Verdict(Received) = "NO_REQUEST"
<1>1. PICK s \in Nat, c \in Nat, r \in Nat, state \in {"REQUESTLINE", "HEADER"} :
        /\ s = start_line /\ c = checked_index /\ r = read_index /\ state = checkstate
        /\ s <= c /\ c <= r /\ Undecided(s, state) /\ Plain(s + 1, c)
  BY Scanned DEF Agrees
<1>2. c = read_index \/ (c = read_index - 1 /\ request[c + 1] = "CR")
  BY <1>1 DEF Agrees, Waits
<1>3. s <= read_index
  BY <1>1
<1> QED BY <1>1, <1>2, <1>3, NotDecidedYet DEF Agrees

LEMMA AgreesInit == Init => Agrees
<1> SUFFICES ASSUME Init PROVE Agrees
  OBVIOUS
<1>1. Indices
  BY IndicesInit
<1>2. Undecided(0, "REQUESTLINE")
  BY DEF Undecided, OnlyLines
<1>3. Parsing /\ Waits /\ Decided
  BY <1>2 DEF Init, Parsing, Waits, Decided
<1> QED BY <1>1, <1>3 DEF Agrees

LEMMA SameRequest ==
  ASSUME UNCHANGED request, NEW s, NEW state
  PROVE  Undecided(s, state)' <=> Undecided(s, state)
  BY DEF Undecided, OnlyLines, Breaks, FirstValid, NoneEmpty

LEMMA SameReceived ==
  ASSUME UNCHANGED <<request, read_index>>
  PROVE  Verdict(Received)' = Verdict(Received)
<1>1. Received' = Received
  BY DEF Received, UpTo
<1> QED BY <1>1 DEF Verdict

LEMMA AgreesRecv ==
  ASSUME Agrees, Recv
  PROVE  Agrees'
<1>1. PICK n \in 1 .. Room :
        /\ read_index + n <= Len(request)
        /\ buffer' = buffer \o SubSeq(request, read_index + 1, read_index + n)
        /\ read_index' = read_index + n
  BY DEF Recv
<1>2. /\ \A k \in 1 .. read_index : buffer'[k] = buffer[k]
      /\ \A k \in read_index + 1 .. read_index + n : buffer'[k] = request[k]
  BY <1>1, ChunkRead DEF Agrees
<1>3. /\ pc = "recv" /\ pc' = "parse"
      /\ UNCHANGED <<request, closed, checked_index, start_line, checkstate, result>>
  BY DEF Recv
<1>4. PICK s \in Nat, r \in Nat, state \in {"REQUESTLINE", "HEADER"} :
        /\ s = start_line /\ r = read_index /\ state = checkstate
        /\ s <= r /\ Undecided(s, state) /\ result = "NO_REQUEST"
        /\ \A k \in s + 1 .. r : buffer[k] = request[k]
  BY <1>3, ReadTypes, IndexTypes DEF Agrees, Parsing, Indices, IndexOrder, TypeOK
<1>5. n \in Nat
  BY <1>1, IndexTypes DEF Agrees, Indices, Room
<1>6. ASSUME NEW k \in s + 1 .. r + n
      PROVE  buffer'[k] = request[k]
  <2>1. (k \in s + 1 .. r /\ k \in 1 .. r) \/ k \in r + 1 .. r + n
    BY <1>4, <1>5
  <2> QED BY <1>2, <1>4, <2>1
<1>7. Undecided(s, state)'
  BY <1>3, <1>4, SameRequest
<1>8. Parsing'
  <2>1. start_line' = s /\ read_index' = r + n /\ checkstate' = state
        /\ result' = "NO_REQUEST" /\ request' = request
    BY <1>1, <1>3, <1>4
  <2>2. \A k \in start_line' + 1 .. read_index' : buffer'[k] = request'[k]
    BY <1>6, <2>1
  <2>3. Undecided(start_line, checkstate)'
    BY <1>7, <2>1 DEF Undecided, OnlyLines, Breaks, FirstValid, NoneEmpty
  <2> QED BY <2>1, <2>2, <2>3 DEF Parsing
<1>9. Waits' /\ Decided'
  BY <1>3 DEF Waits, Decided
<1>10. Indices'
  BY IndicesRecv DEF Agrees
<1> QED BY <1>8, <1>9, <1>10 DEF Agrees

LEMMA AgreesRecvEnds ==
  ASSUME Agrees, RecvZero \/ RecvFails
  PROVE  Agrees'
<1>1. /\ pc = "recv" /\ pc' = "done"
      /\ UNCHANGED <<request, closed, buffer, indices, checkstate, result>>
  BY DEF RecvZero, RecvFails
<1>2. Verdict(Received) = "NO_REQUEST" /\ result = "NO_REQUEST"
  BY <1>1, AsksWhileUndecided DEF Agrees, Parsing
<1>3. Verdict(Received)' = Verdict(Received)
  BY <1>1, SameReceived DEF indices
<1>4. Decided'
  BY <1>1, <1>2, <1>3 DEF Decided
<1>5. Parsing' /\ Waits'
  BY <1>1 DEF Parsing, Waits
<1>6. Indices'
  BY IndicesNext DEF Agrees, Next, ServerStep
<1> QED BY <1>4, <1>5, <1>6 DEF Agrees

LEMMA AgreesLineOpen ==
  ASSUME Agrees, LineOpen
  PROVE  Agrees'
<1>1. /\ pc = "parse" /\ pc' = "recv" /\ checked_index' = parse_line.checked
      /\ UNCHANGED <<request, closed, buffer, read_index, start_line, checkstate, result>>
      /\ EndsData(parse_line)
  BY LineIsFound DEF LineOpen, Agrees
<1>2. PICK s \in Nat, c \in Nat, r \in Nat, state \in {"REQUESTLINE", "HEADER"} :
        /\ s = start_line /\ c = checked_index /\ r = read_index /\ state = checkstate
        /\ s <= c /\ c <= r /\ Undecided(s, state)
        /\ \A k \in s + 1 .. r : buffer[k] = request[k]
        /\ \A j \in s .. r - 1 : Byte(j) = request[j + 1]
  BY <1>1, Scanned DEF Agrees
<1>3. PICK d \in c .. r : /\ d = parse_line.checked
                          /\ d = r \/ (d = r - 1 /\ Byte(d) = "CR")
  BY <1>1, <1>2 DEF EndsData
<1>4. d = r \/ (d = r - 1 /\ request[d + 1] = "CR")
  BY <1>2, <1>3
<1>5. Waits'
  BY <1>1, <1>2, <1>3, <1>4 DEF Waits
<1>6. Parsing'
  <2>1. Undecided(start_line, checkstate)' <=> Undecided(start_line, checkstate)
    BY <1>1 DEF Undecided, OnlyLines, Breaks, FirstValid, NoneEmpty
  <2> QED BY <1>1, <2>1 DEF Parsing, Agrees
<1>7. Decided'
  BY <1>1 DEF Decided
<1>8. Indices'
  BY IndicesScan DEF Agrees
<1> QED BY <1>5, <1>6, <1>7, <1>8 DEF Agrees

LEMMA AgreesLineBad ==
  ASSUME Agrees, LineBad
  PROVE  Agrees'
<1>1. /\ pc = "parse" /\ pc' = "done" /\ result' = "BAD_REQUEST"
      /\ UNCHANGED <<request, closed, buffer, read_index, start_line, checkstate>>
      /\ FindsStray(parse_line)
  BY LineIsFound DEF LineBad, Agrees, Answer
<1>2. PICK s \in Nat, c \in Nat, r \in Nat, state \in {"REQUESTLINE", "HEADER"} :
        /\ s = start_line /\ c = checked_index /\ r = read_index /\ state = checkstate
        /\ s <= c /\ c <= r /\ Undecided(s, state) /\ Plain(s + 1, c)
        /\ \A j \in s .. r - 1 : Byte(j) = request[j + 1]
  BY <1>1, Scanned DEF Agrees
<1>3. PICK d \in c .. r - 1 :
        /\ d = parse_line.checked /\ Clean(c, d)
        /\ \/ Byte(d) = "CR" /\ d + 1 < r /\ Byte(d + 1) # "LF"
           \/ Byte(d) = "LF"
  BY <1>1, <1>2 DEF FindsStray
<1>4. d \in Nat /\ s <= d /\ s <= r /\ d < r /\ d <= r
  BY <1>2, <1>3
<1>5. Plain(s + 1, d)
  BY <1>2, <1>3, <1>4, StillPlain
<1>6. \/ request[d + 1] = "CR" /\ d + 1 < r /\ request[d + 2] # "LF"
      \/ request[d + 1] = "LF"
  <2>1. Byte(d) = request[d + 1]
    BY <1>2, <1>4
  <2>2. CASE d + 1 < r
    <3>1. d + 1 \in s .. r - 1 /\ (d + 1) + 1 = d + 2
      BY <1>4, <2>2
    <3>2. Byte(d + 1) = request[d + 2]
      BY <1>2, <3>1
    <3> QED BY <1>3, <2>1, <3>2
  <2> QED BY <1>3, <2>1, <2>2
<1>7. Verdict(Received) = "BAD_REQUEST"
  BY <1>2, <1>4, <1>5, <1>6, DecidedByStray DEF Agrees
<1>8. Verdict(Received)' = Verdict(Received)
  BY <1>1, SameReceived
<1>9. Parsing' /\ Waits' /\ Decided'
  BY <1>1, <1>7, <1>8 DEF Parsing, Waits, Decided
<1>10. Indices'
  BY IndicesScan DEF Agrees
<1> QED BY <1>9, <1>10 DEF Agrees

(* A complete line: the two state machines do with it what the reference   *)
(* says.                                                                   *)
LEMMA AgreesParseLine ==
  ASSUME Agrees, ParseLine
  PROVE  Agrees'
<1>1. PICK p \in {parse_line} :
        /\ EndsLine(p)
        /\ checked_index' = p.checked /\ start_line' = p.checked
        /\ UNCHANGED <<request, closed, read_index>>
        /\ \A k \in p.checked + 1 .. read_index : buffer'[k] = buffer[k]
  BY LineIsErased DEF Agrees
<1>2. pc = "parse"
  BY DEF ParseLine
<1>3. PICK s \in Nat, c \in Nat, r \in Nat, state \in {"REQUESTLINE", "HEADER"} :
        /\ s = start_line /\ c = checked_index /\ r = read_index /\ state = checkstate
        /\ s <= c /\ c <= r /\ Undecided(s, state) /\ Plain(s + 1, c)
        /\ \A k \in s + 1 .. r : buffer[k] = request[k]
        /\ \A j \in s .. r - 1 : Byte(j) = request[j + 1]
  BY <1>2, Scanned DEF Agrees
<1>4. PICK d \in Nat : /\ p.checked = d + 2 /\ c <= d /\ d + 2 <= r
                       /\ Clean(c, d) /\ Byte(d) = "CR" /\ Byte(d + 1) = "LF"
  <2>1. PICK e \in c + 2 .. r : e = p.checked
    BY <1>1, <1>3 DEF EndsLine
  <2>2. e - 2 \in Nat /\ e = (e - 2) + 2 /\ c <= e - 2 /\ e <= r /\ e - 1 = (e - 2) + 1
    BY <2>1
  <2>3. Clean(c, e - 2) /\ Byte(e - 2) = "CR" /\ Byte(e - 1) = "LF"
    BY <1>1, <1>3, <2>1 DEF EndsLine
  <2> QED BY <2>1, <2>2, <2>3
<1>5. s <= d /\ d <= r /\ s <= r /\ d + 2 <= read_index
  BY <1>3, <1>4
<1>6. Plain(s + 1, d)
  BY <1>3, <1>4, <1>5, StillPlain
<1>7. request[d + 1] = "CR" /\ request[d + 2] = "LF"
  <2>1. d \in s .. r - 1 /\ d + 1 \in s .. r - 1 /\ (d + 1) + 1 = d + 2
    BY <1>3, <1>4, <1>5
  <2> QED BY <1>3, <1>4, <2>1
<1>8. OnlyLines(s)
  BY <1>3 DEF Undecided
<1>9. OnlyLines(d + 2) /\ Breaks(d + 2) = Breaks(s) \cup {d + 1}
  BY <1>5, <1>6, <1>7, <1>8, LineAdded DEF Agrees
<1>10. SubSeq(buffer, s + 1, d) = SubSeq(request, s + 1, d)
  <2>1. PICK b \in Seq(Token), q \in Seq(Token) :
          b = buffer /\ q = request /\ Len(b) = r /\ r <= Len(q)
    BY <1>3, IndexTypes, ReadTypes DEF Agrees, Indices
  <2>2. PICK a \in Nat : a = s + 1 /\ a >= 1
    OBVIOUS
  <2>3. d \in Int /\ d <= Len(b) /\ d <= Len(q)
    BY <1>5, <2>1
  <2>4. \A k \in a .. d : b[k] = q[k]
    BY <1>3, <1>5, <2>1, <2>2
  <2>5. SubSeq(b, a, d) = SubSeq(q, a, d)
    BY <2>2, <2>3, <2>4, SamePart
  <2> QED BY <2>1, <2>2, <2>5
<1>11. PICK line : line = Text(s, d)
  OBVIOUS
<1>12. line \in Seq(Token)
  <2>1. PICK q \in Seq(Token) : q = request /\ d <= Len(q)
    BY <1>3, <1>5, ReadTypes DEF Agrees
  <2>2. PICK a \in Nat : a = s + 1 /\ a >= 1
    OBVIOUS
  <2>3. SubSeq(q, a, d) \in Seq(Token)
    BY <2>1, <2>2, PartOf
  <2> QED BY <1>11, <2>1, <2>2, <2>3, CStringType DEF Text
<1>13. CString(SubSeq(buffer, start_line + 1, p.checked - 2)) = line
  <2>1. p.checked - 2 = d
    BY <1>4
  <2> QED BY <1>3, <1>10, <1>11, <2>1 DEF Text
<1>14. \/ /\ state = "REQUESTLINE" /\ parse_requestline(line)
          /\ checkstate' = "HEADER" /\ pc' = pc /\ result' = result
       \/ /\ state = "REQUESTLINE" /\ ~parse_requestline(line)
          /\ pc' = "done" /\ result' = "BAD_REQUEST"
       \/ /\ state = "HEADER" /\ line # <<>>
          /\ checkstate' = "HEADER" /\ pc' = pc /\ result' = result
       \/ /\ state = "HEADER" /\ line = <<>>
          /\ pc' = "done" /\ result' = "GET_REQUEST"
  BY <1>1, <1>3, <1>13 DEF ParseLine, Answer, parse_headers
<1>15. \A k \in d + 3 .. r : buffer'[k] = request[k]
  <2> SUFFICES ASSUME NEW k \in d + 3 .. r PROVE buffer'[k] = request[k]
    OBVIOUS
  <2>1. k \in (d + 2) + 1 .. r /\ k \in s + 1 .. r
    BY <1>5
  <2> QED BY <1>1, <1>3, <1>4, <2>1
<1>16. /\ Verdict(Received)' = Verdict(Received)
       /\ Undecided(d + 2, "HEADER")' <=> Undecided(d + 2, "HEADER")
  BY <1>1, SameReceived, SameRequest
<1>17. result = "NO_REQUEST" /\ pc' = pc => pc' = "parse"
  BY <1>2
<1>18. result = "NO_REQUEST"
  BY <1>2 DEF Agrees, Parsing
<1>19. CASE Undecided(d + 2, "HEADER") /\ checkstate' = "HEADER" /\ pc' = pc
              /\ result' = result
  <2>1. start_line' = d + 2 /\ read_index' = r /\ request' = request
    BY <1>1, <1>3, <1>4
  <2>2. \A k \in start_line' + 1 .. read_index' : buffer'[k] = request'[k]
    <3>1. (d + 2) + 1 = d + 3
      OBVIOUS
    <3> QED BY <1>15, <2>1, <3>1
  <2>3. Undecided(start_line, checkstate)'
    BY <1>16, <1>19, <2>1 DEF Undecided, OnlyLines, Breaks, FirstValid, NoneEmpty
  <2>4. Parsing'
    BY <1>18, <1>19, <2>2, <2>3 DEF Parsing
  <2>5. Waits' /\ Decided'
    BY <1>2, <1>19 DEF Waits, Decided
  <2> QED BY <2>4, <2>5, IndicesParseLine DEF Agrees
<1>20. CASE Verdict(Received) = result' /\ pc' = "done"
  <2>1. Parsing' /\ Waits' /\ Decided'
    BY <1>16, <1>20 DEF Parsing, Waits, Decided
  <2> QED BY <2>1, IndicesParseLine DEF Agrees
<1>21. CASE state = "REQUESTLINE"
  <2>1. s = 0 /\ Breaks(s) = {}
    BY <1>3, <1>21 DEF Undecided, Breaks
  <2>2. Breaks(d + 2) = {d + 1}
    BY <1>9, <2>1
  <2>3. /\ ~ValidRequestLine(line) => Verdict(Received) = "BAD_REQUEST"
        /\ ValidRequestLine(line) => Undecided(d + 2, "HEADER")
    BY <1>5, <1>9, <1>11, <2>1, <2>2, FirstLineRead DEF Agrees
  <2>4. parse_requestline(line) <=> ValidRequestLine(line)
    BY <1>12, SameRequestLine
  <2> QED BY <1>14, <1>19, <1>20, <1>21, <2>3, <2>4
<1>22. CASE state = "HEADER"
  <2>1. /\ line = <<>> => Verdict(Received) = "GET_REQUEST"
        /\ line # <<>> => Undecided(d + 2, "HEADER")
    BY <1>3, <1>5, <1>9, <1>11, <1>22, HeaderRead DEF Agrees
  <2> QED BY <1>14, <1>19, <1>20, <1>22, <2>1
<1> QED BY <1>21, <1>22

LEMMA AgreesNext == Agrees /\ [Next]_vars => Agrees'
<1> SUFFICES ASSUME Agrees, [Next]_vars PROVE Agrees'
  OBVIOUS
<1>1. Indices'
  BY IndicesNext DEF Agrees
<1>2. CASE ClientCloses \/ UNCHANGED vars
  <2>1. UNCHANGED <<pc, request, buffer, read_index, checked_index, start_line,
                    checkstate, result>>
    BY <1>2 DEF ClientCloses, vars, indices
  <2>2. /\ Undecided(start_line, checkstate)' <=> Undecided(start_line, checkstate)
        /\ Verdict(Received)' = Verdict(Received)
    BY <2>1, SameReceived DEF Undecided, OnlyLines, Breaks, FirstValid, NoneEmpty
  <2>3. Parsing' /\ Waits' /\ Decided'
    BY <2>1, <2>2 DEF Agrees, Parsing, Waits, Decided
  <2> QED BY <1>1, <2>3 DEF Agrees
<1> QED
  BY <1>2, AgreesRecv, AgreesRecvEnds, AgreesLineOpen, AgreesLineBad, AgreesParseLine
     DEF Next, ServerStep

(* For every request, every cut into chunks and every size of the buffer   *)
(* the parser answers what the reference says of what was received, and    *)
(* asks for more only while the reference is undecided (lines 164-210).    *)
THEOREM ParsesCorrectly == Spec => []ParsesLikeReference
<1>1. Spec => []Agrees
  BY AgreesInit, AgreesNext, PTL DEF Spec
<1>2. Agrees => ParsesLikeReference
  BY AsksWhileUndecided DEF ParsesLikeReference, Agrees, Decided
<1> QED BY <1>1, <1>2, PTL
=============================================================================
