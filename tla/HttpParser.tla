----------------------------- MODULE HttpParser -----------------------------
(***************************************************************************)
(* The HTTP request parser of chap8, 8-3httpparser.cpp: a slave state      *)
(* machine (parse_line) that finds the ends of lines in a buffer that      *)
(* fills chunk by chunk, and a master state machine (parse_content) that   *)
(* analyses the request line and then the headers.                         *)
(*                                                                         *)
(* The unit of the buffer is a token, not a byte: the parser tells apart   *)
(* only CR, LF, blanks, NUL and a few words.  Indices count from 0, as in  *)
(* the code.                                                               *)
(***************************************************************************)
EXTENDS Integers, SequencesExt

CONSTANTS
  Requests,     \* what the client may send, as sequences of tokens
  BUFFER_SIZE   \* tokens the read buffer holds (line 12)

Words == {"GET", "PATH", "http://", "HTTP/1.1", "Host:", "other"}
Token == {"CR", "LF", "SP", "NUL"} \cup Words

ASSUME HttpAssumption ==
  /\ Requests \subseteq Seq(Token)
  /\ BUFFER_SIZE \in Nat \ {0}

VARIABLES
  pc,             \* "recv", "parse" or "done"
  request,        \* what the client sends
  closed,         \* the client has closed its end
  buffer,
  read_index,
  checked_index,
  start_line,
  checkstate,
  result          \* the HTTP_CODE that ended the loop, if one did

indices == <<read_index, checked_index, start_line>>
vars == <<pc, request, closed, buffer, indices, checkstate, result>>

TypeOK ==
  /\ pc \in {"recv", "parse", "done"}
  /\ request \in Seq(Token)
  /\ closed \in BOOLEAN
  /\ buffer \in Seq(Token) /\ Len(buffer) = read_index
  /\ {read_index, checked_index, start_line} \subseteq 0 .. BUFFER_SIZE
  /\ checkstate \in {"REQUESTLINE", "HEADER"}
  /\ result \in {"NO_REQUEST", "GET_REQUEST", "BAD_REQUEST"}

Init ==
  /\ pc = "recv"
  /\ request \in Requests
  /\ closed = FALSE
  /\ buffer = <<>>
  /\ read_index = 0
  /\ checked_index = 0
  /\ start_line = 0
  /\ checkstate = "REQUESTLINE"
  /\ result = "NO_REQUEST"

-----------------------------------------------------------------------------
(* parse_line, lines 32-77 *)

Byte(k) == buffer[k + 1]

Stops == {k \in checked_index .. read_index - 1 : Byte(k) \in {"CR", "LF"}}

(* What parse_line returns: the status of the line, the new checked_index, *)
(* and the two positions it overwrites with NUL.                           *)
Line(status, checked, nuls) ==
  [status |-> status, checked |-> checked, nuls |-> nuls]

(* Mutant: a CR at the end of the data counts as analysed (lines 49-52).   *)
PastCr(k) == k + 1

(* Where checked_index stays when the CR at k is the last byte read.       *)
WaitAt(k) == k

parse_line ==
  IF Stops = {} THEN Line("OPEN", read_index, {})
  ELSE LET k == Min(Stops)
       IN  IF Byte(k) = "CR"
             THEN IF k + 1 = read_index THEN Line("OPEN", WaitAt(k), {})
                  ELSE IF Byte(k + 1) = "LF" THEN Line("OK", k + 2, {k, k + 1})
                  ELSE Line("BAD", k, {})
             ELSE IF k > 1 /\ Byte(k - 1) = "CR"
                    THEN Line("OK", k + 1, {k - 1, k})
                    ELSE Line("BAD", k, {})

-----------------------------------------------------------------------------
(* parse_requestline and parse_headers, lines 80-153 *)

HasSlash(t) == t \in {"PATH", "http://", "HTTP/1.1"}

From(s, k) == SubSeq(s, k, Len(s))
UpTo(s, k) == SubSeq(s, 1, k - 1)

(* A C string ends at the first NUL.                                       *)
CString(s) ==
  LET k == SelectInSeq(s, LAMBDA t : t = "NUL")
  IN  IF k = 0 THEN s ELSE UpTo(s, k)

(* The text that starts at the tokens url is a path, with or without host. *)
UrlOk(url) ==
  IF url[1] = "http://" THEN \E k \in 2 .. Len(url) : HasSlash(url[k])
                        ELSE url[1] = "PATH"

(* What strpbrk and strspn look for: the first member of S after j.        *)
IsNext(k, S, j) == k \in S /\ k > j /\ ~\E l \in S : j < l /\ l < k

(* The method ends at the first blank m, the URL is from u to the next     *)
(* blank v, and the version is all from w on.                              *)
parse_requestline(line) ==
  LET blanks == {k \in 1 .. Len(line) : line[k] = "SP"}
      others == (1 .. Len(line)) \ blanks
  IN  \E m, v \in blanks, u, w \in others :
        /\ IsNext(m, blanks, 0) /\ IsNext(u, others, m)
        /\ IsNext(v, blanks, u) /\ IsNext(w, others, v)
        /\ UpTo(line, m) = <<"GET">>
        /\ From(line, w) = <<"HTTP/1.1">>
        /\ UrlOk(SubSeq(line, u, v - 1))

(* Every header is accepted; the empty line ends the request.              *)
parse_headers(line) == IF line = <<>> THEN "GET_REQUEST" ELSE "NO_REQUEST"

-----------------------------------------------------------------------------
(* The loop of main, lines 256-288 *)

(* Mutant: recv may fill a whole buffer behind read_index (line 258).      *)
WholeBuffer == BUFFER_SIZE

Room == BUFFER_SIZE - read_index

(* recv returns any part of what the client has sent and there is room for.*)
Recv ==
  /\ pc = "recv"
  /\ \E n \in 1 .. Room :
       /\ read_index + n <= Len(request)
       /\ buffer' = buffer \o SubSeq(request, read_index + 1, read_index + n)
       /\ read_index' = read_index + n
  /\ pc' = "parse"
  /\ UNCHANGED <<request, closed, checked_index, start_line, checkstate, result>>

(* recv returns 0: the client has closed, or there is no room left.        *)
RecvZero ==
  /\ pc = "recv"
  /\ \/ Room = 0
     \/ closed /\ read_index = Len(request)
  /\ pc' = "done"
  /\ UNCHANGED <<request, closed, buffer, indices, checkstate, result>>

RecvFails ==
  /\ pc = "recv"
  /\ closed
  /\ pc' = "done"
  /\ UNCHANGED <<request, closed, buffer, indices, checkstate, result>>

Answer(code) ==
  /\ pc' = "done"
  /\ result' = code

(* One turn of the while loop of parse_content, when a line is complete:   *)
(* the text from start_line to its CR, which a NUL replaces.               *)
ParseLine ==
  /\ pc = "parse"
  /\ \E p \in {parse_line} :
       /\ p.status = "OK"
       /\ buffer' = [k \in 1 .. read_index |->
                       IF k - 1 \in p.nuls THEN "NUL" ELSE buffer[k]]
       /\ checked_index' = p.checked
       /\ start_line' = p.checked
       /\ \E line \in {CString(SubSeq(buffer, start_line + 1, p.checked - 2))} :
            \/ /\ checkstate = "REQUESTLINE" /\ parse_requestline(line)
               /\ checkstate' = "HEADER"
               /\ UNCHANGED <<pc, result>>
            \/ /\ checkstate = "REQUESTLINE" /\ ~parse_requestline(line)
               /\ Answer("BAD_REQUEST")
               /\ UNCHANGED checkstate
            \/ /\ checkstate = "HEADER" /\ parse_headers(line) = "NO_REQUEST"
               /\ UNCHANGED <<pc, checkstate, result>>
            \/ /\ checkstate = "HEADER" /\ parse_headers(line) = "GET_REQUEST"
               /\ Answer("GET_REQUEST")
               /\ UNCHANGED checkstate
  /\ UNCHANGED <<request, closed, read_index>>

(* Mutant: start_line is set whenever parse_line returns (line 169).       *)
LineOpenRestarts ==
  /\ pc = "parse"
  /\ parse_line.status = "OPEN"
  /\ checked_index' = parse_line.checked
  /\ start_line' = parse_line.checked
  /\ pc' = "recv"
  /\ UNCHANGED <<request, closed, buffer, read_index, checkstate, result>>

LineOpen ==
  /\ pc = "parse"
  /\ parse_line.status = "OPEN"
  /\ checked_index' = parse_line.checked
  /\ pc' = "recv"
  /\ UNCHANGED <<request, closed, buffer, read_index, start_line, checkstate, result>>

LineBad ==
  /\ pc = "parse"
  /\ parse_line.status = "BAD"
  /\ checked_index' = parse_line.checked
  /\ Answer("BAD_REQUEST")
  /\ UNCHANGED <<request, closed, buffer, read_index, start_line, checkstate>>

(* The client closes, or resets, its connection.                           *)
ClientCloses ==
  /\ ~closed
  /\ closed' = TRUE
  /\ UNCHANGED <<pc, request, buffer, indices, checkstate, result>>

ServerStep == Recv \/ RecvZero \/ RecvFails \/ ParseLine \/ LineOpen \/ LineBad

Next == ServerStep \/ ClientCloses

Spec == Init /\ [][Next]_vars

-----------------------------------------------------------------------------
(* The reference: what HTTP text means, without a buffer or chunks *)

Received == UpTo(request, read_index + 1)

Spaces(n) == [k \in 1 .. n |-> "SP"]

ValidRequestLine(line) ==
  \E m, n \in 1 .. Len(line) :
    \E k \in 1 .. Len(line) :
      LET url == SubSeq(line, 2 + m, k)
      IN  /\ url # <<>> /\ "SP" \notin Range(url) /\ UrlOk(url)
          /\ line = <<"GET">> \o Spaces(m) \o url \o Spaces(n) \o <<"HTTP/1.1">>

(* A text is decided by the first of: a CR or LF that is not part of a     *)
(* CRLF, a first line that is no request line, an empty later line.        *)
Verdict(text) ==
  LET n == Len(text)
      crs == {k \in 1 .. n : text[k] = "CR"}
      lfs == {k \in 1 .. n : text[k] = "LF"}
      stray == {k \in crs \ {n} : k + 1 \notin lfs} \cup {k \in lfs : k - 1 \notin crs}
      ends == {k \in crs : k + 1 \in lfs /\ \A j \in stray : k < j}
      lines == {l \in ends \X ends :
                  l[1] < l[2] /\ ~\E e \in ends : l[1] < e /\ e < l[2]}
  IN  IF ends # {} /\ \E line \in {CString(UpTo(text, Min(ends)))} :
                         ~ValidRequestLine(line)
        THEN "BAD_REQUEST"
      ELSE IF \E l \in lines : CString(SubSeq(text, l[1] + 2, l[2] - 1)) = <<>>
        THEN "GET_REQUEST"
      ELSE IF stray # {} THEN "BAD_REQUEST"
      ELSE "NO_REQUEST"

-----------------------------------------------------------------------------
(* Properties *)

(* However TCP cuts the request into chunks, and wherever a CR is cut off   *)
(* from its LF, the answer is that of the reference, and the parser asks    *)
(* for more data exactly as long as the reference is undecided (lines       *)
(* 164-210, 273-287).                                                       *)
ParsesLikeReference ==
  /\ pc = "recv" => Verdict(Received) = "NO_REQUEST"
  /\ pc = "done" => Verdict(Received) = result

(* The three indices keep their order, and what lies between the start of   *)
(* the line and checked_index has been analysed and ends no line (comments  *)
(* of lines 35-38, 166-169): no end of line is passed over or seen twice.   *)
IndexOrder ==
  /\ start_line <= checked_index /\ checked_index <= read_index
  /\ \A k \in start_line .. checked_index - 1 : Byte(k) \notin {"CR", "LF"}

(* An LF that the scan meets is never preceded by a CR: the branch of lines *)
(* 66-71, which tests checked_index > 1, is not taken, whatever the chunks. *)
LfAlwaysStray ==
  pc = "parse" /\ Stops # {} /\ Byte(Min(Stops)) = "LF" =>
    Min(Stops) = 0 \/ Byte(Min(Stops) - 1) # "CR"
=============================================================================
