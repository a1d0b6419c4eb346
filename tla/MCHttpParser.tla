---------------------------- MODULE MCHttpParser ----------------------------
(***************************************************************************)
(* TLC instances of HttpParser: the requests are a correct one, more data   *)
(* behind it, with up to Errors tokens replaced by others, or without typos *)
(* but cut short by the client.                                             *)
(***************************************************************************)
EXTENDS HttpParser, TLC

CONSTANT Errors

Correct ==
  <<"GET", "SP", "http://", "PATH", "SP", "HTTP/1.1", "CR", "LF",
    "Host:", "CR", "LF", "CR", "LF", "other">>

Typos == {"CR", "LF", "SP", "NUL", "PATH", "other"}

Patched(s, where) ==
  {[k \in 1 .. Len(s) |-> IF k \in where THEN f[k] ELSE s[k]] : f \in [where -> Typos]}

Faulty ==
  UNION {Patched(Correct, where) : where \in kSubset(Errors, 1 .. Len(Correct))}

CutShort == {UpTo(Correct, n + 1) : n \in 0 .. Len(Correct)}

FaultyOrShort == Faulty \cup CutShort
=============================================================================
