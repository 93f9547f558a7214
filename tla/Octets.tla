------------------------------- MODULE Octets -------------------------------
(***************************************************************************)
(* What the codecs share: integers as big-endian bytes, and a parser that  *)
(* takes a message apart from the left.  A parser's state is the bytes     *)
(* still to read and the fields read so far; a field that is absent is the *)
(* empty tuple, one that is present a tuple of one value.                  *)
(* Integers stay below 2^31; TLC has no larger ones.                       *)
(***************************************************************************)
EXTENDS Integers, Sequences, SequencesExt

Byte == 0 .. 255

BE(n, width) == [i \in 1 .. width |-> (n \div 256 ^ (width - i)) % 256]

Number(s) == FoldLeft(LAMBDA acc, b : acc * 256 + b, 0, s)

Drop(s, n) == SubSeq(s, n + 1, Len(s))

Some(v) == <<v>>
None == <<>>

(* A reading that failed, and one that took n bytes for value v. *)
Failed == [ok |-> FALSE]
Read(v, n) == [ok |-> TRUE, v |-> v, n |-> n]

(* A reading, or a value that is there, and what is made of it. *)
Then(r, Use(_)) == IF r.ok THEN Use(r) ELSE Failed
IfSome(o, Use(_)) == IF o = None THEN None ELSE Use(o[1])

Start(s) == [ok |-> TRUE, rest |-> s, got |-> <<>>]
Stop == [ok |-> FALSE, rest |-> <<>>, got |-> <<>>]

(* The parser's state after the reading r. *)
After(st, r) ==
  IF ~r.ok THEN Stop
  ELSE [st EXCEPT !.rest = Drop(@, r.n), !.got = Append(@, r.v)]

(* A sequence of readers, each applied to what the ones before it left. *)
ParseFields(s, fields, Reader(_, _)) ==
  FoldLeft(LAMBDA st, f : IF st.ok THEN After(st, Reader(st.rest, f)) ELSE st,
           Start(s), fields)
=============================================================================
