-------------------------------- MODULE Wire --------------------------------
(* The codec of the transport crate: what a request, a response and a hello   *)
(* become on a connection, and what the other end makes of them.              *)
(*                                                                            *)
(* A body is a sequence of cells.  A byte is one cell.  A wider number is as  *)
(* many digits, to a small base, as its width has in the order u16, u32, u64, *)
(* so that numbers of different widths are never confused, a number can be    *)
(* cut in the middle, and a length has a largest value.  An identifier (a     *)
(* Uuid) is one cell.  A text or a byte value is its length and its bytes,    *)
(* one of which, NotUtf8, is no part of any text.                             *)
EXTENDS Naturals, Sequences, SequencesExt

CONSTANTS
  Base,          \* the base of the digits
  NotUtf8,       \* a byte that no UTF-8 text contains
  MaxFrameLen    \* MAX_FRAME_LEN

-----------------------------------------------------------------------------
(* The types of the fields of a body.                                         *)

Number(width) == [kind |-> "number", width |-> width]
U8 == Number(1)
U16 == Number(2)
U32 == Number(3)
U64 == Number(4)
Uuid == U8

Text(width) == [kind |-> "text", width |-> width, utf8 |-> TRUE]
Bytes(width) == [kind |-> "text", width |-> width, utf8 |-> FALSE]
List(width, fields) == [kind |-> "list", width |-> width, of |-> fields]

(* A tag byte that says which of the alternatives follows.                    *)
Choice(alternatives) == [kind |-> "choice", of |-> alternatives, absent |-> "error"]
Flag == Choice(<< <<>>, <<>> >>)
Optional(type) == Choice(<< <<>>, <<type>> >>)

(* The same, read by code that takes a payload that ends here for the first   *)
(* alternative, and by code that does not look whether there is a byte left.  *)
MayEnd(choice) == [choice EXCEPT !.absent = "first"]
Unchecked(choice) == [choice EXCEPT !.absent = "panic"]

Condition == Choice(<< <<>>, <<>>, <<>> >>)
Expiration == Choice(<< <<>>, <<U64>>, <<U64>> >>)

Entry == <<Text(2), Bytes(3)>>
ExecResult ==
  Choice(<< <<>>, <<>>, <<Bytes(3)>>, <<Flag>>, <<U64>>, <<U64>>, <<List(3, Entry)>>,
            <<List(3, <<Optional(Bytes(3))>>)>>, <<U64, List(3, <<Text(2)>>)>> >>)

(* What decode_exec_result reads.                                             *)
ReadExecResult ==
  Choice(<< <<>>, <<>>, <<Bytes(3)>>, <<Flag>>, <<U64>>, <<U64>>,
            <<List(3, <<Text(2), Bytes(3)>>)>>, <<List(3, <<Optional(Bytes(3))>>)>>,
            <<U64, List(3, <<Text(2)>>)>> >>)

-----------------------------------------------------------------------------
(* Writing and reading a field.                                               *)

Largest(width) == Base ^ width - 1

Digits(n, width) ==
  IF width = 1 THEN <<n>> ELSE [i \in 1 .. width |-> (n \div Base ^ (width - i)) % Base]

Value(digits) == FoldLeft(LAMBDA n, d : n * Base + d, 0, digits)

(* A length that its field cannot hold makes the encoder fail; an enum, a     *)
(* flag and a number always fit.                                              *)
RECURSIVE Fits(_, _), FitAll(_, _)
Fits(type, v) ==
  CASE type.kind = "number" -> TRUE
    [] type.kind = "text" -> Len(v) <= Largest(type.width)
    [] type.kind = "choice" -> FitAll(type.of[v.tag + 1], v.fields)
    [] type.kind = "list" -> /\ Len(v) <= Largest(type.width)
                             /\ \A i \in DOMAIN v : FitAll(type.of, v[i])
FitAll(types, vs) == \A i \in DOMAIN types : Fits(types[i], vs[i])

RECURSIVE Encode(_, _), EncodeAll(_, _)
Encode(type, v) ==
  CASE type.kind = "number" -> Digits(v, type.width)
    [] type.kind = "text" -> Digits(Len(v), type.width) \o v
    [] type.kind = "choice" -> <<v.tag>> \o EncodeAll(type.of[v.tag + 1], v.fields)
    [] type.kind = "list" ->
         Digits(Len(v), type.width)
           \o FlattenSeq([i \in DOMAIN v |-> EncodeAll(type.of, v[i])])
EncodeAll(types, vs) == FlattenSeq([i \in DOMAIN types |-> Encode(types[i], vs[i])])

(* What a reader has made of the front of the cells, and what is left.        *)
Read(v, rest) == [got |-> "ok", value |-> v, rest |-> rest]
Unread(why) == [got |-> why, value |-> <<>>, rest |-> <<>>]

(* F of x; x is evaluated once, which keeps the readers below fast.           *)
Given(x, F(_)) == CHOOSE y \in {F(z) : z \in {x}} : TRUE

(* The reader goes on with what the first part has left.                      *)
Then(first, Go(_)) == Given(first, LAMBDA r : IF r.got = "ok" THEN Go(r) ELSE r)

(* Ex and Px exchanged by the reader.                                         *)
TaggedSwapped(tag, r) == [tag |-> IF tag = 2 THEN 1 ELSE tag, fields |-> r.value]

(* The value an enum's tag stands for.                                        *)
Tagged(tag, r) == [tag |-> tag, fields |-> r.value]

DecodeNumber(width, cells) ==
  IF Len(cells) < width THEN Unread("error")
  ELSE Read(Value(SubSeq(cells, 1, width)), SubSeq(cells, width + 1, Len(cells)))

DecodeText(type, cells) ==
  LET Bytes1(n) == SubSeq(n.rest, 1, n.value)
  IN Then(DecodeNumber(type.width, cells), LAMBDA n :
       IF Len(n.rest) < n.value \/ (type.utf8 /\ NotUtf8 \in Range(Bytes1(n)))
       THEN Unread("error")
       ELSE Read(Bytes1(n), SubSeq(n.rest, n.value + 1, Len(n.rest))))

RECURSIVE Decode(_, _), DecodeAll(_, _), DecodeItems(_, _, _)
Decode(type, cells) ==
  CASE type.kind = "number" -> DecodeNumber(type.width, cells)
    [] type.kind = "text" -> DecodeText(type, cells)
    [] type.kind = "list" ->
         Then(DecodeNumber(type.width, cells), LAMBDA n : DecodeItems(type.of, n.value, n.rest))
    [] type.kind = "choice" ->
         IF cells = <<>>
         THEN IF type.absent = "first" THEN Read([tag |-> 0, fields |-> <<>>], <<>>)
              ELSE Unread(type.absent)
         ELSE IF Head(cells) >= Len(type.of) THEN Unread("error")
         ELSE Then(DecodeAll(type.of[Head(cells) + 1], Tail(cells)), LAMBDA r :
                Read(Tagged(Head(cells), r), r.rest))

DecodeAll(types, cells) ==
  IF types = <<>> THEN Read(<<>>, cells)
  ELSE Then(Decode(Head(types), cells), LAMBDA first :
         Then(DecodeAll(Tail(types), first.rest), LAMBDA others :
           Read(<<first.value>> \o others.value, others.rest)))

DecodeItems(types, n, cells) ==
  IF n = 0 THEN Read(<<>>, cells)
  ELSE Then(DecodeAll(types, cells), LAMBDA first :
         Then(DecodeItems(types, n - 1, first.rest), LAMBDA others :
           Read(<<first.value>> \o others.value, others.rest)))

(* ensure_empty: bytes after the last field make the payload corrupt.         *)
DecodeWhole(types, cells) ==
  Then(DecodeAll(types, cells), LAMBDA r : IF r.rest = <<>> THEN r ELSE Unread("error"))
=============================================================================
