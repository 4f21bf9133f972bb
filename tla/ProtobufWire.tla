---------------------------- MODULE ProtobufWire ----------------------------
(***************************************************************************)
(* The wire format as the generated code of gen/go/securl/v1 reads and     *)
(* writes it.  The code generator repeats the same few fragments for every *)
(* field (read a varint, read a length and its bytes, write a tag); each   *)
(* fragment is one operator here, with the lines of one place where it     *)
(* occurs, and SecurlMessages lists the fields the fragments are for.      *)
(*                                                                         *)
(* The machine's integers are narrower than the program's: uint64 and int  *)
(* have WordBits bits and uint32 and int32 have HalfBits, so that every    *)
(* overflow of the code happens within a few bytes.  A byte is a byte, and *)
(* a varint group has the format's 7 bits.                                 *)
(***************************************************************************)
EXTENDS Integers, Sequences, SequencesExt, FiniteSetsExt

CONSTANTS WordBits,     \* 64 in the program
          HalfBits      \* 32 in the program

ASSUME WidthAssumption ==
    WordBits \in Nat /\ HalfBits \in Nat /\ 3 < HalfBits /\ HalfBits < WordBits

\* A two's complement value of the given width.
Signed(value, bits) ==
    LET v == value % 2^bits IN IF v < 2^(bits - 1) THEN v ELSE v - 2^bits

\* Every error of the decoder gets the same answer from the server.
Failed == [ok |-> FALSE]

-----------------------------------------------------------------------------
(* Reading *)

\* One varint that starts at dAtA[i]: the bytes up to the first one below
\* 0x80, refused when the body ends first or when a group would start at or
\* beyond the word's width.  The last group's surplus bits are shifted out.
ReadVarint(dAtA, i) ==
    LET last == {k \in i..Len(dAtA) : dAtA[k] < 128}
        n    == Min(last)
        bits == [k \in i..n |-> (dAtA[k] % 128) * 128^(k - i)]
    IN  IF last = {} \/ 7 * (n - i) >= WordBits
        THEN Failed
        ELSE [ok    |-> TRUE,
              value |-> SumFunction(bits) % 2^WordBits,
              at    |-> n + 1]

\* The bytes that a length is followed by: the signed length must not be
\* negative, nor take the index past the end of the body or of the integer.
BytesAfter(dAtA, length) ==
    LET size == Signed(length.value, WordBits)
        post == Signed(length.at + size - 1, WordBits)
    IN  IF ~length.ok THEN Failed
        ELSE IF size < 0 \/ post < 0 \/ post > Len(dAtA) THEN Failed
        ELSE [ok |-> TRUE, value |-> SubSeq(dAtA, length.at, post), at |-> post + 1]

\* A length-delimited value.
ReadBytes(dAtA, i) == BytesAfter(dAtA, ReadVarint(dAtA, i))

\* The value that follows a tag, by its wire type, as Skip passes over it.
SkipValue(dAtA, tag, depth) ==
    LET wireType == tag.value % 8
    IN  CASE ~tag.ok      -> Failed
          [] wireType = 0 -> ReadVarint(dAtA, tag.at)
          [] wireType = 1 -> [ok |-> TRUE, at |-> tag.at + 8]
          [] wireType = 2 -> ReadBytes(dAtA, tag.at)
          [] wireType = 3 -> [ok |-> TRUE, at |-> tag.at]
          [] wireType = 4 -> [ok |-> depth > 0, at |-> tag.at]
          [] wireType = 5 -> [ok |-> TRUE, at |-> tag.at + 4]
          [] OTHER        -> Failed

\* protohelpers.Skip: the index after the field that starts at dAtA[i], whose
\* groups may be nested.
RECURSIVE Skip(_, _, _)
Skip(dAtA, i, depth) ==
    LET tag == ReadVarint(dAtA, i)
        end == SkipValue(dAtA, tag, depth)
        now == CASE tag.value % 8 = 3 -> depth + 1
                 [] tag.value % 8 = 4 -> depth - 1
                 [] OTHER             -> depth
    IN  IF i > Len(dAtA) \/ ~end.ok THEN Failed
        ELSE IF now = 0 THEN end
        ELSE Skip(dAtA, end.at, now)

\* The elements of a packed field that ends at post.  Only the end of the body
\* stops an element that runs past post.
RECURSIVE ReadPacked(_, _, _)
ReadPacked(dAtA, i, post) ==
    IF i > post THEN [ok |-> TRUE, value |-> <<>>, at |-> i]
    ELSE LET element == ReadVarint(dAtA, i)
             rest    == ReadPacked(dAtA, element.at, post)
         IN  IF ~element.ok THEN Failed
             ELSE IF ~rest.ok THEN Failed
             ELSE [rest EXCEPT !.value = <<element.value % 2^HalfBits>> \o @]

-----------------------------------------------------------------------------
(* Writing *)

\* protohelpers.EncodeVarint and SizeOfVarint: the shortest form.
RECURSIVE EncodeVarint(_)
EncodeVarint(value) ==
    IF value < 128 THEN <<value>>
    ELSE <<128 + (value % 128)>> \o EncodeVarint(value \div 128)

SizeOfVarint(value) == Min({n \in 1..(WordBits \div 7 + 1) : value < 2^(7 * n)})

\* uint64(v): a negative number is extended to the whole word.
Word(value) == value % 2^WordBits

Delimited(bytes) == EncodeVarint(Len(bytes)) \o bytes

SizeOfDelimited(length) == length + SizeOfVarint(length)
=============================================================================
