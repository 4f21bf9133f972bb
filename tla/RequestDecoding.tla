--------------------------- MODULE RequestDecoding --------------------------
(***************************************************************************)
(* readRequest of internal/httpapi/protobuf.go for the three requests that *)
(* have a body: the media type, the body as it arrives in pieces through   *)
(* http.MaxBytesReader, and decodeCanonical at its end.  Any client may    *)
(* send any bytes.                                                         *)
(***************************************************************************)
EXTENDS ProtobufCodec

CONSTANTS RequestKinds,     \* the message the handler expects
          Pieces,           \* per kind, what one read of the body may deliver
          MaxPieces,        \* bound: reads per body
          maxBytes          \* the handler's limit on the body

VARIABLES kind,      \* the kind of request the handler decodes
          body,      \* the bytes read so far
          pieces,    \* how many reads delivered them
          status     \* "headers", "reading", or the result of readRequest

vars == <<kind, body, pieces, status>>

Init ==
    /\ kind \in RequestKinds
    /\ body = <<>> /\ pieces = 0
    /\ status = "headers"

\* The Content-Type header is checked before anything is read.
CheckMediaType ==
    /\ status = "headers"
    /\ status' \in {"reading", "unsupported_media_type"}
    /\ UNCHANGED <<kind, body, pieces>>

\* A read delivers a piece of the body; more than maxBytes ends the request.
ReadPiece ==
    /\ status = "reading" /\ pieces < MaxPieces
    /\ \E piece \in Pieces[kind] :
         /\ body' = body \o piece
         /\ status' = IF Len(body') > maxBytes THEN "content_too_large" ELSE status
    /\ pieces' = pieces + 1
    /\ UNCHANGED kind

\* The connection fails before the body's end.
ReadFails ==
    /\ status = "reading"
    /\ status' = "invalid_request"
    /\ body' = <<>>
    /\ UNCHANGED <<kind, pieces>>

\* The end of the body.
Decode ==
    /\ status = "reading"
    /\ status' = IF decodeCanonical(body, kind).ok THEN "accepted" ELSE "invalid_request"
    /\ UNCHANGED <<kind, body, pieces>>

Next == CheckMediaType \/ ReadPiece \/ ReadFails \/ Decode

Spec == Init /\ [][Next]_vars

-----------------------------------------------------------------------------
(* Reference: the canonical form of the messages of proto/securl/v1.       *)
(* Fields appear in the order of their numbers, at most once unless they   *)
(* are repeated; a default value is left out; numbers are written in the   *)
(* shortest form and fit their type.                                       *)

Schema == [
    CreateEnvelopeRequest     |-> <<"bytes", "Envelope", "bytes", "bytes">>,
    AccessEnvelopeRequest     |-> <<"bytes">>,
    SafeBrowsingLookupRequest |-> <<"bytes*">>,
    Envelope                  |-> <<"EnvelopeMetadata", "bytes">>,
    EnvelopeMetadata          |-> <<"uint32", "uint32", "uint32", "bytes",
                                    "PasswordLayer", "CaptchaLayer", "enum">>,
    PasswordLayer             |-> <<"bytes", "bytes", "enum">>,
    CaptchaLayer              |-> <<"bytes">>]

\* s spells the number v in the fewest groups.
Spells(s, v) ==
    /\ s # <<>>
    /\ \A k \in 1..(Len(s) - 1) : s[k] >= 128
    /\ Last(s) < 128 /\ (Len(s) > 1 => Last(s) # 0)
    /\ 7 * Len(s) < WordBits + 7
    /\ v = SumFunction([k \in DOMAIN s |-> (s[k] % 128) * 128^(k - 1)])

RECURSIVE CanonicalFields(_, _, _)

CanonicalField(type, number, s) ==
    LET body_(k) == SubSeq(s, k + 1, Len(s))
        value    == SubSeq(s, 2, Len(s))
    IN  IF type \in {"uint32", "enum"}
        THEN /\ s[1] = 8 * number
             /\ \E v \in 1..(2^HalfBits - 1) :
                  IF type = "enum" /\ v >= 2^(HalfBits - 1)
                  THEN Spells(value, v + 2^WordBits - 2^HalfBits)
                  ELSE Spells(value, v)
        ELSE /\ s[1] = 8 * number + 2
             /\ \E k \in 2..Len(s) :
                  /\ Spells(SubSeq(s, 2, k), Len(s) - k)
                  /\ type = "bytes" => Len(s) > k
                  /\ type \notin {"bytes", "bytes*"} => CanonicalFields(type, body_(k), 1)

CanonicalFields(message, s, from) ==
    \/ s = <<>>
    \/ \E number \in from..Len(Schema[message]), k \in 2..Len(s) :
         /\ CanonicalField(Schema[message][number], number, SubSeq(s, 1, k))
         /\ CanonicalFields(message, SubSeq(s, k + 1, Len(s)),
                IF Schema[message][number] = "bytes*" THEN number ELSE number + 1)

-----------------------------------------------------------------------------
(* Properties *)

\* readRequest accepts exactly the canonical encodings of the message the
\* handler expects, each of them a single byte string: whatever the integers'
\* overflow, a truncated field number, a nested or repeated message or an
\* unknown field does to UnmarshalVT, a body that gets through is one that the
\* schema describes, and no such body is turned away.
AcceptsCanonicalForms ==
    status = "accepted" \/ (status = "invalid_request" /\ body # <<>>)
        => (status = "accepted" <=> CanonicalFields(kind, body, 1))
=============================================================================
