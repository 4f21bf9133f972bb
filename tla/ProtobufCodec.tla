---------------------------- MODULE ProtobufCodec ---------------------------
(***************************************************************************)
(* UnmarshalVT, SizeVT and MarshalVTStrict over the field lists of         *)
(* SecurlMessages, and decodeCanonical of internal/httpapi/protobuf.go,    *)
(* which every request body and every stored envelope goes through.        *)
(***************************************************************************)
EXTENDS SecurlMessages

Codec == [
    PasswordLayer |-> <<UnmarshalPasswordLayer, MarshalPasswordLayer, SizePasswordLayer>>,
    CaptchaLayer |-> <<UnmarshalCaptchaLayer, MarshalCaptchaLayer, SizeCaptchaLayer>>,
    EnvelopeMetadata |->
        <<UnmarshalEnvelopeMetadata, MarshalEnvelopeMetadata, SizeEnvelopeMetadata>>,
    Envelope |-> <<UnmarshalEnvelope, MarshalEnvelope, SizeEnvelope>>,
    CreateEnvelopeRequest |->
        <<UnmarshalCreateEnvelopeRequest, MarshalCreateEnvelopeRequest,
          SizeCreateEnvelopeRequest>>,
    CreateEnvelopeResponse |->
        <<UnmarshalCreateEnvelopeResponse, MarshalCreateEnvelopeResponse,
          SizeCreateEnvelopeResponse>>,
    GetEnvelopeMetadataResponse |->
        <<UnmarshalGetEnvelopeMetadataResponse, MarshalGetEnvelopeMetadataResponse,
          SizeGetEnvelopeMetadataResponse>>,
    AccessEnvelopeRequest |->
        <<UnmarshalAccessEnvelopeRequest, MarshalAccessEnvelopeRequest,
          SizeAccessEnvelopeRequest>>,
    AccessEnvelopeResponse |->
        <<UnmarshalAccessEnvelopeResponse, MarshalAccessEnvelopeResponse,
          SizeAccessEnvelopeResponse>>,
    RuntimeConfig |-> <<UnmarshalRuntimeConfig, MarshalRuntimeConfig, SizeRuntimeConfig>>,
    SafeBrowsingLookupRequest |->
        <<UnmarshalSafeBrowsingLookupRequest, MarshalSafeBrowsingLookupRequest,
          SizeSafeBrowsingLookupRequest>>,
    SafeBrowsingFullHash |->
        <<UnmarshalSafeBrowsingFullHash, MarshalSafeBrowsingFullHash,
          SizeSafeBrowsingFullHash>>,
    SafeBrowsingLookupResponse |->
        <<UnmarshalSafeBrowsingLookupResponse, MarshalSafeBrowsingLookupResponse,
          SizeSafeBrowsingLookupResponse>>,
    ErrorResponse |-> <<UnmarshalErrorResponse, MarshalErrorResponse, SizeErrorResponse>>]

Cases(kind)  == Codec[kind][1]
Writes(kind) == Codec[kind][2]
Terms(kind)  == Codec[kind][3]

Numeric == {"uint32", "int64", "enum"}

\* The zero value of a field, and of a message.
Zero(field) ==
    CASE field.type \in Numeric -> 0
      [] field.type = "bool"    -> FALSE
      [] OTHER                  -> <<>>

EmptyMessages == [kind \in DOMAIN Codec |->
    LET named(n) == CHOOSE f \in Range(Cases(kind)) : f.name = n
        names    == {f.name : f \in Range(Cases(kind))}
    IN  [n \in names \union {"unknownFields"} |->
            IF n = "unknownFields" THEN <<>> ELSE Zero(named(n))]]

Empty(kind) == EmptyMessages[kind]

-----------------------------------------------------------------------------
(* UnmarshalVT *)

\* A varint as the field's own type keeps it.
Truncated(field, value) ==
    CASE field.type = "uint32" -> value % 2^HalfBits
      [] field.type = "enum"   -> Signed(value, HalfBits)
      [] field.type = "int64"  -> Signed(value, WordBits)
      [] field.type = "bool"   -> value # 0

WireTypes(field) ==
    CASE field.type \in Numeric \union {"bool"} -> {0}
      [] field.type = "packed"                  -> {0, 2}
      [] OTHER                                  -> {2}

RECURSIVE UnmarshalFrom(_, _, _, _)

\* The message with the field set, and the index after its value.
WithField(m, field, value, at) ==
    [ok |-> TRUE, m |-> [m EXCEPT ![field.name] = value], at |-> at]

FromVarint(field, m, varint) ==
    IF ~varint.ok THEN Failed
    ELSE IF field.type = "packed"
    THEN WithField(m, field, Append(m[field.name], varint.value % 2^HalfBits), varint.at)
    ELSE WithField(m, field, Truncated(field, varint.value), varint.at)

\* A nested message is read into the one that is there, an element of a repeated
\* field into a new one.
FromMessage(field, m, bytes) ==
    LET old    == m[field.name]
        target == IF field.type = "message" /\ old # <<>> THEN old[1] ELSE Empty(field.of)
        nested == UnmarshalFrom(field.of, target, bytes.value, 1)
    IN  IF ~nested.ok THEN Failed
        ELSE WithField(m, field,
                IF field.type = "message" THEN <<nested.m>> ELSE Append(old, nested.m), bytes.at)

FromPacked(field, m, packed) ==
    IF ~packed.ok THEN Failed
    ELSE WithField(m, field, m[field.name] \o packed.value, packed.at)

FromBytes(field, m, dAtA, bytes) ==
    IF ~bytes.ok THEN Failed
    ELSE CASE field.type = "bytes" -> WithField(m, field, bytes.value, bytes.at)
           [] field.type = "many bytes" ->
                WithField(m, field, Append(m[field.name], bytes.value), bytes.at)
           [] field.type = "packed" ->
                FromPacked(field, m,
                    ReadPacked(dAtA, bytes.at - Len(bytes.value), bytes.at - 1))
           [] field.type \in {"message", "many messages"} -> FromMessage(field, m, bytes)

\* One case of the switch: the message with the field set, or extended, from
\* the value at dAtA[i], and the index after that value.
ReadField(field, m, wireType, dAtA, i) ==
    IF wireType \notin WireTypes(field) THEN Failed
    ELSE IF wireType = 0 THEN FromVarint(field, m, ReadVarint(dAtA, i))
    ELSE FromBytes(field, m, dAtA, ReadBytes(dAtA, i))

\* A field the switch does not know is kept, tag and all, in unknownFields.
KeepUnknown(m, dAtA, i, skipped) ==
    IF ~skipped.ok THEN Failed
    ELSE IF skipped.at > Len(dAtA) + 1 THEN Failed
    ELSE [ok |-> TRUE, at |-> skipped.at,
          m  |-> [m EXCEPT !.unknownFields = @ \o SubSeq(dAtA, i, skipped.at - 1)]]

\* One round of UnmarshalVT's loop.  The field number is an int32, so a larger
\* number in the tag is cut to one.
ReadNext(kind, m, dAtA, i, tag) ==
    LET field == Signed(tag.value \div 8, HalfBits)
    IN  IF ~tag.ok THEN Failed
        ELSE IF tag.value % 8 = 4 \/ field <= 0 THEN Failed
        ELSE IF field \in DOMAIN Cases(kind)
        THEN ReadField(Cases(kind)[field], m, tag.value % 8, dAtA, tag.at)
        ELSE KeepUnknown(m, dAtA, i, Skip(dAtA, i, 0))

Resume(kind, dAtA, read) ==
    IF read.ok THEN UnmarshalFrom(kind, read.m, dAtA, read.at) ELSE Failed

\* The loop of UnmarshalVT from dAtA[i].
UnmarshalFrom(kind, m, dAtA, i) ==
    IF i > Len(dAtA) THEN [ok |-> i = Len(dAtA) + 1, m |-> m]
    ELSE Resume(kind, dAtA, ReadNext(kind, m, dAtA, i, ReadVarint(dAtA, i)))

UnmarshalVT(kind, dAtA) == UnmarshalFrom(kind, Empty(kind), dAtA, 1)

-----------------------------------------------------------------------------
(* SizeVT and MarshalVTStrict *)

RECURSIVE SizeVT(_, _)

SizeOfField(field, value) ==
    CASE field.type \in Numeric ->
            IF value = 0 THEN 0 ELSE 1 + SizeOfVarint(Word(value))
      [] field.type = "bool" -> IF value THEN 2 ELSE 0
      [] field.type = "bytes" ->
            IF value = <<>> THEN 0 ELSE 1 + SizeOfDelimited(Len(value))
      [] field.type = "packed" ->
            IF value = <<>> THEN 0
            ELSE 1 + SizeOfDelimited(SumFunction([k \in DOMAIN value |-> SizeOfVarint(value[k])]))
      [] field.type = "many bytes" ->
            SumFunction([k \in DOMAIN value |-> 1 + SizeOfDelimited(Len(value[k]))])
      [] OTHER ->
            SumFunction([k \in DOMAIN value |->
                            1 + SizeOfDelimited(SizeVT(field.of, value[k]))])

SizeVT(kind, m) ==
    FoldLeft(LAMBDA n, field : n + SizeOfField(field, m[field.name]),
             Len(m.unknownFields), Terms(kind))

RECURSIVE MarshalToSizedBufferVTStrict(_, _)

\* What one field adds in front of what the buffer already holds.
WriteField(field, tag, value) ==
    CASE field.type \in Numeric ->
            IF value = 0 THEN <<>> ELSE <<tag>> \o EncodeVarint(Word(value))
      [] field.type = "bool" -> IF value THEN <<tag, 1>> ELSE <<>>
      [] field.type = "bytes" ->
            IF value = <<>> THEN <<>> ELSE <<tag>> \o Delimited(value)
      [] field.type = "packed" ->
            IF value = <<>> THEN <<>>
            ELSE <<tag>> \o Delimited(FlattenSeq([k \in DOMAIN value |-> EncodeVarint(value[k])]))
      [] field.type = "many bytes" ->
            FlattenSeq([k \in DOMAIN value |-> <<tag>> \o Delimited(value[k])])
      [] OTHER ->
            FlattenSeq([k \in DOMAIN value |->
                <<tag>> \o Delimited(MarshalToSizedBufferVTStrict(field.of, value[k]))])

MarshalToSizedBufferVTStrict(kind, m) ==
    FoldLeft(LAMBDA written, w : WriteField(w[1], w[2], m[w[1].name]) \o written,
             m.unknownFields, Writes(kind))

\* The buffer has size bytes and is filled from its end, and the first n are
\* returned: a size too large returns the wrong bytes, one too small panics.
FillBuffer(data, size) ==
    LET n == Len(data)
    IN  IF n > size THEN Failed
        ELSE [ok |-> TRUE, value |-> SubSeq([k \in 1..(size - n) |-> 0] \o data, 1, n)]

MarshalVTStrict(kind, m) ==
    FillBuffer(MarshalToSizedBufferVTStrict(kind, m), SizeVT(kind, m))

-----------------------------------------------------------------------------
(* internal/httpapi/protobuf.go *)

RECURSIVE hasUnknownFields(_, _)
hasUnknownFields(kind, m) ==
    \/ m.unknownFields # <<>>
    \/ \E field \in Range(Cases(kind)) :
         /\ field.type \in {"message", "many messages"}
         /\ \E k \in DOMAIN m[field.name] : hasUnknownFields(field.of, m[field.name][k])

\* A decoded body is accepted if it has no unknown field and is what the
\* message itself is encoded to.
Canonical(body, kind, decoded) ==
    IF ~decoded.ok THEN Failed
    ELSE IF hasUnknownFields(kind, decoded.m) THEN Failed
    ELSE IF MarshalVTStrict(kind, decoded.m) # [ok |-> TRUE, value |-> body] THEN Failed
    ELSE decoded

\* Mutated form: whatever can be unmarshalled is accepted.
decodeLenient(body, kind) == UnmarshalVT(kind, body)

decodeCanonical(body, kind) == Canonical(body, kind, UnmarshalVT(kind, body))
=============================================================================
