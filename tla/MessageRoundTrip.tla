-------------------------- MODULE MessageRoundTrip --------------------------
(***************************************************************************)
(* A program fills in a generated message field by field, as the handlers  *)
(* do before writeMessage, and writes it.  Whatever it filled in, the      *)
(* message's three generated functions have to agree on it.                *)
(***************************************************************************)
EXTENDS ProtobufCodec

CONSTANTS Kinds,      \* the messages to build
          Values      \* per field type, the values a field may be set to

VARIABLES kind, message

vars == <<kind, message>>

Init == kind \in Kinds /\ message = Empty(kind)

\* A nested message is absent, empty, or has every field set.
Full(of) ==
    LET named(n) == CHOOSE f \in Range(Cases(of)) : f.name = n
    IN  [n \in DOMAIN Empty(of) |->
            IF n = "unknownFields" \/ named(n).type \in {"message", "many messages"}
            THEN Empty(of)[n] ELSE CHOOSE v \in Values[named(n).type] : TRUE]

Settings(field) ==
    CASE field.type = "message"       -> {<<Empty(field.of)>>, <<Full(field.of)>>}
      [] field.type = "many messages" -> {<<Empty(field.of), Full(field.of)>>}
      [] OTHER                        -> Values[field.type]

SetField ==
    /\ \E field \in Range(Cases(kind)) : \E value \in Settings(field) :
         message' = [message EXCEPT ![field.name] = value]
    /\ UNCHANGED kind

Next == SetField

Spec == Init /\ [][Next]_vars

-----------------------------------------------------------------------------

\* SizeVT, MarshalVTStrict and UnmarshalVT agree: the buffer that SizeVT
\* allocates is filled exactly (MarshalVTStrict neither panics nor returns the
\* buffer's unwritten start), and reading the bytes back gives the message,
\* every field of it, with nothing left in unknownFields.
RoundTrip ==
    LET encoded == MarshalVTStrict(kind, message)
    IN  /\ encoded.ok
        /\ SizeVT(kind, message) = Len(encoded.value)
        /\ UnmarshalVT(kind, encoded.value) = [ok |-> TRUE, m |-> message]
=============================================================================
