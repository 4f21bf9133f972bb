--------------------------- MODULE SecurlMessages ---------------------------
(***************************************************************************)
(* The messages of proto/securl/v1 as their generated Go code handles      *)
(* them.  Three functions are generated per message, and each keeps its    *)
(* own list of the fields:                                                 *)
(*   UnmarshalX  the cases of the switch on the field number, in order of  *)
(*               that number (1, 2, ...);                                  *)
(*   MarshalX    the writes of MarshalToSizedBufferVTStrict in the order   *)
(*               in which they fill the buffer, from its end to its        *)
(*               start, each with the tag byte it writes;                  *)
(*   SizeX       the terms of SizeVT, which MarshalVTStrict allocates.     *)
(* Nothing ties the three lists together but the properties of             *)
(* RequestDecoding and MessageRoundTrip.                                   *)
(*                                                                         *)
(* A message is a record of its fields and its unknownFields.  A pointer   *)
(* to a message is <<>> when nil and <<m>> otherwise.                      *)
(***************************************************************************)
EXTENDS ProtobufWire

Bytes(name)      == [name |-> name, type |-> "bytes", of |-> ""]   \* string, too
Uint32(name)     == [name |-> name, type |-> "uint32", of |-> ""]
Int64(name)      == [name |-> name, type |-> "int64", of |-> ""]
Enum(name)       == [name |-> name, type |-> "enum", of |-> ""]
Bool(name)       == [name |-> name, type |-> "bool", of |-> ""]
Packed(name)     == [name |-> name, type |-> "packed", of |-> ""]
ManyBytes(name)  == [name |-> name, type |-> "many bytes", of |-> ""]
Msg(name, of)    == [name |-> name, type |-> "message", of |-> of]
ManyMsg(name, of) == [name |-> name, type |-> "many messages", of |-> of]

-----------------------------------------------------------------------------
(* envelope.proto *)

UnmarshalPasswordLayer == <<Bytes("salt"), Bytes("nonce"), Enum("profile")>>
MarshalPasswordLayer ==
    <<<<Enum("profile"), 24>>, <<Bytes("nonce"), 18>>, <<Bytes("salt"), 10>>>>
SizePasswordLayer == <<Bytes("salt"), Bytes("nonce"), Enum("profile")>>

UnmarshalCaptchaLayer == <<Bytes("nonce")>>
MarshalCaptchaLayer == <<<<Bytes("nonce"), 10>>>>
SizeCaptchaLayer == <<Bytes("nonce")>>

UnmarshalEnvelopeMetadata ==
    <<Uint32("protocolVersion"), Uint32("featureFlags"), Uint32("ttlSeconds"),
      Bytes("payloadNonce"), Msg("password", "PasswordLayer"),
      Msg("captcha", "CaptchaLayer"), Enum("payloadKind")>>
MarshalEnvelopeMetadata ==
    <<<<Enum("payloadKind"), 56>>, <<Msg("captcha", "CaptchaLayer"), 50>>,
      <<Msg("password", "PasswordLayer"), 42>>, <<Bytes("payloadNonce"), 34>>,
      <<Uint32("ttlSeconds"), 24>>, <<Uint32("featureFlags"), 16>>,
      <<Uint32("protocolVersion"), 8>>>>
SizeEnvelopeMetadata ==
    <<Uint32("protocolVersion"), Uint32("featureFlags"), Uint32("ttlSeconds"),
      Bytes("payloadNonce"), Msg("password", "PasswordLayer"),
      Msg("captcha", "CaptchaLayer"), Enum("payloadKind")>>

UnmarshalEnvelope == <<Msg("metadata", "EnvelopeMetadata"), Bytes("ciphertext")>>
MarshalEnvelope ==
    <<<<Bytes("ciphertext"), 18>>, <<Msg("metadata", "EnvelopeMetadata"), 10>>>>
SizeEnvelope == <<Msg("metadata", "EnvelopeMetadata"), Bytes("ciphertext")>>

-----------------------------------------------------------------------------
(* api.proto *)

UnmarshalCreateEnvelopeRequest ==
    <<Bytes("storageKey"), Msg("envelope", "Envelope"), Bytes("captchaKey"),
      Bytes("captchaToken")>>
MarshalCreateEnvelopeRequest ==
    <<<<Bytes("captchaToken"), 34>>, <<Bytes("captchaKey"), 26>>,
      <<Msg("envelope", "Envelope"), 18>>, <<Bytes("storageKey"), 10>>>>
SizeCreateEnvelopeRequest ==
    <<Bytes("storageKey"), Msg("envelope", "Envelope"), Bytes("captchaKey"),
      Bytes("captchaToken")>>

UnmarshalCreateEnvelopeResponse == <<Int64("expiresAtUnix"), Bool("replayed")>>
MarshalCreateEnvelopeResponse ==
    <<<<Bool("replayed"), 16>>, <<Int64("expiresAtUnix"), 8>>>>
SizeCreateEnvelopeResponse == <<Int64("expiresAtUnix"), Bool("replayed")>>

UnmarshalGetEnvelopeMetadataResponse ==
    <<Msg("metadata", "EnvelopeMetadata"), Int64("expiresAtUnix")>>
MarshalGetEnvelopeMetadataResponse ==
    <<<<Int64("expiresAtUnix"), 16>>, <<Msg("metadata", "EnvelopeMetadata"), 10>>>>
SizeGetEnvelopeMetadataResponse ==
    <<Msg("metadata", "EnvelopeMetadata"), Int64("expiresAtUnix")>>

UnmarshalAccessEnvelopeRequest == <<Bytes("captchaToken")>>
MarshalAccessEnvelopeRequest == <<<<Bytes("captchaToken"), 10>>>>
SizeAccessEnvelopeRequest == <<Bytes("captchaToken")>>

UnmarshalAccessEnvelopeResponse ==
    <<Msg("envelope", "Envelope"), Bytes("captchaKey"), Int64("expiresAtUnix")>>
MarshalAccessEnvelopeResponse ==
    <<<<Int64("expiresAtUnix"), 24>>, <<Bytes("captchaKey"), 18>>,
      <<Msg("envelope", "Envelope"), 10>>>>
SizeAccessEnvelopeResponse ==
    <<Msg("envelope", "Envelope"), Bytes("captchaKey"), Int64("expiresAtUnix")>>

UnmarshalRuntimeConfig ==
    <<Bool("safeBrowsingEnabled"), Enum("captchaProvider"),
      Bytes("captchaSiteKey"), Packed("allowedTtlSeconds"),
      Uint32("defaultTtlSeconds"), Uint32("maxUrlBytes"),
      Bool("createCaptchaRequired"), Uint32("maxPasteBytes")>>
MarshalRuntimeConfig ==
    <<<<Uint32("maxPasteBytes"), 64>>, <<Bool("createCaptchaRequired"), 56>>,
      <<Uint32("maxUrlBytes"), 48>>, <<Uint32("defaultTtlSeconds"), 40>>,
      <<Packed("allowedTtlSeconds"), 34>>, <<Bytes("captchaSiteKey"), 26>>,
      <<Enum("captchaProvider"), 16>>, <<Bool("safeBrowsingEnabled"), 8>>>>
\* Mutated form: the size forgets the field that was added last.
SizeRuntimeConfigWithoutPaste ==
    <<Bool("safeBrowsingEnabled"), Enum("captchaProvider"),
      Bytes("captchaSiteKey"), Packed("allowedTtlSeconds"),
      Uint32("defaultTtlSeconds"), Uint32("maxUrlBytes"),
      Bool("createCaptchaRequired")>>
SizeRuntimeConfig ==
    <<Bool("safeBrowsingEnabled"), Enum("captchaProvider"),
      Bytes("captchaSiteKey"), Packed("allowedTtlSeconds"),
      Uint32("defaultTtlSeconds"), Uint32("maxUrlBytes"),
      Bool("createCaptchaRequired"), Uint32("maxPasteBytes")>>

UnmarshalSafeBrowsingLookupRequest == <<ManyBytes("hashPrefixes")>>
MarshalSafeBrowsingLookupRequest == <<<<ManyBytes("hashPrefixes"), 10>>>>
SizeSafeBrowsingLookupRequest == <<ManyBytes("hashPrefixes")>>

UnmarshalSafeBrowsingFullHash ==
    <<Bytes("fullHash"), Bytes("threatType"), ManyBytes("attributes"),
      Uint32("cacheSeconds")>>
MarshalSafeBrowsingFullHash ==
    <<<<Uint32("cacheSeconds"), 32>>, <<ManyBytes("attributes"), 26>>,
      <<Bytes("threatType"), 18>>, <<Bytes("fullHash"), 10>>>>
SizeSafeBrowsingFullHash ==
    <<Bytes("fullHash"), Bytes("threatType"), ManyBytes("attributes"),
      Uint32("cacheSeconds")>>

UnmarshalSafeBrowsingLookupResponse ==
    <<ManyMsg("fullHashes", "SafeBrowsingFullHash")>>
MarshalSafeBrowsingLookupResponse ==
    <<<<ManyMsg("fullHashes", "SafeBrowsingFullHash"), 10>>>>
SizeSafeBrowsingLookupResponse == <<ManyMsg("fullHashes", "SafeBrowsingFullHash")>>

UnmarshalErrorResponse == <<Bytes("code"), Bytes("message"), Bytes("requestId")>>
MarshalErrorResponse ==
    <<<<Bytes("requestId"), 26>>, <<Bytes("message"), 18>>, <<Bytes("code"), 10>>>>
SizeErrorResponse == <<Bytes("code"), Bytes("message"), Bytes("requestId")>>
=============================================================================
