------------------------------ MODULE SyncWire ------------------------------
(***************************************************************************)
(* The records of a sync session as bytes (crates/sync/src/records.rs) and *)
(* the message in one of them (message.rs).  The fields of a message are   *)
(* at fixed offsets; their lengths are constants, so that an instance can  *)
(* keep them short.                                                        *)
(***************************************************************************)
EXTENDS RecordFraming

CONSTANTS HashLen,       \* HASH_LEN
          TimestampLen,  \* 8
          SignatureLen,  \* SIGNATURE_LEN
          MaxBodyLen     \* MAX_MESSAGE_BODY_LEN

-----------------------------------------------------------------------------
SyncVersion == 1

\* The type bytes of the records that carry identifiers; a message is 1.
IdentifierType == [Ack |-> 0, Offer |-> 2, Request |-> 3, Unavailable |-> 4]
MessageType == 1

MessageHeaderLen == 3 * HashLen + TimestampLen + SignatureLen

Identifiers(kind, ids) == [kind |-> kind, ids |-> ids]
Message(signed) == [kind |-> "Message", signed |-> signed]
Unknown(type) == [kind |-> "Unknown", type |-> type]

Malformed == [kind |-> "Malformed"]

-----------------------------------------------------------------------------
\* Message::encode: the fields one after the other, and a body that is not too long.
EncodeMessage(m) ==
  IF Len(m.body) > MaxBodyLen THEN <<>>
  ELSE m.group \o m.timestamp \o m.author \o m.deviceKey \o m.signature \o m.body

\* decode_message()
DecodeMessage(payload) ==
  LET at(offset, length) == SubSeq(payload, offset + 1, offset + length)
      body == SubSeq(payload, MessageHeaderLen + 1, Len(payload))
  IN
  IF Len(payload) < MessageHeaderLen \/ Len(body) > MaxBodyLen THEN Malformed
  ELSE Message([group |-> at(0, HashLen),
                timestamp |-> at(HashLen, TimestampLen),
                author |-> at(HashLen + TimestampLen, HashLen),
                deviceKey |-> at(2 * HashLen + TimestampLen, HashLen),
                signature |-> at(3 * HashLen + TimestampLen, SignatureLen),
                body |-> body])

\* A plausible slip: a rest too short for an identifier cut off.
ParseIdentifiersLoosely(kind, payload) ==
  IF payload = <<>> THEN Malformed
  ELSE Identifiers(kind,
         [k \in 1..(Len(payload) \div HashLen) |->
            SubSeq(payload, (k - 1) * HashLen + 1, k * HashLen)])

\* parse_identifiers(): one or more, and nothing over.
ParseIdentifiers(kind, payload) ==
  IF payload = <<>> \/ Len(payload) % HashLen # 0 THEN Malformed
  ELSE Identifiers(kind,
         [k \in 1..(Len(payload) \div HashLen) |->
            SubSeq(payload, (k - 1) * HashLen + 1, k * HashLen)])

-----------------------------------------------------------------------------
\* encode_record(): Refused is its Err(Malformed).
EncodeRecord(r) ==
  CASE r.kind = "Message" ->
         IF EncodeMessage(r.signed) = <<>> THEN Refused
         ELSE Encode(SyncVersion, MessageType, EncodeMessage(r.signed))
    [] r.kind \in DOMAIN IdentifierType ->
         IF r.ids = <<>> THEN Refused
         ELSE Encode(SyncVersion, IdentifierType[r.kind], FlattenSeq(r.ids))
    [] r.kind = "Unknown" -> Refused

DecodeRecord(f) ==
  IF f.type = MessageType THEN DecodeMessage(f.payload)
  ELSE IF f.type \in {IdentifierType[kind] : kind \in DOMAIN IdentifierType}
    THEN ParseIdentifiers(CHOOSE kind \in DOMAIN IdentifierType : IdentifierType[kind] = f.type,
                          f.payload)
    ELSE Unknown(f.type)

\* decode_records(): all the records of the input, or Malformed.
DecodeRecords(input) ==
  LET read == Read(input, SyncVersion)
      records == [k \in DOMAIN read.records |-> DecodeRecord(read.records[k])]
  IN  IF read.verdict # "Ok" \/ \E k \in DOMAIN records : records[k] = Malformed
        THEN Malformed
        ELSE [kind |-> "Records", records |-> records]
=============================================================================
