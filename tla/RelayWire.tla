------------------------------ MODULE RelayWire ------------------------------
(***************************************************************************)
(* What a relay and its users say, as bytes (encode_request() to           *)
(* decode_response() in crates/relay/src/api.rs).  A stream carries one    *)
(* record, and each type but the two that end in a blob has one length.    *)
(***************************************************************************)
EXTENDS RecordFraming

CONSTANTS QueueIdLen,  \* QUEUE_ID_LEN
          KeyLen,      \* 32, of a public key and of a challenge
          ProofLen,    \* PROOF_LEN
          BlobIdLen    \* HASH_LEN

-----------------------------------------------------------------------------
RelayVersion == 1

RequestType ==
  [Register |-> 0, ChallengeRequest |-> 1, Write |-> 3, Read |-> 4, Delete |-> 6]

ResponseType == [Challenge |-> 2, Blob |-> 5, Ok |-> 7, Empty |-> 8, Refused |-> 9]

\* right_byte(), and `refusal as u8`.
RightByte == [Write |-> 0, Read |-> 1]
RefusalByte ==
  [UnknownQueue |-> 0, BadProof |-> 1, TooLarge |-> 2, QueueFull |-> 3, UnknownChallenge |-> 4]

NameOf(bytes, byte) == CHOOSE name \in DOMAIN bytes : bytes[name] = byte
IsByteOf(bytes, byte) == \E name \in DOMAIN bytes : bytes[name] = byte

Malformed == [kind |-> "Malformed"]

-----------------------------------------------------------------------------
RequestPayload(r) ==
  CASE r.kind = "Register" -> r.queue \o r.write \o r.read
    [] r.kind = "ChallengeRequest" -> Append(r.queue, RightByte[r.right])
    [] r.kind = "Write" -> r.queue \o r.proof \o r.blob
    [] r.kind = "Read" -> r.queue \o r.proof
    [] r.kind = "Delete" -> r.queue \o r.proof \o r.blobId

EncodeRequest(r) == Encode(RelayVersion, RequestType[r.kind], RequestPayload(r))

ResponsePayload(r) ==
  CASE r.kind = "Challenge" -> r.challenge
    [] r.kind = "Blob" -> r.blobId \o r.blob
    [] r.kind \in {"Ok", "Empty"} -> <<>>
    [] r.kind = "Refused" -> <<RefusalByte[r.why]>>

EncodeResponse(r) == Encode(RelayVersion, ResponseType[r.kind], ResponsePayload(r))

-----------------------------------------------------------------------------
\* single(): the one record there is, and nothing after it that could be read.
Single(input) ==
  /\ input # <<>> /\ HeaderVerdict(input, 1, RelayVersion) = "Ok"
  /\ RecordEnd(input, 1) = Len(input)

\* field()
Field(payload, offset, length) == SubSeq(payload, offset + 1, offset + length)

DecodeRequest(input) ==
  LET f == RecordAt(input, 1)
      length == Len(f.payload)
      queue == Field(f.payload, 0, QueueIdLen)
      proof == Field(f.payload, QueueIdLen, ProofLen)
      afterProof == QueueIdLen + ProofLen
      kind == NameOf(RequestType, f.type)
  IN
  IF ~Single(input) \/ ~IsByteOf(RequestType, f.type) THEN Malformed
  ELSE CASE kind = "Register" /\ length = QueueIdLen + 2 * KeyLen ->
              [kind |-> kind, queue |-> queue,
               write |-> Field(f.payload, QueueIdLen, KeyLen),
               read |-> Field(f.payload, QueueIdLen + KeyLen, KeyLen)]
         [] kind = "ChallengeRequest" /\ length = QueueIdLen + 1
              /\ IsByteOf(RightByte, f.payload[QueueIdLen + 1]) ->
              [kind |-> kind, queue |-> queue,
               right |-> NameOf(RightByte, f.payload[QueueIdLen + 1])]
         [] kind = "Write" /\ length >= afterProof ->
              [kind |-> kind, queue |-> queue, proof |-> proof,
               blob |-> SubSeq(f.payload, afterProof + 1, length)]
         [] kind = "Read" /\ length = afterProof ->
              [kind |-> kind, queue |-> queue, proof |-> proof]
         [] kind = "Delete" /\ length = afterProof + BlobIdLen ->
              [kind |-> kind, queue |-> queue, proof |-> proof,
               blobId |-> Field(f.payload, afterProof, BlobIdLen)]
         [] OTHER -> Malformed

DecodeResponse(input) ==
  LET f == RecordAt(input, 1)
      length == Len(f.payload)
      kind == NameOf(ResponseType, f.type)
  IN
  IF ~Single(input) \/ ~IsByteOf(ResponseType, f.type) THEN Malformed
  ELSE CASE kind = "Challenge" /\ length = KeyLen -> [kind |-> kind, challenge |-> f.payload]
         [] kind = "Blob" /\ length >= BlobIdLen ->
              [kind |-> kind, blobId |-> Field(f.payload, 0, BlobIdLen),
               blob |-> SubSeq(f.payload, BlobIdLen + 1, length)]
         [] kind \in {"Ok", "Empty"} /\ length = 0 -> [kind |-> kind]
         [] kind = "Refused" /\ length = 1 /\ IsByteOf(RefusalByte, f.payload[1]) ->
              [kind |-> kind, why |-> NameOf(RefusalByte, f.payload[1])]
         [] OTHER -> Malformed
=============================================================================
