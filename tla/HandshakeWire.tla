---------------------------- MODULE HandshakeWire ----------------------------
(***************************************************************************)
(* The records of a handshake as bytes (crates/handshake/src/records.rs).  *)
(* Every known type but the certificate has one length.                    *)
(***************************************************************************)
EXTENDS RecordFraming

CONSTANTS X25519Len, KemKeyLen,  \* of the two ephemeral public keys
          CiphertextLen,         \* KEM_CIPHERTEXT_LEN
          HashLen                \* HASH_LEN, of a certificate's name and of a MAC

-----------------------------------------------------------------------------
HandshakeVersion == 1

RecordType ==
  [EphemeralKeys |-> 0, DeviceCertificate |-> 1, CertificateId |-> 2,
   CertificateRequest |-> 3, Encapsulations |-> 4, Confirmation |-> 5]

\* The fields of a record in their order, and the lengths of those that have one.
FieldLengths ==
  [EphemeralKeys |-> <<X25519Len, KemKeyLen>>, CertificateId |-> <<HashLen>>,
   CertificateRequest |-> <<>>, Encapsulations |-> <<CiphertextLen, CiphertextLen>>,
   Confirmation |-> <<HashLen>>]

Record(kind, fields) == [kind |-> kind, fields |-> fields]
Unknown(type) == [kind |-> "Unknown", type |-> type]
WrongLength == [kind |-> "WrongLength"]

\* encode_record()
EncodeRecord(r) ==
  IF r.kind = "Unknown" THEN Refused
  ELSE Encode(HandshakeVersion, RecordType[r.kind], FlattenSeq(r.fields))

Offset(lengths, n) == FoldSeq(LAMBDA length, sum : length + sum, 0, SubSeq(lengths, 1, n - 1))

\* exactly() and field()
Fields(kind, payload) ==
  LET lengths == FieldLengths[kind] IN
  IF Len(payload) # Offset(lengths, Len(lengths) + 1) THEN WrongLength
  ELSE Record(kind,
         [n \in DOMAIN lengths |->
            SubSeq(payload, Offset(lengths, n) + 1, Offset(lengths, n) + lengths[n])])

DecodeRecord(f) ==
  LET kinds == {kind \in DOMAIN RecordType : RecordType[kind] = f.type}
      kind == CHOOSE k \in kinds : TRUE
  IN  CASE kinds = {} -> Unknown(f.type)
        [] kinds # {} /\ kind = "DeviceCertificate" -> Record(kind, <<f.payload>>)
        [] kinds # {} /\ kind # "DeviceCertificate" -> Fields(kind, f.payload)

\* decode_records()
DecodeRecords(input) ==
  LET read == Read(input, HandshakeVersion)
      records == [k \in DOMAIN read.records |-> DecodeRecord(read.records[k])]
  IN  IF read.verdict # "Ok" THEN [kind |-> read.verdict]
      ELSE IF \E k \in DOMAIN records : records[k] = WrongLength THEN WrongLength
      ELSE [kind |-> "Records", records |-> records]
=============================================================================
