--------------------------- MODULE RecordFraming ---------------------------
(***************************************************************************)
(* The framing that every layer's records share (crates/record): a version *)
(* and a type of one byte each, the length of the payload in two, and the  *)
(* payload.                                                                *)
(***************************************************************************)
EXTENDS Integers, Sequences, SequencesExt

CONSTANT MaxPayloadLen  \* MAX_PAYLOAD_LEN

-----------------------------------------------------------------------------
HeaderLen == 4

Framed(type, payload) == [type |-> type, payload |-> payload]

\* A writer that will not write.
Refused == <<>>

\* A plausible slip: any length that fits the field written.
EncodeUnchecked(version, type, payload) ==
  <<version, type, Len(payload) \div 256, Len(payload) % 256>> \o payload

\* encode()
Encode(version, type, payload) ==
  IF Len(payload) > MaxPayloadLen THEN Refused
  ELSE <<version, type, Len(payload) \div 256, Len(payload) % 256>> \o payload

-----------------------------------------------------------------------------
(* Reader: what it yields, record by record, and how it ends.  A refusal   *)
(* stops it, and nothing after that is read.                               *)
Yields(records, verdict) == [records |-> records, verdict |-> verdict]

\* What the header at pos says, its payload being as long as it says.
PayloadLen(input, pos) == input[pos + 2] * 256 + input[pos + 3]

RecordEnd(input, pos) == pos + HeaderLen + PayloadLen(input, pos) - 1

RecordAt(input, pos) ==
  Framed(input[pos + 1], SubSeq(input, pos + HeaderLen, RecordEnd(input, pos)))

\* What next() says of the record at pos.
HeaderVerdict(input, pos, version) ==
  LET remaining == Len(input) - pos + 1
      length == PayloadLen(input, pos)
  IN  IF remaining < HeaderLen THEN "Truncated"
      ELSE IF input[pos] # version THEN "UnknownVersion"
      ELSE IF length > MaxPayloadLen THEN "PayloadTooLong"
      ELSE IF remaining - HeaderLen < length THEN "Truncated"
      ELSE "Ok"

Read(input, version) ==
  LET from[pos \in 1..(Len(input) + 1)] ==
        LET verdict == HeaderVerdict(input, pos, version)
            rest == from[RecordEnd(input, pos) + 1]
        IN  IF pos > Len(input) THEN Yields(<<>>, "Ok")
            ELSE IF verdict # "Ok" THEN Yields(<<>>, verdict)
            ELSE Yields(<<RecordAt(input, pos)>> \o rest.records, rest.verdict)
  IN  from[1]
=============================================================================
