------------------------------- MODULE Codecs -------------------------------
(***************************************************************************)
(* Bytes on their way to one of the readers: what a writer wrote, then cut *)
(* or with a byte changed, or bytes from anyone, one after the other.      *)
(* Everything the readers decide they decide from the bytes, so the state  *)
(* is the bytes, who reads them and what was written.                      *)
(***************************************************************************)
EXTENDS Integers, Sequences, SequencesExt

CONSTANTS MaxNesting, MaxPayloadLen, HashLen, TimestampLen, SignatureLen, MaxBodyLen,
          QueueIdLen, KeyLen, ProofLen, BlobIdLen,
          X25519Len, KemKeyLen, CiphertextLen, ContactKeyLen, CommitmentLen,
          Values,    \* what is written, per layer
          Alphabet,  \* the bytes that come from anyone, per layer
          MaxLen     \* bound on how many of those

\* The length field of a record holds every length its payload may have.
ASSUME LengthsAssumption ==
  /\ {MaxNesting, MaxBodyLen, MaxLen} \subseteq Nat
  /\ {HashLen, TimestampLen, SignatureLen, QueueIdLen, KeyLen, ProofLen, BlobIdLen,
      X25519Len, KemKeyLen, CiphertextLen, ContactKeyLen, CommitmentLen} \subseteq Nat \ {0}
  /\ MaxPayloadLen \in 1..65535

Objects == INSTANCE Bdf
Frames == INSTANCE RecordFraming
Sync == INSTANCE SyncWire
Relay == INSTANCE RelayWire
Handshake == INSTANCE HandshakeWire
Contact == INSTANCE ContactText
Policies == INSTANCE RetentionPolicy

VARIABLES layer,  \* who reads
          wrote,  \* the value written, in a tuple, while its bytes are whole
          input

vars == <<layer, wrote, input>>

\* "bdf" and "strict" are the two modes of one reader.
Layer ==
  {"bdf", "strict", "policy", "frames", "sync", "request", "response", "handshake", "link"}

FramedLayer == {"frames", "sync", "request", "response", "handshake"}

-----------------------------------------------------------------------------
(* Every layer's writer and reader in the same terms. *)

Concatenated(parts) ==
  IF \E k \in DOMAIN parts : parts[k] = Frames!Refused THEN Frames!Refused
  ELSE FlattenSeq(parts)

Version == 1

Bytes(l, v) ==
  CASE l \in {"bdf", "strict"} -> Objects!ToBytes(v)
    [] l = "frames" ->
         Concatenated([k \in DOMAIN v |-> Frames!Encode(Version, v[k].type, v[k].payload)])
    [] l = "sync" -> Concatenated([k \in DOMAIN v |-> Sync!EncodeRecord(v[k])])
    [] l = "request" -> Relay!EncodeRequest(v)
    [] l = "response" -> Relay!EncodeResponse(v)
    [] l = "handshake" -> Concatenated([k \in DOMAIN v |-> Handshake!EncodeRecord(v[k])])
    [] l = "link" -> Contact!ToText(v)
    [] l = "policy" -> Policies!EncodePolicy(v)

Accepts(read) == [verdict |-> "Ok", value |-> read]
Rejects(why) == [verdict |-> why]

\* What each kind of reader returns, as a verdict and, if that is "Ok", a value.
OfObject(r) == IF Objects!Failed(r) THEN Rejects(r.error) ELSE Accepts(r.value)
OfFrames(r) == IF r.verdict = "Ok" THEN Accepts(r.records) ELSE Rejects(r.verdict)
OfRecords(r) == IF r.kind = "Records" THEN Accepts(r.records) ELSE Rejects(r.kind)
OfOne(r) ==
  IF DOMAIN r = {"kind"} /\ r.kind \notin {"Ok", "Empty", "All"} THEN Rejects(r.kind)
  ELSE Accepts(r)

\* The verdict on the bytes and, when they are accepted, what they mean.
Reading(l, bytes) ==
  CASE l \in {"bdf", "strict"} -> OfObject(Objects!ReadOne(bytes, l = "strict"))
    [] l = "frames" -> OfFrames(Frames!Read(bytes, Version))
    [] l = "sync" -> OfRecords(Sync!DecodeRecords(bytes))
    [] l = "handshake" -> OfRecords(Handshake!DecodeRecords(bytes))
    [] l = "request" -> OfOne(Relay!DecodeRequest(bytes))
    [] l = "response" -> OfOne(Relay!DecodeResponse(bytes))
    [] l = "link" -> OfOne(Contact!Parse(bytes))
    [] l = "policy" -> OfOne(Policies!DecodePolicy(bytes))

Verdict(l, bytes) == Reading(l, bytes).verdict

\* A policy is one strict object.
ObjectLayer == {"bdf", "strict", "policy"}
ObjectVerdict(l, bytes) == Verdict(IF l = "policy" THEN "strict" ELSE l, bytes)

\* More bytes may make something of these.
Undecided(l, bytes) ==
  CASE l \in ObjectLayer -> ObjectVerdict(l, bytes) \in {"Truncated", "LengthBeyondInput"}
    [] l = "link" -> Verdict(l, bytes) # "NotALink"
    [] l \in FramedLayer -> Frames!Read(bytes, Version).verdict \in {"Ok", "Truncated"}

-----------------------------------------------------------------------------
Init ==
  /\ layer \in Layer
  /\ \/ wrote = <<>> /\ input = <<>>
     \/ \E v \in Values[layer] : wrote = <<v>> /\ input = Bytes(layer, v)

\* A byte from anyone.  Bound: one byte past a decision.
Grow ==
  /\ wrote = <<>> /\ Len(input) < MaxLen
  /\ input = <<>> \/ Undecided(layer, Front(input))
  /\ \E byte \in Alphabet[layer] : input' = Append(input, byte)
  /\ UNCHANGED <<layer, wrote>>

\* A byte changed on the way.
Alter ==
  /\ wrote # <<>>
  /\ \E k \in DOMAIN input : \E byte \in Alphabet[layer] \ {input[k]} :
       input' = [input EXCEPT ![k] = byte]
  /\ wrote' = <<>>
  /\ UNCHANGED layer

\* The last byte lost.
Cut ==
  /\ wrote # <<>> /\ input # <<>>
  /\ input' = Front(input)
  /\ wrote' = <<>>
  /\ UNCHANGED layer

Next == Grow \/ Alter \/ Cut

Spec == Init /\ [][Next]_vars

-----------------------------------------------------------------------------
RECURSIVE Depth(_)
Depth(v) ==
  LET below == CASE v.kind = "List" -> {Depth(v.items[k]) : k \in DOMAIN v.items}
                 [] v.kind = "Dict" -> {Depth(v.entries[k].value) : k \in DOMAIN v.entries}
                 [] OTHER -> {}
  IN  IF v.kind \in {"List", "Dict"} THEN 1 + Max(below \cup {0}) ELSE 0

\* What the reader makes of what the writer wrote.
ReadBack ==
  LET v == wrote[1] IN
  CASE layer \in {"bdf", "strict"} /\ Depth(v) > MaxNesting -> Rejects("TooDeeplyNested")
    [] layer = "strict" /\ Depth(v) <= MaxNesting /\ ~Objects!IsCanonical(v) -> Rejects("Refused")
    [] OTHER -> Accepts(v)

ComesBack(reading) ==
  \/ reading = ReadBack
  \/ ReadBack = Rejects("Refused") /\ reading.verdict \in {"DuplicateKey", "KeysOutOfOrder"}

(* A value comes back as it was written, at the width every integer and    *)
(* length needs and across the limits of nesting, payloads and bodies: a   *)
(* writer refuses what the reader would, except that to_bytes() nests      *)
(* deeper than a reader goes and leaves the order of keys to is_canonical().*)
ReadsBackAsWritten ==
  wrote # <<>> /\ input # Frames!Refused => ComesBack(Reading(layer, input))

\* What is accepted is what the writer writes for it.
EncodedOnce(read) ==
  read.verdict = "Ok" =>
    CASE layer = "strict" ->
           /\ Bytes(layer, read.value) = input /\ Objects!IsCanonical(read.value)
           /\ Reading("bdf", input) = read
      [] layer = "bdf" ->
           Objects!IsCanonical(read.value) =>
             Reading("strict", Bytes(layer, read.value)) = read
      [] layer \in {"sync", "handshake"} ->
           (\A k \in DOMAIN read.value : read.value[k].kind # "Unknown") =>
             Bytes(layer, read.value) = input
      [] layer = "link" -> Bytes(layer, read.value) = Contact!Visible(input)
      [] layer \in {"policy", "frames", "request", "response"} ->
           Bytes(layer, read.value) = input

(* No two byte strings mean the same to a reader whose input is hashed or  *)
(* signed, or framed: whatever was grown or altered, what is accepted is   *)
(* what the writer writes for it.  The lenient reader differs from the     *)
(* strict one in nothing else.  Of a link, only case and whitespace may    *)
(* differ (the strict mode in read.rs, exactly() and single(), the tail    *)
(* check of base32.rs).                                                    *)
OneEncoding == EncodedOnce(Reading(layer, input))

ObjectStands(before, after) ==
  \/ before \in {"Truncated", "LengthBeyondInput"}
  \/ after = (IF before = "Ok" THEN "TrailingBytes" ELSE before)

FramesStand(before, after) ==
  /\ IsPrefix(before.records, after.records)
  /\ before.verdict \in {"Ok", "Truncated"} \/ after = before

(* A decision stands whatever comes after: an object is not taken back but *)
(* by bytes that trail it, an error is never mended, and a stream that     *)
(* goes on keeps the records it had (Reader in read.rs and record).        *)
VerdictStands ==
  IsStrictPrefix(input, input') =>
    /\ layer \in ObjectLayer =>
         ObjectStands(ObjectVerdict(layer, input), ObjectVerdict(layer, input'))
    /\ layer \in FramedLayer =>
         FramesStand(Frames!Read(input, Version), Frames!Read(input', Version))

VerdictsStand == [][VerdictStands]_vars
=============================================================================
