----------------------------- MODULE ContactText -----------------------------
(***************************************************************************)
(* A contact link as a person copies it: the prefix, then a contact key    *)
(* and a commitment in base32 (crates/contact/src/base32.rs, ContactLink   *)
(* in lib.rs).  A character of the alphabet is its index, the lower case   *)
(* of a letter is 32 more, and the prefix is one character.  The buffer of *)
(* the coder is the sequence of the bits in it.                            *)
(***************************************************************************)
EXTENDS Integers, Sequences, SequencesExt

CONSTANTS ContactKeyLen, CommitmentLen

-----------------------------------------------------------------------------
Whitespace == 64
Prefix == 65      \* LINK_PREFIX
Other == 66       \* any other character

Bits(n, width) == [k \in 1..width |-> (n \div 2^(width - k)) % 2]

NumberOf(bits) == FoldLeft(LAMBDA n, bit : 2 * n + bit, 0, bits)

\* bits in numbers of a width, without the rest
Grouped(bits, width) ==
  [k \in 1..(Len(bits) \div width) |-> NumberOf(SubSeq(bits, (k - 1) * width + 1, k * width))]

Zeros(n) == [k \in 1..n |-> 0]

\* base32::encode: the last group is filled up with zeros.
EncodeText(bytes) ==
  LET bits == FlattenSeq([k \in DOMAIN bytes |-> Bits(bytes[k], 8)])
  IN  Grouped(bits \o Zeros((5 - (Len(bits) % 5)) % 5), 5)

Upper(character) == IF character \in 32..57 THEN character - 32 ELSE character

Plain(text) == [k \in DOMAIN text |-> Upper(text[k])]

Visible(text) == SelectSeq(Plain(text), LAMBDA character : character # Whitespace)

Text(bytes) == [kind |-> "Text", bytes |-> bytes]
Error(kind) == [kind |-> kind]

\* base32::decode: what is left over has to be zeros.
DecodeText(text) ==
  LET symbols == Visible(text)
      bits == FlattenSeq([k \in DOMAIN symbols |-> Bits(symbols[k], 5)])
      whole == (Len(bits) \div 8) * 8
  IN  IF \E k \in DOMAIN symbols : symbols[k] > 31 THEN Error("NotBase32")
      ELSE IF \E k \in (whole + 1)..Len(bits) : bits[k] = 1 THEN Error("NonCanonicalTail")
      ELSE Text(Grouped(bits, 8))

-----------------------------------------------------------------------------
Link(key, commitment) == [kind |-> "Link", key |-> key, commitment |-> commitment]

\* ContactLink::to_text
ToText(link) == <<Prefix>> \o EncodeText(link.key \o link.commitment)

Trimmed(text) ==
  IF \A k \in DOMAIN text : text[k] = Whitespace THEN <<>>
  ELSE SubSeq(text, Min({k \in DOMAIN text : text[k] # Whitespace}),
                    Max({k \in DOMAIN text : text[k] # Whitespace}))

\* ContactLink::parse
Parse(text) ==
  LET trimmed == Trimmed(text)
      payload == DecodeText(Tail(trimmed))
  IN
  IF trimmed = <<>> \/ Head(trimmed) # Prefix THEN Error("NotALink")
  ELSE IF payload.kind # "Text" THEN payload
  ELSE IF Len(payload.bytes) # ContactKeyLen + CommitmentLen THEN Error("Malformed")
  ELSE Link(SubSeq(payload.bytes, 1, ContactKeyLen),
            SubSeq(payload.bytes, ContactKeyLen + 1, ContactKeyLen + CommitmentLen))
=============================================================================
