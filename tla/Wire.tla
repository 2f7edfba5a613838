-------------------------------- MODULE Wire --------------------------------
(***************************************************************************)
(* Stream headers and frames (crates/transport/src/wire.rs).               *)
(*                                                                         *)
(* Authenticated encryption is symbolic: a sealed piece is its key, its    *)
(* nonce and its plaintext, and opens under that key and nonce only.  The  *)
(* nonce of a stream header is random and travels with it, so it says      *)
(* nothing and is left out, as is the version, which both sides share.     *)
(* A byte of data is any number but Zero, the byte of the padding.         *)
(***************************************************************************)
EXTENDS Integers, Sequences

CONSTANTS MaxFramePayload, \* MAX_FRAME_PAYLOAD, 988
          HeaderBit,       \* 1 << 63
          FinalBit         \* 0x8000

ASSUME WireAssumption ==
  /\ MaxFramePayload \in Nat /\ HeaderBit \in Nat \ {0}
  /\ FinalBit \in Nat /\ MaxFramePayload < FinalBit

MaxFrameNumber == HeaderBit - 1 \* u64::MAX >> 1

-----------------------------------------------------------------------------
Sealed(key, nonce, plain) ==
  [key |-> key, nonce |-> nonce, plain |-> plain, intact |-> TRUE]

Opens(piece, key, nonce) == piece.intact /\ piece.key = key /\ piece.nonce = nonce

\* A piece whose bytes were changed on the way.
Altered(piece) == [piece EXCEPT !.intact = FALSE]

NoNonce == <<"random">>

\* A plausible slip: the bytes of the stream number stay zero.
SealedStreamHeaderUnnumbered(header_key, number, cipher_key) ==
  Sealed(header_key, NoNonce, [stream_number |-> 0, cipher_key |-> cipher_key])

SealedStreamHeader(header_key, number, cipher_key) ==
  Sealed(header_key, NoNonce, [stream_number |-> number, cipher_key |-> cipher_key])

-----------------------------------------------------------------------------
\* number | (1 << 63)
WithHeaderBit(number) ==
  IF (number \div HeaderBit) % 2 = 1 THEN number ELSE number + HeaderBit

\* The word frame_nonce packs flag and number into. It refuses a number beyond
\* MaxFrameNumber, whose top bit is the flag's: see SealRefusal and HeaderOpens.
FrameNonce(number, is_header) == IF is_header THEN WithHeaderBit(number) ELSE number

\* payload_len refuses more than a frame holds.
FrameTooLong(data_len, padding_len) == data_len + padding_len > MaxFramePayload

\* A plausible slip: the number is not checked.
SealRefusalUnnumbered(number, frame) ==
  {e \in {"FrameTooLong"} : FrameTooLong(Len(frame.data), frame.padding)}

\* What the seal functions refuse a frame for, if they do.
SealRefusal(number, frame) ==
  {e \in {"FrameTooLong", "FrameNumberTooLarge"} :
     \/ e = "FrameTooLong" /\ FrameTooLong(Len(frame.data), frame.padding)
     \/ e = "FrameNumberTooLarge" /\ number > MaxFrameNumber}

Zero == 0
Padding(n) == [i \in 1..n |-> Zero]

\* data_len | 0x8000 for the final frame.
Flagged(data_len, final) == IF final THEN data_len + FinalBit ELSE data_len

\* seal_frame_header and seal_frame_body.
SealedFrame(cipher_key, number, frame, final) ==
  [head |-> Sealed(cipher_key, FrameNonce(number, TRUE),
                   [flagged |-> Flagged(Len(frame.data), final), padding |-> frame.padding]),
   body |-> Sealed(cipher_key, FrameNonce(number, FALSE),
                   frame.data \o Padding(frame.padding))]

\* The frames of a stream, up to the first that is refused; they are numbered from 0.
SealedFrames(cipher_key, frames) ==
  LET fine == {n \in 0..Len(frames) : \A i \in 1..n : SealRefusal(i - 1, frames[i]) = {}}
      last == CHOOSE n \in fine : \A m \in fine : m <= n
  IN  [i \in 1..last |-> SealedFrame(cipher_key, i - 1, frames[i], i = Len(frames))]

-----------------------------------------------------------------------------
FrameHeader(piece) ==
  [data_len    |-> piece.plain.flagged % FinalBit,
   padding_len |-> piece.plain.padding,
   final_frame |-> piece.plain.flagged >= FinalBit]

\* open_frame_header
HeaderOpens(cipher_key, number, piece) ==
  /\ number <= MaxFrameNumber
  /\ Opens(piece, cipher_key, FrameNonce(number, TRUE))
  /\ ~FrameTooLong(FrameHeader(piece).data_len, FrameHeader(piece).padding_len)

\* open_frame_body
BodyOpens(cipher_key, number, header, piece) ==
  /\ ~FrameTooLong(header.data_len, header.padding_len)
  /\ Len(piece.plain) = header.data_len + header.padding_len
  /\ number <= MaxFrameNumber
  /\ Opens(piece, cipher_key, FrameNonce(number, FALSE))

OpenedBody(header, piece) == SubSeq(piece.plain, 1, header.data_len)

\* Frame i of what arrived, counted from 1, opens.
FrameOpens(cipher_key, arrived, i) ==
  /\ HeaderOpens(cipher_key, i - 1, arrived[i].head)
  /\ BodyOpens(cipher_key, i - 1, FrameHeader(arrived[i].head), arrived[i].body)

\* How many frames a reader gets through: it stops after the final one, and
\* at the first that does not open.
FramesRead(cipher_key, arrived) ==
  LET readable == {n \in 0..Len(arrived) :
                     \A i \in 1..n :
                       /\ FrameOpens(cipher_key, arrived, i)
                       /\ i < n => ~FrameHeader(arrived[i].head).final_frame}
  IN  CHOOSE n \in readable : \A m \in readable : m <= n

\* What it read, frame by frame, and whether it saw the end.
Read(cipher_key, arrived) ==
  LET n == FramesRead(cipher_key, arrived)
  IN  [data  |-> [i \in 1..n |-> OpenedBody(FrameHeader(arrived[i].head), arrived[i].body)],
       whole |-> n > 0 /\ FrameHeader(arrived[n].head).final_frame]
=============================================================================
