------------------------------ MODULE MCCodecs ------------------------------
(***************************************************************************)
(* Values at the edges of every width, key orders, nesting one too deep,   *)
(* payloads and bodies one too long; and the bytes that open, size and end *)
(* things.  Fields of different lengths show an offset that is wrong.      *)
(***************************************************************************)
EXTENDS Codecs

O == INSTANCE Bdf

Same(byte, n) == [k \in 1..n |-> byte]

MCInts ==
  {O!Int64(i) : i \in
     {Same(0, 8), Same(255, 8),
      Same(0, 7) \o <<127>>, Same(0, 7) \o <<128>>, Same(255, 7) \o <<127>>,
      Same(0, 6) \o <<127, 255>>, Same(0, 6) \o <<128, 0>>,
      Same(255, 6) \o <<127, 255>>,
      Same(0, 4) \o <<127, 255, 255, 255>>, Same(0, 4) \o <<128, 0, 0, 0>>,
      Same(255, 4) \o <<127, 255, 255, 255>>,
      <<127>> \o Same(255, 7), <<128>> \o Same(0, 7)}}

MCKeys == {<<>>, <<1>>, <<1, 1>>, <<2>>}

MCObjects ==
  MCInts
    \cup {O!Null, O!Bool(TRUE), O!Bool(FALSE), O!Float(<<127, 240, 0, 0, 0, 0, 0, 1>>),
          O!Str(<<>>), O!Str(<<1>>), O!Str(Same(1, 127)), O!Str(Same(1, 128)),
          O!Raw(<<128>>), O!Raw(Same(0, 128)),
          O!List(<<>>), O!List(<<O!Null, O!Raw(<<>>)>>), O!List(<<O!List(<<>>)>>),
          O!List(<<O!List(<<O!List(<<>>)>>)>>),
          O!Dict(<<>>), O!Dict(<<O!Entry(<<1>>, O!Dict(<<O!Entry(<<>>, O!List(<<>>))>>))>>)}
    \cup {O!Dict(<<O!Entry(a, O!Bool(TRUE)), O!Entry(b, O!Null)>>) : a, b \in MCKeys}

F == INSTANCE RecordFraming

MCFrames ==
  {<<F!Framed(t, Same(7, n))>> : t \in {0, 9}, n \in {0, 1, MaxPayloadLen, MaxPayloadLen + 1}}
    \cup {<<>>, <<F!Framed(0, <<>>), F!Framed(2, <<1>>)>>}

S == INSTANCE SyncWire

MCMessage(n) ==
  S!Message([group |-> <<1, 2>>, timestamp |-> <<3>>, author |-> <<4, 5>>,
             deviceKey |-> <<6, 7>>, signature |-> <<8>>, body |-> Same(9, n)])

\* As many identifiers as a record has room for, and one more.
MCSync ==
  {<<S!Identifiers(kind, [k \in 1..n |-> <<k, 1>>])>> :
     kind \in DOMAIN S!IdentifierType,
     n \in {0, 1, 2, MaxPayloadLen \div HashLen, MaxPayloadLen \div HashLen + 1}}
    \cup {<<MCMessage(n)>> : n \in 0..(MaxBodyLen + 1)}
    \cup {<<S!Unknown(9)>>, <<>>,
          <<S!Identifiers("Ack", <<<<1, 1>>>>), MCMessage(1), S!Identifiers("Offer", <<<<1, 1>>>>)>>}

MCRequests ==
  {[kind |-> "Register", queue |-> <<1>>, write |-> <<2, 3>>, read |-> <<4, 5>>]}
    \cup [kind : {"ChallengeRequest"}, queue : {<<1>>}, right : {"Write", "Read"}]
    \cup [kind : {"Write"}, queue : {<<1>>}, proof : {<<2, 3, 4>>},
          blob : {Same(5, n) : n \in {0, 1, MaxPayloadLen - 4, MaxPayloadLen - 3}}]
    \cup [kind : {"Read"}, queue : {<<1>>}, proof : {<<2, 3, 4>>}]
    \cup [kind : {"Delete"}, queue : {<<1>>}, proof : {<<2, 3, 4>>}, blobId : {<<5, 6>>}]

MCResponses ==
  [kind : {"Challenge"}, challenge : {<<1, 2>>}]
    \cup [kind : {"Blob"}, blobId : {<<1, 2>>}, blob : {Same(5, n) : n \in 0..2}]
    \cup [kind : {"Ok", "Empty"}]
    \cup [kind : {"Refused"},
          why : {"UnknownQueue", "BadProof", "TooLarge", "QueueFull", "UnknownChallenge"}]

H == INSTANCE HandshakeWire

MCHandshake ==
  {<<H!Record("EphemeralKeys", <<<<1>>, <<2, 3>>>>)>>,
   <<H!Record("CertificateId", <<<<1, 2>>>>), H!Record("CertificateRequest", <<>>)>>,
   <<H!Record("Encapsulations", <<<<1, 2, 3>>, <<4, 5, 6>>>>), H!Record("Confirmation", <<<<7, 8>>>>)>>,
   <<H!Unknown(9)>>}
    \cup {<<H!Record("DeviceCertificate", <<Same(5, n)>>)>> : n \in {0, 1, MaxPayloadLen + 1}}

C == INSTANCE ContactText

MCLinks == {C!Link(<<a, b>>, <<b, a>>) : a, b \in {0, 1, 128, 255}}

P == INSTANCE RetentionPolicy

\* 0, the largest u32, and a count that needs two bytes.
MCPolicies ==
  {P!All} \cup {P!Numbered(kind, int) :
     kind \in {"Count", "Age"},
     int \in {Same(0, 8), Same(0, 4) \o Same(255, 4), Same(0, 7) \o <<128>>}}

MCValues ==
  [bdf |-> MCObjects, strict |-> MCObjects, frames |-> MCFrames, sync |-> MCSync,
   request |-> MCRequests, response |-> MCResponses, handshake |-> MCHandshake,
   link |-> MCLinks, policy |-> MCPolicies]

\* Headers of every kind, good and bad; lengths; a negative byte; End.
MCObjectBytes == {0, 1, 2, 18, 33, 34, 65, 66, 81, 96, 112, 128, 255}

MCAlphabet ==
  [bdf |-> MCObjectBytes, strict |-> MCObjectBytes,
   frames |-> {0, 1, 2, 9, 255}, sync |-> {0, 1, 2, 9},
   request |-> {0, 1, 2, 3, 6}, response |-> {0, 1, 2, 5, 9},
   handshake |-> {0, 1, 2, 3, 5}, policy |-> {33, 34, 65, 97, 99, 110, 128, 255},
   \* A and B in both cases, the last of the alphabet, and the special characters.
   link |-> {0, 1, 33, 31, C!Whitespace, C!Prefix, C!Other}]
=============================================================================
