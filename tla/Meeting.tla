------------------------------ MODULE Meeting ------------------------------
(***************************************************************************)
(* From a link to a root key: devices that take the bundle of the identity *)
(* whose link they hold, learn from its owner which devices are its own,   *)
(* and agree on keys with these.                                           *)
(*                                                                         *)
(* The caller is external and does what spec/35-contact.md,                *)
(* spec/40-identity.md section 5 and spec/30-handshake.md section 4 ask.   *)
(* It keeps the highest epoch and the revoked devices of its contact and   *)
(* one unfinished handshake, which it may replace by a new one at any      *)
(* time; a handshake with a device that is revoked meanwhile is dropped.   *)
(* The owner raises the epoch with every revocation.                       *)
(*                                                                         *)
(* Nothing that was sent or signed ever goes away: it may arrive at any    *)
(* time, at anybody, more than once, never, or damaged.  CERTIFICATE_ID    *)
(* and CERTIFICATE_REQUEST, which only save bytes, are left out.           *)
(***************************************************************************)
EXTENDS Identity, Handshake, Sequences, FiniteSets, SequencesExt

CONSTANTS Identities, Device,
          IdentityOf,  \* the identity each device belongs to
          ContactOf,   \* the identity whose link each device holds
          RoleOf,      \* "A" if its identity sorts before that of the contact
          FirstCertified, \* the devices certified in the first epoch
          Active,      \* bound: the identities that certify and revoke further
          MaxEpoch, MaxDrawn, \* bounds: epochs, and key pairs drawn by a device
          MaxSigned    \* bound: the statements signed in all

ASSUME MeetingAssumption ==
  /\ IdentityOf \in [Device -> Identities]
  /\ ContactOf \in [Device -> Identities]
  /\ RoleOf \in [Device -> {"A", "B"}]
  /\ FirstCertified \subseteq Device /\ Active \subseteq Identities
  /\ MaxEpoch \in Nat \ {0} /\ MaxDrawn \in [Device -> Nat] /\ MaxSigned \in Nat
  /\ "nobody" \notin Device

VARIABLES epoch,    \* the device set epoch of every identity
          signed,   \* the certificates and revocations their owners signed
          contact,  \* what a device holds of its contact: [bundle, recorded, revoked]
          half,     \* its unfinished handshake
          drawn,    \* the ephemeral key pairs it has drawn
          network,  \* the messages sent, each the records in it
          done      \* the handshakes it finished: sequences of [peer, root]

vars == <<epoch, signed, contact, half, drawn, network, done>>

-----------------------------------------------------------------------------
Root(i) == RootKeys(i)
Bundle(i) == ContactBundle(Root(i), ContactPublic(i))

NoBundle == [root |-> {}]
NoHalf == [state |-> "none"]

CertificateOf(d, e) ==
  DeviceCertificate(Root(IdentityOf[d]), d, StaticPair(d), StaticPair(d), e)

RevocationOf(d, e) == Revocation(Root(IdentityOf[d]), d, e)

Init ==
  /\ epoch = [i \in Identities |-> 1]
  /\ signed = {SignCertificate(Root(IdentityOf[d]), CertificateOf(d, 1)) : d \in FirstCertified}
  /\ contact = [d \in Device |-> [bundle |-> NoBundle, recorded |-> 0, revoked |-> {}]]
  /\ half = [d \in Device |-> NoHalf]
  /\ drawn = [d \in Device |-> 0]
  /\ network = {}
  /\ done = [d \in Device |-> << >>]

-----------------------------------------------------------------------------
(* The owner. *)

Withdrawn(d) == \E e \in 1..MaxEpoch :
  SignRevocation(Root(IdentityOf[d]), RevocationOf(d, e)) \in signed

Certified(d) == \E e \in 1..MaxEpoch :
  SignCertificate(Root(IdentityOf[d]), CertificateOf(d, e)) \in signed

\* A certificate in the current epoch or a new one.
Certify(d, e) ==
  /\ IdentityOf[d] \in Active /\ ~Withdrawn(d) /\ Cardinality(signed) < MaxSigned
  /\ e \in {epoch[IdentityOf[d]], epoch[IdentityOf[d]] + 1} /\ e <= MaxEpoch
  /\ signed' = signed \cup {SignCertificate(Root(IdentityOf[d]), CertificateOf(d, e))}
  /\ epoch' = [epoch EXCEPT ![IdentityOf[d]] = e]
  /\ UNCHANGED <<contact, half, drawn, network, done>>

Revoke(d) ==
  LET e == epoch[IdentityOf[d]] + 1 IN
  /\ IdentityOf[d] \in Active /\ Certified(d) /\ e <= MaxEpoch
  /\ Cardinality(signed) < MaxSigned
  /\ signed' = signed \cup {SignRevocation(Root(IdentityOf[d]), RevocationOf(d, e))}
  /\ epoch' = [epoch EXCEPT ![IdentityOf[d]] = e]
  /\ UNCHANGED <<contact, half, drawn, network, done>>

-----------------------------------------------------------------------------
(* A device and its contact. *)

\* A bundle, whoever it came from, is compared with the commitment of the link;
\* one that is not it ends this attempt, and another may be made.
TakeBundle(d, bundle) ==
  /\ contact[d].bundle = NoBundle
  /\ Checks(bundle, Commitment(Bundle(ContactOf[d])))
  /\ contact' = [contact EXCEPT ![d].bundle = bundle]
  /\ UNCHANGED <<epoch, signed, half, drawn, network, done>>

\* What a certificate is refused for when it is presented to d.
Refusal(d, container) ==
  LET k == contact[d]
      invalid == CertificateRefusal(container, k.bundle.root)
  IN  IF invalid # {} THEN invalid
      ELSE EpochRefusal(k.recorded, container.c.epoch)
             \cup {e \in {"Revoked"} : container.c.dev \in k.revoked}

\* Certificates and revocations come in the identity group.
LearnCertificate(d, container) ==
  /\ contact[d].bundle # NoBundle /\ Refusal(d, container) = {}
  /\ contact' = [contact EXCEPT ![d].recorded = container.c.epoch]
  /\ UNCHANGED <<epoch, signed, half, drawn, network, done>>

PeerIn(h) ==
  CASE h.state = "answered" -> h.certificate.dev
    [] h.state = "derived" -> h.peer
    [] OTHER -> "nobody"

LearnRevocation(d, container) ==
  /\ contact[d].bundle # NoBundle
  /\ RevocationRefusal(container, contact[d].bundle.root) = {}
  /\ EpochRefusal(contact[d].recorded, container.c.epoch) = {}
  /\ contact' = [contact EXCEPT ![d].recorded = container.c.epoch,
                                ![d].revoked = @ \cup {container.c.dev}]
  /\ half' = [half EXCEPT ![d] = IF PeerIn(@) = container.c.dev THEN NoHalf ELSE @]
  /\ UNCHANGED <<epoch, signed, drawn, network, done>>

-----------------------------------------------------------------------------
(* The handshake. *)

\* What d says of itself in the transcript.
Own(d) == CertificateOf(d, 0)

Drop(d) == half' = [half EXCEPT ![d] = NoHalf] /\ UNCHANGED <<contact, drawn, network, done>>

\* Step 1: A sends its ephemeral keys and a certificate.
Begin(d, container) ==
  /\ RoleOf[d] = "A" /\ contact[d].bundle # NoBundle /\ drawn[d] < MaxDrawn[d]
  /\ container \in signed /\ container.c.dev = d /\ Has(container.c, {"kem"})
  /\ drawn' = [drawn EXCEPT ![d] = @ + 1]
  /\ half' = [half EXCEPT ![d] = [state |-> "sent", ephemeral |-> KeyPair(d, drawn'[d])]]
  /\ network' = network \cup
       {[EPHEMERAL_KEYS |-> EphemeralKeys(KeyPair(d, drawn'[d])), DEVICE_CERTIFICATE |-> container]}
  /\ UNCHANGED <<epoch, signed, contact, done>>

\* Step 2: B answers with its own and with two ciphertexts.
Answer(d, records, container) ==
  /\ RoleOf[d] = "B" /\ contact[d].bundle # NoBundle /\ drawn[d] < MaxDrawn[d]
  /\ Has(records, {"EPHEMERAL_KEYS", "DEVICE_CERTIFICATE"})
  /\ Refusal(d, records.DEVICE_CERTIFICATE) = {}
  /\ container \in signed /\ container.c.dev = d /\ Has(container.c, {"kem"})
  /\ LET keys == records.EPHEMERAL_KEYS
         certificate == records.DEVICE_CERTIFICATE.c
         own == KeyPair(d, drawn[d] + 1)
         ct == Encapsulations(keys, certificate.kem, own)
     IN  /\ half' = [half EXCEPT ![d] = [state |-> "answered", ephemeral |-> own, keys |-> keys,
                                         certificate |-> certificate, ct |-> ct]]
         /\ contact' = [contact EXCEPT ![d].recorded = certificate.epoch]
         /\ network' = network \cup
              {[EPHEMERAL_KEYS |-> EphemeralKeys(own), DEVICE_CERTIFICATE |-> container,
                ENCAPSULATIONS |-> ct]}
  /\ drawn' = [drawn EXCEPT ![d] = @ + 1]
  /\ UNCHANGED <<epoch, signed, done>>

\* Step 3: A has all there is, derives the root key and forgets the rest.
Derive(d, records) ==
  /\ half[d].state = "sent"
  /\ Has(records, {"EPHEMERAL_KEYS", "DEVICE_CERTIFICATE", "ENCAPSULATIONS"})
  /\ Refusal(d, records.DEVICE_CERTIFICATE) = {}
  /\ LET keys == records.EPHEMERAL_KEYS
         certificate == records.DEVICE_CERTIFICATE.c
         own == half[d].ephemeral
         ct == Encapsulations(keys, certificate.kem, own)
         secrets == SecretsOfA(d, own, certificate, keys, ct, records.ENCAPSULATIONS)
         root == RootKey(secrets, TranscriptSide(Own(d), EphemeralKeys(own), ct),
                         TranscriptSide(certificate, keys, records.ENCAPSULATIONS))
     IN  \/ DegenerateSharedSecret(keys.x25519) /\ Drop(d)
         \/ /\ ~DegenerateSharedSecret(keys.x25519)
            /\ half' = [half EXCEPT ![d] = [state |-> "derived", peer |-> certificate.dev, root |-> root]]
            /\ contact' = [contact EXCEPT ![d].recorded = certificate.epoch]
            /\ network' = network \cup
                 {[ENCAPSULATIONS |-> ct, CONFIRMATION |-> Confirmation(root, "A")]}
            /\ UNCHANGED <<drawn, done>>
  /\ UNCHANGED <<epoch, signed>>

\* A plausible slip: B keeps what it needed until the next handshake.
FinishAndKeep(d, peer, root) ==
  /\ done' = [done EXCEPT ![d] = Append(@, [peer |-> peer, root |-> root])]
  /\ half' = half

Finish(d, peer, root) ==
  /\ done' = [done EXCEPT ![d] = Append(@, [peer |-> peer, root |-> root])]
  /\ half' = [half EXCEPT ![d] = NoHalf]

\* Step 4: B derives the root key and compares.
Conclude(d, records) ==
  /\ half[d].state = "answered"
  /\ Has(records, {"ENCAPSULATIONS", "CONFIRMATION"})
  /\ LET h == half[d]
         secrets == SecretsOfB(d, h.ephemeral, h.certificate, h.keys, records.ENCAPSULATIONS, h.ct)
         root == RootKey(secrets, TranscriptSide(h.certificate, h.keys, records.ENCAPSULATIONS),
                         TranscriptSide(Own(d), EphemeralKeys(h.ephemeral), h.ct))
         right == ~DegenerateSharedSecret(h.keys.x25519)
                    /\ records.CONFIRMATION = Confirmation(root, "A")
     IN  \/ ~right /\ Drop(d)
         \/ /\ right
            /\ Finish(d, h.certificate.dev, root)
            /\ network' = network \cup {[CONFIRMATION |-> Confirmation(root, "B")]}
            /\ UNCHANGED <<contact, drawn>>
  /\ UNCHANGED <<epoch, signed>>

\* And A compares what B answers.
Accept(d, records) ==
  /\ half[d].state = "derived"
  /\ Has(records, {"CONFIRMATION"})
  /\ LET right == records.CONFIRMATION = Confirmation(half[d].root, "B")
     IN  \/ ~right /\ Drop(d)
         \/ right /\ Finish(d, half[d].peer, half[d].root) /\ UNCHANGED <<contact, drawn, network>>
  /\ UNCHANGED <<epoch, signed>>

-----------------------------------------------------------------------------
(* What may become of a record on its way: another key, another device, *)
(* another ciphertext, another value.                                   *)
OtherKey == KeyPair("nobody", 0)

DamagedPayload(type, p) ==
  CASE type = "EPHEMERAL_KEYS" ->
         {[p EXCEPT !.x25519 = SmallOrder], [p EXCEPT !.x25519 = OtherKey], [p EXCEPT !.kem = OtherKey]}
    [] type = "DEVICE_CERTIFICATE" -> {[p EXCEPT !.c.dev = "nobody"]}
    [] type = "ENCAPSULATIONS" ->
         {[p EXCEPT !.to_ephemeral.with = OtherKey], [p EXCEPT !.to_static.with = OtherKey]}
    [] type = "CONFIRMATION" -> {[p EXCEPT !.label = "damaged"]}

Arrivals(records) ==
  {records} \cup UNION {{[records EXCEPT ![t] = p] : p \in DamagedPayload(t, records[t])} :
                          t \in DOMAIN records}

Statements == signed \cup {[s EXCEPT !.c.dev = "nobody"] : s \in signed}

Next ==
  \/ \E d \in Device, e \in 1..MaxEpoch : Certify(d, e)
  \/ \E d \in Device : Revoke(d)
  \/ \E d \in Device, i \in Identities : TakeBundle(d, Bundle(i))
  \/ \E d \in Device, s \in Statements : LearnCertificate(d, s) \/ LearnRevocation(d, s)
  \/ \E d \in Device, c \in signed : Begin(d, c)
  \/ \E d \in Device, m \in network :
       \E records \in Arrivals(m) :
         \/ \E c \in signed : Answer(d, records, c)
         \/ Derive(d, records)
         \/ Conclude(d, records)
         \/ Accept(d, records)

Spec == Init /\ [][Next]_vars

-----------------------------------------------------------------------------
Roots(d) == {done[d][k].root : k \in DOMAIN done[d]}

Meetings(d) == {done[d][k] : k \in DOMAIN done[d]}

\* Every variable has its shape, and whoever a device has met or is meeting is
\* a device: nothing that was damaged on its way is taken for one
\* (verify_certificate).
TypeOK ==
  /\ epoch \in [Identities -> 1..MaxEpoch]
  /\ signed \subseteq {SignCertificate(Root(IdentityOf[d]), CertificateOf(d, e)) :
                        d \in Device, e \in 1..MaxEpoch}
       \cup {SignRevocation(Root(IdentityOf[d]), RevocationOf(d, e)) :
               d \in Device, e \in 1..MaxEpoch}
  /\ \A d \in Device :
       /\ contact[d].bundle \in {NoBundle} \cup {Bundle(i) : i \in Identities}
       /\ contact[d].recorded \in 0..MaxEpoch /\ contact[d].revoked \subseteq Device
       /\ half[d].state \in {"none", "sent", "answered", "derived"}
       /\ half[d].state \in {"answered", "derived"} => PeerIn(half[d]) \in Device
       /\ drawn[d] \in 0..MaxDrawn[d]
       /\ \A m \in Meetings(d) : m.peer \in Device
  /\ \A m \in network : DOMAIN m \subseteq RecordTypes

\* Who finishes does not finish alone: when A has, B has the same root key and
\* knows it to be shared with A, and when B has, A has confirmed that root key
\* (spec/30-handshake.md section 4), whatever was delayed, repeated, damaged
\* or sent back to where it came from.
FinishedAgree ==
  \A d \in Device : \A m \in Meetings(d) :
    IF RoleOf[d] = "A"
    THEN [peer |-> d, root |-> m.root] \in Meetings(m.peer)
    ELSE \E sent \in network :
           "CONFIRMATION" \in DOMAIN sent /\ sent.CONFIRMATION = Confirmation(m.root, "A")

\* A root key is used for one relationship: a repeated message does not lead
\* to the same one a second time, which would start the transport keys over.
KeyUsedOnce ==
  \A d \in Device : \A k, n \in DOMAIN done[d] :
    done[d][k].root = done[d][n].root => k = n

\* The key pairs a device holds the secret half of.
Kept == {StaticPair(d) : d \in Device}
          \cup {half[d].ephemeral : d \in {x \in Device : half[x].state \in {"sent", "answered"}}}

\* A finished handshake stays closed to whoever takes all the devices later:
\* something that went into the root key comes from no key pair anyone still
\* has (spec/30-handshake.md section 1, from the ephemeral pairs).
PastIsClosed ==
  \A d \in Device : \A m \in Meetings(d) :
    \E s \in DOMAIN m.root.secrets : m.root.secrets[s].from \cap Kept = {}

\* What a device holds true of its contact, the owner has said: the bundle is
\* that of the link, the recorded epoch has been reached, every device it
\* holds for revoked was revoked, and whoever it met was certified, for that
\* identity, with the keys it met.
AsTheOwnerSaid ==
  \A d \in Device :
    LET theirs == ContactOf[d] IN
    /\ contact[d].bundle \in {NoBundle, Bundle(theirs)}
    /\ contact[d].recorded <= epoch[theirs]
    /\ \A r \in contact[d].revoked : IdentityOf[r] = theirs /\ Withdrawn(r)
    /\ \A m \in Meetings(d) :
         LET side == IF RoleOf[d] = "A" THEN m.root.B ELSE m.root.A IN
         /\ IdentityOf[m.peer] = theirs /\ Certified(m.peer)
         /\ side.identity_id = IdentityId(Root(theirs))
         /\ side.device_signing_pub = m.peer
         /\ side.dh_static_pub = StaticPair(m.peer) /\ side.kem_static_pub = StaticPair(m.peer)

\* d has recorded the epoch in which the other device was revoked, or one after
\* it, by whatever statement it came to that epoch.
KnownRevoked(d, peer) ==
  \E e \in 1..contact[d].recorded :
    SignRevocation(Root(IdentityOf[peer]), RevocationOf(peer, e)) \in signed

\* A device takes up no handshake with one that is revoked as of the epoch it
\* has recorded, before the step or by it, even if all it ever got was a later
\* certificate of a third device (accept_epoch: the old certificate is no longer
\* good).  From the moment a revocation reaches it, it is in no handshake with
\* that device (spec/40-identity.md section 5, rule 3), and it finishes none
\* but the one it had taken up, with a device it holds no revocation of.  A
\* handshake taken up in time may be finished when only some other statement of
\* a later epoch came since: an epoch does not say who was revoked.
RevokedStaysOut ==
  [][\A d \in Device :
       /\ half'[d].state \in {"answered", "derived"} /\ half'[d] # half[d]
            => ~KnownRevoked(d, PeerIn(half'[d])) /\ ~KnownRevoked(d, PeerIn(half[d]))'
       /\ PeerIn(half'[d]) \notin contact'[d].revoked
       /\ done'[d] # done[d]
            => /\ Last(done'[d]).peer = PeerIn(half[d])
               /\ PeerIn(half[d]) \notin contact[d].revoked]_vars
=============================================================================
