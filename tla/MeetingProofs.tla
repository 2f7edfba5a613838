--------------------------- MODULE MeetingProofs ---------------------------
(***************************************************************************)
(* Proofs about Meeting, for any identities, devices and bounds: what a    *)
(* device holds true of its contact the owner has said, whoever is known   *)
(* to be revoked stays out, and a finished handshake is shared with the    *)
(* peer, used once and closed to whoever comes later.  Seen from outside,  *)
(* the epochs are the device sets of DeviceSets.                           *)
(***************************************************************************)
EXTENDS MeetingDevices, SequenceTheorems, TLAPS

-----------------------------------------------------------------------------
(* What can be told apart by its symbolic form. *)

LEMMA IdentitiesDiffer ==
  ASSUME NEW i, NEW j, IdentityId(Root(i)) = IdentityId(Root(j))
  PROVE  i = j
BY DEF IdentityId, Root, RootKeys

LEMMA CommitmentBinds ==
  ASSUME NEW b, NEW i, Checks(b, Commitment(Bundle(i)))
  PROVE  b = Bundle(i)
BY DEF Checks, Commitment

LEMMA BundleOfContact ==
  ASSUME NEW i
  PROVE  Bundle(i) # NoBundle /\ Bundle(i).root = Root(i)
<1>1. "contact_key" \in DOMAIN Bundle(i) /\ "contact_key" \notin DOMAIN NoBundle
  BY DEF Bundle, ContactBundle, NoBundle
<1> QED
  BY <1>1 DEF Bundle, ContactBundle

\* The certificates and revocations there are.
CertificateFor(d, e) == SignCertificate(Root(IdentityOf[d]), CertificateOf(d, e))
RevocationFor(d, e) == SignRevocation(Root(IdentityOf[d]), RevocationOf(d, e))

LEMMA CertificateFields ==
  ASSUME NEW d, NEW e
  PROVE  /\ CertificateFor(d, e).c.dev = d /\ CertificateFor(d, e).c.epoch = e
         /\ CertificateFor(d, e).c.id = IdentityId(Root(IdentityOf[d]))
         /\ CertificateFor(d, e).c.dh = StaticPair(d) /\ CertificateFor(d, e).c.kem = StaticPair(d)
BY DEF CertificateFor, SignCertificate, SignWithLabel, CertificateOf, DeviceCertificate

LEMMA RevocationFields ==
  ASSUME NEW d, NEW e
  PROVE  /\ RevocationFor(d, e).c.dev = d /\ RevocationFor(d, e).c.epoch = e
         /\ RevocationFor(d, e).c.id = IdentityId(Root(IdentityOf[d]))
         /\ "kem" \notin DOMAIN RevocationFor(d, e).c
BY DEF RevocationFor, SignRevocation, SignWithLabel, RevocationOf, Revocation

LEMMA StatementsDiffer ==
  ASSUME NEW d, NEW e, NEW f, NEW g
  PROVE  /\ CertificateFor(d, e) # RevocationFor(f, g)
         /\ CertificateFor(d, e) = CertificateFor(f, g) => d = f /\ e = g
         /\ RevocationFor(d, e) = RevocationFor(f, g) => d = f /\ e = g
<1>1. "kem" \in DOMAIN CertificateFor(d, e).c
  BY DEF CertificateFor, SignCertificate, SignWithLabel, CertificateOf, DeviceCertificate
<1> QED
  BY <1>1, CertificateFields, RevocationFields

\* What the owners have signed, each statement in an epoch they have reached.
SignedInv ==
  \A s \in signed : \E d \in Device, e \in 1..MaxEpoch :
    e <= epoch[IdentityOf[d]] /\ s \in {CertificateFor(d, e), RevocationFor(d, e)}

\* What may arrive as a statement: one that was signed, or one whose device
\* was changed.
Stated(s) == \E t \in signed : s = t \/ s = [t EXCEPT !.c.dev = "nobody"]

(* A container whose signatures hold is one that was signed: the body is   *)
(* part of what is signed, and no device is called "nobody".               *)
LEMMA SignaturesBind ==
  ASSUME SignedInv, NEW s, Stated(s), NEW root, NEW label, SignaturesHold(s, root, label)
  PROVE  s \in signed
<1>1. PICK t \in signed : s = t \/ s = [t EXCEPT !.c.dev = "nobody"]
  BY DEF Stated
<1>2. PICK d \in Device, e \in 1..MaxEpoch :
        t \in {CertificateFor(d, e), RevocationFor(d, e)}
  BY DEF SignedInv
<1>3. CASE s = [t EXCEPT !.c.dev = "nobody"]
  <2>1. s.e = t.e /\ s.c.dev = "nobody"
    BY <1>2, <1>3 DEF CertificateFor, RevocationFor, SignCertificate, SignRevocation,
                      SignWithLabel, CertificateOf, DeviceCertificate, RevocationOf, Revocation
  <2>2. s.e.over[2] = s.c
    BY DEF SignaturesHold, Signature
  <2>3. t.e.over[2].dev = d
    BY <1>2 DEF CertificateFor, RevocationFor, SignCertificate, SignRevocation, SignWithLabel,
                CertificateOf, DeviceCertificate, RevocationOf, Revocation, Signature
  <2> QED
    BY <2>1, <2>2, <2>3, MeetingAssumption
<1> QED
  BY <1>1, <1>3

(* A certificate that is not refused is one the contact's owner has        *)
(* signed.                                                                 *)
LEMMA AcceptedCertificate ==
  ASSUME SignedInv, NEW s, Stated(s), NEW i, CertificateRefusal(s, Root(i)) = {}
  PROVE  \E d \in Device, e \in 1..MaxEpoch :
           IdentityOf[d] = i /\ e <= epoch[i] /\ s = CertificateFor(d, e) /\ s \in signed
<1>1. /\ SignaturesHold(s, Root(i), CertificateLabel)
      /\ s.c.id = IdentityId(Root(i))
      /\ "kem" \in DOMAIN s.c
  BY DEF CertificateRefusal, ContainerRefusal
<1>2. s \in signed
  BY <1>1, SignaturesBind
<1>3. PICK d \in Device, e \in 1..MaxEpoch :
        e <= epoch[IdentityOf[d]] /\ s \in {CertificateFor(d, e), RevocationFor(d, e)}
  BY <1>2 DEF SignedInv
<1>4. s = CertificateFor(d, e)
  BY <1>1, <1>3, RevocationFields
<1>5. IdentityOf[d] = i
  BY <1>1, <1>4, CertificateFields, IdentitiesDiffer
<1> QED
  BY <1>2, <1>3, <1>4, <1>5

LEMMA AcceptedRevocation ==
  ASSUME SignedInv, NEW s, Stated(s), NEW i, RevocationRefusal(s, Root(i)) = {}
  PROVE  \E d \in Device, e \in 1..MaxEpoch :
           IdentityOf[d] = i /\ e <= epoch[i] /\ s = RevocationFor(d, e) /\ s \in signed
<1>1. SignaturesHold(s, Root(i), RevocationLabel) /\ s.c.id = IdentityId(Root(i))
  BY DEF RevocationRefusal, ContainerRefusal
<1>2. s \in signed
  BY <1>1, SignaturesBind
<1>3. PICK d \in Device, e \in 1..MaxEpoch :
        e <= epoch[IdentityOf[d]] /\ s \in {CertificateFor(d, e), RevocationFor(d, e)}
  BY <1>2 DEF SignedInv
<1>4. s # CertificateFor(d, e)
  BY <1>1 DEF SignaturesHold, Signature, CertificateFor, SignCertificate, SignWithLabel,
              CertificateLabel, RevocationLabel
<1>5. IdentityOf[d] = i
  BY <1>1, <1>3, <1>4, RevocationFields, IdentitiesDiffer
<1> QED
  BY <1>2, <1>3, <1>4, <1>5

-----------------------------------------------------------------------------
(* The invariant. *)

ContactState ==
  [bundle : {NoBundle} \cup {Bundle(i) : i \in Identities},
   recorded : 0..MaxEpoch, revoked : SUBSET Device]

Shapes ==
  /\ epoch \in [Identities -> 1..MaxEpoch]
  /\ contact \in [Device -> ContactState]
  /\ DOMAIN half = Device /\ DOMAIN done = Device
  /\ drawn \in [Device -> Nat]
  /\ \A d \in Device : drawn[d] <= MaxDrawn[d] /\ done[d] \in Seq(Meetings(d))

\* No device is certified in the epoch of its revocation or later.
RevokedLast ==
  \A d \in Device, e, f \in 1..MaxEpoch :
    CertificateFor(d, e) \in signed /\ RevocationFor(d, f) \in signed => e < f

ContactInv ==
  \A d \in Device :
    /\ contact[d].bundle \in {NoBundle, Bundle(ContactOf[d])}
    /\ contact[d].recorded <= epoch[ContactOf[d]]
    /\ \A r \in contact[d].revoked : IdentityOf[r] = ContactOf[d] /\ Withdrawn(r)

\* A confirmation of B was sent when B had finished.
SentByFinished(confirmation) ==
  LET root == confirmation.root
      d == root.B.device_signing_pub
  IN  confirmation.label = "CONFIRMATION_B" =>
        /\ d \in Device /\ RoleOf[d] = "B"
        /\ [peer |-> root.A.device_signing_pub, root |-> root] \in Meetings(d)

IsConfirmation(c) == c \in {Confirmation(c.root, "A"), Confirmation(c.root, "B")}

NetworkInv ==
  \A m \in network :
    /\ DOMAIN m \subseteq RecordTypes
    /\ "DEVICE_CERTIFICATE" \in DOMAIN m => m.DEVICE_CERTIFICATE \in signed
    /\ "CONFIRMATION" \in DOMAIN m =>
         IsConfirmation(m.CONFIRMATION) /\ SentByFinished(m.CONFIRMATION)

\* The two sides of a transcript, for device d.
OwnSide(d, root) == IF RoleOf[d] = "A" THEN root.A ELSE root.B
PeerSide(d, root) == IF RoleOf[d] = "A" THEN root.B ELSE root.A

\* The peer in a transcript is a certified device of the contact.
PeerCertified(d, peer, side) ==
  /\ peer \in Device /\ IdentityOf[peer] = ContactOf[d] /\ Certified(peer)
  /\ side.identity_id = IdentityId(Root(ContactOf[d]))
  /\ side.device_signing_pub = peer
  /\ side.dh_static_pub = StaticPair(peer) /\ side.kem_static_pub = StaticPair(peer)

\* A root key in which the n-th ephemeral pair of d is, and one of the secrets
\* that nothing but this pair gives.
OnlyFor(d) == IF RoleOf[d] = "A" THEN "kem_ephemeral_b" ELSE "kem_ephemeral_a"

Uses(d, root, n) ==
  /\ OwnSide(d, root).ephemeral_pub = EphemeralKeys(KeyPair(d, n))
  /\ OnlyFor(d) \in DOMAIN root.secrets
  /\ root.secrets[OnlyFor(d)].from = {KeyPair(d, n)}

HalfUses(d, n) ==
  \/ half[d].state \in {"sent", "answered"} /\ half[d].ephemeral = KeyPair(d, n)
  \/ half[d].state = "derived" /\ Uses(d, half[d].root, n)

Transcript(d, peer, root) ==
  OwnSide(d, root).device_signing_pub = d /\ PeerCertified(d, peer, PeerSide(d, root))

CertificateFrom(d, c) ==
  \E p \in Device, e \in 1..MaxEpoch :
    IdentityOf[p] = ContactOf[d] /\ c = CertificateOf(p, e) /\ CertificateFor(p, e) \in signed

HalfWell(d) ==
  /\ half[d].state \in {"none", "sent", "answered", "derived"}
  /\ half[d].state # "none" =>
       contact[d].bundle # NoBundle /\ \E n \in 1..drawn[d] : HalfUses(d, n)
  /\ half[d].state \in {"sent", "derived"} => RoleOf[d] = "A"
  /\ half[d].state = "answered" => RoleOf[d] = "B" /\ CertificateFrom(d, half[d].certificate)
  /\ half[d].state = "derived" => Transcript(d, half[d].peer, half[d].root)
  /\ PeerIn(half[d]) \notin contact[d].revoked

HalfInv == \A d \in Device : HalfWell(d)

DoneInv ==
  \A d \in Device : \A k \in DOMAIN done[d] :
    /\ Transcript(d, done[d][k].peer, done[d][k].root)
    /\ \E n \in 1..drawn[d] : Uses(d, done[d][k].root, n) /\ ~HalfUses(d, n)

IInv ==
  Shapes /\ SignedInv /\ RevokedLast /\ ContactInv /\ NetworkInv /\ HalfInv /\ DoneInv
    /\ KeyUsedOnce /\ FinishedAgree

LEMMA InitIInv == Init => IInv
<1> SUFFICES ASSUME Init PROVE IInv
  OBVIOUS
<1> USE MeetingAssumption
<1>1. Shapes
  <2>1. \A d \in Device : << >> \in Seq(Meetings(d))
    OBVIOUS
  <2> QED BY <2>1 DEF Init, Shapes, ContactState
<1>2. \A s \in signed : \E d \in Device : s = CertificateFor(d, 1)
  BY DEF Init, CertificateFor
<1>3. SignedInv
  <2>1. 1 \in 1..MaxEpoch /\ \A d \in Device : 1 <= epoch[IdentityOf[d]]
    BY DEF Init
  <2> QED BY <1>2, <2>1 DEF SignedInv
<1>4. RevokedLast
  BY <1>2, StatementsDiffer DEF RevokedLast
<1>5. ContactInv
  BY DEF Init, ContactInv
<1>6. NetworkInv
  BY DEF Init, NetworkInv
<1>7. HalfInv
  BY DEF Init, HalfInv, HalfWell, NoHalf, PeerIn
<1>8. DoneInv /\ KeyUsedOnce /\ FinishedAgree
  BY DEF Init, DoneInv, KeyUsedOnce, FinishedAgree, Meetings
<1> QED
  BY <1>1, <1>3, <1>4, <1>5, <1>6, <1>7, <1>8 DEF IInv

-----------------------------------------------------------------------------
(* The owner's steps. *)

\* What was signed stays signed.
LEMMA StatementsStay ==
  ASSUME signed \subseteq signed'
  PROVE  /\ \A d : Certified(d) => Certified(d)'
         /\ \A d : Withdrawn(d) => Withdrawn(d)'
         /\ \A d, peer, side : PeerCertified(d, peer, side) => PeerCertified(d, peer, side)'
         /\ \A d, c : CertificateFrom(d, c) => CertificateFrom(d, c)'
BY DEF Certified, Withdrawn, PeerCertified, CertificateFrom

(* What devices hold goes on being true when an owner signs something.     *)
LEMMA SigningDisturbsNothing ==
  ASSUME IInv, signed \subseteq signed',
         epoch' \in [Identities -> 1..MaxEpoch], \A i \in Identities : epoch[i] <= epoch'[i],
         UNCHANGED <<contact, half, drawn, network, done>>
  PROVE  /\ Shapes' /\ ContactInv' /\ NetworkInv' /\ HalfInv' /\ DoneInv'
         /\ KeyUsedOnce' /\ FinishedAgree'
<1> USE DEF IInv
<1>1. Shapes'
  BY DEF Shapes, ContactState, Meetings
<1>2. ContactInv'
  <2>1. \A d \in Device : ContactOf[d] \in Identities /\ contact[d].recorded \in Nat
    BY MeetingAssumption DEF Shapes, ContactState
  <2>2. \A i \in Identities : epoch[i] \in Nat /\ epoch'[i] \in Nat
    BY DEF Shapes, ContactState
  <2>3. \A d \in Device : contact[d].recorded <= epoch'[ContactOf[d]]
    BY <2>1, <2>2 DEF ContactInv
  <2> QED BY <2>3, StatementsStay DEF ContactInv
<1>3. NetworkInv'
  BY DEF NetworkInv, SentByFinished, Meetings
<1>4. HalfInv'
  BY StatementsStay DEF HalfInv, HalfWell, HalfUses, Transcript
<1>5. DoneInv'
  BY StatementsStay DEF DoneInv, HalfUses, Transcript
<1>6. KeyUsedOnce' /\ FinishedAgree'
  BY DEF KeyUsedOnce, FinishedAgree, Meetings
<1> QED
  BY <1>1, <1>2, <1>3, <1>4, <1>5, <1>6

LEMMA CertifyKeepsIInv ==
  ASSUME IInv, NEW d \in Device, NEW e \in 1..MaxEpoch, Certify(d, e)
  PROVE  IInv'
<1> DEFINE i == IdentityOf[d]
<1>1. /\ signed' = signed \cup {CertificateFor(d, e)}
      /\ epoch' = [epoch EXCEPT ![i] = e]
      /\ e \in {epoch[i], epoch[i] + 1} /\ ~Withdrawn(d)
      /\ UNCHANGED <<contact, half, drawn, network, done>>
  BY DEF Certify, CertificateFor
<1>2. epoch \in [Identities -> 1..MaxEpoch] /\ i \in Identities
  BY MeetingAssumption DEF IInv, Shapes, ContactState
<1>3. /\ epoch' \in [Identities -> 1..MaxEpoch]
      /\ \A j \in Identities : epoch[j] <= epoch'[j]
      /\ e <= epoch'[i]
  BY <1>1, <1>2
<1>4. SignedInv'
  BY <1>1, <1>2, <1>3, MeetingAssumption DEF IInv, SignedInv
<1>5. RevokedLast'
  <2> SUFFICES ASSUME NEW x \in Device, NEW f \in 1..MaxEpoch, NEW g \in 1..MaxEpoch,
                      CertificateFor(x, f) \in signed', RevocationFor(x, g) \in signed'
               PROVE  f < g
    BY DEF RevokedLast
  <2>1. RevocationFor(x, g) \in signed
    BY <1>1, StatementsDiffer
  <2>2. x # d
    BY <1>1, <2>1 DEF Withdrawn, RevocationFor
  <2>3. CertificateFor(x, f) \in signed
    BY <1>1, <2>2, StatementsDiffer
  <2> QED
    BY <2>1, <2>3 DEF IInv, RevokedLast
<1> QED
  BY <1>1, <1>3, <1>4, <1>5, SigningDisturbsNothing DEF IInv

LEMMA RevokeKeepsIInv ==
  ASSUME IInv, NEW d \in Device, Revoke(d)
  PROVE  IInv'
<1> DEFINE i == IdentityOf[d]
           e == epoch[i] + 1
<1>1. /\ signed' = signed \cup {RevocationFor(d, e)}
      /\ epoch' = [epoch EXCEPT ![i] = e] /\ e <= MaxEpoch
      /\ UNCHANGED <<contact, half, drawn, network, done>>
  BY DEF Revoke, RevocationFor
<1>2. epoch \in [Identities -> 1..MaxEpoch] /\ i \in Identities
  BY MeetingAssumption DEF IInv, Shapes, ContactState
<1>3. /\ epoch' \in [Identities -> 1..MaxEpoch]
      /\ \A j \in Identities : epoch[j] <= epoch'[j]
      /\ e <= epoch'[i] /\ e \in 1..MaxEpoch
  BY <1>1, <1>2, MeetingAssumption
<1>4. SignedInv'
  BY <1>1, <1>2, <1>3, MeetingAssumption DEF IInv, SignedInv
<1>5. RevokedLast'
  <2> SUFFICES ASSUME NEW x \in Device, NEW f \in 1..MaxEpoch, NEW g \in 1..MaxEpoch,
                      CertificateFor(x, f) \in signed', RevocationFor(x, g) \in signed'
               PROVE  f < g
    BY DEF RevokedLast
  <2>1. CertificateFor(x, f) \in signed
    BY <1>1, StatementsDiffer
  <2>2. f <= epoch[IdentityOf[x]]
    BY <2>1, StatementsDiffer DEF IInv, SignedInv
  <2>3. CASE RevocationFor(x, g) \in signed
    BY <2>1, <2>3 DEF IInv, RevokedLast
  <2>4. CASE RevocationFor(x, g) = RevocationFor(d, e)
    <3>1. x = d /\ g = e
      BY <2>4, StatementsDiffer
    <3> QED BY <2>2, <3>1, <1>2
  <2> QED
    BY <1>1, <2>3, <2>4
<1> QED
  BY <1>1, <1>3, <1>4, <1>5, SigningDisturbsNothing DEF IInv

-----------------------------------------------------------------------------
(* A device and its contact. *)

(* A certificate a device does not refuse is one of its contact's owner,   *)
(* of no earlier epoch than the recorded one and of no device it knows to  *)
(* be revoked.                                                             *)
LEMMA NotRefused ==
  ASSUME IInv, NEW d \in Device, contact[d].bundle # NoBundle,
         NEW s, Stated(s), Refusal(d, s) = {}
  PROVE  \E p \in Device, e \in 1..MaxEpoch :
           /\ IdentityOf[p] = ContactOf[d] /\ s = CertificateFor(p, e) /\ s \in signed
           /\ contact[d].recorded <= e /\ e <= epoch[ContactOf[d]]
           /\ p \notin contact[d].revoked
<1>1. contact[d].bundle.root = Root(ContactOf[d])
  BY BundleOfContact DEF IInv, ContactInv
<1>2. /\ CertificateRefusal(s, Root(ContactOf[d])) = {}
      /\ EpochRefusal(contact[d].recorded, s.c.epoch) = {}
      /\ s.c.dev \notin contact[d].revoked
  BY <1>1 DEF Refusal
<1>3. PICK p \in Device, e \in 1..MaxEpoch :
        IdentityOf[p] = ContactOf[d] /\ e <= epoch[ContactOf[d]] /\ s = CertificateFor(p, e) /\ s \in signed
  BY <1>2, AcceptedCertificate DEF IInv
<1>4. contact[d].recorded \in Nat
  BY DEF IInv, Shapes, ContactState
<1>5. contact[d].recorded <= e
  BY <1>2, <1>3, <1>4, CertificateFields DEF EpochRefusal
<1> QED
  BY <1>2, <1>3, <1>5, CertificateFields

\* What a step leaves alone that signs nothing and finishes nothing.
LEMMA NothingFinished ==
  ASSUME IInv, UNCHANGED <<epoch, signed, done>>, network \subseteq network'
  PROVE  /\ SignedInv' /\ RevokedLast' /\ KeyUsedOnce' /\ FinishedAgree'
         /\ \A d : Meetings(d)' = Meetings(d)
         /\ \A d : Withdrawn(d)' = Withdrawn(d)
         /\ \A c : SentByFinished(c)' = SentByFinished(c)
         /\ \A d, peer, root : Transcript(d, peer, root)' = Transcript(d, peer, root)
         /\ \A d, c : CertificateFrom(d, c)' = CertificateFrom(d, c)
<1> USE DEF IInv
<1>1. SignedInv' /\ RevokedLast'
  BY DEF SignedInv, RevokedLast
<1>2. \A d : Meetings(d)' = Meetings(d)
  BY DEF Meetings
<1>3. KeyUsedOnce'
  BY DEF KeyUsedOnce
<1>4. FinishedAgree'
  BY <1>2 DEF FinishedAgree
<1>5. /\ \A d : Withdrawn(d)' = Withdrawn(d)
      /\ \A d, peer, root : Transcript(d, peer, root)' = Transcript(d, peer, root)
      /\ \A d, c : CertificateFrom(d, c)' = CertificateFrom(d, c)
  BY DEF Withdrawn, Certified, PeerCertified, Transcript, CertificateFrom
<1>6. \A c : SentByFinished(c)' = SentByFinished(c)
  BY <1>2 DEF SentByFinished
<1> QED
  BY <1>1, <1>2, <1>3, <1>4, <1>5, <1>6

LEMMA TakeBundleKeepsIInv ==
  ASSUME IInv, NEW d \in Device, NEW i \in Identities, TakeBundle(d, Bundle(i))
  PROVE  IInv'
<1> USE DEF IInv
<1>1. /\ contact' = [contact EXCEPT ![d].bundle = Bundle(i)]
      /\ Bundle(i) = Bundle(ContactOf[d])
      /\ UNCHANGED <<epoch, signed, half, drawn, network, done>>
  BY CommitmentBinds DEF TakeBundle
<1>2. Shapes' /\ ContactInv'
  BY <1>1, NothingFinished DEF Shapes, ContactState, ContactInv
<1>3. NetworkInv'
  BY <1>1, NothingFinished DEF NetworkInv
<1>4. \A x, n : HalfUses(x, n)' <=> HalfUses(x, n)
  BY <1>1 DEF HalfUses
<1>5. HalfInv'
  <2>1. \A x \in Device : /\ contact'[x].revoked = contact[x].revoked
                          /\ contact[x].bundle # NoBundle => contact'[x].bundle # NoBundle
    BY <1>1, BundleOfContact DEF Shapes, ContactState
  <2> QED BY <1>1, <1>4, <2>1, NothingFinished DEF HalfInv, HalfWell, Shapes, ContactState
<1>6. DoneInv'
  BY <1>1, <1>4, NothingFinished DEF DoneInv, Shapes, ContactState
<1> QED
  BY <1>1, <1>2, <1>3, <1>5, <1>6, NothingFinished

LEMMA LearnCertificateKeepsIInv ==
  ASSUME IInv, NEW d \in Device, NEW s, Stated(s), LearnCertificate(d, s)
  PROVE  IInv'
<1> USE DEF IInv
<1>1. PICK p \in Device, e \in 1..MaxEpoch : s = CertificateFor(p, e) /\ e <= epoch[ContactOf[d]]
  BY NotRefused DEF LearnCertificate
<1>2. /\ contact' = [contact EXCEPT ![d].recorded = e]
      /\ UNCHANGED <<epoch, signed, half, drawn, network, done>>
  <2>1. s.c.epoch = e
    BY <1>1, CertificateFields
  <2> QED BY <2>1 DEF LearnCertificate
<1>3. Shapes' /\ ContactInv'
  <2>1. [contact[d] EXCEPT !.recorded = e] \in ContactState
    <3> DEFINE c == contact[d]
               bundles == {NoBundle} \cup {Bundle(i) : i \in Identities}
               devices == SUBSET Device
    <3>1. c \in [bundle : bundles, recorded : 0..MaxEpoch, revoked : devices]
      BY DEF Shapes, ContactState
    <3> HIDE DEF c, bundles, devices
    <3>2. [c EXCEPT !.recorded = e] \in [bundle : bundles, recorded : 0..MaxEpoch, revoked : devices]
      BY <3>1
    <3> QED BY <3>2 DEF ContactState, c, bundles, devices
  <2>2. contact \in [Device -> ContactState]
    BY DEF Shapes
  <2>3. contact' \in [Device -> ContactState]
    BY <1>2, <2>1, <2>2
  <2>4. Shapes'
    BY <1>2, <2>3, NothingFinished DEF Shapes
  <2>5. \A x \in Device :
          /\ contact'[x].bundle = contact[x].bundle /\ contact'[x].revoked = contact[x].revoked
          /\ contact'[x].recorded = IF x = d THEN e ELSE contact[x].recorded
    BY <1>2, <2>2 DEF ContactState
  <2>6. ContactInv'
    BY <1>1, <1>2, <2>5, NothingFinished DEF ContactInv
  <2> QED BY <2>4, <2>6
<1>4. NetworkInv'
  BY <1>2, NothingFinished DEF NetworkInv
<1>5. \A x, n : HalfUses(x, n)' <=> HalfUses(x, n)
  BY <1>2 DEF HalfUses
<1>6. HalfInv'
  BY <1>2, <1>5, NothingFinished DEF HalfInv, HalfWell, Shapes, ContactState
<1>7. DoneInv'
  BY <1>2, <1>5, NothingFinished DEF DoneInv, Shapes, ContactState
<1> QED
  BY <1>2, <1>3, <1>4, <1>6, <1>7, NothingFinished

LEMMA LearnRevocationKeepsIInv ==
  ASSUME IInv, NEW d \in Device, NEW s, Stated(s), LearnRevocation(d, s)
  PROVE  IInv'
<1> USE DEF IInv
<1>1. contact[d].bundle.root = Root(ContactOf[d])
  BY BundleOfContact DEF ContactInv, LearnRevocation
<1>2. PICK p \in Device, e \in 1..MaxEpoch :
        /\ IdentityOf[p] = ContactOf[d] /\ s = RevocationFor(p, e) /\ s \in signed
        /\ e <= epoch[ContactOf[d]]
  BY <1>1, AcceptedRevocation DEF LearnRevocation
<1>3. /\ contact' = [contact EXCEPT ![d].recorded = e, ![d].revoked = @ \cup {p}]
      /\ half' = [half EXCEPT ![d] = IF PeerIn(@) = p THEN NoHalf ELSE @]
      /\ UNCHANGED <<epoch, signed, drawn, network, done>>
  <2>1. s.c.dev = p /\ s.c.epoch = e
    BY <1>2, RevocationFields
  <2> QED BY <2>1 DEF LearnRevocation
<1>4. Withdrawn(p)
  BY <1>2 DEF Withdrawn, RevocationFor
<1>5. Shapes'
  <2>1. [contact[d] EXCEPT !.recorded = e, !.revoked = @ \cup {p}] \in ContactState
    <3> DEFINE c == contact[d]
               bundles == {NoBundle} \cup {Bundle(i) : i \in Identities}
               devices == SUBSET Device
    <3>1. c \in [bundle : bundles, recorded : 0..MaxEpoch, revoked : devices]
      BY DEF Shapes, ContactState
    <3>2. c.revoked \cup {p} \in devices /\ e \in 0..MaxEpoch
      BY <3>1
    <3> HIDE DEF c, bundles, devices
    <3>3. [c EXCEPT !.recorded = e, !.revoked = c.revoked \cup {p}]
            \in [bundle : bundles, recorded : 0..MaxEpoch, revoked : devices]
      BY <3>1, <3>2
    <3> QED BY <3>3 DEF ContactState, c, bundles, devices
  <2>2. contact' \in [Device -> ContactState]
    BY <1>3, <2>1 DEF Shapes
  <2> QED BY <1>3, <2>2, NothingFinished DEF Shapes
<1>6. ContactInv'
  BY <1>2, <1>3, <1>4, NothingFinished DEF Shapes, ContactState, ContactInv
<1>7. NetworkInv'
  BY <1>3, NothingFinished DEF NetworkInv
<1>8. NoHalf.state = "none" /\ PeerIn(NoHalf) = "nobody"
  BY DEF NoHalf, PeerIn
<1>9. \A x \in Device : half'[x] = half[x] \/ half'[x] = NoHalf
  BY <1>3 DEF Shapes, ContactState
<1>10. HalfInv'
  <2> SUFFICES ASSUME NEW x \in Device PROVE HalfWell(x)'
    BY DEF HalfInv
  <2>1. contact'[x].bundle = contact[x].bundle
    BY <1>3 DEF Shapes, ContactState
  <2>2. CASE half'[x] = NoHalf
    BY <1>5, <1>8, <2>2, MeetingAssumption DEF Shapes, ContactState, HalfWell
  <2>3. CASE half'[x] = half[x] /\ half'[x] # NoHalf
    <3>1. PeerIn(half'[x]) \notin contact'[x].revoked
      BY <1>3, <2>3 DEF HalfInv, HalfWell, Shapes, ContactState
    <3> QED BY <1>3, <2>1, <2>3, <3>1, NothingFinished DEF HalfInv, HalfWell, HalfUses
  <2> QED BY <1>9, <2>2, <2>3
<1>11. DoneInv'
  <2>1. \A x \in Device : \A n : HalfUses(x, n)' => HalfUses(x, n)
    BY <1>8, <1>9 DEF HalfUses
  <2> QED BY <1>3, <2>1, NothingFinished DEF DoneInv, Shapes, ContactState
<1> QED
  BY <1>3, <1>5, <1>6, <1>7, <1>10, <1>11, NothingFinished

-----------------------------------------------------------------------------
(* The handshake. *)

(* Damage makes of a certificate one that was not signed and of a          *)
(* confirmation none, and it adds no records.                              *)
LEMMA WhatArrives ==
  ASSUME IInv, NEW m \in network, NEW records \in Arrivals(m)
  PROVE  /\ "DEVICE_CERTIFICATE" \in DOMAIN records => Stated(records.DEVICE_CERTIFICATE)
         /\ "CONFIRMATION" \in DOMAIN records =>
              "CONFIRMATION" \in DOMAIN m
                /\ \/ records.CONFIRMATION = m.CONFIRMATION
                   \/ records.CONFIRMATION.label = "damaged"
<1>1. /\ DOMAIN m \subseteq RecordTypes
      /\ "DEVICE_CERTIFICATE" \in DOMAIN m => m.DEVICE_CERTIFICATE \in signed
      /\ "CONFIRMATION" \in DOMAIN m => IsConfirmation(m.CONFIRMATION)
  BY DEF IInv, NetworkInv
<1>2. CASE records = m
  BY <1>1, <1>2 DEF Stated
<1>3. ASSUME NEW t \in DOMAIN m, NEW p \in DamagedPayload(t, m[t]), records = [m EXCEPT ![t] = p]
      PROVE  /\ "DEVICE_CERTIFICATE" \in DOMAIN records => Stated(records.DEVICE_CERTIFICATE)
             /\ "CONFIRMATION" \in DOMAIN records =>
                  "CONFIRMATION" \in DOMAIN m
                    /\ \/ records.CONFIRMATION = m.CONFIRMATION
                       \/ records.CONFIRMATION.label = "damaged"
  <2>1. DOMAIN records = DOMAIN m /\ \A u \in DOMAIN m : u # t => records[u] = m[u]
    BY <1>3
  <2>2. records[t] = p
    BY <1>3
  <2>3. CASE t = "DEVICE_CERTIFICATE"
    <3>1. p = [m[t] EXCEPT !.c.dev = "nobody"]
      BY <1>3, <2>3 DEF DamagedPayload
    <3> QED BY <1>1, <2>1, <2>2, <2>3, <3>1 DEF Stated
  <2>4. CASE t = "CONFIRMATION"
    <3>1. p = [m[t] EXCEPT !.label = "damaged"]
      BY <1>3, <2>4 DEF DamagedPayload
    <3>2. p.label = "damaged"
      BY <1>1, <2>4, <3>1 DEF IsConfirmation, Confirmation
    <3> QED BY <1>1, <2>1, <2>2, <2>4, <3>2 DEF Stated
  <2>5. CASE t \notin {"DEVICE_CERTIFICATE", "CONFIRMATION"}
    BY <1>1, <2>1, <2>5 DEF Stated
  <2> QED BY <2>3, <2>4, <2>5
<1> QED
  BY <1>2, <1>3 DEF Arrivals

\* What holds of a device that a step does not touch.
LEMMA OthersWell ==
  ASSUME UNCHANGED signed, NEW x,
         half'[x] = half[x], contact'[x] = contact[x], drawn'[x] = drawn[x], HalfWell(x)
  PROVE  HalfWell(x)'
BY StatementsStay DEF HalfWell, HalfUses, Transcript

\* No pair of a finished handshake comes back.
LEMMA DoneStays ==
  ASSUME IInv, UNCHANGED <<signed, done>>, drawn' \in [Device -> Nat],
         \A x \in Device : drawn[x] <= drawn'[x],
         \A x \in Device : \A n \in 1..drawn[x] : HalfUses(x, n)' => HalfUses(x, n)
  PROVE  DoneInv'
<1> SUFFICES ASSUME NEW x \in Device, NEW k \in DOMAIN done[x]
             PROVE  /\ Transcript(x, done[x][k].peer, done[x][k].root)'
                    /\ \E n \in 1..drawn'[x] : Uses(x, done[x][k].root, n) /\ ~HalfUses(x, n)'
  BY DEF DoneInv, Uses, OwnSide
<1>1. Transcript(x, done[x][k].peer, done[x][k].root)
  BY DEF IInv, DoneInv
<1>2. PICK n \in 1..drawn[x] : Uses(x, done[x][k].root, n) /\ ~HalfUses(x, n)
  BY DEF IInv, DoneInv
<1>3. n \in 1..drawn'[x]
  BY <1>2 DEF IInv, Shapes
<1>4. Transcript(x, done[x][k].peer, done[x][k].root)'
  BY <1>1, StatementsStay DEF Transcript
<1> QED
  BY <1>2, <1>3, <1>4

(* Dropping a handshake.                                                   *)
LEMMA DropKeepsIInv ==
  ASSUME IInv, NEW d \in Device, Drop(d), UNCHANGED <<epoch, signed>>
  PROVE  IInv'
<1> USE DEF IInv
<1>1. half' = [half EXCEPT ![d] = NoHalf] /\ UNCHANGED <<epoch, signed, contact, drawn, network, done>>
  BY DEF Drop
<1>2. NoHalf.state = "none" /\ PeerIn(NoHalf) = "nobody"
  BY DEF NoHalf, PeerIn
<1>3. Shapes' /\ ContactInv'
  BY <1>1, NothingFinished DEF Shapes, ContactInv
<1>4. NetworkInv'
  BY <1>1, NothingFinished DEF NetworkInv
<1>5. HalfInv'
  <2> SUFFICES ASSUME NEW x \in Device PROVE HalfWell(x)'
    BY DEF HalfInv
  <2>1. CASE x = d
    BY <1>1, <1>2, <2>1, MeetingAssumption DEF Shapes, ContactState, HalfWell
  <2>2. CASE x # d
    BY <1>1, <2>2, OthersWell DEF HalfInv, Shapes
  <2> QED BY <2>1, <2>2
<1>6. DoneInv'
  <2>1. \A x \in Device : half'[x] = half[x] \/ half'[x] = NoHalf
    BY <1>1 DEF Shapes
  <2>2. \A x \in Device : \A n : HalfUses(x, n)' => HalfUses(x, n)
    BY <1>2, <2>1 DEF HalfUses
  <2> QED BY <1>1, <2>2, DoneStays DEF Shapes
<1> QED
  BY <1>1, <1>3, <1>4, <1>5, <1>6, NothingFinished

\* Ephemeral pairs are told apart by their numbers.
LEMMA PairsDiffer ==
  ASSUME NEW d, NEW root, NEW n, NEW k,
         \/ KeyPair(d, n) = KeyPair(d, k)
         \/ Uses(d, root, n) /\ Uses(d, root, k)
  PROVE  n = k
<1>1. KeyPair(d, n).number = n /\ KeyPair(d, k).number = k
  BY DEF KeyPair
<1>2. /\ EphemeralKeys(KeyPair(d, n)).kem = KeyPair(d, n)
      /\ EphemeralKeys(KeyPair(d, k)).kem = KeyPair(d, k)
  BY DEF EphemeralKeys
<1> QED
  BY <1>1, <1>2 DEF Uses

(* A step of d that draws a new pair and is left with it.                  *)
LEMMA DrawKeepsDone ==
  ASSUME IInv, NEW d \in Device, UNCHANGED <<signed, done>>,
         drawn' = [drawn EXCEPT ![d] = @ + 1], drawn[d] < MaxDrawn[d],
         NEW new, half' = [half EXCEPT ![d] = new],
         new.state \in {"sent", "answered"}, new.ephemeral = KeyPair(d, drawn[d] + 1)
  PROVE  /\ DoneInv' /\ \E n \in 1..drawn'[d] : HalfUses(d, n)'
         /\ drawn' \in [Device -> Nat] /\ \A x \in Device : drawn'[x] <= MaxDrawn[x]
<1>1. drawn \in [Device -> Nat] /\ DOMAIN half = Device
  BY DEF IInv, Shapes
<1>2. /\ drawn' \in [Device -> Nat] /\ \A x \in Device : drawn[x] <= drawn'[x]
      /\ half'[d] = new
  BY <1>1
<1>3. ASSUME NEW x \in Device, NEW n \in 1..drawn[x], HalfUses(x, n)' PROVE HalfUses(x, n)
  <2>1. CASE x = d
    <3>1. KeyPair(d, n) = KeyPair(d, drawn[d] + 1)
      BY <1>2, <1>3, <2>1 DEF HalfUses
    <3>2. n = drawn[d] + 1
      BY <3>1, PairsDiffer
    <3> QED BY <1>1, <2>1, <3>2
  <2>2. CASE x # d
    BY <1>1, <1>3, <2>2 DEF HalfUses
  <2> QED BY <2>1, <2>2
<1>4. \E n \in 1..drawn'[d] : HalfUses(d, n)'
  <2>1. drawn[d] + 1 \in 1..drawn'[d]
    BY <1>1
  <2> QED BY <1>2, <2>1 DEF HalfUses
<1>5. ASSUME NEW x \in Device PROVE drawn'[x] <= MaxDrawn[x]
  <2>1. drawn[x] <= MaxDrawn[x] /\ MaxDrawn[d] \in Nat
    BY MeetingAssumption DEF IInv, Shapes
  <2> QED BY <1>1, <2>1
<1> QED
  BY <1>2, <1>3, <1>4, <1>5, DoneStays

LEMMA BeginKeepsIInv ==
  ASSUME IInv, NEW d \in Device, NEW container, Begin(d, container)
  PROVE  IInv'
<1> USE DEF IInv
<1> DEFINE pair == KeyPair(d, drawn[d] + 1)
           new == [state |-> "sent", ephemeral |-> pair]
           sent == [EPHEMERAL_KEYS |-> EphemeralKeys(pair), DEVICE_CERTIFICATE |-> container]
<1>1. drawn \in [Device -> Nat] /\ DOMAIN half = Device
  BY DEF Shapes
<1>2. /\ RoleOf[d] = "A" /\ contact[d].bundle # NoBundle /\ drawn[d] < MaxDrawn[d]
      /\ container \in signed
      /\ drawn' = [drawn EXCEPT ![d] = @ + 1]
      /\ half' = [half EXCEPT ![d] = new]
      /\ network' = network \cup {sent}
      /\ UNCHANGED <<epoch, signed, contact, done>>
  BY <1>1 DEF Begin
<1>3. new.state = "sent" /\ new.ephemeral = pair /\ PeerIn(new) = "nobody"
  BY DEF PeerIn
<1>4. /\ DoneInv' /\ \E n \in 1..drawn'[d] : HalfUses(d, n)'
      /\ drawn' \in [Device -> Nat] /\ \A x \in Device : drawn'[x] <= MaxDrawn[x]
  <2> HIDE DEF new
  <2> QED BY <1>2, <1>3, DrawKeepsDone
<1>5. Shapes'
  BY <1>2, <1>4, NothingFinished DEF Shapes
<1>6. ContactInv'
  BY <1>2, NothingFinished DEF ContactInv
<1>7. NetworkInv'
  <2>1. DOMAIN sent = {"EPHEMERAL_KEYS", "DEVICE_CERTIFICATE"} /\ sent.DEVICE_CERTIFICATE = container
    OBVIOUS
  <2> HIDE DEF sent
  <2> QED BY <1>2, <2>1, NothingFinished DEF NetworkInv, RecordTypes
<1>8. HalfInv'
  <2> SUFFICES ASSUME NEW x \in Device PROVE HalfWell(x)'
    BY DEF HalfInv
  <2>1. CASE x = d
    <3>1. half'[x] = new
      BY <1>1, <1>2, <2>1
    <3>2. contact[x].revoked \subseteq Device
      BY DEF Shapes, ContactState
    <3> HIDE DEF new
    <3> QED BY <1>2, <1>3, <1>4, <2>1, <3>1, <3>2, MeetingAssumption DEF HalfWell
  <2>2. CASE x # d
    BY <1>1, <1>2, <2>2, OthersWell DEF HalfInv
  <2> QED BY <2>1, <2>2
<1> QED
  BY <1>2, <1>4, <1>5, <1>6, <1>7, <1>8, NothingFinished

\* The epoch of an accepted certificate is recorded.
LEMMA RecordingKeepsContact ==
  ASSUME IInv, NEW d \in Device, NEW e \in 1..MaxEpoch, e <= epoch[ContactOf[d]],
         contact' = [contact EXCEPT ![d].recorded = e], UNCHANGED <<epoch, signed>>
  PROVE  /\ contact' \in [Device -> ContactState] /\ ContactInv'
         /\ \A x \in Device : /\ contact'[x].revoked = contact[x].revoked
                              /\ contact'[x].bundle = contact[x].bundle
BY DEF IInv, Shapes, ContactState, ContactInv, Withdrawn

LEMMA AnswerKeepsIInv ==
  ASSUME IInv, NEW d \in Device, NEW m \in network, NEW records \in Arrivals(m), NEW container,
         Answer(d, records, container)
  PROVE  IInv'
<1> USE DEF IInv
<1> DEFINE own == KeyPair(d, drawn[d] + 1)
           keys == records.EPHEMERAL_KEYS
           certificate == records.DEVICE_CERTIFICATE.c
           ct == Encapsulations(keys, certificate.kem, own)
           new == [state |-> "answered", ephemeral |-> own, keys |-> keys,
                   certificate |-> certificate, ct |-> ct]
           sent == [EPHEMERAL_KEYS |-> EphemeralKeys(own), DEVICE_CERTIFICATE |-> container,
                    ENCAPSULATIONS |-> ct]
<1>1. drawn \in [Device -> Nat] /\ DOMAIN half = Device /\ contact \in [Device -> ContactState]
  BY DEF Shapes
<1>2. /\ RoleOf[d] = "B" /\ contact[d].bundle # NoBundle /\ drawn[d] < MaxDrawn[d]
      /\ "DEVICE_CERTIFICATE" \in DOMAIN records
      /\ Refusal(d, records.DEVICE_CERTIFICATE) = {}
      /\ container \in signed
      /\ drawn' = [drawn EXCEPT ![d] = @ + 1]
      /\ half' = [half EXCEPT ![d] = new]
      /\ contact' = [contact EXCEPT ![d].recorded = certificate.epoch]
      /\ network' = network \cup {sent}
      /\ UNCHANGED <<epoch, signed, done>>
  BY DEF Answer, Has
<1>3. PICK p \in Device, e \in 1..MaxEpoch :
        /\ IdentityOf[p] = ContactOf[d] /\ records.DEVICE_CERTIFICATE = CertificateFor(p, e)
        /\ CertificateFor(p, e) \in signed
        /\ e <= epoch[ContactOf[d]] /\ p \notin contact[d].revoked
  BY <1>2, WhatArrives, NotRefused
<1>4. certificate = CertificateOf(p, e) /\ certificate.epoch = e /\ certificate.dev = p
  BY <1>3, CertificateFields DEF CertificateFor, SignCertificate, SignWithLabel
<1>5. /\ new.state = "answered" /\ new.ephemeral = own /\ new.certificate = certificate
      /\ PeerIn(new) = p
  BY <1>4 DEF PeerIn
<1>6. /\ DoneInv' /\ \E n \in 1..drawn'[d] : HalfUses(d, n)'
      /\ drawn' \in [Device -> Nat] /\ \A x \in Device : drawn'[x] <= MaxDrawn[x]
  <2> HIDE DEF new
  <2> QED BY <1>2, <1>5, DrawKeepsDone
<1>7. /\ contact' \in [Device -> ContactState] /\ ContactInv'
      /\ \A x \in Device : /\ contact'[x].revoked = contact[x].revoked
                           /\ contact'[x].bundle = contact[x].bundle
  BY <1>2, <1>3, <1>4, RecordingKeepsContact
<1>8. Shapes'
  BY <1>2, <1>6, <1>7, NothingFinished DEF Shapes
<1>9. NetworkInv'
  <2>1. /\ DOMAIN sent = {"EPHEMERAL_KEYS", "DEVICE_CERTIFICATE", "ENCAPSULATIONS"}
        /\ sent.DEVICE_CERTIFICATE = container
    OBVIOUS
  <2> HIDE DEF sent
  <2> QED BY <1>2, <2>1, NothingFinished DEF NetworkInv, RecordTypes
<1>10. HalfInv'
  <2> SUFFICES ASSUME NEW x \in Device PROVE HalfWell(x)'
    BY DEF HalfInv
  <2>1. CASE x = d
    <3>1. half'[x] = new
      BY <1>1, <1>2, <2>1
    <3>2. CertificateFrom(d, certificate)'
      BY <1>2, <1>3, <1>4 DEF CertificateFrom
    <3> HIDE DEF new, certificate
    <3> QED BY <1>2, <1>3, <1>5, <1>6, <1>7, <2>1, <3>1, <3>2 DEF HalfWell
  <2>2. CASE x # d
    BY <1>1, <1>2, <2>2, OthersWell DEF HalfInv
  <2> QED BY <2>1, <2>2
<1> QED
  BY <1>2, <1>6, <1>7, <1>8, <1>9, <1>10, NothingFinished

LEMMA DeriveKeepsIInv ==
  ASSUME IInv, NEW d \in Device, NEW m \in network, NEW records \in Arrivals(m),
         Derive(d, records)
  PROVE  IInv'
<1> USE DEF IInv
<1> DEFINE keys == records.EPHEMERAL_KEYS
           certificate == records.DEVICE_CERTIFICATE.c
           own == half[d].ephemeral
           ct == Encapsulations(keys, certificate.kem, own)
           secrets == SecretsOfA(d, own, certificate, keys, ct, records.ENCAPSULATIONS)
           root == RootKey(secrets, TranscriptSide(Own(d), EphemeralKeys(own), ct),
                           TranscriptSide(certificate, keys, records.ENCAPSULATIONS))
           new == [state |-> "derived", peer |-> certificate.dev, root |-> root]
           sent == [ENCAPSULATIONS |-> ct, CONFIRMATION |-> Confirmation(root, "A")]
<1>1. CASE Drop(d)
  BY <1>1, DropKeepsIInv DEF Derive
<1>2. CASE ~Drop(d)
  <2>1. /\ half[d].state = "sent" /\ "DEVICE_CERTIFICATE" \in DOMAIN records
        /\ Refusal(d, records.DEVICE_CERTIFICATE) = {}
        /\ half' = [half EXCEPT ![d] = new]
        /\ contact' = [contact EXCEPT ![d].recorded = certificate.epoch]
        /\ network' = network \cup {sent}
        /\ UNCHANGED <<epoch, signed, drawn, done>>
    BY <1>2 DEF Derive, Has
  <2>2. /\ HalfWell(d) /\ DOMAIN half = Device /\ contact \in [Device -> ContactState]
        /\ drawn \in [Device -> Nat]
    BY DEF HalfInv, Shapes
  <2>3. contact[d].bundle # NoBundle /\ RoleOf[d] = "A"
    BY <2>1, <2>2 DEF HalfWell
  <2>4. PICK p \in Device, e \in 1..MaxEpoch :
          /\ IdentityOf[p] = ContactOf[d] /\ records.DEVICE_CERTIFICATE = CertificateFor(p, e)
          /\ CertificateFor(p, e) \in signed
          /\ e <= epoch[ContactOf[d]] /\ p \notin contact[d].revoked
    BY <2>1, <2>3, WhatArrives, NotRefused
  <2>5. /\ certificate.epoch = e /\ certificate.dev = p
        /\ certificate.id = IdentityId(Root(ContactOf[d]))
        /\ certificate.dh = StaticPair(p) /\ certificate.kem = StaticPair(p)
    BY <2>4, CertificateFields
  <2>6. PICK n \in 1..drawn[d] : own = KeyPair(d, n)
    BY <2>1, <2>2 DEF HalfWell, HalfUses
  <2>7. Uses(d, root, n)
    BY <2>3, <2>6 DEF Uses, OnlyFor, OwnSide, RootKey, TranscriptSide, SecretsOfA, Decapsulated
  <2>8. Transcript(d, p, root)
    <3>1. OwnSide(d, root).device_signing_pub = d
      BY <2>3 DEF OwnSide, RootKey, TranscriptSide, Own, CertificateOf, DeviceCertificate
    <3>2. Certified(p)
      BY <2>4 DEF Certified, CertificateFor
    <3>3. PeerCertified(d, p, TranscriptSide(certificate, keys, records.ENCAPSULATIONS))
      <4> HIDE DEF certificate, keys
      <4> QED BY <2>4, <2>5, <3>2 DEF PeerCertified, TranscriptSide
    <3> QED
      BY <2>3, <3>1, <3>3 DEF Transcript, PeerSide, RootKey
  <2>9. new.state = "derived" /\ new.peer = p /\ new.root = root /\ PeerIn(new) = p
    BY <2>5 DEF PeerIn
  <2> HIDE DEF root, new, certificate
  <2>10. /\ contact' \in [Device -> ContactState] /\ ContactInv'
         /\ \A x \in Device : /\ contact'[x].revoked = contact[x].revoked
                              /\ contact'[x].bundle = contact[x].bundle
    BY <2>1, <2>4, <2>5, RecordingKeepsContact
  <2>11. Shapes'
    BY <2>1, <2>10, NothingFinished DEF Shapes
  <2>12. half'[d] = new
    BY <2>1, <2>2
  <2>13. DoneInv'
    <3>1. ASSUME NEW x \in Device, NEW k \in 1..drawn[x], HalfUses(x, k)' PROVE HalfUses(x, k)
      <4>1. CASE x = d
        <5>1. Uses(d, root, k)
          BY <2>9, <2>12, <3>1, <4>1 DEF HalfUses
        <5>2. k = n
          BY <2>7, <5>1, PairsDiffer
        <5> QED BY <2>1, <2>6, <4>1, <5>2 DEF HalfUses
      <4>2. CASE x # d
        BY <2>1, <2>2, <3>1, <4>2 DEF HalfUses
      <4> QED BY <4>1, <4>2
    <3> QED
      BY <2>1, <2>2, <3>1, DoneStays
  <2>14. NetworkInv'
    <3>1. /\ DOMAIN sent = {"ENCAPSULATIONS", "CONFIRMATION"}
          /\ sent.CONFIRMATION = Confirmation(root, "A")
      OBVIOUS
    <3>2. IsConfirmation(sent.CONFIRMATION) /\ SentByFinished(sent.CONFIRMATION)
      BY <3>1 DEF IsConfirmation, SentByFinished, Confirmation
    <3> HIDE DEF sent
    <3> QED BY <2>1, <3>1, <3>2, NothingFinished DEF NetworkInv, RecordTypes
  <2>15. HalfInv'
    <3> SUFFICES ASSUME NEW x \in Device PROVE HalfWell(x)'
      BY DEF HalfInv
    <3>1. CASE x = d
      <4>1. \E k \in 1..drawn'[d] : HalfUses(d, k)'
        BY <2>1, <2>7, <2>9, <2>12 DEF HalfUses, Uses, OwnSide
      <4>2. Transcript(d, half[d].peer, half[d].root)'
        BY <2>1, <2>8, <2>9, <2>12, StatementsStay DEF Transcript, OwnSide, PeerSide
      <4> QED
        BY <2>3, <2>4, <2>9, <2>10, <2>12, <3>1, <4>1, <4>2 DEF HalfWell
    <3>2. CASE x # d
      BY <2>1, <2>2, <3>2, OthersWell DEF HalfInv
    <3> QED BY <3>1, <3>2
  <2> QED
    BY <2>1, <2>10, <2>11, <2>13, <2>14, <2>15, NothingFinished
<1> QED
  BY <1>1, <1>2

(* Finishing adds one meeting, to the end.                                 *)
LEMMA FinishAppends ==
  ASSUME IInv, NEW d \in Device, NEW peer, NEW root, Finish(d, peer, root)
  PROVE  /\ half' = [half EXCEPT ![d] = NoHalf] /\ DOMAIN done' = Device
         /\ \A x \in Device : x # d => done'[x] = done[x]
         /\ Len(done[d]) \in Nat /\ DOMAIN done[d] = 1..Len(done[d])
         /\ DOMAIN done'[d] = 1..(Len(done[d]) + 1)
         /\ \A k \in DOMAIN done[d] : done'[d][k] = done[d][k]
         /\ done'[d][Len(done[d]) + 1] = [peer |-> peer, root |-> root]
         /\ Last(done'[d]) = [peer |-> peer, root |-> root]
         /\ \A x \in Device : done'[x] \in Seq(Meetings(x)')
<1> DEFINE m == [peer |-> peer, root |-> root]
           s == done[d]
<1>1. DOMAIN done = Device /\ \A x \in Device : done[x] \in Seq(Meetings(x))
  BY DEF IInv, Shapes
<1>2. done' = [done EXCEPT ![d] = Append(s, m)] /\ half' = [half EXCEPT ![d] = NoHalf]
  BY DEF Finish
<1>3. done'[d] = Append(s, m) /\ \A x \in Device : x # d => done'[x] = done[x]
  BY <1>1, <1>2
<1>4. s \in Seq(Meetings(d))
  BY <1>1
<1>5. Append(s, m) \in Seq(Meetings(d) \cup {m})
  <2>1. s \in Seq(Meetings(d) \cup {m})
    BY <1>4
  <2> QED BY <2>1
<1> HIDE DEF m, s
<1>6. /\ Len(s) \in Nat /\ DOMAIN s = 1..Len(s)
      /\ DOMAIN Append(s, m) = 1..(Len(s) + 1) /\ Len(Append(s, m)) = Len(s) + 1
      /\ \A k \in DOMAIN s : Append(s, m)[k] = s[k]
      /\ Append(s, m)[Len(s) + 1] = m
  BY <1>4
<1>7. Last(Append(s, m)) = m
  BY <1>6 DEF Last
<1>8. Append(s, m) \in Seq({Append(s, m)[k] : k \in DOMAIN Append(s, m)})
  BY <1>5, <1>6
<1>9. \A x \in Device : done'[x] \in Seq(Meetings(x)')
  BY <1>1, <1>3, <1>8 DEF Meetings
<1> QED
  BY <1>1, <1>2, <1>3, <1>6, <1>7, <1>9 DEF s, m

(* A device that finishes with a root key in which its unused pair is.     *)
LEMMA FinishKeeps ==
  ASSUME IInv, NEW d \in Device, NEW peer, NEW root, Finish(d, peer, root),
         UNCHANGED <<epoch, signed, contact, drawn>>,
         NEW n \in 1..drawn[d], HalfUses(d, n), Uses(d, root, n), Transcript(d, peer, root)
  PROVE  /\ Shapes' /\ SignedInv' /\ RevokedLast' /\ ContactInv' /\ HalfInv' /\ DoneInv'
         /\ KeyUsedOnce'
         /\ Meetings(d)' = Meetings(d) \cup {[peer |-> peer, root |-> root]}
         /\ \A x \in Device : Meetings(x) \subseteq Meetings(x)'
         /\ \A x \in Device : x # d => Meetings(x)' = Meetings(x)
<1> USE DEF IInv
<1> DEFINE last == Len(done[d]) + 1
<1>1. /\ half' = [half EXCEPT ![d] = NoHalf] /\ DOMAIN done' = Device
      /\ \A x \in Device : x # d => done'[x] = done[x]
      /\ Len(done[d]) \in Nat /\ DOMAIN done[d] = 1..Len(done[d])
      /\ DOMAIN done'[d] = 1..last
      /\ \A k \in DOMAIN done[d] : done'[d][k] = done[d][k]
      /\ done'[d][last] = [peer |-> peer, root |-> root]
      /\ \A x \in Device : done'[x] \in Seq(Meetings(x)')
  BY FinishAppends
<1>2. \A k \in DOMAIN done'[d] : k \in DOMAIN done[d] \/ k = last
  BY <1>1
<1>3. DOMAIN done[d] \subseteq DOMAIN done'[d] /\ last \in DOMAIN done'[d]
  BY <1>1
<1> HIDE DEF last
<1>4. NoHalf.state = "none" /\ PeerIn(NoHalf) = "nobody"
  BY DEF NoHalf, PeerIn
<1>5. Shapes'
  BY <1>1 DEF Shapes
<1>6. SignedInv' /\ RevokedLast' /\ ContactInv'
  BY DEF SignedInv, RevokedLast, ContactInv, Withdrawn
<1>7. HalfInv'
  <2> SUFFICES ASSUME NEW x \in Device PROVE HalfWell(x)'
    BY DEF HalfInv
  <2>1. CASE x = d
    BY <1>1, <1>4, <2>1, MeetingAssumption DEF Shapes, ContactState, HalfWell
  <2>2. CASE x # d
    BY <1>1, <2>2, OthersWell DEF HalfInv, Shapes
  <2> QED BY <2>1, <2>2
<1>8. Meetings(d)' = Meetings(d) \cup {[peer |-> peer, root |-> root]}
  BY <1>1, <1>2, <1>3 DEF Meetings
<1>9. \A x \in Device : x # d => Meetings(x)' = Meetings(x)
  BY <1>1 DEF Meetings
<1>10. \A x, k : HalfUses(x, k)' => x \notin Device \/ (x # d /\ HalfUses(x, k))
  BY <1>1, <1>4 DEF HalfUses, Shapes
<1>11. \A x, p, r : Transcript(x, p, r) => Transcript(x, p, r)'
  BY StatementsStay DEF Transcript
<1>12. DoneInv'
  <2> SUFFICES ASSUME NEW x \in Device, NEW k \in DOMAIN done'[x]
               PROVE  /\ Transcript(x, done[x][k].peer, done[x][k].root)'
                      /\ \E i \in 1..drawn'[x] : Uses(x, done'[x][k].root, i) /\ ~HalfUses(x, i)'
    BY DEF DoneInv, Uses, OwnSide
  <2>1. CASE k \in DOMAIN done[x] /\ done'[x][k] = done[x][k]
    <3>1. /\ Transcript(x, done[x][k].peer, done[x][k].root)
          /\ \E i \in 1..drawn[x] : Uses(x, done[x][k].root, i) /\ ~HalfUses(x, i)
      BY <2>1 DEF DoneInv
    <3> QED
      BY <1>10, <2>1, <3>1, StatementsStay DEF Transcript, OwnSide, PeerSide
  <2>2. CASE x = d /\ done'[x][k] = [peer |-> peer, root |-> root]
    <3>1. Transcript(x, done[x][k].peer, done[x][k].root)'
      BY <2>2, StatementsStay DEF Transcript, OwnSide, PeerSide
    <3> QED
      BY <1>10, <2>2, <3>1
  <2> QED BY <1>1, <1>2, <2>1, <2>2
<1>13. KeyUsedOnce'
  <2> SUFFICES ASSUME NEW x \in Device, NEW k \in DOMAIN done'[x], NEW l \in DOMAIN done'[x],
                      done'[x][k].root = done'[x][l].root
               PROVE  k = l
    BY DEF KeyUsedOnce
  <2>1. CASE x # d
    BY <1>1, <2>1 DEF KeyUsedOnce
  <2>2. CASE x = d
    <3>1. \A i \in DOMAIN done[d] : done[d][i].root # root
      BY PairsDiffer DEF DoneInv
    <3> QED
      BY <1>1, <1>2, <2>2, <3>1 DEF KeyUsedOnce
  <2> QED BY <2>1, <2>2
<1> QED
  BY <1>5, <1>6, <1>7, <1>8, <1>9, <1>12, <1>13

\* A confirmation that is the right one is the one that was sent.
LEMMA ConfirmationArrives ==
  ASSUME IInv, NEW m \in network, NEW records \in Arrivals(m), NEW root, NEW role \in {"A", "B"},
         "CONFIRMATION" \in DOMAIN records, records.CONFIRMATION = Confirmation(root, role)
  PROVE  "CONFIRMATION" \in DOMAIN m /\ m.CONFIRMATION = Confirmation(root, role)
<1>1. Confirmation(root, role).label # "damaged"
  BY DEF Confirmation
<1> QED
  BY <1>1, WhatArrives

LEMMA ConcludeKeepsIInv ==
  ASSUME IInv, NEW d \in Device, NEW m \in network, NEW records \in Arrivals(m),
         Conclude(d, records)
  PROVE  IInv'
<1> USE DEF IInv
<1> DEFINE h == half[d]
           secrets == SecretsOfB(d, h.ephemeral, h.certificate, h.keys, records.ENCAPSULATIONS, h.ct)
           root == RootKey(secrets, TranscriptSide(h.certificate, h.keys, records.ENCAPSULATIONS),
                           TranscriptSide(Own(d), EphemeralKeys(h.ephemeral), h.ct))
           peer == h.certificate.dev
           sent == [CONFIRMATION |-> Confirmation(root, "B")]
<1>1. CASE Drop(d)
  BY <1>1, DropKeepsIInv DEF Conclude
<1>2. CASE ~Drop(d)
  <2>1. /\ h.state = "answered" /\ "CONFIRMATION" \in DOMAIN records
        /\ records.CONFIRMATION = Confirmation(root, "A")
        /\ Finish(d, peer, root)
        /\ network' = network \cup {sent}
        /\ UNCHANGED <<epoch, signed, contact, drawn>>
    BY <1>2 DEF Conclude, Has
  <2>2. HalfWell(d)
    BY DEF HalfInv
  <2>3. RoleOf[d] = "B"
    BY <2>1, <2>2 DEF HalfWell
  <2>4. PICK p \in Device, e \in 1..MaxEpoch :
          /\ IdentityOf[p] = ContactOf[d] /\ h.certificate = CertificateOf(p, e)
          /\ CertificateFor(p, e) \in signed
    BY <2>1, <2>2 DEF HalfWell, CertificateFrom
  <2>5. PICK n \in 1..drawn[d] : HalfUses(d, n) /\ h.ephemeral = KeyPair(d, n)
    BY <2>1, <2>2 DEF HalfWell, HalfUses
  <2>6. Uses(d, root, n)
    BY <2>3, <2>5 DEF Uses, OnlyFor, OwnSide, RootKey, TranscriptSide, SecretsOfB, Decapsulated
  <2>7. /\ h.certificate.dev = p /\ h.certificate.id = IdentityId(Root(ContactOf[d]))
        /\ h.certificate.dh = StaticPair(p) /\ h.certificate.kem = StaticPair(p)
    BY <2>4 DEF CertificateOf, DeviceCertificate
  <2>8. root.A.device_signing_pub = p /\ root.B.device_signing_pub = d
    BY <2>7 DEF RootKey, TranscriptSide, Own, CertificateOf, DeviceCertificate
  <2>9. Transcript(d, p, root)
    <3>1. Certified(p)
      BY <2>4 DEF Certified, CertificateFor
    <3>2. PeerCertified(d, p, TranscriptSide(h.certificate, h.keys, records.ENCAPSULATIONS))
      <4> HIDE DEF h
      <4> QED BY <2>4, <2>7, <3>1 DEF PeerCertified, TranscriptSide
    <3> QED
      BY <2>3, <2>8, <3>2 DEF Transcript, OwnSide, PeerSide, RootKey
  <2> HIDE DEF root, peer
  <2>10. peer = p
    BY <2>7 DEF peer
  <2>11. /\ Shapes' /\ SignedInv' /\ RevokedLast' /\ ContactInv' /\ HalfInv' /\ DoneInv'
         /\ KeyUsedOnce'
         /\ Meetings(d)' = Meetings(d) \cup {[peer |-> p, root |-> root]}
         /\ \A x \in Device : Meetings(x) \subseteq Meetings(x)'
         /\ \A x \in Device : x # d => Meetings(x)' = Meetings(x)
    BY <2>1, <2>5, <2>6, <2>9, <2>10, FinishKeeps
  <2>12. NetworkInv'
    <3>1. DOMAIN sent = {"CONFIRMATION"} /\ sent.CONFIRMATION = Confirmation(root, "B")
      OBVIOUS
    <3>2. IsConfirmation(sent.CONFIRMATION)
      BY <3>1 DEF IsConfirmation, Confirmation
    <3>3. \A c : SentByFinished(c) => SentByFinished(c)'
      BY <2>11 DEF SentByFinished
    <3>4. \A c : c = Confirmation(root, "B") => SentByFinished(c)'
      BY <2>3, <2>8, <2>11 DEF SentByFinished, Confirmation
    <3> HIDE DEF sent
    <3> QED BY <2>1, <3>1, <3>2, <3>3, <3>4 DEF NetworkInv, RecordTypes
  <2>13. FinishedAgree'
    <3>1. "CONFIRMATION" \in DOMAIN m /\ m.CONFIRMATION = Confirmation(root, "A")
      BY <2>1, ConfirmationArrives
    <3> SUFFICES ASSUME NEW x \in Device, NEW k \in Meetings(x)'
                 PROVE  IF RoleOf[x] = "A"
                        THEN [peer |-> x, root |-> k.root] \in Meetings(k.peer)'
                        ELSE \E s \in network' : "CONFIRMATION" \in DOMAIN s
                                                  /\ s.CONFIRMATION = Confirmation(k.root, "A")
      BY DEF FinishedAgree
    <3>2. CASE k \in Meetings(x) /\ RoleOf[x] = "A"
      <4>1. [peer |-> x, root |-> k.root] \in Meetings(k.peer) /\ k.peer \in Device
        BY <3>2 DEF FinishedAgree, DoneInv, Transcript, PeerCertified, Meetings
      <4> QED BY <2>11, <3>2, <4>1
    <3>3. CASE k \in Meetings(x) /\ RoleOf[x] # "A"
      BY <2>1, <3>3 DEF FinishedAgree
    <3>4. CASE x = d /\ k = [peer |-> p, root |-> root]
      BY <2>1, <2>3, <3>1, <3>4
    <3> QED
      BY <2>11, <3>2, <3>3, <3>4
  <2> QED
    BY <2>11, <2>12, <2>13
<1> QED
  BY <1>1, <1>2

LEMMA AcceptKeepsIInv ==
  ASSUME IInv, NEW d \in Device, NEW m \in network, NEW records \in Arrivals(m),
         Accept(d, records)
  PROVE  IInv'
<1> USE DEF IInv
<1> DEFINE root == half[d].root
           peer == half[d].peer
<1>1. CASE Drop(d)
  BY <1>1, DropKeepsIInv DEF Accept
<1>2. CASE ~Drop(d)
  <2>1. /\ half[d].state = "derived" /\ "CONFIRMATION" \in DOMAIN records
        /\ records.CONFIRMATION = Confirmation(root, "B")
        /\ Finish(d, peer, root)
        /\ UNCHANGED <<epoch, signed, contact, drawn, network>>
    BY <1>2 DEF Accept, Has
  <2>2. RoleOf[d] = "A" /\ Transcript(d, peer, root) /\ \E n \in 1..drawn[d] : HalfUses(d, n)
    BY <2>1 DEF HalfInv, HalfWell
  <2>3. PICK n \in 1..drawn[d] : HalfUses(d, n) /\ Uses(d, root, n)
    BY <2>1, <2>2 DEF HalfUses
  <2>4. /\ root.A.device_signing_pub = d /\ root.B.device_signing_pub = peer
        /\ peer \in Device
    BY <2>2 DEF Transcript, OwnSide, PeerSide, PeerCertified
  <2>5. [peer |-> d, root |-> root] \in Meetings(peer)
    <3>1. "CONFIRMATION" \in DOMAIN m /\ m.CONFIRMATION = Confirmation(root, "B")
      BY <2>1, ConfirmationArrives
    <3>2. SentByFinished(Confirmation(root, "B"))
      BY <3>1 DEF NetworkInv
    <3> QED
      BY <2>4, <3>2 DEF SentByFinished, Confirmation
  <2> HIDE DEF root, peer
  <2>6. /\ Shapes' /\ SignedInv' /\ RevokedLast' /\ ContactInv' /\ HalfInv' /\ DoneInv'
        /\ KeyUsedOnce'
        /\ Meetings(d)' = Meetings(d) \cup {[peer |-> peer, root |-> root]}
        /\ \A x \in Device : Meetings(x) \subseteq Meetings(x)'
        /\ \A x \in Device : x # d => Meetings(x)' = Meetings(x)
    BY <2>1, <2>2, <2>3, FinishKeeps
  <2>7. NetworkInv'
    <3>1. \A c : SentByFinished(c) => SentByFinished(c)'
      BY <2>6 DEF SentByFinished
    <3> QED BY <2>1, <3>1 DEF NetworkInv
  <2>8. FinishedAgree'
    <3> SUFFICES ASSUME NEW x \in Device, NEW k \in Meetings(x)'
                 PROVE  IF RoleOf[x] = "A"
                        THEN [peer |-> x, root |-> k.root] \in Meetings(k.peer)'
                        ELSE \E s \in network' : "CONFIRMATION" \in DOMAIN s
                                                  /\ s.CONFIRMATION = Confirmation(k.root, "A")
      BY DEF FinishedAgree
    <3>1. CASE k \in Meetings(x) /\ RoleOf[x] = "A"
      <4>1. [peer |-> x, root |-> k.root] \in Meetings(k.peer) /\ k.peer \in Device
        BY <3>1 DEF FinishedAgree, DoneInv, Transcript, PeerCertified, Meetings
      <4> QED BY <2>6, <3>1, <4>1
    <3>2. CASE k \in Meetings(x) /\ RoleOf[x] # "A"
      BY <2>1, <3>2 DEF FinishedAgree
    <3>3. CASE x = d /\ k = [peer |-> peer, root |-> root]
      BY <2>2, <2>4, <2>5, <2>6, <3>3
    <3> QED
      BY <2>6, <3>1, <3>2, <3>3
  <2> QED
    BY <2>6, <2>7, <2>8
<1> QED
  BY <1>1, <1>2

-----------------------------------------------------------------------------
LEMMA NextIInv == IInv /\ [Next]_vars => IInv'
<1> SUFFICES ASSUME IInv, [Next]_vars PROVE IInv'
  OBVIOUS
<1>1. CASE UNCHANGED vars
  <2>1. UNCHANGED <<epoch, signed, contact, half, drawn, network, done>>
    BY <1>1 DEF vars
  <2>2. Shapes' /\ ContactInv' /\ NetworkInv'
    BY <2>1, NothingFinished DEF IInv, Shapes, ContactInv, NetworkInv
  <2>3. HalfInv'
    BY <2>1, OthersWell DEF IInv, HalfInv
  <2>4. DoneInv'
    BY <2>1, DoneStays DEF IInv, Shapes, HalfUses
  <2> QED BY <2>1, <2>2, <2>3, <2>4, NothingFinished DEF IInv
<1>2. ASSUME NEW d \in Device, NEW e \in 1..MaxEpoch, Certify(d, e) PROVE IInv'
  BY <1>2, CertifyKeepsIInv
<1>3. ASSUME NEW d \in Device, Revoke(d) PROVE IInv'
  BY <1>3, RevokeKeepsIInv
<1>4. ASSUME NEW d \in Device, NEW i \in Identities, TakeBundle(d, Bundle(i)) PROVE IInv'
  BY <1>4, TakeBundleKeepsIInv
<1>5. ASSUME NEW s \in Statements PROVE Stated(s)
  BY DEF Statements, Stated
<1>6. ASSUME NEW d \in Device, NEW s \in Statements, LearnCertificate(d, s) PROVE IInv'
  BY <1>5, <1>6, LearnCertificateKeepsIInv
<1>7. ASSUME NEW d \in Device, NEW s \in Statements, LearnRevocation(d, s) PROVE IInv'
  BY <1>5, <1>7, LearnRevocationKeepsIInv
<1>8. ASSUME NEW d \in Device, NEW c \in signed, Begin(d, c) PROVE IInv'
  BY <1>8, BeginKeepsIInv
<1>9. ASSUME NEW d \in Device, NEW m \in network, NEW records \in Arrivals(m),
             \/ \E c \in signed : Answer(d, records, c)
             \/ Derive(d, records) \/ Conclude(d, records) \/ Accept(d, records)
      PROVE  IInv'
  BY <1>9, AnswerKeepsIInv, DeriveKeepsIInv, ConcludeKeepsIInv, AcceptKeepsIInv
<1> QED
  BY <1>1, <1>2, <1>3, <1>4, <1>6, <1>7, <1>8, <1>9 DEF Next

LEMMA Invariance == Spec => []IInv
BY InitIInv, NextIInv, PTL DEF Spec

-----------------------------------------------------------------------------
(* The properties. *)

(* Nothing damaged on its way is taken for a device: whoever is met or     *)
(* being met is one, and every variable keeps its shape                    *)
(* (verify_certificate).                                                   *)
THEOREM MeetingTypeCorrect == Spec => []TypeOK
<1>1. IInv => TypeOK
  <2> SUFFICES ASSUME IInv PROVE TypeOK
    OBVIOUS
  <2>1. signed \subseteq {SignCertificate(Root(IdentityOf[d]), CertificateOf(d, e)) :
                            d \in Device, e \in 1..MaxEpoch}
          \cup {SignRevocation(Root(IdentityOf[d]), RevocationOf(d, e)) :
                  d \in Device, e \in 1..MaxEpoch}
    BY DEF IInv, SignedInv, CertificateFor, RevocationFor
  <2> SUFFICES ASSUME NEW d \in Device
               PROVE  /\ contact[d].bundle \in {NoBundle} \cup {Bundle(i) : i \in Identities}
                      /\ contact[d].recorded \in 0..MaxEpoch /\ contact[d].revoked \subseteq Device
                      /\ half[d].state \in {"none", "sent", "answered", "derived"}
                      /\ half[d].state \in {"answered", "derived"} => PeerIn(half[d]) \in Device
                      /\ drawn[d] \in 0..MaxDrawn[d]
                      /\ \A m \in Meetings(d) : m.peer \in Device
    BY <2>1 DEF TypeOK, IInv, Shapes, NetworkInv
  <2>2. HalfWell(d)
    BY DEF IInv, HalfInv
  <2>3. ASSUME half[d].state = "answered" PROVE PeerIn(half[d]) \in Device
    <3>1. PICK p \in Device, e \in 1..MaxEpoch : half[d].certificate = CertificateOf(p, e)
      BY <2>2, <2>3 DEF HalfWell, CertificateFrom
    <3>2. half[d].certificate.dev = p
      BY <3>1 DEF CertificateOf, DeviceCertificate
    <3> QED BY <2>3, <3>2 DEF PeerIn
  <2>4. half[d].state = "derived" => PeerIn(half[d]) \in Device
    BY <2>2 DEF HalfWell, PeerIn, Transcript, PeerCertified
  <2>5. drawn[d] \in 0..MaxDrawn[d]
    BY MeetingAssumption DEF IInv, Shapes
  <2>6. \A m \in Meetings(d) : m.peer \in Device
    BY DEF IInv, DoneInv, Transcript, PeerCertified, Meetings
  <2> QED
    BY <2>2, <2>3, <2>4, <2>5, <2>6 DEF IInv, Shapes, ContactState, HalfWell
<1> QED
  BY <1>1, Invariance, PTL

(* Who finishes does not finish alone, and both have the same root key     *)
(* (the confirmations of the handshake).                                   *)
THEOREM FinishedAlwaysAgree == Spec => []FinishedAgree
BY Invariance, PTL DEF IInv

(* No message, however often it is repeated, leads to a root key a second  *)
(* time (the ephemeral pair is part of the transcript).                    *)
THEOREM EachKeyUsedOnce == Spec => []KeyUsedOnce
BY Invariance, PTL DEF IInv

(* Of a finished handshake one secret came from a pair that nobody has any *)
(* more (KEM to the ephemeral key).                                        *)
THEOREM PastAlwaysClosed == Spec => []PastIsClosed
<1>1. IInv => PastIsClosed
  <2> SUFFICES ASSUME IInv, NEW d \in Device, NEW m \in Meetings(d)
               PROVE  \E s \in DOMAIN m.root.secrets : m.root.secrets[s].from \cap Kept = {}
    BY DEF PastIsClosed
  <2>1. PICK n \in 1..drawn[d] : Uses(d, m.root, n) /\ ~HalfUses(d, n)
    BY DEF IInv, DoneInv, Meetings
  <2>2. OnlyFor(d) \in DOMAIN m.root.secrets /\ m.root.secrets[OnlyFor(d)].from = {KeyPair(d, n)}
    BY <2>1 DEF Uses
  <2>3. KeyPair(d, n) \notin Kept
    <3>1. \A x \in Device : StaticPair(x) # KeyPair(d, n)
      BY DEF StaticPair, KeyPair, IInv, Shapes
    <3>2. ASSUME NEW x \in Device, half[x].state \in {"sent", "answered"},
                 half[x].ephemeral = KeyPair(d, n)
          PROVE  FALSE
      <4>1. PICK k \in 1..drawn[x] : half[x].ephemeral = KeyPair(x, k)
        BY <3>2 DEF IInv, HalfInv, HalfWell, HalfUses
      <4>2. x = d
        BY <3>2, <4>1 DEF KeyPair
      <4> QED BY <2>1, <3>2, <4>2 DEF HalfUses
    <3> QED BY <3>1, <3>2 DEF Kept
  <2> QED
    BY <2>2, <2>3
<1> QED
  BY <1>1, Invariance, PTL

(* What a device holds true of its contact the owner has said              *)
(* (ContactBundle::check, verify_certificate, verify_revocation).          *)
THEOREM AlwaysAsTheOwnerSaid == Spec => []AsTheOwnerSaid
<1>1. IInv => AsTheOwnerSaid
  BY DEF IInv, ContactInv, DoneInv, Meetings, Transcript, PeerCertified, PeerSide, AsTheOwnerSaid
<1> QED
  BY <1>1, Invariance, PTL

\* Whoever else finishes with a root key is the peer it was finished with.
TwoShareARoot ==
  \A d, x \in Device : \A m \in Meetings(d), n \in Meetings(x) :
    m.root = n.root =>
      IF d = x THEN m.peer = n.peer
      ELSE m.peer = x /\ n.peer = d /\ IdentityOf[x] = ContactOf[d] /\ IdentityOf[d] = ContactOf[x]

(* A root key has two owners, and each takes it for shared with the other: *)
(* no third device has it, and nobody takes it for shared with someone     *)
(* else (both certificates and both identities are in the transcript).     *)
THEOREM RootIsSharedByTwo == Spec => []TwoShareARoot
<1>1. IInv => TwoShareARoot
  <2> SUFFICES ASSUME IInv, NEW d \in Device, NEW x \in Device,
                      NEW m \in Meetings(d), NEW n \in Meetings(x), m.root = n.root
               PROVE  IF d = x THEN m.peer = n.peer
                      ELSE /\ m.peer = x /\ n.peer = d
                           /\ IdentityOf[x] = ContactOf[d] /\ IdentityOf[d] = ContactOf[x]
    BY DEF TwoShareARoot
  <2>1. Transcript(d, m.peer, m.root) /\ Transcript(x, n.peer, n.root)
    BY DEF IInv, DoneInv, Meetings
  <2>2. /\ OwnSide(d, m.root).device_signing_pub = d
        /\ PeerSide(d, m.root).device_signing_pub = m.peer /\ IdentityOf[m.peer] = ContactOf[d]
        /\ OwnSide(x, m.root).device_signing_pub = x
        /\ PeerSide(x, m.root).device_signing_pub = n.peer /\ IdentityOf[n.peer] = ContactOf[x]
    BY <2>1 DEF Transcript, PeerCertified
  <2>3. RoleOf[d] \in {"A", "B"} /\ RoleOf[x] \in {"A", "B"}
    BY MeetingAssumption
  <2>4. CASE RoleOf[d] = RoleOf[x]
    BY <2>2, <2>4 DEF OwnSide, PeerSide
  <2>5. CASE RoleOf[d] # RoleOf[x]
    <3>1. m.peer = x /\ n.peer = d /\ d # x
      BY <2>2, <2>3, <2>5 DEF OwnSide, PeerSide
    <3> QED BY <2>2, <3>1
  <2> QED
    BY <2>4, <2>5
<1> QED
  BY <1>1, Invariance, PTL

(* A certificate that is not refused is not one of a device whose          *)
(* revocation is of an epoch already recorded, nor of one up to that of    *)
(* the certificate: no device is certified from its revocation on.         *)
LEMMA NotRefusedNotRevoked ==
  ASSUME IInv, NEW d \in Device, contact[d].bundle # NoBundle,
         NEW s, Stated(s), Refusal(d, s) = {}
  PROVE  /\ ~KnownRevoked(d, s.c.dev)
         /\ \A f \in 1..s.c.epoch : RevocationFor(s.c.dev, f) \notin signed
<1>1. PICK p \in Device, e \in 1..MaxEpoch :
        s = CertificateFor(p, e) /\ s \in signed /\ contact[d].recorded <= e
  BY NotRefused
<1>2. s.c.dev = p /\ s.c.epoch = e
  BY <1>1, CertificateFields
<1>3. contact[d].recorded \in 0..MaxEpoch
  BY DEF IInv, Shapes, ContactState
<1>4. ASSUME NEW f \in 1..e, RevocationFor(p, f) \in signed
      PROVE  FALSE
  <2>1. f \in 1..MaxEpoch
    BY <1>3, MeetingAssumption
  <2>2. e < f
    BY <1>1, <1>4, <2>1 DEF IInv, RevokedLast
  <2> QED BY <1>1, <1>4, <2>2
<1>5. 1..contact[d].recorded \subseteq 1..e
  BY <1>1, <1>3
<1>6. ~KnownRevoked(d, p)
  BY <1>4, <1>5 DEF KnownRevoked, RevocationFor
<1> QED
  BY <1>2, <1>4, <1>6

\* What RevokedStaysOut asks of a step, for one device.
StaysOut(d) ==
  /\ half'[d].state \in {"answered", "derived"} /\ half'[d] # half[d]
       => ~KnownRevoked(d, PeerIn(half'[d])) /\ ~KnownRevoked(d, PeerIn(half[d]))'
  /\ done'[d] # done[d]
       => Last(done'[d]).peer = PeerIn(half[d]) /\ PeerIn(half[d]) \notin contact[d].revoked

\* And of the handshake it leaves the device in, which is part of IInv.
WithNoneRevoked(d) == PeerIn(half'[d]) \notin contact'[d].revoked

(* A handshake taken up on a certificate that is not refused, whose epoch  *)
(* is recorded.                                                            *)
LEMMA TakenUpStaysOut ==
  ASSUME IInv, UNCHANGED <<done, signed>>, NEW x \in Device, contact[x].bundle # NoBundle,
         NEW s, Stated(s), Refusal(x, s) = {},
         contact' = [contact EXCEPT ![x].recorded = s.c.epoch],
         NEW new, half' = [half EXCEPT ![x] = new], PeerIn(new) = s.c.dev
  PROVE  \A d \in Device : StaysOut(d)
<1>1. \A d \in Device : half'[d] = half[d] \/ (d = x /\ half'[d] = new)
  BY DEF IInv, Shapes
<1>2. ~KnownRevoked(x, s.c.dev)
  BY NotRefusedNotRevoked
<1>3. contact'[x].recorded = s.c.epoch
  BY DEF IInv, Shapes, ContactState
<1>4. ~KnownRevoked(x, s.c.dev)'
  <2>1. \A f \in 1..s.c.epoch : RevocationFor(s.c.dev, f) \notin signed
    BY NotRefusedNotRevoked
  <2> QED BY <1>3, <2>1 DEF KnownRevoked, RevocationFor
<1>5. half'[x] = new
  BY DEF IInv, Shapes
<1>6. ~KnownRevoked(x, PeerIn(half'[x])) /\ ~KnownRevoked(x, PeerIn(half[x]))'
  BY <1>2, <1>4, <1>5
<1> QED
  BY <1>1, <1>6 DEF StaysOut

(* Steps that leave a device without a handshake, or as it is, and finish  *)
(* none.                                                                   *)
LEMMA NothingBegun ==
  ASSUME IInv, UNCHANGED done, NEW x \in Device, NEW new, half' = [half EXCEPT ![x] = new],
         new = half[x] \/ new.state \notin {"answered", "derived"}
  PROVE  \A d \in Device : StaysOut(d)
<1>1. \A d \in Device : half'[d] = half[d] \/ half'[d].state \notin {"answered", "derived"}
  BY DEF IInv, Shapes
<1> QED
  BY <1>1 DEF StaysOut

LEMMA AnswerStaysOut ==
  ASSUME IInv, NEW x \in Device, NEW m \in network, NEW records \in Arrivals(m), NEW container,
         Answer(x, records, container)
  PROVE  \A d \in Device : StaysOut(d)
<1>1. /\ contact[x].bundle # NoBundle /\ "DEVICE_CERTIFICATE" \in DOMAIN records
      /\ Refusal(x, records.DEVICE_CERTIFICATE) = {} /\ UNCHANGED done
  BY DEF Answer, Has
<1> DEFINE own == KeyPair(x, drawn[x] + 1)
           certificate == records.DEVICE_CERTIFICATE.c
           new == [state |-> "answered", ephemeral |-> own, keys |-> records.EPHEMERAL_KEYS,
                   certificate |-> certificate,
                   ct |-> Encapsulations(records.EPHEMERAL_KEYS, certificate.kem, own)]
<1>2. /\ half' = [half EXCEPT ![x] = new] /\ new.state = "answered"
      /\ new.certificate = records.DEVICE_CERTIFICATE.c
  BY DEF Answer
<1> HIDE DEF new
<1>3. Stated(records.DEVICE_CERTIFICATE)
  BY <1>1, WhatArrives
<1>4. PeerIn(new) = records.DEVICE_CERTIFICATE.c.dev
  BY <1>2 DEF PeerIn
<1>5. contact' = [contact EXCEPT ![x].recorded = records.DEVICE_CERTIFICATE.c.epoch]
        /\ UNCHANGED signed
  BY DEF Answer
<1> QED
  BY <1>1, <1>2, <1>3, <1>4, <1>5, TakenUpStaysOut

LEMMA DeriveStaysOut ==
  ASSUME IInv, NEW x \in Device, NEW m \in network, NEW records \in Arrivals(m),
         Derive(x, records)
  PROVE  \A d \in Device : StaysOut(d)
<1>1. CASE Drop(x)
  BY <1>1, NothingBegun DEF Drop, NoHalf
<1>2. CASE ~Drop(x)
  <2>1. /\ half[x].state = "sent" /\ "DEVICE_CERTIFICATE" \in DOMAIN records
        /\ Refusal(x, records.DEVICE_CERTIFICATE) = {} /\ UNCHANGED done
    BY <1>2 DEF Derive, Has
  <2> DEFINE new == [state |-> "derived", peer |-> records.DEVICE_CERTIFICATE.c.dev,
                     root |-> half'[x].root]
  <2>2. /\ half' = [half EXCEPT ![x] = new] /\ new.state = "derived"
        /\ new.peer = records.DEVICE_CERTIFICATE.c.dev
    <3>1. PICK root : half' = [half EXCEPT ![x] = [state |-> "derived",
                                 peer |-> records.DEVICE_CERTIFICATE.c.dev, root |-> root]]
      BY <1>2 DEF Derive
    <3>2. DOMAIN half = Device
      BY DEF IInv, Shapes
    <3>3. half'[x].root = root
      BY <3>1, <3>2
    <3> QED BY <3>1, <3>3
  <2> HIDE DEF new
  <2>3. contact[x].bundle # NoBundle
    BY <2>1 DEF IInv, HalfInv, HalfWell
  <2>4. Stated(records.DEVICE_CERTIFICATE)
    BY <2>1, WhatArrives
  <2>5. PeerIn(new) = records.DEVICE_CERTIFICATE.c.dev
    BY <2>2 DEF PeerIn
  <2>6. contact' = [contact EXCEPT ![x].recorded = records.DEVICE_CERTIFICATE.c.epoch]
          /\ UNCHANGED signed
    BY <1>2 DEF Derive
  <2> QED
    BY <2>1, <2>2, <2>3, <2>4, <2>5, <2>6, TakenUpStaysOut
<1> QED
  BY <1>1, <1>2

(* Whom a device finishes with it was in a handshake with, and that was    *)
(* dropped when the other was revoked.                                     *)
LEMMA FinishStaysOut ==
  ASSUME IInv, NEW x \in Device, NEW root, half[x].state \in {"answered", "derived"},
         Finish(x, PeerIn(half[x]), root)
  PROVE  \A d \in Device : StaysOut(d)
<1>1. /\ half' = [half EXCEPT ![x] = NoHalf]
      /\ \A d \in Device : d # x => done'[d] = done[d]
      /\ Last(done'[x]) = [peer |-> PeerIn(half[x]), root |-> root]
  BY FinishAppends
<1>2. \A d \in Device : half'[d] = half[d] \/ half'[d] = NoHalf
  BY <1>1 DEF IInv, Shapes
<1>3. PeerIn(half[x]) \notin contact[x].revoked
  BY DEF IInv, HalfInv, HalfWell
<1>4. NoHalf.state = "none"
  BY DEF NoHalf
<1> QED
  BY <1>1, <1>2, <1>3, <1>4 DEF StaysOut

LEMMA ConcludeStaysOut ==
  ASSUME IInv, NEW x \in Device, NEW records, Conclude(x, records)
  PROVE  \A d \in Device : StaysOut(d)
<1>1. CASE Drop(x)
  BY <1>1, NothingBegun DEF Drop, NoHalf
<1>2. CASE ~Drop(x)
  <2>1. half[x].state = "answered" /\ \E root : Finish(x, half[x].certificate.dev, root)
    BY <1>2 DEF Conclude
  <2>2. PeerIn(half[x]) = half[x].certificate.dev
    BY <2>1 DEF PeerIn
  <2> QED
    BY <2>1, <2>2, FinishStaysOut
<1> QED
  BY <1>1, <1>2

LEMMA AcceptStaysOut ==
  ASSUME IInv, NEW x \in Device, NEW records, Accept(x, records)
  PROVE  \A d \in Device : StaysOut(d)
<1>1. CASE Drop(x)
  BY <1>1, NothingBegun DEF Drop, NoHalf
<1>2. CASE ~Drop(x)
  <2>1. half[x].state = "derived" /\ Finish(x, half[x].peer, half[x].root)
    BY <1>2 DEF Accept
  <2>2. PeerIn(half[x]) = half[x].peer
    BY <2>1 DEF PeerIn
  <2> QED
    BY <2>1, <2>2, FinishStaysOut
<1> QED
  BY <1>1, <1>2

(* No handshake is taken up with a device that is revoked as of an epoch   *)
(* recorded before the step or by it; with a device a revocation of which  *)
(* is held there is none and none is finished, nor is one finished that    *)
(* was not taken up with the same device (accept_epoch, and the caller who *)
(* drops a handshake when a revocation comes).                             *)
THEOREM RevokedAlwaysStaysOut == Spec => RevokedStaysOut
<1>1. ASSUME IInv, Next, NEW d \in Device PROVE StaysOut(d)
  <2>1. CASE UNCHANGED <<half, done>>
    BY <2>1 DEF StaysOut
  <2>2. CASE \/ \E x \in Device, e \in 1..MaxEpoch : Certify(x, e)
             \/ \E x \in Device : Revoke(x)
             \/ \E x \in Device, i \in Identities : TakeBundle(x, Bundle(i))
             \/ \E x \in Device, s \in Statements : LearnCertificate(x, s)
    BY <2>1, <2>2 DEF Certify, Revoke, TakeBundle, LearnCertificate
  <2>3. ASSUME NEW x \in Device, NEW s \in Statements, LearnRevocation(x, s)
        PROVE  StaysOut(d)
    <3>1. half' = [half EXCEPT ![x] = IF PeerIn(half[x]) = s.c.dev THEN NoHalf ELSE half[x]]
            /\ UNCHANGED done
      BY <2>3 DEF LearnRevocation
    <3>2. (IF PeerIn(half[x]) = s.c.dev THEN NoHalf ELSE half[x]) \in {NoHalf, half[x]}
            /\ NoHalf.state = "none"
      BY DEF NoHalf
    <3> QED BY <1>1, <3>1, <3>2, NothingBegun
  <2>4. ASSUME NEW x \in Device, NEW c \in signed, Begin(x, c)
        PROVE  StaysOut(d)
    <3> DEFINE new == [state |-> "sent", ephemeral |-> KeyPair(x, drawn'[x])]
    <3>1. half' = [half EXCEPT ![x] = new] /\ new.state = "sent" /\ UNCHANGED done
      BY <2>4 DEF Begin
    <3> HIDE DEF new
    <3> QED BY <1>1, <3>1, NothingBegun
  <2>5. ASSUME NEW x \in Device, NEW m \in network, NEW records \in Arrivals(m),
               \/ \E c \in signed : Answer(x, records, c)
               \/ Derive(x, records) \/ Conclude(x, records) \/ Accept(x, records)
        PROVE  StaysOut(d)
    BY <1>1, <2>5, AnswerStaysOut, DeriveStaysOut, ConcludeStaysOut, AcceptStaysOut
  <2> QED
    BY <1>1, <2>2, <2>3, <2>4, <2>5 DEF Next
<1>2. ASSUME IInv', NEW d \in Device PROVE WithNoneRevoked(d)
  BY <1>2 DEF IInv, HalfInv, HalfWell, WithNoneRevoked
<1>3. IInv /\ [Next]_vars => [\A d \in Device : StaysOut(d) /\ WithNoneRevoked(d)]_vars
  <2> SUFFICES ASSUME IInv, Next PROVE \A d \in Device : StaysOut(d) /\ WithNoneRevoked(d)
    OBVIOUS
  <2>1. IInv'
    BY NextIInv
  <2> QED BY <1>1, <1>2, <2>1
<1>4. [\A d \in Device : StaysOut(d) /\ WithNoneRevoked(d)]_vars
        => [\A d \in Device :
              /\ half'[d].state \in {"answered", "derived"} /\ half'[d] # half[d]
                   => ~KnownRevoked(d, PeerIn(half'[d])) /\ ~KnownRevoked(d, PeerIn(half[d]))'
              /\ PeerIn(half'[d]) \notin contact'[d].revoked
              /\ done'[d] # done[d]
                   => /\ Last(done'[d]).peer = PeerIn(half[d])
                      /\ PeerIn(half[d]) \notin contact[d].revoked]_vars
  BY DEF StaysOut, WithNoneRevoked
<1> QED
  BY <1>3, <1>4, Invariance, PTL DEF Spec, RevokedStaysOut

-----------------------------------------------------------------------------
(* The device sets a contact follows. *)

\* Certificates in the form SetOf looks for, and none of an epoch to come.
LEMMA InSetMeans ==
  ASSUME SignedInv, NEW x \in Device, NEW e \in 1..MaxEpoch
  PROVE  /\ InSet(x, e) <=> CertificateFor(x, e) \in signed
         /\ InSet(x, e) => e <= epoch[IdentityOf[x]]
<1>1. ASSUME NEW s \in signed, s.c.dev = x, s.c.epoch = e, "kem" \in DOMAIN s.c
      PROVE  s = CertificateFor(x, e) /\ e <= epoch[IdentityOf[x]]
  <2>1. PICK d \in Device, f \in 1..MaxEpoch :
          f <= epoch[IdentityOf[d]] /\ s \in {CertificateFor(d, f), RevocationFor(d, f)}
    BY DEF SignedInv
  <2>2. s = CertificateFor(d, f)
    BY <1>1, <2>1, RevocationFields
  <2> QED BY <1>1, <2>1, <2>2, CertificateFields
<1>2. CertificateFor(x, e).c.dev = x /\ CertificateFor(x, e).c.epoch = e
        /\ "kem" \in DOMAIN CertificateFor(x, e).c
  BY CertificateFields DEF CertificateFor, SignCertificate, SignWithLabel, CertificateOf,
                           DeviceCertificate
<1> QED BY <1>1, <1>2 DEF InSet

\* And revocations in the form Gone looks for.
LEMMA GoneMeans ==
  ASSUME SignedInv, NEW x \in Device
  PROVE  x \in Gone <=> Withdrawn(x)
<1>1. ASSUME NEW s \in signed, s.c.dev = x, "kem" \notin DOMAIN s.c
      PROVE  Withdrawn(x)
  <2>1. PICK d \in Device, f \in 1..MaxEpoch : s \in {CertificateFor(d, f), RevocationFor(d, f)}
    BY DEF SignedInv
  <2>2. "kem" \in DOMAIN CertificateFor(d, f).c
    BY DEF CertificateFor, SignCertificate, SignWithLabel, CertificateOf, DeviceCertificate
  <2>3. s = RevocationFor(x, f)
    BY <1>1, <2>1, <2>2, RevocationFields
  <2> QED BY <2>3 DEF Withdrawn, RevocationFor
<1>2. ASSUME Withdrawn(x) PROVE x \in Gone
  <2>1. PICK e \in 1..MaxEpoch : RevocationFor(x, e) \in signed
    BY <1>2 DEF Withdrawn, RevocationFor
  <2> QED BY <2>1, RevocationFields DEF Gone
<1> QED BY <1>1, <1>2 DEF Gone

\* A list of n things, and one more.
LEMMA Listed ==
  ASSUME NEW n \in Nat, NEW T, NEW s \in [1..n -> T], NEW x \in T
  PROVE  /\ Len(s) = n
         /\ Append(s, x) \in [1..(n + 1) -> T]
         /\ \A k \in 1..n : Append(s, x)[k] = s[k]
         /\ Append(s, x)[n + 1] = x
<1>1. s \in Seq(T)
  BY SeqDef
<1>2. Len(s) = n
  BY <1>1, LenProperties
<1>3. /\ Append(s, x) \in Seq(T) /\ Len(Append(s, x)) = n + 1
      /\ \A k \in 1..n : Append(s, x)[k] = s[k]
      /\ Append(s, x)[n + 1] = x
  BY <1>1, <1>2, AppendProperties
<1>4. Append(s, x) \in [1..(n + 1) -> T]
  BY <1>3, LenProperties
<1> QED BY <1>2, <1>3, <1>4

LEMMA SetsAreLists ==
  ASSUME IInv, NEW i \in Identities
  PROVE  /\ epoch[i] \in 1..MaxEpoch /\ epoch[i] \in Nat
         /\ Sets[i] \in [1..epoch[i] -> SUBSET Device]
         /\ Len(Sets[i]) = epoch[i]
         /\ \A e \in 1..epoch[i] : Sets[i][e] = SetOf(i, e) /\ e \in 1..MaxEpoch
<1>1. epoch[i] \in 1..MaxEpoch /\ epoch[i] \in Nat
  BY MeetingAssumption DEF IInv, Shapes
<1>2. Sets[i] = [e \in 1..epoch[i] |-> SetOf(i, e)] /\ \A e : SetOf(i, e) \in SUBSET Device
  BY DEF Sets, SetOf
<1>3. Sets[i] \in [1..epoch[i] -> SUBSET Device]
  BY <1>2
<1>4. {} \in SUBSET Device
  OBVIOUS
<1>5. Len(Sets[i]) = epoch[i]
  BY <1>1, <1>3, <1>4, Listed
<1>6. \A e \in 1..epoch[i] : Sets[i][e] = SetOf(i, e) /\ e \in 1..MaxEpoch
  BY <1>1, <1>2, MeetingAssumption
<1> QED BY <1>1, <1>3, <1>5, <1>6

LEMMA UpdatedAt ==
  ASSUME NEW D, NEW i \in D, NEW s, NEW t, NEW v,
         s = [j \in D |-> s[j]], t = [j \in D |-> t[j]],
         t[i] = v, \A j \in D : j # i => t[j] = s[j]
  PROVE  t = [s EXCEPT ![i] = v]
OBVIOUS

\* What an owner's new statement in epoch e makes of the sets: who is in new
\* joins the last one, or a new one.
Joined(i, new) == [Sets EXCEPT ![i][Len(Sets[i])] = @ \cup new]
Begun(i, new) == [Sets EXCEPT ![i] = Append(@, new)]

States(i, e, new) ==
  /\ e \in {epoch[i], epoch[i] + 1} /\ epoch' = [epoch EXCEPT ![i] = e]
  /\ \A x \in new : IdentityOf[x] = i
  /\ \A x \in Device, f \in 1..MaxEpoch :
       InSet(x, f)' <=> InSet(x, f) \/ (x \in new /\ f = e)

LEMMA AfterSigning ==
  ASSUME IInv, NEW i \in Identities, NEW e \in 1..MaxEpoch, NEW new \in SUBSET Device,
         States(i, e, new)
  PROVE  /\ e = epoch[i] => Sets' = Joined(i, new)
         /\ e # epoch[i] => Sets' = Begun(i, new)
<1> USE DEF States
<1>1. PICK n \in Nat : n = epoch[i]
  BY SetsAreLists
<1>2. /\ n \in 1..MaxEpoch /\ Sets[i] \in [1..n -> SUBSET Device] /\ Len(Sets[i]) = n
      /\ \A f \in 1..n : Sets[i][f] = SetOf(i, f) /\ f \in 1..MaxEpoch
  BY <1>1, SetsAreLists
<1>3. /\ Sets = [j \in Identities |-> Sets[j]] /\ Sets' = [j \in Identities |-> Sets'[j]]
      /\ epoch'[i] = e
  BY DEF Sets, IInv, Shapes
<1>4. Sets'[i] = [f \in 1..e |-> SetOf(i, f)']
  BY <1>3 DEF Sets
<1>5. \A j \in Identities, f \in 1..MaxEpoch :
        SetOf(j, f)' = IF j = i /\ f = e THEN SetOf(i, e) \cup new ELSE SetOf(j, f)
  BY DEF SetOf
<1>6. \A j \in Identities : j # i => Sets'[j] = Sets[j]
  <2> SUFFICES ASSUME NEW j \in Identities, j # i PROVE Sets'[j] = Sets[j]
    OBVIOUS
  <2>1. epoch'[j] = epoch[j] /\ \A f \in 1..epoch[j] : f \in 1..MaxEpoch
    BY SetsAreLists DEF IInv, Shapes
  <2>2. \A f \in 1..epoch[j] : SetOf(j, f)' = SetOf(j, f)
    BY <1>5, <2>1
  <2> QED BY <2>1, <2>2 DEF Sets
<1>7. ASSUME e = n PROVE Sets' = Joined(i, new)
  <2>1. SetOf(i, n)' = Sets[i][n] \cup new
    BY <1>2, <1>5, <1>7
  <2>2. \A f \in 1..n : f # n => SetOf(i, f)' = Sets[i][f]
    BY <1>2, <1>5, <1>7
  <2>3. Sets'[i] = [Sets[i] EXCEPT ![n] = Sets[i][n] \cup new]
    BY <1>2, <1>4, <1>7, <2>1, <2>2
  <2>4. Sets' = [Sets EXCEPT ![i] = [Sets[i] EXCEPT ![n] = Sets[i][n] \cup new]]
    BY <1>3, <1>6, <2>3, UpdatedAt
  <2> QED BY <1>2, <2>4 DEF Joined
<1>8. ASSUME e # n PROVE Sets' = Begun(i, new)
  <2>1. e = n + 1
    BY <1>1, <1>8
  <2>2. SetOf(i, e) = {}
    <3>1. \A x \in Device : IdentityOf[x] = i => ~InSet(x, e)
      BY <1>1, <2>1, InSetMeans DEF IInv
    <3> QED BY <3>1 DEF SetOf
  <2>3. /\ Append(Sets[i], new) \in [1..(n + 1) -> SUBSET Device]
        /\ \A k \in 1..n : Append(Sets[i], new)[k] = Sets[i][k]
        /\ Append(Sets[i], new)[n + 1] = new
    <3> DEFINE T == SUBSET Device
               s == Sets[i]
    <3>1. n \in Nat /\ s \in [1..n -> T] /\ new \in T
      BY <1>2
    <3> HIDE DEF T, s
    <3>2. Append(s, new) \in [1..(n + 1) -> T]
      BY ONLY <3>1, Listed
    <3>3. \A k \in 1..n : Append(s, new)[k] = s[k]
      BY ONLY <3>1, Listed
    <3>4. Append(s, new)[n + 1] = new
      BY ONLY <3>1, Listed
    <3> QED BY <3>2, <3>3, <3>4 DEF T, s
  <2>4. SetOf(i, n + 1)' = new
    <3>1. SetOf(i, e)' = SetOf(i, e) \cup new
      BY <1>5
    <3> QED BY <2>1, <2>2, <3>1
  <2>5. \A f \in 1..n : SetOf(i, f)' = Sets[i][f]
    BY <1>2, <1>5, <2>1
  <2>6. \A f \in 1..(n + 1) : f \in 1..n \/ f = n + 1
    OBVIOUS
  <2>7. \A f \in 1..(n + 1) : SetOf(i, f)' = Append(Sets[i], new)[f]
    BY <2>3, <2>4, <2>5, <2>6
  <2>8. Sets'[i] = Append(Sets[i], new)
    BY <1>4, <2>1, <2>3, <2>7
  <2> QED BY <1>3, <1>6, <2>8, UpdatedAt DEF Begun
<1> QED BY <1>1, <1>7, <1>8

\* A statement of an owner leaves the contacts where they are.
LEMMA ContactsRest ==
  ASSUME UNCHANGED <<contact, half, done>>
  PROVE  UNCHANGED Promise!contactVars
BY DEF GoesBy, Told, Company, Met, Promise!contactVars

LEMMA OwnersRest ==
  ASSUME UNCHANGED <<epoch, signed>>
  PROVE  UNCHANGED Promise!ownerVars
BY DEF Sets, SetOf, InSet, Gone, Promise!ownerVars

\* The devices that have a revocation, after one more statement.
LEMMA AfterCertificate ==
  ASSUME NEW d \in Device, NEW e, signed' = signed \cup {CertificateFor(d, e)}
  PROVE  Gone' = Gone
<1>1. "kem" \in DOMAIN CertificateFor(d, e).c
  BY DEF CertificateFor, SignCertificate, SignWithLabel, CertificateOf, DeviceCertificate
<1> QED BY <1>1 DEF Gone

LEMMA AfterRevocation ==
  ASSUME NEW d \in Device, NEW e \in 1..MaxEpoch, signed' = signed \cup {RevocationFor(d, e)}
  PROVE  Gone' = Gone \cup {d}
BY RevocationFields DEF Gone

\* A certificate puts its device in the set of its epoch.
LEMMA CertifyAdmits ==
  ASSUME IInv, NEW d \in Device, NEW e \in 1..MaxEpoch, Certify(d, e)
  PROVE  Promise!Admit(d)
<1> DEFINE i == IdentityOf[d]
<1>1. /\ signed' = signed \cup {CertificateFor(d, e)}
      /\ epoch' = [epoch EXCEPT ![i] = e]
      /\ e \in {epoch[i], epoch[i] + 1} /\ ~Withdrawn(d)
      /\ UNCHANGED <<contact, half, drawn, network, done>>
  BY DEF Certify, CertificateFor
<1>2. i \in Identities
  BY MeetingAssumption
<1>3. \A x \in Device, f \in 1..MaxEpoch : InSet(x, f)' <=> InSet(x, f) \/ (x \in {d} /\ f = e)
  <2>1. /\ CertificateFor(d, e).c.dev = d /\ CertificateFor(d, e).c.epoch = e
        /\ "kem" \in DOMAIN CertificateFor(d, e).c
    BY CertificateFields DEF CertificateFor, SignCertificate, SignWithLabel, CertificateOf,
                             DeviceCertificate
  <2> QED BY <1>1, <2>1 DEF InSet
<1>4. \/ Sets' = [Sets EXCEPT ![i][Len(Sets[i])] = @ \cup {d}]
      \/ Sets' = [Sets EXCEPT ![i] = Append(@, {d})]
  <2>1. States(i, e, {d})
    BY <1>1, <1>3 DEF States
  <2>2. Sets' = Joined(i, {d}) \/ Sets' = Begun(i, {d})
    BY <1>2, <2>1, AfterSigning
  <2> QED BY <2>2 DEF Joined, Begun
<1>5. Gone' = Gone /\ d \notin Gone
  BY <1>1, AfterCertificate, GoneMeans DEF IInv
<1> QED
  BY <1>1, <1>4, <1>5, ContactsRest DEF Promise!Admit

\* After a revocation the owner has a new set, with nobody in it yet.
LEMMA RevokeRemoves ==
  ASSUME IInv, NEW d \in Device, Revoke(d)
  PROVE  Promise!Remove(d)
<1> DEFINE i == IdentityOf[d]
           e == epoch[i] + 1
<1>1. /\ signed' = signed \cup {RevocationFor(d, e)}
      /\ epoch' = [epoch EXCEPT ![i] = e] /\ e <= MaxEpoch /\ Certified(d)
      /\ UNCHANGED <<contact, half, drawn, network, done>>
  BY DEF Revoke, RevocationFor
<1>2. i \in Identities
  BY MeetingAssumption
<1>3. epoch[i] \in 1..MaxEpoch /\ e \in 1..MaxEpoch /\ e # epoch[i]
  BY <1>1, <1>2, SetsAreLists, MeetingAssumption
<1>4. \A x \in Device, f \in 1..MaxEpoch : InSet(x, f)' <=> InSet(x, f)
  BY <1>1, RevocationFields DEF InSet
<1>5. Sets' = [Sets EXCEPT ![i] = Append(@, {})]
  <2>1. States(i, e, {})
    BY <1>1, <1>4 DEF States
  <2>2. Sets' = Begun(i, {})
    BY <1>2, <1>3, <2>1, AfterSigning
  <2> QED BY <2>2 DEF Begun
<1>6. Gone' = Gone \cup {d}
  BY <1>1, <1>3, AfterRevocation
<1>7. \E f \in DOMAIN Sets[i] : d \in Sets[i][f]
  <2>1. PICK f \in 1..MaxEpoch : CertificateFor(d, f) \in signed
    BY <1>1 DEF Certified, CertificateFor
  <2>2. InSet(d, f) /\ f <= epoch[i]
    BY <2>1, InSetMeans DEF IInv
  <2>3. f \in 1..epoch[i] /\ d \in SetOf(i, f)
    BY <1>3, <2>2 DEF SetOf
  <2> QED BY <1>2, <2>3, SetsAreLists
<1> QED
  BY <1>1, <1>5, <1>6, <1>7, ContactsRest DEF Promise!Remove

-----------------------------------------------------------------------------
\* A device records epoch e of its contact.
LEMMA RecordsAhead ==
  ASSUME IInv, NEW d \in Device, NEW e \in 1..MaxEpoch,
         contact[d].recorded <= e, e <= epoch[ContactOf[d]]
  PROVE  e \in Promise!Ahead(d) /\ e \in 1..epoch[ContactOf[d]]
<1>1. ContactOf[d] \in Identities
  BY MeetingAssumption
<1>2. e \in 1..epoch[ContactOf[d]] /\ e \in DOMAIN Sets[ContactOf[d]]
  BY <1>1, SetsAreLists
<1> QED BY <1>2 DEF Promise!Ahead, GoesBy

LEMMA Recorded ==
  ASSUME IInv, NEW d \in Device, NEW e, contact' = [contact EXCEPT ![d].recorded = e]
  PROVE  GoesBy' = [GoesBy EXCEPT ![d] = e] /\ Told' = Told
BY DEF GoesBy, Told, IInv, Shapes, ContactState

\* What a device holds of a handshake is whom it is meeting.
LEMMA HalfIsCompany ==
  ASSUME IInv, NEW d \in Device, NEW new, half' = [half EXCEPT ![d] = new]
  PROVE  Company' = [Company EXCEPT ![d] = PeerIn(new)]
<1>1. half'[d] = new /\ \A x \in Device : x # d => half'[x] = half[x]
  BY DEF IInv, Shapes
<1>2. Company'[d] = PeerIn(new) /\ \A x \in Device : x # d => Company'[x] = Company[x]
  BY <1>1 DEF Company
<1>3. Company = [x \in Device |-> Company[x]] /\ Company' = [x \in Device |-> Company'[x]]
  BY DEF Company
<1> QED BY <1>2, <1>3, UpdatedAt

LEMMA NoOneInNoHalf == PeerIn(NoHalf) = "nobody"
BY DEF PeerIn, NoHalf

LEMMA DropLetsGo ==
  ASSUME IInv, NEW d \in Device, Drop(d), UNCHANGED <<epoch, signed>>
  PROVE  Promise!LetGo(d)
<1>1. Company' = [Company EXCEPT ![d] = "nobody"] /\ UNCHANGED <<contact, done>>
  BY HalfIsCompany, NoOneInNoHalf DEF Drop
<1>2. GoesBy' = GoesBy /\ Told' = Told /\ Met' = Met
  BY <1>1 DEF GoesBy, Told, Met
<1> QED
  BY <1>1, <1>2, OwnersRest DEF Promise!LetGo

LEMMA LearnCertificateFollows ==
  ASSUME IInv, NEW d \in Device, NEW s, Stated(s), LearnCertificate(d, s)
  PROVE  Promise!Follow(d)
<1>1. /\ contact[d].bundle # NoBundle /\ Refusal(d, s) = {}
      /\ contact' = [contact EXCEPT ![d].recorded = s.c.epoch]
      /\ UNCHANGED <<epoch, signed, half, done>>
  BY DEF LearnCertificate
<1>2. PICK p \in Device, e \in 1..MaxEpoch :
        s = CertificateFor(p, e) /\ contact[d].recorded <= e /\ e <= epoch[ContactOf[d]]
  BY <1>1, NotRefused
<1>3. s.c.epoch = e
  BY <1>2, CertificateFields
<1>4. e \in Promise!Ahead(d) /\ GoesBy' = [GoesBy EXCEPT ![d] = e] /\ Told' = Told
  BY <1>1, <1>2, <1>3, RecordsAhead, Recorded
<1>5. Company' = Company /\ Met' = Met
  BY <1>1 DEF Company, Met
<1> QED
  BY <1>1, <1>4, <1>5, OwnersRest DEF Promise!Follow

(* A revocation is of an epoch from which on its device is in no set.      *)
LEMMA LearnRevocationTells ==
  ASSUME IInv, NEW d \in Device, NEW s, Stated(s), LearnRevocation(d, s)
  PROVE  \E p \in Device : Promise!BeTold(d, p)
<1> DEFINE i == ContactOf[d]
<1>1. /\ contact[d].bundle # NoBundle
      /\ RevocationRefusal(s, contact[d].bundle.root) = {}
      /\ EpochRefusal(contact[d].recorded, s.c.epoch) = {}
      /\ contact' = [contact EXCEPT ![d].recorded = s.c.epoch,
                                    ![d].revoked = @ \cup {s.c.dev}]
      /\ half' = [half EXCEPT ![d] = IF PeerIn(@) = s.c.dev THEN NoHalf ELSE @]
      /\ UNCHANGED <<epoch, signed, done>>
  BY DEF LearnRevocation
<1>2. RevocationRefusal(s, Root(i)) = {}
  BY <1>1, BundleOfContact DEF IInv, ContactInv
<1>3. PICK p \in Device, e \in 1..MaxEpoch :
        IdentityOf[p] = i /\ e <= epoch[i] /\ s = RevocationFor(p, e) /\ s \in signed
  BY <1>2, AcceptedRevocation DEF IInv
<1>4. s.c.dev = p /\ s.c.epoch = e
  BY <1>3, RevocationFields
<1>5. contact[d].recorded <= e
  BY <1>1, <1>4, MeetingAssumption DEF EpochRefusal, IInv, Shapes, ContactState
<1>6. e \in Promise!Ahead(d) /\ e \in 1..epoch[i]
  BY <1>3, <1>5, RecordsAhead
<1>7. i \in Identities /\ DOMAIN Sets[i] = 1..epoch[i]
  BY SetsAreLists, MeetingAssumption
<1>8. \A f \in DOMAIN Sets[i] : e <= f => p \notin Sets[i][f]
  <2> SUFFICES ASSUME NEW f \in 1..epoch[i], e <= f, p \in Sets[i][f]
               PROVE  FALSE
    BY <1>7
  <2>1. f \in 1..MaxEpoch /\ InSet(p, f)
    BY <1>7, SetsAreLists DEF SetOf
  <2>2. CertificateFor(p, f) \in signed
    BY <2>1, InSetMeans DEF IInv
  <2>3. f < e
    BY <1>3, <2>1, <2>2 DEF IInv, RevokedLast
  <2> QED BY <2>1, <2>3
<1>9. p \in Gone
  BY <1>3, RevocationFields DEF Gone
<1>10. GoesBy' = [GoesBy EXCEPT ![d] = e] /\ Told' = [Told EXCEPT ![d] = @ \cup {p}]
  BY <1>1, <1>4 DEF GoesBy, Told, IInv, Shapes, ContactState
<1>11. Company' = [Company EXCEPT ![d] = IF @ = p THEN "nobody" ELSE @]
  <2>1. Company[d] = PeerIn(half[d])
    BY DEF Company
  <2>2. Company' = [Company EXCEPT ![d] = PeerIn(IF PeerIn(half[d]) = p THEN NoHalf ELSE half[d])]
    BY <1>1, <1>4, HalfIsCompany
  <2> QED BY <2>1, <2>2, NoOneInNoHalf
<1>12. Met' = Met
  BY <1>1 DEF Met
<1> QED
  BY <1>1, <1>6, <1>8, <1>9, <1>10, <1>11, <1>12, OwnersRest DEF Promise!BeTold

LEMMA BeginLetsGo ==
  ASSUME IInv, NEW d \in Device, NEW container, Begin(d, container)
  PROVE  Promise!LetGo(d)
<1> DEFINE new == [state |-> "sent", ephemeral |-> KeyPair(d, drawn'[d])]
<1>1. half' = [half EXCEPT ![d] = new] /\ UNCHANGED <<epoch, signed, contact, done>>
  BY DEF Begin
<1>2. PeerIn(new) = "nobody"
  BY DEF PeerIn
<1> HIDE DEF new
<1>3. Company' = [Company EXCEPT ![d] = "nobody"]
  BY <1>1, <1>2, HalfIsCompany
<1>4. GoesBy' = GoesBy /\ Told' = Told /\ Met' = Met
  BY <1>1 DEF GoesBy, Told, Met
<1> QED
  BY <1>1, <1>3, <1>4, OwnersRest DEF Promise!LetGo

(* Whoever's certificate is not refused is in the set of an epoch that is  *)
(* not behind.                                                             *)
LEMMA NotRefusedTakesUp ==
  ASSUME IInv, NEW d \in Device, contact[d].bundle # NoBundle,
         NEW s, Stated(s), Refusal(d, s) = {},
         contact' = [contact EXCEPT ![d].recorded = s.c.epoch],
         NEW new, half' = [half EXCEPT ![d] = new], PeerIn(new) = s.c.dev,
         UNCHANGED <<epoch, signed, done>>
  PROVE  \E p \in Device : Promise!TakeUp(d, p)
<1> DEFINE i == ContactOf[d]
<1>1. PICK p \in Device, e \in 1..MaxEpoch :
        /\ IdentityOf[p] = i /\ s = CertificateFor(p, e) /\ s \in signed
        /\ contact[d].recorded <= e /\ e <= epoch[i]
  BY NotRefused
<1>2. s.c.dev = p /\ s.c.epoch = e
  BY <1>1, CertificateFields
<1>3. e \in Promise!Ahead(d) /\ e \in 1..epoch[i]
  BY <1>1, RecordsAhead
<1>4. p \in Sets[i][e]
  <2>1. InSet(p, e)
    BY <1>1, InSetMeans DEF IInv
  <2>2. p \in SetOf(i, e)
    BY <1>1, <2>1 DEF SetOf
  <2> QED BY <1>3, <2>2, SetsAreLists, MeetingAssumption
<1>5. Company' = [Company EXCEPT ![d] = p]
  BY <1>2, HalfIsCompany
<1>6. GoesBy' = [GoesBy EXCEPT ![d] = e] /\ Told' = Told
  BY <1>2, Recorded
<1>7. Met' = Met
  BY DEF Met
<1> QED
  BY <1>3, <1>4, <1>5, <1>6, <1>7, OwnersRest DEF Promise!TakeUp

LEMMA AnswerTakesUp ==
  ASSUME IInv, NEW d \in Device, NEW m \in network, NEW records \in Arrivals(m), NEW container,
         Answer(d, records, container)
  PROVE  \E p \in Device : Promise!TakeUp(d, p)
<1> DEFINE own == KeyPair(d, drawn[d] + 1)
           certificate == records.DEVICE_CERTIFICATE.c
           new == [state |-> "answered", ephemeral |-> own, keys |-> records.EPHEMERAL_KEYS,
                   certificate |-> certificate,
                   ct |-> Encapsulations(records.EPHEMERAL_KEYS, certificate.kem, own)]
<1>1. /\ contact[d].bundle # NoBundle /\ "DEVICE_CERTIFICATE" \in DOMAIN records
      /\ Refusal(d, records.DEVICE_CERTIFICATE) = {}
      /\ contact' = [contact EXCEPT ![d].recorded = records.DEVICE_CERTIFICATE.c.epoch]
      /\ UNCHANGED <<epoch, signed, done>>
  BY DEF Answer, Has
<1>2. half' = [half EXCEPT ![d] = new]
  BY DEF Answer
<1>3. PeerIn(new) = records.DEVICE_CERTIFICATE.c.dev
  BY DEF PeerIn
<1> HIDE DEF new
<1>4. Stated(records.DEVICE_CERTIFICATE)
  BY <1>1, WhatArrives
<1> QED
  BY <1>1, <1>2, <1>3, <1>4, NotRefusedTakesUp

LEMMA DeriveTakesUp ==
  ASSUME IInv, NEW d \in Device, NEW m \in network, NEW records \in Arrivals(m),
         Derive(d, records)
  PROVE  Promise!LetGo(d) \/ \E p \in Device : Promise!TakeUp(d, p)
<1>1. UNCHANGED <<epoch, signed>>
  BY DEF Derive
<1>2. CASE Drop(d)
  BY <1>1, <1>2, DropLetsGo
<1>3. CASE ~Drop(d)
  <2>1. PICK root : half' = [half EXCEPT ![d] = [state |-> "derived",
                               peer |-> records.DEVICE_CERTIFICATE.c.dev, root |-> root]]
    BY <1>3 DEF Derive
  <2>2. /\ half[d].state = "sent" /\ "DEVICE_CERTIFICATE" \in DOMAIN records
        /\ Refusal(d, records.DEVICE_CERTIFICATE) = {}
        /\ contact' = [contact EXCEPT ![d].recorded = records.DEVICE_CERTIFICATE.c.epoch]
        /\ UNCHANGED done
    BY <1>3 DEF Derive, Has
  <2> DEFINE new == [state |-> "derived", peer |-> records.DEVICE_CERTIFICATE.c.dev,
                     root |-> root]
  <2>3. half' = [half EXCEPT ![d] = new] /\ PeerIn(new) = records.DEVICE_CERTIFICATE.c.dev
    BY <2>1 DEF PeerIn
  <2> HIDE DEF new
  <2>4. contact[d].bundle # NoBundle /\ Stated(records.DEVICE_CERTIFICATE)
    BY <2>2, WhatArrives DEF IInv, HalfInv, HalfWell
  <2> QED
    BY <1>1, <2>2, <2>3, <2>4, NotRefusedTakesUp
<1> QED
  BY <1>2, <1>3

\* Whom a device finishes with it was meeting.
LEMMA FinishMeets ==
  ASSUME IInv, NEW d \in Device, half[d].state \in {"answered", "derived"},
         NEW p, p = PeerIn(half[d]), NEW root, Finish(d, p, root),
         UNCHANGED <<epoch, signed, contact>>
  PROVE  Promise!Meet(d)
<1>1. /\ half' = [half EXCEPT ![d] = NoHalf] /\ DOMAIN done = Device /\ DOMAIN done' = Device
      /\ \A x \in Device : x # d => done'[x] = done[x]
      /\ Len(done[d]) \in Nat /\ DOMAIN done[d] = 1..Len(done[d])
      /\ DOMAIN done'[d] = 1..(Len(done[d]) + 1)
      /\ \A k \in DOMAIN done[d] : done'[d][k] = done[d][k]
      /\ done'[d][Len(done[d]) + 1].peer = p
  <2>1. /\ half' = [half EXCEPT ![d] = NoHalf] /\ DOMAIN done' = Device
        /\ \A x \in Device : x # d => done'[x] = done[x]
        /\ Len(done[d]) \in Nat /\ DOMAIN done[d] = 1..Len(done[d])
        /\ DOMAIN done'[d] = 1..(Len(done[d]) + 1)
        /\ \A k \in DOMAIN done[d] : done'[d][k] = done[d][k]
        /\ done'[d][Len(done[d]) + 1] = [peer |-> p, root |-> root]
    BY FinishAppends
  <2>2. DOMAIN done = Device
    BY DEF IInv, Shapes
  <2> QED BY <2>1, <2>2
<1>2. p \in Device
  <2>1. CASE half[d].state = "answered"
    <3>1. CertificateFrom(d, half[d].certificate) /\ p = half[d].certificate.dev
      BY <2>1 DEF IInv, HalfInv, HalfWell, PeerIn
    <3> QED BY <3>1 DEF CertificateFrom, CertificateOf, DeviceCertificate
  <2>2. CASE half[d].state = "derived"
    BY <2>2 DEF IInv, HalfInv, HalfWell, Transcript, PeerCertified, PeerIn
  <2> QED BY <2>1, <2>2
<1>3. \A k \in DOMAIN done[d] : done[d][k].peer \in Device
  BY DEF IInv, DoneInv, Transcript, PeerCertified
<1>4. Company[d] = p /\ Company' = [Company EXCEPT ![d] = "nobody"]
  <2>1. Company' = [Company EXCEPT ![d] = PeerIn(NoHalf)]
    BY <1>1, HalfIsCompany
  <2>2. Company[d] = p
    BY DEF Company
  <2> QED BY <2>1, <2>2, NoOneInNoHalf
<1>5. /\ Met[d] = [k \in 1..Len(done[d]) |-> done[d][k].peer]
      /\ Met'[d] = [k \in 1..(Len(done[d]) + 1) |-> done'[d][k].peer]
      /\ \A x \in Device : x # d => Met'[x] = Met[x]
      /\ Met = [x \in Device |-> Met[x]] /\ Met' = [x \in Device |-> Met'[x]]
  BY <1>1 DEF Met
<1>6. Met'[d] = Append(Met[d], p)
  <2> DEFINE s == Met[d]
             n == Len(done[d])
  <2>1. n \in Nat /\ s \in [1..n -> Device]
    BY <1>1, <1>3, <1>5
  <2>2. /\ Append(s, p) \in [1..(n + 1) -> Device]
        /\ \A k \in 1..n : Append(s, p)[k] = s[k]
        /\ Append(s, p)[n + 1] = p
    <3> HIDE DEF s, n
    <3>1. Append(s, p) \in [1..(n + 1) -> Device]
      BY ONLY <1>2, <2>1, Listed
    <3>2. \A k \in 1..n : Append(s, p)[k] = s[k]
      BY ONLY <1>2, <2>1, Listed
    <3>3. Append(s, p)[n + 1] = p
      BY ONLY <1>2, <2>1, Listed
    <3> QED BY <3>1, <3>2, <3>3
  <2>3. \A k \in 1..n : Met'[d][k] = s[k]
    BY <1>1, <1>5
  <2>4. Met'[d][n + 1] = p
    BY <1>1, <1>5
  <2>5. \A k \in 1..(n + 1) : k \in 1..n \/ k = n + 1
    BY <2>1
  <2>6. \A k \in 1..(n + 1) : Met'[d][k] = Append(s, p)[k]
    BY <2>2, <2>3, <2>4, <2>5
  <2>7. DOMAIN Met'[d] = 1..(n + 1) /\ DOMAIN Append(s, p) = 1..(n + 1)
    BY <1>5, <2>2
  <2>8. /\ Met'[d] = [k \in 1..(n + 1) |-> Met'[d][k]]
        /\ Append(s, p) = [k \in 1..(n + 1) |-> Append(s, p)[k]]
    BY <1>5, <2>2
  <2> QED BY <2>6, <2>8
<1>7. Met' = [Met EXCEPT ![d] = Append(@, Company[d])]
  BY <1>4, <1>5, <1>6, UpdatedAt
<1>8. GoesBy' = GoesBy /\ Told' = Told
  BY DEF GoesBy, Told
<1> QED
  BY <1>2, <1>4, <1>7, <1>8, OwnersRest, MeetingAssumption DEF Promise!Meet

LEMMA ConcludeMeets ==
  ASSUME IInv, NEW d \in Device, NEW records, Conclude(d, records)
  PROVE  Promise!LetGo(d) \/ Promise!Meet(d)
<1>1. half[d].state = "answered" /\ UNCHANGED <<epoch, signed>>
  BY DEF Conclude
<1>2. CASE Drop(d)
  BY <1>1, <1>2, DropLetsGo
<1>3. CASE ~Drop(d)
  <2>1. /\ \E root : Finish(d, half[d].certificate.dev, root)
        /\ UNCHANGED contact
    BY <1>3 DEF Conclude
  <2>2. PeerIn(half[d]) = half[d].certificate.dev
    BY <1>1 DEF PeerIn
  <2> QED BY <1>1, <2>1, <2>2, FinishMeets
<1> QED
  BY <1>2, <1>3

LEMMA AcceptMeets ==
  ASSUME IInv, NEW d \in Device, NEW records, Accept(d, records)
  PROVE  Promise!LetGo(d) \/ Promise!Meet(d)
<1>1. half[d].state = "derived" /\ UNCHANGED <<epoch, signed>>
  BY DEF Accept
<1>2. CASE Drop(d)
  BY <1>1, <1>2, DropLetsGo
<1>3. CASE ~Drop(d)
  <2>1. Finish(d, half[d].peer, half[d].root) /\ UNCHANGED contact
    BY <1>3 DEF Accept
  <2>2. PeerIn(half[d]) = half[d].peer
    BY <1>1 DEF PeerIn
  <2> QED BY <1>1, <2>1, <2>2, FinishMeets
<1> QED
  BY <1>2, <1>3

\* Every step moves the device sets as DeviceSets allows, or not at all.
LEMMA StepIsADeviceSetsStep ==
  ASSUME IInv, [Next]_vars
  PROVE  [Promise!Next]_(Promise!vars)
<1>1. CASE UNCHANGED vars
  BY <1>1, OwnersRest, ContactsRest DEF vars, Promise!vars
<1>2. ASSUME NEW d \in Device, NEW e \in 1..MaxEpoch, Certify(d, e)
      PROVE  Promise!Next
  BY <1>2, CertifyAdmits DEF Promise!Next
<1>3. ASSUME NEW d \in Device, Revoke(d)
      PROVE  Promise!Next
  BY <1>3, RevokeRemoves DEF Promise!Next
<1>4. ASSUME NEW d \in Device, NEW i \in Identities, TakeBundle(d, Bundle(i))
      PROVE  UNCHANGED Promise!vars
  <2>1. /\ UNCHANGED <<epoch, signed, half, done>>
        /\ \E b : contact' = [contact EXCEPT ![d].bundle = b]
    BY <1>4 DEF TakeBundle
  <2>2. UNCHANGED <<GoesBy, Told, Company, Met>>
    BY <2>1 DEF GoesBy, Told, Company, Met, IInv, Shapes, ContactState
  <2> QED BY <2>1, <2>2, OwnersRest DEF Promise!vars, Promise!contactVars
<1>5. ASSUME NEW d \in Device, NEW s \in Statements,
             LearnCertificate(d, s) \/ LearnRevocation(d, s)
      PROVE  Promise!Next
  <2>1. Stated(s)
    BY DEF Statements, Stated
  <2> QED BY <1>5, <2>1, LearnCertificateFollows, LearnRevocationTells DEF Promise!Next
<1>6. ASSUME NEW d \in Device, NEW c \in signed, Begin(d, c)
      PROVE  Promise!Next
  BY <1>6, BeginLetsGo DEF Promise!Next
<1>7. ASSUME NEW d \in Device, NEW m \in network, NEW records \in Arrivals(m),
             \/ \E c \in signed : Answer(d, records, c)
             \/ Derive(d, records) \/ Conclude(d, records) \/ Accept(d, records)
      PROVE  Promise!Next
  BY <1>7, AnswerTakesUp, DeriveTakesUp, ConcludeMeets, AcceptMeets DEF Promise!Next
<1> QED
  BY <1>1, <1>2, <1>3, <1>4, <1>5, <1>6, <1>7 DEF Next

LEMMA StartIsADeviceSetsStart ==
  ASSUME Init
  PROVE  Promise!Init
<1>1. \A i \in Identities : Sets[i] = << {x \in FirstCertified : IdentityOf[x] = i} >>
  <2> SUFFICES ASSUME NEW i \in Identities
               PROVE  Sets[i] = << {x \in FirstCertified : IdentityOf[x] = i} >>
    OBVIOUS
  <2>1. epoch[i] = 1 /\ 1..epoch[i] = {1}
    BY DEF Init
  <2>2. \A x \in Device : InSet(x, 1) <=> x \in FirstCertified
    <3>1. signed = {CertificateFor(x, 1) : x \in FirstCertified}
      BY DEF Init, CertificateFor
    <3>2. \A x : /\ CertificateFor(x, 1).c.dev = x /\ CertificateFor(x, 1).c.epoch = 1
                 /\ "kem" \in DOMAIN CertificateFor(x, 1).c
      BY CertificateFields DEF CertificateFor, SignCertificate, SignWithLabel, CertificateOf,
                               DeviceCertificate
    <3> QED BY <3>1, <3>2 DEF InSet
  <2>3. SetOf(i, 1) = {x \in FirstCertified : IdentityOf[x] = i}
    BY <2>2, MeetingAssumption DEF SetOf
  <2>4. Sets[i] = [e \in {1} |-> SetOf(i, e)]
    BY <2>1 DEF Sets
  <2> QED BY <2>3, <2>4
<1>2. Sets = [i \in Identities |-> << {x \in FirstCertified : IdentityOf[x] = i} >>]
  BY <1>1 DEF Sets
<1>3. Gone = {}
  <2>1. \A s \in signed : \E d \in Device : s = CertificateFor(d, 1)
    BY MeetingAssumption DEF Init, CertificateFor
  <2>2. \A d : "kem" \in DOMAIN CertificateFor(d, 1).c
    BY DEF CertificateFor, SignCertificate, SignWithLabel, CertificateOf, DeviceCertificate
  <2> QED BY <2>1, <2>2 DEF Gone
<1>4. GoesBy = [d \in Device |-> 0] /\ Told = [d \in Device |-> {}]
  BY DEF Init, GoesBy, Told
<1>5. Company = [d \in Device |-> "nobody"]
  BY NoOneInNoHalf DEF Init, Company
<1>6. Met = [d \in Device |-> << >>]
  BY DEF Init, Met
<1> QED
  BY <1>2, <1>3, <1>4, <1>5, <1>6 DEF Promise!Init

(* Whatever arrives late, twice, damaged or in another order, device sets  *)
(* that a contact follows forward are all there is to certificates,        *)
(* revocations and the one number recorded per contact (accept_epoch).     *)
THEOREM MeetingImplementsDeviceSets == Spec => ImplementsDeviceSets
BY StartIsADeviceSetsStart, StepIsADeviceSetsStep, Invariance, PTL
   DEF Spec, ImplementsDeviceSets, Promise!Spec
=============================================================================
