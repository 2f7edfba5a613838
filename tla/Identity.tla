------------------------------ MODULE Identity ------------------------------
(***************************************************************************)
(* Identities, device certificates and revocations (crates/identity), and  *)
(* the bundle in which root keys cross (crates/contact/src/lib.rs).        *)
(*                                                                         *)
(* Hashes, key derivation and signatures are symbolic: each is the record  *)
(* or tuple of what goes in, and a signature verifies if it is that of the *)
(* key over the same.  An identity stands for its recovery seed.  What     *)
(* certificates and revocations do not need to be told apart by, the time  *)
(* of certification and the version, is left out.                          *)
(***************************************************************************)
EXTENDS Integers

-----------------------------------------------------------------------------
\* RecoverySeed: the root keys and the contact key, each under its own label.
RootKeys(seed) == [ed25519 |-> <<"ROOT_ED25519", seed>>, mldsa |-> <<"ROOT_MLDSA", seed>>]

ContactPublic(seed) == <<"CONTACT_KEY", seed>>

\* IdentityId::derive, from both root public keys.
IdentityId(root) == <<"IDENTITY_ID", root.ed25519, root.mldsa>>

\* ContactBundle, and the commitment to it that crosses over another channel.
ContactBundle(root, contact_key) == [root |-> root, contact_key |-> contact_key]

Commitment(bundle) == <<"BUNDLE", bundle>>

\* A plausible slip: the commitment is not compared.
UncheckedBundle(bundle, commitment) == TRUE

\* ContactBundle::check
Checks(bundle, commitment) == Commitment(bundle) = commitment

-----------------------------------------------------------------------------
DeviceCertificate(root, dev, dh, kem, epoch) ==
  [id |-> IdentityId(root), dev |-> dev, dh |-> dh, kem |-> kem, epoch |-> epoch]

Revocation(root, dev, epoch) == [id |-> IdentityId(root), dev |-> dev, epoch |-> epoch]

CertificateLabel == "DEVICE_CERTIFICATE"
RevocationLabel == "DEVICE_REVOCATION"

\* A plausible slip: the body is not hashed.
SignedLabel(key, label, body) == [key |-> key, over |-> <<label, CertificateLabel>>]

\* to_sign: the label and the encoding, hashed and signed.
Signature(key, label, body) == [key |-> key, over |-> <<label, body>>]

\* The container with both signatures.
SignWithLabel(root, label, body) ==
  [c |-> body,
   e |-> Signature(root.ed25519, label, body),
   p |-> Signature(root.mldsa, label, body)]

SignCertificate(root, certificate) == SignWithLabel(root, CertificateLabel, certificate)

SignRevocation(root, revocation) == SignWithLabel(root, RevocationLabel, revocation)

-----------------------------------------------------------------------------
\* open_container: both signatures are over what the container carries.
SignaturesHold(container, root, label) ==
  /\ container.e = Signature(root.ed25519, label, container.c)
  /\ container.p = Signature(root.mldsa, label, container.c)

\* What a container is refused for, if it is: fields says what has to be in it.
ContainerRefusal(container, root, label, fields) ==
  LET ours == container.c.id = IdentityId(root)
      all == fields \subseteq DOMAIN container.c
  IN  {e \in {"BadSignature", "WrongIdentity", "Malformed"} :
         \/ e = "BadSignature" /\ ~SignaturesHold(container, root, label)
         \/ e = "WrongIdentity" /\ SignaturesHold(container, root, label) /\ ~ours
         \/ e = "Malformed" /\ SignaturesHold(container, root, label) /\ ours /\ ~all}

\* verify_certificate and verify_revocation
CertificateRefusal(container, root) ==
  ContainerRefusal(container, root, CertificateLabel, {"id", "dev", "dh", "kem", "epoch"})

RevocationRefusal(container, root) ==
  ContainerRefusal(container, root, RevocationLabel, {"id", "dev", "epoch"})

\* A plausible slip: any epoch is recorded.
AnyEpoch(recorded_highest, epoch) == {}

\* accept_epoch: what it refuses an epoch for, if it does.  It answers with the
\* epoch to be recorded, which is the one offered.
EpochRefusal(recorded_highest, epoch) ==
  {e \in {"EpochInThePast"} : epoch < recorded_highest}
=============================================================================
