------------------------------ MODULE Handshake ------------------------------
(***************************************************************************)
(* Hybrid key agreement (crates/handshake).                                *)
(*                                                                         *)
(* A key pair is its device and a number, zero for the static pair, and    *)
(* both its public keys are the pair.  A shared secret is known by the key *)
(* pairs each of which gives it, and by the ciphertext it came in.  The    *)
(* root key is what is hashed into it; the versions, which both sides      *)
(* share, are left out.                                                    *)
(***************************************************************************)
EXTENDS Integers

KeyPair(device, number) == [device |-> device, number |-> number]

StaticPair(device) == KeyPair(device, 0)

\* A public key whose agreements come out all zeroes.
SmallOrder == KeyPair("nobody", 1)

\* KeyPair::agree
DegenerateSharedSecret(peer_public) == peer_public = SmallOrder

Agree(own, peer_public) == [from |-> {own, peer_public}, in |-> {}]

\* encapsulate: a ciphertext, and the secret that is in it.
Ciphertext(encapsulation_key, randomness) == [to |-> encapsulation_key, with |-> randomness]

Encapsulated(encapsulation_key, ciphertext) ==
  [from |-> {encapsulation_key}, in |-> {ciphertext}]

\* KeyPair::decapsulate never fails: of any ciphertext it makes a secret.
Decapsulated(own, ciphertext) == [from |-> {own}, in |-> {ciphertext}]

-----------------------------------------------------------------------------
\* EPHEMERAL_KEYS and ENCAPSULATIONS
EphemeralKeys(pair) == [x25519 |-> pair, kem |-> pair]

Encapsulations(keys, static_key, randomness) ==
  [to_ephemeral |-> Ciphertext(keys.kem, randomness),
   to_static    |-> Ciphertext(static_key, randomness)]

\* Secrets as A computes them: ephemeral is its own pair of this handshake,
\* cert_b and keys_b what B sent, ct_a and ct_b the ciphertexts of either.
SecretsOfA(a, ephemeral, cert_b, keys_b, ct_a, ct_b) ==
  [dh_ephemeral        |-> Agree(ephemeral, keys_b.x25519),
   dh_ephemeral_static |-> Agree(ephemeral, cert_b.dh),
   dh_static_ephemeral |-> Agree(StaticPair(a), keys_b.x25519),
   kem_ephemeral_a     |-> Encapsulated(keys_b.kem, ct_a.to_ephemeral),
   kem_ephemeral_b     |-> Decapsulated(ephemeral, ct_b.to_ephemeral),
   kem_static_a        |-> Encapsulated(cert_b.kem, ct_a.to_static),
   kem_static_b        |-> Decapsulated(StaticPair(a), ct_b.to_static)]

\* And as B does, the mirror image.
SecretsOfB(b, ephemeral, cert_a, keys_a, ct_a, ct_b) ==
  [dh_ephemeral        |-> Agree(ephemeral, keys_a.x25519),
   dh_ephemeral_static |-> Agree(StaticPair(b), keys_a.x25519),
   dh_static_ephemeral |-> Agree(ephemeral, cert_a.dh),
   kem_ephemeral_a     |-> Decapsulated(ephemeral, ct_a.to_ephemeral),
   kem_ephemeral_b     |-> Encapsulated(keys_a.kem, ct_b.to_ephemeral),
   kem_static_a        |-> Decapsulated(StaticPair(b), ct_a.to_static),
   kem_static_b        |-> Encapsulated(cert_a.kem, ct_b.to_static)]

\* The public values of one side of the transcript.
TranscriptSide(cert, keys, ct) ==
  [identity_id        |-> cert.id,
   device_signing_pub |-> cert.dev,
   dh_static_pub      |-> cert.dh,
   kem_static_pub     |-> cert.kem,
   ephemeral_pub      |-> keys,
   ct                 |-> ct]

\* A plausible slip: only what the static keys give is hashed.
StaticRootKey(secrets, side_a, side_b) ==
  [secrets |-> [s \in {"kem_static_a", "kem_static_b"} |-> secrets[s]],
   A |-> side_a, B |-> side_b]

RootKey(secrets, side_a, side_b) == [secrets |-> secrets, A |-> side_a, B |-> side_b]

\* A plausible slip: one label for both confirmations.
UnlabelledConfirmation(root_key, role) == [root |-> root_key, label |-> "CONFIRMATION"]

Confirmation(root_key, role) ==
  [root |-> root_key, label |-> IF role = "A" THEN "CONFIRMATION_A" ELSE "CONFIRMATION_B"]

\* A message is the records in it, by their type, each once.
RecordTypes == {"EPHEMERAL_KEYS", "DEVICE_CERTIFICATE", "ENCAPSULATIONS", "CONFIRMATION"}

\* decode_records, and the caller's choice among what it returns.
Has(records, types) == types \subseteq DOMAIN records
=============================================================================
