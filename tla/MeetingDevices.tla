--------------------------- MODULE MeetingDevices ---------------------------
(***************************************************************************)
(* The statements of the owners, and what devices have recorded and agreed *)
(* on, read as DeviceSets: a set has the devices certified in one epoch,   *)
(* and a device goes by the highest epoch it has recorded.                 *)
(***************************************************************************)
EXTENDS Meeting

\* x was certified in epoch e: a revocation has no keys.
InSet(x, e) == \E s \in signed : s.c.dev = x /\ s.c.epoch = e /\ "kem" \in DOMAIN s.c

SetOf(i, e) == {x \in Device : IdentityOf[x] = i /\ InSet(x, e)}

Sets == [i \in Identities |-> [e \in 1..epoch[i] |-> SetOf(i, e)]]

\* The devices that have a revocation.
Gone == {x \in Device : \E s \in signed : s.c.dev = x /\ "kem" \notin DOMAIN s.c}

GoesBy == [d \in Device |-> contact[d].recorded]

Told == [d \in Device |-> contact[d].revoked]

Company == [d \in Device |-> PeerIn(half[d])]

Met == [d \in Device |-> [k \in DOMAIN done[d] |-> done[d][k].peer]]

Promise == INSTANCE DeviceSets WITH
             FirstSet <- FirstCertified,
             Nobody <- "nobody",
             sets <- Sets, removed <- Gone,
             goesBy <- GoesBy, told <- Told, company <- Company, met <- Met

(* With one number per contact, certificates and revocations that come     *)
(* late, in any order, again or damaged do no more than device sets that a *)
(* contact follows forward: it takes up with nobody who is not in the set  *)
(* it goes by, whom it is told is removed it leaves and never takes up     *)
(* again, and it finishes with no one but whom it took up                  *)
(* (accept_epoch(), verify_certificate() and verify_revocation()).         *)
ImplementsDeviceSets == Promise!Spec
=============================================================================
