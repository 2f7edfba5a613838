----------------------------- MODULE RelayStore -----------------------------
(***************************************************************************)
(* What one relay holds (crates/relay/src/store.rs).  A store maps each    *)
(* live queue to its registration, its blobs and the time of its last      *)
(* write.  The operations are operators on a store: the daemon runs each   *)
(* of them under one lock, so a step of a composing module applies them.   *)
(*                                                                         *)
(* The Vec of blobs is the set of its entries.  nth orders them: a push    *)
(* takes the next number and retain() keeps numbers, so the first element  *)
(* of the Vec is the entry with the least nth.  A blob's name is a hash of *)
(* its bytes, so the blob stands for its own name.                         *)
(***************************************************************************)
EXTENDS Integers, FiniteSets, FiniteSetsExt

CONSTANTS Queue,        \* queue identifiers
          Key,          \* public keys
          Registration, \* pairs of keys that clients register
          Blob, Size,   \* blobs and their lengths
          MaxBlobLen, MaxQueueLen,
          BlobLife, QueueLife   \* how long a blob and an idle queue are kept

ASSUME RegistrationAssumption == Registration \subseteq [write : Key, read : Key]

ASSUME SizeAssumption ==
  /\ Size \in [Blob -> Nat]
  /\ MaxBlobLen \in Nat
  /\ MaxQueueLen \in Nat

ASSUME LifeAssumption == BlobLife \in Nat /\ QueueLife \in Nat

-----------------------------------------------------------------------------
Entry == [nth : Nat, blob : Blob, at : Nat]

\* pushed counts the pushes so far: the number the next entry takes.
QueueState == [registration : Registration, blobs : SUBSET Entry,
               lastWrite : Nat, pushed : Nat]

\* The map has the live queues as its keys.
IsStore(s) == DOMAIN s \subseteq Queue /\ s \in [DOMAIN s -> QueueState]

EmptyStore == [q \in {} |-> {}]

\* A plausible slip: insert() for or_insert_with().
RegisteredAnew(s, q, reg, now) ==
  [x \in DOMAIN s \cup {q} |->
     IF x # q
     THEN s[x]
     ELSE [registration |-> reg, blobs |-> {}, lastWrite |-> now, pushed |-> 0]]

\* Store::register: or_insert_with, so a live queue keeps the keys it has.
Registered(s, q, reg, now) ==
  [x \in DOMAIN s \cup {q} |->
     IF x \in DOMAIN s
     THEN s[x]
     ELSE [registration |-> reg, blobs |-> {}, lastWrite |-> now, pushed |-> 0]]

Held(s, q) == MapThenSumSet(LAMBDA e : Size[e.blob], s[q].blobs)

Fits(s, q, b) == Held(s, q) + Size[b] <= MaxQueueLen

\* A plausible slip: the blob dated by when it could first have been sent.
WrittenBackdated(s, q, b, now) ==
  [s EXCEPT ![q] =
     [registration |-> s[q].registration,
      blobs |-> s[q].blobs \cup {[nth |-> s[q].pushed, blob |-> b, at |-> now - 1]},
      lastWrite |-> now,
      pushed |-> s[q].pushed + 1]]

\* Store::write, once its size checks have passed.
Written(s, q, b, now) ==
  [s EXCEPT ![q] =
     [registration |-> s[q].registration,
      blobs |-> s[q].blobs \cup {[nth |-> s[q].pushed, blob |-> b, at |-> now]},
      lastWrite |-> now,
      pushed |-> s[q].pushed + 1]]

\* Store::read: the first of the Vec, which stays where it is.
Oldest(s, q) == CHOOSE e \in s[q].blobs : \A f \in s[q].blobs : e.nth <= f.nth

\* A plausible slip: what read() handed out taken, whatever was named.
DeletedOldest(s, q, b) ==
  [s EXCEPT ![q].blobs = {e \in @ : \E f \in s[q].blobs : f.nth < e.nth}]

\* Store::delete: retain() drops every entry with that name.
Deleted(s, q, b) == [s EXCEPT ![q].blobs = {e \in @ : e.blob # b}]

\* A plausible slip: an idle queue kept no longer than a blob.
ExpiredWithBlobs(s, now) ==
  [q \in {x \in DOMAIN s : s[x].lastWrite + BlobLife >= now} |->
     [s[q] EXCEPT !.blobs = {e \in @ : e.at + BlobLife >= now}]]

\* Store::expire: blobs first, then the queues nobody wrote to.
Expired(s, now) ==
  [q \in {x \in DOMAIN s : s[x].lastWrite + QueueLife >= now} |->
     [s[q] EXCEPT !.blobs = {e \in @ : e.at + BlobLife >= now}]]
=============================================================================
