------------------------------ MODULE Mailbox ------------------------------
(***************************************************************************)
(* What a relay promises the clients of its queues, without its threads,   *)
(* its lock, its challenges and its late clocks.  A client asks, and is    *)
(* told the answer in the very step in which what it asked for is done:    *)
(* "Ok" and a blob are never said of something that did not happen.        *)
(*                                                                         *)
(* A box forgets a post only when the post is due, whatever stamp that was *)
(* decided on, and may be closed only when everything in it is due.        *)
(***************************************************************************)
EXTENDS Integers, FiniteSets, FiniteSetsExt

CONSTANTS Queue, Key, Registration, Blob, Size, MaxQueueLen,
          BlobLife,  \* how long a post is kept, asked for or not
          Lag,       \* how far a post's date may trail the clock
          Conn       \* who asks

VARIABLES box,   \* the open boxes: their keys, their posts and how many were put
          call,  \* what each asked and has not been told, or was told last
          now

vars == <<box, call, now>>

-----------------------------------------------------------------------------
Asking ==
  [kind : {"Register"}, queue : Queue, registration : Registration]
    \cup [kind : {"Write", "Delete"}, queue : Queue, by : Key, blob : Blob]
    \cup [kind : {"Read"}, queue : Queue, by : Key]
    \cup [kind : {"Other"}]

Asked(c, kind) == call[c].phase = "asked" /\ call[c].what.kind = kind

Told(c, what) == call' = [call EXCEPT ![c] = [phase |-> "told", what |-> what]]

Due(p) == p.at + BlobLife < now

Posts == UNION {box[q].posts : q \in DOMAIN box}

\* The boxes without the posts that are gone and the boxes that are closed.
Without(gone, closed) ==
  [q \in DOMAIN box \ closed |-> [box[q] EXCEPT !.posts = @ \ gone]]

\* What may be left of the boxes when a request is answered.
Kept ==
  {Without(gone, closed) :
     gone \in SUBSET {p \in Posts : Due(p)},
     closed \in SUBSET {q \in DOMAIN box : \A p \in box[q].posts : Due(p)}}

Weight(posts) == MapThenSumSet(LAMBDA p : Size[p.blob], posts)

First(posts) == CHOOSE p \in posts : \A r \in posts : p.nth <= r.nth

-----------------------------------------------------------------------------
Ask(c) ==
  /\ call[c].phase = "idle"
  /\ \E what \in Asking : call' = [call EXCEPT ![c] = [phase |-> "asked", what |-> what]]
  /\ UNCHANGED <<box, now>>

\* An open box keeps its keys.
Open(c) ==
  LET r == call[c].what IN
  /\ Asked(c, "Register")
  /\ \E kept \in Kept :
       box' = IF r.queue \in DOMAIN kept THEN kept
              ELSE [q \in DOMAIN kept \cup {r.queue} |->
                      IF q \in DOMAIN kept THEN kept[q]
                      ELSE [keys |-> r.registration, posts |-> {}, put |-> 0]]
  /\ Told(c, [kind |-> "Ok"])
  /\ UNCHANGED now

Put(c) ==
  LET r == call[c].what
      q == r.queue
  IN
  /\ Asked(c, "Write")
  /\ \E kept \in Kept, at \in {t \in 0..now : now <= t + Lag} :
       /\ q \in DOMAIN kept
       /\ r.by = kept[q].keys.write
       /\ Weight(kept[q].posts) + Size[r.blob] <= MaxQueueLen
       /\ box' = [kept EXCEPT ![q] =
            [keys |-> kept[q].keys,
             posts |-> kept[q].posts \cup {[nth |-> kept[q].put, blob |-> r.blob, at |-> at]},
             put |-> kept[q].put + 1]]
  /\ Told(c, [kind |-> "Ok"])
  /\ UNCHANGED now

\* The post that was put first, which stays.
Read(c) ==
  LET r == call[c].what
      q == r.queue
  IN
  /\ Asked(c, "Read")
  /\ \E kept \in Kept :
       /\ q \in DOMAIN kept
       /\ r.by = kept[q].keys.read
       /\ kept[q].posts # {}
       /\ box' = kept
       /\ Told(c, [kind |-> "Blob", blob |-> First(kept[q].posts).blob])
  /\ UNCHANGED now

Take(c) ==
  LET r == call[c].what
      q == r.queue
  IN
  /\ Asked(c, "Delete")
  /\ \E kept \in Kept :
       /\ q \in DOMAIN kept
       /\ r.by = kept[q].keys.read
       /\ box' = [kept EXCEPT ![q].posts = {p \in @ : p.blob # r.blob}]
  /\ Told(c, [kind |-> "Ok"])
  /\ UNCHANGED now

\* Anything may be turned down, and then nothing was done.
Decline(c) ==
  /\ call[c].phase = "asked"
  /\ box' \in Kept
  /\ \E kind \in {"Empty", "Challenge", "Refused"} : Told(c, [kind |-> kind])
  /\ UNCHANGED now

Settle(c) ==
  /\ call[c].phase = "told"
  /\ call' = [call EXCEPT ![c] = [phase |-> "idle"]]
  /\ UNCHANGED <<box, now>>

\* The process ends, and everything it held with it.
Wipe ==
  /\ box' = [q \in {} |-> {}]
  /\ call' = [c \in Conn |-> [phase |-> "idle"]]
  /\ UNCHANGED now

Pass == now' = now + 1 /\ UNCHANGED <<box, call>>

-----------------------------------------------------------------------------
Init ==
  /\ box = [q \in {} |-> {}]
  /\ call = [c \in Conn |-> [phase |-> "idle"]]
  /\ now = 0

Next ==
  \/ \E c \in Conn :
       Ask(c) \/ Open(c) \/ Put(c) \/ Read(c) \/ Take(c) \/ Decline(c) \/ Settle(c)
  \/ Wipe
  \/ Pass

Spec == Init /\ [][Next]_vars
=============================================================================
