------------------------------ MODULE MCRelay ------------------------------
(* One queue, two threads; in the main instance two parties want to register it. *)
EXTENDS RelayMailbox, TLC

CONSTANTS q1, kw, kr, small, large, huge

MCRegistration == {[write |-> kw, read |-> kr], [write |-> kr, read |-> kr]}

MCOneRegistration == {[write |-> kw, read |-> kr]}

\* Two small blobs leave no room for a large one in a queue of three.
MCSize == [b \in Blob |-> CASE b = small -> 1 [] b = large -> 2 [] b = huge -> 3]

\* The threads run the same code and nothing orders the challenges.
MCSymmetry == Permutations(Conn) \cup Permutations(Challenge)

\* No step of the daemon reads a reply that is on its way or the connection a
\* challenge was handed out on, so states that differ in these are one.
MCView ==
  <<store, challenges, clock, starts, accepted,
    [c \in Conn |-> IF conn[c].phase = "replied" THEN [phase |-> "replied"] ELSE conn[c]],
    [ch \in DOMAIN issued |-> <<issued[ch].queue, issued[ch].right>>]>>
=============================================================================
