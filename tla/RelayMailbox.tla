---------------------------- MODULE RelayMailbox ----------------------------
(***************************************************************************)
(* The relay as a Mailbox: the store without its dates of last writes, and *)
(* the connections without their stamps and without the challenges their   *)
(* proofs are over.                                                        *)
(***************************************************************************)
EXTENDS Relay

BoxOf(s) ==
  [q \in DOMAIN s |->
     [keys |-> s[q].registration, posts |-> s[q].blobs, put |-> s[q].pushed]]

AskedOf(r) ==
  CASE r.kind = "Register" -> r
    [] r.kind \in {"Write", "Delete"} ->
         [kind |-> r.kind, queue |-> r.queue, by |-> r.proof.key, blob |-> r.blob]
    [] r.kind = "Read" -> [kind |-> "Read", queue |-> r.queue, by |-> r.proof.key]
    [] OTHER -> [kind |-> "Other"]

ToldOf(reply) ==
  IF reply.kind = "Blob" THEN reply ELSE [kind |-> reply.kind]

CallOf(cs) ==
  CASE cs.phase = "answering" -> [phase |-> "asked", what |-> AskedOf(cs.request)]
    [] cs.phase = "replied" -> [phase |-> "told", what |-> ToldOf(cs.reply)]
    [] OTHER -> [phase |-> "idle"]

Promise == INSTANCE Mailbox WITH
             box <- BoxOf(store),
             call <- [c \in Conn |-> CallOf(conn[c])],
             now <- clock

(* The daemon, with its racing threads, late stamps, challenges and        *)
(* restarts, does nothing a Mailbox may not do: an "Ok" was done, a blob   *)
(* handed out was the oldest, a queue keeps its keys, and nothing leaves a *)
(* queue but what is due or was deleted by the holder of its read key      *)
(* (handle() in api.rs over Store in store.rs).                            *)
ImplementsMailbox == Promise!Spec
=============================================================================
