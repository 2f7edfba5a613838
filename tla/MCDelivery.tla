----------------------------- MODULE MCDelivery -----------------------------
(* Four messages and every graph on them that has the messages in          *)
(* topological order; naming them differently gives the others.            *)
EXTENDS Delivery, Integers

MCMessage == 1..4

\* A message names its dependencies when it is written: graphs are acyclic.
MCGraphs ==
  {g \in [MCMessage -> SUBSET MCMessage] : \A m \in MCMessage : g[m] \subseteq 1..(m - 1)}
=============================================================================
