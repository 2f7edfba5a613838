----------------------------- MODULE DeviceSets -----------------------------
(***************************************************************************)
(* What an identity's device set is to its contacts, without certificates, *)
(* revocations, signatures or messages.  An owner goes through one device  *)
(* set after the other.  A device follows the sets of its contact, at its  *)
(* own pace and never backwards, and takes up only with a device of the    *)
(* set it goes by.  It may skip sets, and may take up with a device that   *)
(* has been removed, as long as it has not got to where it was.            *)
(***************************************************************************)
EXTENDS Integers, Sequences

CONSTANTS Identities, Device, IdentityOf, ContactOf,
          FirstSet,  \* the devices in the first set of their identity
          Nobody

VARIABLES sets,     \* the device sets of an identity so far, in their order
          removed,  \* the devices that are never to be in a set again
          goesBy,   \* which set of its contact a device goes by: 0 is none yet
          told,     \* the devices it was told are removed
          company,  \* whom it is meeting
          met       \* whom it has met, in order

ownerVars == <<removed, sets>>
contactVars == <<goesBy, told, company, met>>
vars == <<ownerVars, contactVars>>

-----------------------------------------------------------------------------
Init ==
  /\ sets = [i \in Identities |-> << {x \in FirstSet : IdentityOf[x] = i} >>]
  /\ removed = {}
  /\ goesBy = [d \in Device |-> 0]
  /\ told = [d \in Device |-> {}]
  /\ company = [d \in Device |-> Nobody]
  /\ met = [d \in Device |-> << >>]

\* Into the set there is, or into a new one that starts with it.
Admit(x) ==
  LET i == IdentityOf[x] IN
  /\ UNCHANGED <<removed, contactVars>>
  /\ x \notin removed
  /\ \/ sets' = [sets EXCEPT ![i][Len(sets[i])] = @ \cup {x}]
     \/ sets' = [sets EXCEPT ![i] = Append(@, {x})]

\* For good: a new set begins, and who is still wanted has to be admitted to it.
Remove(x) ==
  LET i == IdentityOf[x] IN
  /\ UNCHANGED contactVars
  /\ \E e \in DOMAIN sets[i] : x \in sets[i][e]
  /\ sets' = [sets EXCEPT ![i] = Append(@, {})]
  /\ removed' = removed \cup {x}

\* The sets d may go by next.
Ahead(d) == {e \in DOMAIN sets[ContactOf[d]] : goesBy[d] <= e}

Follow(d) ==
  /\ UNCHANGED <<told, company, met>>
  /\ \E e \in Ahead(d) : goesBy' = [goesBy EXCEPT ![d] = e]
  /\ UNCHANGED ownerVars

\* d is told that x is gone: it goes by a set from which on no set has x, and
\* leaves x at once.
BeTold(d, x) ==
  LET theirs == sets[ContactOf[d]] IN
  /\ told' = [told EXCEPT ![d] = @ \cup {x}]
  /\ x \in removed
  /\ \E e \in Ahead(d) :
       /\ \A f \in DOMAIN theirs : e <= f => x \notin theirs[f]
       /\ goesBy' = [goesBy EXCEPT ![d] = e]
  /\ company' = [company EXCEPT ![d] = IF @ = x THEN Nobody ELSE @]
  /\ UNCHANGED <<met, ownerVars>>

TakeUp(d, x) ==
  /\ company' = [company EXCEPT ![d] = x]
  /\ \E e \in Ahead(d) :
       /\ x \in sets[ContactOf[d]][e]
       /\ goesBy' = [goesBy EXCEPT ![d] = e]
  /\ UNCHANGED <<told, met, ownerVars>>

LetGo(d) ==
  /\ company' = [company EXCEPT ![d] = Nobody]
  /\ UNCHANGED <<goesBy, told, met, ownerVars>>

Meet(d) ==
  /\ company[d] # Nobody
  /\ met' = [met EXCEPT ![d] = Append(@, company[d])]
  /\ company' = [company EXCEPT ![d] = Nobody]
  /\ UNCHANGED <<goesBy, told, ownerVars>>

Next ==
  \/ \E d \in Device :
       \/ Follow(d) \/ LetGo(d) \/ Meet(d)
       \/ \E x \in Device : TakeUp(d, x) \/ BeTold(d, x)
  \/ \E x \in Device : Admit(x) \/ Remove(x)

Spec == Init /\ [][Next]_vars
=============================================================================
