--------------------------- MODULE RetentionPolicy ---------------------------
(***************************************************************************)
(* A retention policy as every member of a group sees it (Retention::encode *)
(* and decode in crates/sync/src/retention.rs): a dictionary with a kind   *)
(* and, for two of the three, a number that fits a u32.                    *)
(***************************************************************************)
EXTENDS Bdf

-----------------------------------------------------------------------------
KindKey == <<107>>    \* "k"
NumberKey == <<110>>  \* "n"

\* One character stands for the name of a kind.
KindName == [All |-> <<97>>, Count |-> <<99>>, Age |-> <<103>>]

All == [kind |-> "All"]
Numbered(kind, number) == [kind |-> kind, number |-> number]

Malformed == [kind |-> "Malformed"]

\* number is an i64 made from a u32, or read as one.
IsU32(int) == \A k \in 1..4 : int[k] = 0

EncodePolicy(policy) ==
  LET kind == Entry(KindKey, Str(KindName[policy.kind]))
  IN  ToBytes(Dict(IF policy.kind = "All" THEN <<kind>>
                   ELSE <<kind, Entry(NumberKey, Int64(policy.number))>>))

\* The values of a key: one, for a strict reader, or none.
ValuesOf(fields, key) == {fields[k].value : k \in {j \in DOMAIN fields : fields[j].key = key}}

\* The fields are exactly those the kind has.
DecodePolicy(bytes) ==
  LET read == ReadOne(bytes, TRUE)
      fields == read.value.entries
      kinds == {v \in ValuesOf(fields, KindKey) : v.kind = "Str"}
      numbers == {v \in ValuesOf(fields, NumberKey) : v.kind = "Int" /\ IsU32(v.int)}
      known(kind) == kinds = {Str(KindName[kind])}
  IN  IF Failed(read) THEN Malformed
      ELSE IF read.value.kind # "Dict" THEN Malformed
      ELSE IF known("All") /\ Len(fields) = 1 THEN All
      ELSE IF \E kind \in {"Count", "Age"} : known(kind) /\ Len(fields) = 2 /\ numbers # {}
        THEN Numbered(CHOOSE kind \in {"Count", "Age"} : known(kind),
                      (CHOOSE v \in numbers : TRUE).int)
      ELSE Malformed
=============================================================================
