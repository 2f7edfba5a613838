-------------------------------- MODULE Bdf --------------------------------
(***************************************************************************)
(* The encoding under everything that is hashed or signed (crates/bdf):    *)
(* to_bytes(), and the one reader behind from_bytes() and the strict       *)
(* from_bytes_canonical().  An i64 is the tuple of its eight bytes, the    *)
(* most significant first, so that widths and signs are exact; a float is  *)
(* its eight bytes and a string the bytes of its UTF-8.                    *)
(*                                                                         *)
(* The reader's position moves through the results of its parts: each is   *)
(* Done with a value and the position after it, or Fails with an error,    *)
(* which carries no detail here.                                           *)
(***************************************************************************)
EXTENDS Integers, Sequences, SequencesExt

CONSTANT MaxNesting

-----------------------------------------------------------------------------
(* The integers of lib.rs. *)

Widths == {1, 2, 4, 8}

SignByte(byte) == IF byte >= 128 THEN 255 ELSE 0

\* The bytes cut off only repeat the sign of what is kept.
Fits(int, width) == \A k \in 1..(8 - width) : int[k] = SignByte(int[9 - width])

MinimalIntLength(int) == Min({w \in Widths : Fits(int, w)})

OfNat(n) == <<0, 0, 0, 0, 0, 0, n \div 256, n % 256>>

SignExtended(bytes) ==
  [k \in 1..(8 - Len(bytes)) |-> SignByte(bytes[1])] \o bytes

Null        == [kind |-> "Null"]
Bool(b)     == [kind |-> "Bool", bool |-> b]
Int64(i)    == [kind |-> "Int", int |-> i]
Float(f)    == [kind |-> "Float", float |-> f]
Str(s)      == [kind |-> "Str", str |-> s]
Raw(r)      == [kind |-> "Raw", raw |-> r]
List(items) == [kind |-> "List", items |-> items]
Dict(entries) == [kind |-> "Dict", entries |-> entries]
Entry(key, value) == [key |-> key, value |-> value]

\* The order of the UTF-8 bytes: a proper prefix comes first.
Before(left, right) ==
  \/ IsStrictPrefix(left, right)
  \/ \E n \in DOMAIN left \cap DOMAIN right :
       left[n] < right[n] /\ \A k \in 1..(n - 1) : left[k] = right[k]

RECURSIVE IsCanonical(_)
IsCanonical(v) ==
  CASE v.kind = "List" -> \A k \in DOMAIN v.items : IsCanonical(v.items[k])
    [] v.kind = "Dict" ->
         /\ \A k \in 1..(Len(v.entries) - 1) : Before(v.entries[k].key, v.entries[k + 1].key)
         /\ \A k \in DOMAIN v.entries : IsCanonical(v.entries[k].value)
    [] OTHER -> TRUE

-----------------------------------------------------------------------------
(* write.rs *)

End == 128  \* 0x80

WriteSized(kind, bytes) ==
  LET length == OfNat(Len(bytes))
      width == MinimalIntLength(length)
  IN  <<kind + width>> \o SubSeq(length, 9 - width, 8) \o bytes

RECURSIVE ToBytes(_)
ToBytes(v) ==
  CASE v.kind = "Null" -> <<0>>
    [] v.kind = "Bool" -> <<IF v.bool THEN 17 ELSE 16>>
    [] v.kind = "Int" ->
         LET width == MinimalIntLength(v.int)
         IN  <<32 + width>> \o SubSeq(v.int, 9 - width, 8)
    [] v.kind = "Float" -> <<56>> \o v.float
    [] v.kind = "Str" -> WriteSized(64, v.str)
    [] v.kind = "Raw" -> WriteSized(80, v.raw)
    [] v.kind = "List" ->
         <<96>> \o FlattenSeq([k \in DOMAIN v.items |-> ToBytes(v.items[k])]) \o <<End>>
    [] v.kind = "Dict" ->
         <<112>> \o FlattenSeq([k \in DOMAIN v.entries |->
                                  WriteSized(64, v.entries[k].key) \o ToBytes(v.entries[k].value)])
           \o <<End>>

-----------------------------------------------------------------------------
(* read.rs *)

Done(value, pos) == [value |-> value, pos |-> pos]
Fail(error) == [error |-> error]
Failed(result) == "error" \in DOMAIN result
Then(result, Rest(_, _)) == IF Failed(result) THEN result ELSE Rest(result.value, result.pos)

\* String::from_utf8, for bytes that hold no lead byte of a longer character.
IsUtf8(bytes) == \A k \in DOMAIN bytes : bytes[k] < 128

\* Reader::take: count is an i64 that is not negative, however large.
Take(rd, pos, count) ==
  LET small == count[7] * 256 + count[8]
      available == Len(rd.input) - pos + 1
  IN  IF (\E k \in 1..6 : count[k] # 0) \/ small > available
        THEN Fail("LengthBeyondInput")
        ELSE Done(SubSeq(rd.input, pos, pos + small - 1), pos + small)

Signed(rd, pos, width) ==
  IF width \notin Widths THEN Fail("InvalidIntLength")
  ELSE IF pos + width - 1 > Len(rd.input) THEN Fail("Truncated")
  ELSE Done(SignExtended(SubSeq(rd.input, pos, pos + width - 1)), pos + width)

Length(rd, pos, width) ==
  IF width \notin Widths THEN Fail("InvalidLengthOfLength")
  ELSE Then(Signed(rd, pos, width), LAMBDA int, next :
         CASE rd.strict /\ MinimalIntLength(int) # width -> Fail("NonMinimalLength")
           [] int[1] >= 128 -> Fail("NegativeLength")
           [] OTHER -> Done(int, next))

Sized(rd, pos, width) ==
  Then(Length(rd, pos, width), LAMBDA count, next : Take(rd, next, count))

\* A plausible slip: a container that the input may end as well.
EndsOrRunsOut(rd, pos) == pos > Len(rd.input) \/ rd.input[pos] = End

\* peek() == Some(END)
Ends(rd, pos) == pos <= Len(rd.input) /\ rd.input[pos] = End

\* What a strict reader says of a key after the one before it.
KeyVerdict(rd, entries, key) ==
  CASE ~rd.strict \/ entries = <<>> -> "InOrder"
    [] rd.strict /\ entries # <<>> /\ key = Last(entries).key -> "DuplicateKey"
    [] rd.strict /\ entries # <<>> /\ Before(key, Last(entries).key) -> "KeysOutOfOrder"
    [] OTHER -> "InOrder"

RECURSIVE Value(_, _, _), Items(_, _, _, _), Entries(_, _, _, _)
Value(rd, pos, depth) ==
  IF pos > Len(rd.input) THEN Fail("Truncated")
  ELSE
    LET header == rd.input[pos]
        kind == header \div 16
        low == header % 16
        next == pos + 1
    IN
    CASE kind = 0 /\ low = 0 -> Done(Null, next)
      [] kind = 1 /\ low <= 1 -> Done(Bool(low = 1), next)
      [] kind = 2 ->
           Then(Signed(rd, next, low), LAMBDA int, p :
             IF rd.strict /\ MinimalIntLength(int) # low
               THEN Fail("NonMinimalInteger") ELSE Done(Int64(int), p))
      [] kind = 3 /\ low # 8 -> Fail("InvalidFloatLength")
      [] kind = 3 /\ low = 8 ->
           Then(Take(rd, next, OfNat(8)), LAMBDA bytes, p : Done(Float(bytes), p))
      [] kind = 4 ->
           Then(Sized(rd, next, low), LAMBDA bytes, p :
             IF IsUtf8(bytes) THEN Done(Str(bytes), p) ELSE Fail("InvalidUtf8"))
      [] kind = 5 -> Then(Sized(rd, next, low), LAMBDA bytes, p : Done(Raw(bytes), p))
      [] kind \in {6, 7} /\ low = 0 /\ depth + 1 > MaxNesting -> Fail("TooDeeplyNested")
      [] kind = 6 /\ low = 0 /\ depth + 1 <= MaxNesting -> Items(rd, next, depth + 1, <<>>)
      [] kind = 7 /\ low = 0 /\ depth + 1 <= MaxNesting -> Entries(rd, next, depth + 1, <<>>)
      [] kind = 8 -> Fail("UnexpectedEnd")
      [] OTHER -> Fail("UnknownType")

Items(rd, pos, depth, items) ==
  IF Ends(rd, pos) THEN Done(List(items), pos + 1)
  ELSE Then(Value(rd, pos, depth), LAMBDA v, p : Items(rd, p, depth, Append(items, v)))

Entries(rd, pos, depth, entries) ==
  IF Ends(rd, pos) THEN Done(Dict(entries), pos + 1)
  ELSE Then(Value(rd, pos, depth), LAMBDA key, p :
         IF key.kind # "Str" THEN Fail("KeyNotAString")
         ELSE IF KeyVerdict(rd, entries, key.str) # "InOrder"
           THEN Fail(KeyVerdict(rd, entries, key.str))
           ELSE Then(Value(rd, p, depth), LAMBDA v, q :
                  Entries(rd, q, depth, Append(entries, Entry(key.str, v)))))

\* read_one()
ReadOne(input, strict) ==
  Then(Value([input |-> input, strict |-> strict], 1, 0), LAMBDA v, pos :
    IF pos <= Len(input) THEN Fail("TrailingBytes") ELSE Done(v, pos))
=============================================================================
