------------------------------ MODULE NbtJson ------------------------------
(***************************************************************************)
(* What the jsonb mode does to a chunk: nbt_to_json on the way into the    *)
(* table, json_to_nbt on the way out (hoppermc-storage/src/nbt_json.rs,    *)
(* postgres.rs), and once more whenever a client saves what it was given.  *)
(* A row holds nothing of the one before, so one chunk is followed.        *)
(*                                                                         *)
(* A document, NBT or JSON, is a function from the path of each of its     *)
(* values to a pair <<tag, content>>: the names of the entries for a       *)
(* Compound, the length for a List, the words for the three arrays, a word *)
(* for a String and for the numbers.  What the code does to a value and    *)
(* then to all that is in it, happens here at every path at once.          *)
(***************************************************************************)
EXTENDS Integers, Sequences, FiniteSets

CONSTANTS
  Words,       \* strings, the names of entries among them, and numbers as written
  Chunks,      \* the NBT that clients write
  Fraction,    \* floats that jsonb gives back with a point, or beyond 64 bits
  NonFinite,   \* floats that JSON does not have
  None         \* no row, no chunk

VARIABLES
  written,  \* what a client writes
  row,      \* the jsonb column
  found     \* what the last load returned

vars == <<written, row, found>>

IntTags == {"Byte", "Short", "Int", "Long"}
FloatTags == {"Float", "Double"}
ArrayTags == {"ByteArray", "IntArray", "LongArray"}

\* Mutant: the three arrays share one key.
SharedKey(tag) == "__fastnbt_int_array"

Key(tag) ==
  CASE tag = "ByteArray" -> "__fastnbt_byte_array"
    [] tag = "IntArray" -> "__fastnbt_int_array"
    [] tag = "LongArray" -> "__fastnbt_long_array"

ASSUME WordsAssumption == "0" \in Words /\ \A tag \in ArrayTags : Key(tag) \in Words

Root == << >>
Field(p, name) == Append(p, <<"Field", name>>)
Item(p, k) == Append(p, <<"Item", k>>)
Parent(p) == SubSeq(p, 1, Len(p) - 1)

\* q is the path of something in the value at p.
Below(p, q) == Len(p) < Len(q) /\ \A i \in 1 .. Len(p) : p[i] = q[i]

Children(d, p) ==
  CASE d[p][1] \in {"Compound", "Object"} -> {Field(p, name) : name \in d[p][2]}
    [] d[p][1] \in {"List", "Array"} -> {Item(p, k) : k \in 1 .. d[p][2]}
    [] OTHER -> {}

Steps == ({"Field"} \X Words) \cup ({"Item"} \X Nat)

\* The paths are those of a root and of all that is in it.
IsTree(d) ==
  /\ d = [p \in DOMAIN d |-> d[p]]
  /\ DOMAIN d \subseteq Seq(Steps)
  /\ Root \in DOMAIN d
  /\ \A p \in DOMAIN d :
       /\ Children(d, p) \subseteq DOMAIN d
       /\ p # Root => Parent(p) \in DOMAIN d /\ p \in Children(d, Parent(p))

NbtNodes ==
  ({"Compound"} \X SUBSET Words) \cup ({"List"} \X Nat)
    \cup (({"String"} \cup IntTags \cup FloatTags) \X Words) \cup (ArrayTags \X Seq(Words))

IsNbt(n) == IsTree(n) /\ \A p \in DOMAIN n : n[p] \in NbtNodes

\* NBT has lists of one type of element only.
Encodable(n) ==
  \A p \in DOMAIN n : n[p][1] = "List" =>
    \A k \in 1 .. n[p][2] : n[Item(p, k)][1] = n[Item(p, 1)][1]

\* Where a chunk may say which one it is.
Coordinates ==
  {Field(base, name) : base \in {Root, Field(Root, "Level")}, name \in {"xPos", "zPos"}}

\* What a client writes is NBT, with integers for coordinates and in arrays.
ASSUME ChunksAssumption ==
  /\ \A n \in Chunks :
       /\ IsNbt(n) /\ Encodable(n)
       /\ \A p \in Coordinates \cap DOMAIN n : n[p][1] \in IntTags
       /\ \A p \in DOMAIN n :
            /\ n[p][1] \in IntTags => n[p][2] \notin Fraction
            /\ n[p][1] \in ArrayTags => \A k \in 1 .. Len(n[p][2]) : n[p][2][k] \notin Fraction
  /\ "0" \notin Fraction /\ Fraction \cap NonFinite = {}

-----------------------------------------------------------------------------
\* An array is an object with one entry.
JsonNode(tag, v) ==
  CASE tag = "Compound" -> <<"Object", v>>
    [] tag = "List" -> <<"Array", v>>
    [] tag = "String" -> <<"String", v>>
    [] tag \in IntTags -> <<"Number", v>>
    [] tag \in FloatTags -> <<"Number", IF v \in NonFinite THEN "0" ELSE v>>
    [] tag \in ArrayTags -> <<"Object", {Key(tag)}>>

\* The path of the list of numbers in the object that an array becomes.
Numbers(n, p) == Field(p, Key(n[p][1]))

nbt_to_json(n) ==
  LET arrays == {p \in DOMAIN n : n[p][1] \in ArrayTags}
      lists == {Numbers(n, p) : p \in arrays}
      numbers == UNION {{Item(Numbers(n, p), k) : k \in 1 .. Len(n[p][2])} : p \in arrays}
  IN [q \in DOMAIN n \cup lists \cup numbers |->
        IF q \in DOMAIN n THEN JsonNode(n[q][1], n[q][2])
        ELSE IF q \in lists THEN <<"Array", Len(n[Parent(q)][2])>>
        ELSE <<"Number", n[Parent(Parent(q))][2][q[Len(q)][2]]>>]

\* serde_json writes whole floats from 1e16 on with an exponent, and jsonb
\* gives them back as integers.
as_i64(num) == num \notin Fraction

\* Mutant: the narrowest type that holds the number.
NarrowNumber(num) ==
  <<IF ~ as_i64(num) THEN "Double" ELSE IF num \in {"0", "1", "-1"} THEN "Byte" ELSE "Long", num>>

\* The reader cannot know the width.
ReadNumber(num) == <<IF as_i64(num) THEN "Long" ELSE "Double", num>>

\* Mutant: any object with a special key is an array.
AnySpecial(j, p) ==
  {tag \in ArrayTags : j[p][1] = "Object" /\ Key(tag) \in j[p][2] /\ j[Field(p, Key(tag))][1] = "Array"}

\* The array that an object stands for: it has one entry, under the array's
\* key.
Special(j, p) ==
  {tag \in ArrayTags : j[p][1] = "Object" /\ j[p][2] = {Key(tag)} /\ j[Field(p, Key(tag))][1] = "Array"}

\* The integers in the JSON array at q, in their order; other elements are
\* left out.  The casts that follow change nothing that came from an array.
Elements(j, q) ==
  LET ints == {k \in 1 .. j[q][2] : j[Item(q, k)][1] = "Number" /\ as_i64(j[Item(q, k)][2])}
      Nth(k) == CHOOSE i \in ints : Cardinality({m \in ints : m <= i}) = k
  IN [k \in 1 .. Cardinality(ints) |-> j[Item(q, Nth(k))][2]]

\* Mutant: an array of integers comes back as a packed array.
PackedArray(j, p) ==
  IF Len(Elements(j, p)) = j[p][2] THEN <<"LongArray", Elements(j, p)>> ELSE <<"List", j[p][2]>>

ReadArray(j, p) == <<"List", j[p][2]>>

ReadObject(j, p) ==
  IF Special(j, p) # {}
    THEN LET array == CHOOSE tag \in Special(j, p) : TRUE
         IN <<array, Elements(j, Field(p, Key(array)))>>
    ELSE <<"Compound", j[p][2]>>

NbtNode(j, p) ==
  CASE j[p][1] = "Object" -> ReadObject(j, p)
    [] j[p][1] = "Array" -> ReadArray(j, p)
    [] j[p][1] = "String" -> j[p]
    [] j[p][1] = "Number" -> ReadNumber(j[p][2])

json_to_nbt(j) ==
  LET arrays == {p \in DOMAIN j : Special(j, p) # {}}
  IN [q \in {r \in DOMAIN j : \A p \in arrays : ~ Below(p, r)} |-> NbtNode(j, q)]

-----------------------------------------------------------------------------
Init == written \in Chunks /\ row = None /\ found = None

save_chunk ==
  /\ row = None
  /\ row' = nbt_to_json(written)
  /\ UNCHANGED <<written, found>>

load_chunk ==
  /\ row # None
  /\ found' = LET n == json_to_nbt(row) IN IF Encodable(n) THEN n ELSE None
  /\ UNCHANGED <<written, row>>

\* A client saves the chunk as it was given it.
Rewrite ==
  /\ found # None
  /\ row' = nbt_to_json(found)
  /\ UNCHANGED <<written, found>>

Next == save_chunk \/ load_chunk \/ Rewrite

Spec == Init /\ [][Next]_vars

-----------------------------------------------------------------------------
(* Properties. *)

\* Where a chunk says it is, as verify_chunk_coords reads it: in the root or,
\* in older chunks, under Level.
Position(n) ==
  LET At(p) == <<n[Field(p, "xPos")][2], n[Field(p, "zPos")][2]>>
      Has(p) == n[p][1] = "Compound" /\ {"xPos", "zPos"} \subseteq n[p][2]
      Level == Field(Root, "Level")
  IN IF Has(Root) THEN At(Root)
       ELSE IF n[Root][1] = "Compound" /\ "Level" \in n[Root][2] /\ Has(Level) THEN At(Level)
       ELSE None

\* A compound that will look like an array.
Disguised(n) ==
  \E p \in DOMAIN n : n[p][1] = "Compound" /\ \E tag \in ArrayTags :
     n[p][2] = {Key(tag)} /\ n[Field(p, Key(tag))][1] = "List"

\* No such compound, and no float that comes back as an integer.
Ordinary(n) ==
  /\ ~ Disguised(n)
  /\ \A p \in DOMAIN n : n[p][1] \in FloatTags => n[p][2] \in Fraction

\* m is n with every number widened to 64 bits.
Widened(n, m) ==
  /\ DOMAIN m = DOMAIN n
  /\ \A p \in DOMAIN n :
       m[p] = CASE n[p][1] \in IntTags -> <<"Long", n[p][2]>>
                [] n[p][1] \in FloatTags -> <<"Double", n[p][2]>>
                [] OTHER -> n[p]

\* However often an ordinary chunk goes through the table, what comes back is
\* what was written but for the width of its numbers: arrays stay arrays of
\* their kind, and lists stay lists.
OnlyWidens == found # None /\ Ordinary(written) => Widened(written, found)

\* A row can be read again: the elements of a list come back as one type.
\* Floats that JSON does not have or jsonb writes without a point can break
\* that, as 0.5 and NaN in one list do.
RowsReadable == row # None /\ Ordinary(written) => Encodable(json_to_nbt(row))

\* Whatever else a chunk holds, it is taken for the same chunk when it comes
\* back, so read_at does not discard it.
PositionSurvives == found # None => Position(found) = Position(written)

\* The first trip through the table loses all there is to lose: a chunk that is
\* saved as it was loaded changes its row no more, whatever its floats became;
\* unless it has a compound that looks like an array, which comes back as one.
Settles == [][row # None /\ ~ Disguised(written) => row' = row]_vars
=============================================================================
