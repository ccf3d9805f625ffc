--------------------------- MODULE NbtJsonProofs ---------------------------
(***************************************************************************)
(* What survives the jsonb column, for documents of every size and depth.  *)
(***************************************************************************)
EXTENDS NbtJson, SequenceTheorems, FiniteSetTheorems, WellFoundedInduction, TLAPS

-----------------------------------------------------------------------------
(* Paths. *)

\* A path and one step more: the step is the last, and the path is the parent.
LEMMA Longer ==
  ASSUME NEW p \in Seq(Steps), NEW x \in Steps
  PROVE  /\ Append(p, x) \in Seq(Steps) /\ Append(p, x) # Root
         /\ Len(p) \in Nat /\ Len(Append(p, x)) = Len(p) + 1
         /\ Append(p, x)[Len(Append(p, x))] = x
         /\ \A i \in 1 .. Len(p) : Append(p, x)[i] = p[i]
         /\ Parent(Append(p, x)) = p
<1> DEFINE q == Append(p, x)
           r == Parent(q)
<1>1. /\ q \in Seq(Steps) /\ q # Root /\ Len(q) = Len(p) + 1
      /\ \A i \in 1 .. Len(p) : q[i] = p[i]
      /\ q[Len(p) + 1] = x
      /\ Len(p) \in Nat
  BY AppendProperties, LenProperties DEF Root
<1>2. r \in Seq(Steps) /\ Len(r) = Len(p) /\ \A i \in 1 .. Len(p) : r[i] = q[i]
  <2> HIDE DEF q
  <2>1. Len(q) - 1 = Len(p) /\ 1 \in 1 .. Len(q) + 1 /\ Len(q) - 1 \in 1 - 1 .. Len(q)
    BY <1>1
  <2>2. /\ SubSeq(q, 1, Len(p)) \in Seq(Steps)
        /\ Len(SubSeq(q, 1, Len(p))) = Len(p)
        /\ \A i \in 1 .. Len(p) : SubSeq(q, 1, Len(p))[i] = q[i]
    BY <1>1, <2>1, SubSeqProperties
  <2> QED BY <2>1, <2>2 DEF Parent
<1> HIDE DEF q, r
<1>3. r = p
  BY <1>1, <1>2, SeqEqual
<1> QED BY <1>1, <1>3 DEF q, r

\* The path of a field of an object or of a compound.
LEMMA FieldStep ==
  ASSUME NEW p \in Seq(Steps), NEW name \in Words
  PROVE  /\ Field(p, name) \in Seq(Steps) /\ Field(p, name) # Root
         /\ Len(p) \in Nat /\ Len(Field(p, name)) = Len(p) + 1
         /\ Field(p, name)[Len(Field(p, name))] = <<"Field", name>>
         /\ Parent(Field(p, name)) = p
<1>1. <<"Field", name>> \in Steps
  BY DEF Steps
<1> QED BY <1>1, Longer DEF Field

\* The path of an item of an array or of a list.
LEMMA ItemStep ==
  ASSUME NEW p \in Seq(Steps), NEW k \in Nat
  PROVE  /\ Item(p, k) \in Seq(Steps) /\ Item(p, k) # Root
         /\ Len(p) \in Nat /\ Len(Item(p, k)) = Len(p) + 1
         /\ Item(p, k)[Len(Item(p, k))] = <<"Item", k>>
         /\ Parent(Item(p, k)) = p
<1>1. <<"Item", k>> \in Steps
  BY DEF Steps
<1> QED BY <1>1, Longer DEF Item

\* What is below a child is below the parent, or the child itself.
LEMMA BelowStep ==
  ASSUME NEW p \in Seq(Steps), NEW q \in Seq(Steps), NEW x \in Steps
  PROVE  Below(p, Append(q, x)) <=> p = q \/ Below(p, q)
<1> DEFINE c == Append(q, x)
<1>1. Len(p) \in Nat /\ Len(q) \in Nat /\ Len(c) = Len(q) + 1
      /\ \A i \in 1 .. Len(q) : c[i] = q[i]
  BY Longer, LenProperties
<1> HIDE DEF c
<1>2. ASSUME Below(p, c), Len(p) = Len(q)
      PROVE  p = q
  <2>1. \A i \in 1 .. Len(p) : p[i] = q[i]
    BY <1>1, <1>2 DEF Below
  <2> QED BY <1>2, <2>1, SeqEqual
<1>3. ASSUME Below(p, c), Len(p) # Len(q)
      PROVE  Below(p, q)
  BY <1>1, <1>3 DEF Below
<1>4. p = q => Below(p, c)
  BY <1>1 DEF Below
<1>5. Below(p, q) => Below(p, c)
  BY <1>1 DEF Below
<1> QED BY <1>2, <1>3, <1>4, <1>5 DEF c

\* The root is below no path.
LEMMA NothingAboveRoot ==
  ASSUME NEW p \in Seq(Steps)
  PROVE  ~ Below(p, Root)
BY LenProperties DEF Below, Root

-----------------------------------------------------------------------------
(* The elements of a list that are integers, and their order. *)

\* A set of numbers that is not empty has a least one.
LEMMA LeastNumber ==
  ASSUME NEW S, S \subseteq Nat, S # {}
  PROVE  \E m \in S : \A k \in S : m <= k
<1> DEFINE R == OpToRel(<, Nat)
<1>1. IsWellFoundedOn(R, Nat)
  BY NatLessThanWellFounded
<1>2. \A k, l \in Nat : k < l => <<k, l>> \in R
  BY DEF OpToRel
<1> HIDE DEF R
<1>3. PICK m \in S : \A k \in S : ~ (<<k, m>> \in R)
  BY <1>1, WFMin
<1>4. ASSUME NEW k \in S PROVE m <= k
  <2>1. k \in Nat /\ m \in Nat /\ ~ (<<k, m>> \in R)
    BY <1>3
  <2>2. ~ (k < m)
    BY <1>2, <2>1
  <2> QED BY <2>1, <2>2
<1> QED BY <1>4

\* Counting upwards, one comes to every number of elements.
LEMMA NthExists ==
  ASSUME NEW n \in Nat, NEW ints \in SUBSET (1 .. n), NEW k \in 1 .. Cardinality(ints)
  PROVE  \E i \in ints : Cardinality({m \in ints : m <= i}) = k
<1> DEFINE Upto(i) == {m \in ints : m <= i}
           T == {i \in 0 .. n : Cardinality(Upto(i)) >= k}
<1>1. ASSUME NEW i \in 0 .. n
      PROVE  IsFiniteSet(Upto(i)) /\ Cardinality(Upto(i)) \in Nat
  <2>1. IsFiniteSet(1 .. n)
    BY FS_Interval
  <2>2. Upto(i) \in SUBSET (1 .. n)
    OBVIOUS
  <2> HIDE DEF Upto
  <2> QED BY <2>1, <2>2, FS_Subset, FS_CardinalityType
<1>2. Upto(n) = ints /\ Upto(0) = {}
  <2>1. \A m \in ints : m <= n /\ ~ (m <= 0)
    OBVIOUS
  <2> QED BY <2>1
<1>3. k \in Nat /\ k > 0 /\ k <= Cardinality(ints)
  <2>1. Cardinality(ints) \in Nat
    BY <1>1, <1>2
  <2> QED BY <2>1
<1>4. Cardinality(Upto(0)) = 0
  BY <1>2, FS_EmptySet
<1>5. n \in T
  <2>1. Cardinality(Upto(n)) >= k
    <3>1. Cardinality(ints) >= k /\ Upto(n) = ints
      BY <1>1, <1>2, <1>3
    <3> HIDE DEF Upto
    <3> QED BY <3>1
  <2> QED BY <2>1
<1>6. PICK i \in T : \A l \in T : i <= l
  <2>1. T # {}
    BY <1>5
  <2> HIDE DEF Upto
  <2>2. T \subseteq Nat
    OBVIOUS
  <2> HIDE DEF T
  <2> QED BY <2>1, <2>2, LeastNumber
<1>7. i \in 0 .. n /\ Cardinality(Upto(i)) >= k /\ i # 0
  BY <1>3, <1>4
<1>8. i - 1 \in 0 .. n /\ ~ (Cardinality(Upto(i - 1)) >= k)
  <2>1. i - 1 \in 0 .. n /\ ~ (i <= i - 1)
    BY <1>7
  <2>2. i - 1 \notin T
    BY <1>6, <2>1
  <2> QED BY <2>1, <2>2
<1>9. i \in ints
  <2> SUFFICES ASSUME i \notin ints PROVE FALSE
    OBVIOUS
  <2>1. \A m \in ints : m <= i <=> m <= i - 1
    BY <1>7
  <2>2. Upto(i) = Upto(i - 1)
    BY <2>1
  <2> HIDE DEF Upto
  <2> QED BY <1>7, <1>8, <2>2
<1>10. Cardinality(Upto(i)) = Cardinality(Upto(i - 1)) + 1
  <2>1. Upto(i) = Upto(i - 1) \cup {i} /\ i \notin Upto(i - 1)
    <3>1. \A m \in ints : m <= i <=> m <= i - 1 \/ m = i
      BY <1>7
    <3>2. i \in ints /\ i <= i /\ ~ (i <= i - 1)
      BY <1>7, <1>9
    <3> QED BY <3>1, <3>2
  <2> HIDE DEF Upto
  <2> QED BY <1>1, <1>8, <2>1, FS_AddElement
<1>11. Cardinality(Upto(i)) = k
  <2>1. Cardinality(Upto(i)) \in Nat /\ Cardinality(Upto(i - 1)) \in Nat
    BY <1>1, <1>7, <1>8
  <2> HIDE DEF Upto
  <2> QED BY <1>3, <1>7, <1>8, <1>10, <2>1
<1> QED BY <1>9, <1>11

\* When all are integers the k-th of them is the k-th element.
LEMMA NthOfAll ==
  ASSUME NEW n \in Nat, NEW k \in 1 .. n
  PROVE  (CHOOSE i \in 1 .. n : Cardinality({m \in 1 .. n : m <= i}) = k) = k
<1>1. ASSUME NEW i \in 1 .. n
      PROVE  Cardinality({m \in 1 .. n : m <= i}) = i
  <2>1. {m \in 1 .. n : m <= i} = 1 .. i
    OBVIOUS
  <2>2. Cardinality(1 .. i) = i
    <3>1. i \in Int /\ 1 \in Int /\ ~ (1 > i)
      OBVIOUS
    <3>2. Cardinality(1 .. i) = i - 1 + 1
      BY <3>1, FS_Interval
    <3> QED BY <3>1, <3>2
  <2> QED BY <2>1, <2>2
<1>2. \E i \in 1 .. n : Cardinality({m \in 1 .. n : m <= i}) = k
  BY <1>1
<1> QED BY <1>1, <1>2

-----------------------------------------------------------------------------
(* The nodes of a document. *)

JsonNodes ==
  ({"Object"} \X SUBSET Words) \cup ({"Array"} \X Nat) \cup ({"String", "Number"} \X Words)

IsJson(j) == IsTree(j) /\ \A p \in DOMAIN j : j[p] \in JsonNodes

NbtTags == {"Compound", "List", "String"} \cup IntTags \cup FloatTags \cup ArrayTags

\* An NBT node is its tag and what the tag asks for.
LEMMA NbtNodeShape ==
  ASSUME NEW node \in NbtNodes
  PROVE  /\ node[1] \in NbtTags /\ node = <<node[1], node[2]>>
         /\ node[1] = "Compound" => node[2] \in SUBSET Words
         /\ node[1] = "List" => node[2] \in Nat
         /\ node[1] \in ArrayTags => node[2] \in Seq(Words)
         /\ node[1] \in {"String"} \cup IntTags \cup FloatTags => node[2] \in Words
<1>1. CASE node \in {"Compound"} \X SUBSET Words
  BY <1>1 DEF NbtTags, IntTags, FloatTags, ArrayTags
<1>2. CASE node \in {"List"} \X Nat
  BY <1>2 DEF NbtTags, IntTags, FloatTags, ArrayTags
<1>3. CASE node \in ({"String"} \cup IntTags \cup FloatTags) \X Words
  BY <1>3 DEF NbtTags, IntTags, FloatTags, ArrayTags
<1>4. CASE node \in ArrayTags \X Seq(Words)
  BY <1>4 DEF NbtTags, IntTags, FloatTags, ArrayTags
<1> QED BY <1>1, <1>2, <1>3, <1>4 DEF NbtNodes

\* A JSON node is its kind and what the kind asks for.
LEMMA JsonNodeShape ==
  ASSUME NEW node \in JsonNodes
  PROVE  /\ node[1] \in {"Object", "Array", "String", "Number"} /\ node = <<node[1], node[2]>>
         /\ node[1] = "Object" => node[2] \in SUBSET Words
         /\ node[1] = "Array" => node[2] \in Nat
         /\ node[1] \in {"String", "Number"} => node[2] \in Words
BY DEF JsonNodes

\* The integers of a JSON array are a sequence of words.
LEMMA ElementsAreWords ==
  ASSUME NEW j, IsJson(j), NEW q \in DOMAIN j, j[q][1] = "Array"
  PROVE  Elements(j, q) \in Seq(Words)
<1> DEFINE n == j[q][2]
           ints == {k \in 1 .. n : j[Item(q, k)][1] = "Number" /\ as_i64(j[Item(q, k)][2])}
           Nth(k) == CHOOSE i \in ints : Cardinality({m \in ints : m <= i}) = k
           c == Cardinality(ints)
<1>1. n \in Nat
  BY JsonNodeShape DEF IsJson
<1>2. \A k \in 1 .. n : Item(q, k) \in DOMAIN j
  <2>1. {Item(q, k) : k \in 1 .. n} = Children(j, q)
    BY DEF Children
  <2> QED BY <2>1 DEF IsJson, IsTree
<1>3. ints \in SUBSET (1 .. n)
  OBVIOUS
<1>4. \A i \in ints : j[Item(q, i)][2] \in Words
  BY <1>2, JsonNodeShape DEF IsJson
<1>5. Elements(j, q) = [k \in 1 .. c |-> j[Item(q, Nth(k))][2]]
  BY DEF Elements
<1>6. c \in Nat
  <2>1. IsFiniteSet(1 .. n)
    BY <1>1, FS_Interval
  <2> HIDE DEF ints
  <2> QED BY <1>3, <2>1, FS_Subset, FS_CardinalityType
<1> HIDE DEF n, ints
<1>7. ASSUME NEW k \in 1 .. c
      PROVE  j[Item(q, Nth(k))][2] \in Words
  <2>1. \E i \in ints : Cardinality({m \in ints : m <= i}) = k
    BY <1>1, <1>3, NthExists
  <2>2. Nth(k) \in ints
    BY <2>1
  <2> QED BY <1>4, <2>2
<1> HIDE DEF c, Nth
<1>8. [k \in 1 .. c |-> j[Item(q, Nth(k))][2]] \in [1 .. c -> Words]
  BY <1>7
<1>9. [k \in 1 .. c |-> j[Item(q, Nth(k))][2]] \in Seq(Words)
  BY <1>6, <1>8, SeqDef
<1> QED BY <1>5, <1>9

\* An array of integers only is read as it stands.
LEMMA AllElements ==
  ASSUME NEW j, NEW q, NEW n \in Nat, j[q][2] = n,
         \A k \in 1 .. n : j[Item(q, k)][1] = "Number" /\ as_i64(j[Item(q, k)][2])
  PROVE  Elements(j, q) = [k \in 1 .. n |-> j[Item(q, k)][2]]
<1> DEFINE ints == {k \in 1 .. n : j[Item(q, k)][1] = "Number" /\ as_i64(j[Item(q, k)][2])}
           Nth(k) == CHOOSE i \in ints : Cardinality({m \in ints : m <= i}) = k
<1>1. Elements(j, q) = [k \in 1 .. Cardinality(ints) |-> j[Item(q, Nth(k))][2]]
  BY DEF Elements
<1>2. ints = 1 .. n
  OBVIOUS
<1>3. Cardinality(ints) = n
  <2>1. n \in Int /\ 1 \in Int /\ (1 > n => n = 0)
    OBVIOUS
  <2>2. Cardinality(1 .. n) = IF 1 > n THEN 0 ELSE n - 1 + 1
    BY <2>1, FS_Interval
  <2>3. Cardinality(1 .. n) = n
    BY <2>1, <2>2
  <2> QED BY <1>2, <2>3
<1>4. ASSUME NEW k \in 1 .. n
      PROVE  Nth(k) = k
  <2> HIDE DEF ints
  <2>1. (CHOOSE i \in 1 .. n : Cardinality({m \in 1 .. n : m <= i}) = k) = k
    BY NthOfAll
  <2> QED BY <1>2, <2>1
<1> HIDE DEF ints, Nth
<1> QED BY <1>1, <1>3, <1>4

\* No tag is of two groups, and no tag is a kind of JSON.
LEMMA TagsApart ==
  /\ "Compound" \notin ArrayTags /\ "List" \notin ArrayTags /\ "String" \notin ArrayTags
  /\ IntTags \cap ArrayTags = {} /\ FloatTags \cap ArrayTags = {} /\ IntTags \cap FloatTags = {}
  /\ {"Compound", "List", "String"} \cap (IntTags \cup FloatTags) = {}
  /\ {"Object", "Array", "Number"} \cap NbtTags = {}
BY DEF IntTags, FloatTags, ArrayTags, NbtTags

\* The special key of an array tells the array's type, and is no coordinate's
\* name nor Level.
LEMMA Keys ==
  ASSUME NEW tag \in ArrayTags
  PROVE  /\ Key(tag) \in Words /\ Key(tag) \notin {"xPos", "zPos", "Level"}
         /\ \A other \in ArrayTags : Key(other) = Key(tag) => other = tag
<1>1. Key("ByteArray") = "__fastnbt_byte_array"
  BY DEF Key
<1>2. Key("IntArray") = "__fastnbt_int_array"
  BY DEF Key
<1>3. Key("LongArray") = "__fastnbt_long_array"
  BY DEF Key
<1>4. \A t \in ArrayTags : t = "ByteArray" \/ t = "IntArray" \/ t = "LongArray"
  BY DEF ArrayTags
<1>5. Key(tag) \in Words
  BY WordsAssumption
<1>7. Key(tag) \notin {"xPos", "zPos", "Level"}
  BY <1>1, <1>2, <1>3, <1>4
<1>6. ASSUME NEW other \in ArrayTags, Key(other) = Key(tag)
      PROVE  other = tag
  BY <1>1, <1>2, <1>3, <1>4, <1>6
<1> QED BY <1>5, <1>6, <1>7

\* What is in an array has paths of its own.
LEMMA NumbersApart ==
  ASSUME NEW n, IsNbt(n), NEW p \in DOMAIN n, n[p][1] \in ArrayTags
  PROVE  /\ p \in Seq(Steps) /\ Len(n[p][2]) \in Nat
         /\ Numbers(n, p) = Append(p, <<"Field", Key(n[p][1])>>)
         /\ Numbers(n, p) \in Seq(Steps) \ DOMAIN n
         /\ Numbers(n, p) # Root /\ Parent(Numbers(n, p)) = p
         /\ Numbers(n, p)[Len(Numbers(n, p))] = <<"Field", Key(n[p][1])>>
         /\ \A k \in Nat :
              LET i == Item(Numbers(n, p), k)
              IN i \in Seq(Steps) \ DOMAIN n /\ i # Root /\ Parent(i) = Numbers(n, p) /\ i[Len(i)] = <<"Item", k>>
<1> DEFINE l == Numbers(n, p)
<1>1. p \in Seq(Steps) /\ Len(n[p][2]) \in Nat
  BY NbtNodeShape, LenProperties DEF IsNbt, IsTree
<1>2. l = Append(p, <<"Field", Key(n[p][1])>>) /\ l = Field(p, Key(n[p][1]))
  BY DEF Numbers, Field
<1>3. /\ l \in Seq(Steps) /\ l # Root /\ Parent(l) = p
      /\ l[Len(l)] = <<"Field", Key(n[p][1])>>
  BY <1>1, <1>2, Keys, FieldStep
<1> HIDE DEF l
<1>4. Children(n, p) = {}
  BY TagsApart DEF Children, ArrayTags
<1>5. l \notin DOMAIN n
  BY <1>3, <1>4 DEF IsNbt, IsTree
<1>6. ASSUME NEW k \in Nat
      PROVE  LET i == Item(l, k)
             IN i \in Seq(Steps) \ DOMAIN n /\ i # Root /\ Parent(i) = l /\ i[Len(i)] = <<"Item", k>>
  <2> DEFINE i == Item(l, k)
  <2>1. i \in Seq(Steps) /\ i # Root /\ Parent(i) = l /\ i[Len(i)] = <<"Item", k>>
    BY <1>3, ItemStep
  <2> HIDE DEF i
  <2>2. i \notin DOMAIN n
    BY <1>5, <2>1 DEF IsNbt, IsTree
  <2> QED BY <2>1, <2>2 DEF i
<1> QED BY <1>1, <1>2, <1>3, <1>5, <1>6 DEF l

\* The paths of the JSON document: those of the NBT, of the lists of numbers
\* in its arrays, and of the numbers.
ListPaths(n) == {Numbers(n, p) : p \in {r \in DOMAIN n : n[r][1] \in ArrayTags}}

\* The paths of a row: those of the chunk, and for an array of numbers its key
\* and the numbers below it.
LEMMA WrittenPaths ==
  ASSUME NEW n, IsNbt(n)
  PROVE  /\ DOMAIN n \subseteq DOMAIN nbt_to_json(n)
         /\ \A p \in DOMAIN n : n[p][1] \in ArrayTags =>
              /\ Numbers(n, p) \in DOMAIN nbt_to_json(n)
              /\ \A k \in 1 .. Len(n[p][2]) : Item(Numbers(n, p), k) \in DOMAIN nbt_to_json(n)
         /\ \A q \in DOMAIN nbt_to_json(n) :
              \/ q \in DOMAIN n
              \/ \E p \in DOMAIN n : n[p][1] \in ArrayTags /\ q = Numbers(n, p)
              \/ \E p \in DOMAIN n : n[p][1] \in ArrayTags
                   /\ \E k \in 1 .. Len(n[p][2]) : q = Item(Numbers(n, p), k)
<1> DEFINE arrays == {p \in DOMAIN n : n[p][1] \in ArrayTags}
           lists == {Numbers(n, p) : p \in arrays}
           numbers == UNION {{Item(Numbers(n, p), k) : k \in 1 .. Len(n[p][2])} : p \in arrays}
<1>1. DOMAIN nbt_to_json(n) = DOMAIN n \cup lists \cup numbers
  BY DEF nbt_to_json
<1>2. \A q : q \in lists <=> \E p \in DOMAIN n : n[p][1] \in ArrayTags /\ q = Numbers(n, p)
  OBVIOUS
<1>3. \A q : q \in numbers <=>
        \E p \in DOMAIN n : n[p][1] \in ArrayTags
          /\ \E k \in 1 .. Len(n[p][2]) : q = Item(Numbers(n, p), k)
  OBVIOUS
<1> HIDE DEF lists, numbers
<1> QED BY <1>1, <1>2, <1>3

\* The nodes of a row, on each of these paths.
LEMMA WrittenNodes ==
  ASSUME NEW n, IsNbt(n)
  PROVE  /\ \A p \in DOMAIN n : nbt_to_json(n)[p] = JsonNode(n[p][1], n[p][2])
         /\ \A p \in DOMAIN n : n[p][1] \in ArrayTags =>
              /\ nbt_to_json(n)[Numbers(n, p)] = <<"Array", Len(n[p][2])>>
              /\ \A k \in 1 .. Len(n[p][2]) :
                   nbt_to_json(n)[Item(Numbers(n, p), k)] = <<"Number", n[p][2][k]>>
<1> DEFINE arrays == {p \in DOMAIN n : n[p][1] \in ArrayTags}
           lists == {Numbers(n, p) : p \in arrays}
           J == nbt_to_json(n)
<1>1. ASSUME NEW q \in DOMAIN J
      PROVE  J[q] = IF q \in DOMAIN n THEN JsonNode(n[q][1], n[q][2])
                    ELSE IF q \in lists THEN <<"Array", Len(n[Parent(q)][2])>>
                    ELSE <<"Number", n[Parent(Parent(q))][2][q[Len(q)][2]]>>
  BY <1>1 DEF nbt_to_json
<1> HIDE DEF J
<1>2. ASSUME NEW p \in DOMAIN n
      PROVE  J[p] = JsonNode(n[p][1], n[p][2])
  BY <1>1, <1>2, WrittenPaths DEF J
<1>3. ASSUME NEW p \in DOMAIN n, n[p][1] \in ArrayTags
      PROVE  J[Numbers(n, p)] = <<"Array", Len(n[p][2])>>
  <2>1. Numbers(n, p) \in DOMAIN J /\ Numbers(n, p) \in lists
    BY <1>3, WrittenPaths DEF J
  <2>2. Numbers(n, p) \notin DOMAIN n /\ Parent(Numbers(n, p)) = p
    BY <1>3, NumbersApart
  <2> HIDE DEF lists
  <2> QED BY <1>1, <2>1, <2>2
<1>4. ASSUME NEW p \in DOMAIN n, n[p][1] \in ArrayTags, NEW k \in 1 .. Len(n[p][2])
      PROVE  J[Item(Numbers(n, p), k)] = <<"Number", n[p][2][k]>>
  <2> DEFINE q == Item(Numbers(n, p), k)
  <2>1. q \in DOMAIN J
    BY <1>4, WrittenPaths DEF J
  <2>2. Len(n[p][2]) \in Nat /\ k \in Nat /\ Parent(Numbers(n, p)) = p
    BY <1>4, NumbersApart
  <2>3. q \notin DOMAIN n /\ Parent(q) = Numbers(n, p) /\ q[Len(q)] = <<"Item", k>>
    <3>1. \A m \in Nat :
            LET i == Item(Numbers(n, p), m)
            IN i \in Seq(Steps) \ DOMAIN n /\ i # Root /\ Parent(i) = Numbers(n, p) /\ i[Len(i)] = <<"Item", m>>
      BY <1>4, NumbersApart
    <3> QED BY <2>2, <3>1
  <2> HIDE DEF q
  <2>4. q \notin lists
    <3>1. \A r \in arrays : Numbers(n, r)[Len(Numbers(n, r))] = <<"Field", Key(n[r][1])>>
      BY NumbersApart
    <3> QED BY <2>3, <3>1
  <2> HIDE DEF lists
  <2>5. J[q] = <<"Number", n[Parent(Parent(q))][2][q[Len(q)][2]]>>
    BY <1>1, <2>1, <2>3, <2>4
  <2>6. q[Len(q)][2] = k /\ Parent(Parent(q)) = p
    BY <2>2, <2>3
  <2> QED BY <2>5, <2>6 DEF q
<1> QED BY <1>2, <1>3, <1>4 DEF J

\* What each tag is written as.
LEMMA WrittenTags ==
  ASSUME NEW v
  PROVE  /\ JsonNode("Compound", v) = <<"Object", v>>
         /\ JsonNode("List", v) = <<"Array", v>>
         /\ JsonNode("String", v) = <<"String", v>>
         /\ \A tag \in IntTags : JsonNode(tag, v) = <<"Number", v>>
         /\ \A tag \in FloatTags : JsonNode(tag, v) = <<"Number", IF v \in NonFinite THEN "0" ELSE v>>
         /\ \A tag \in ArrayTags : JsonNode(tag, v) = <<"Object", {Key(tag)}>>
BY DEF JsonNode, IntTags, FloatTags, ArrayTags

\* Only a list is written as an array, and only a compound or an array of
\* numbers as an object.
LEMMA WrittenKinds ==
  ASSUME NEW tag \in NbtTags, NEW v
  PROVE  /\ JsonNode(tag, v)[1] = "Array" => tag = "List"
         /\ JsonNode(tag, v)[1] = "Object" => tag \in ArrayTags \cup {"Compound"}
<1>1. CASE tag = "Compound"
  BY <1>1, WrittenTags
<1>2. CASE tag = "List"
  BY <1>2, WrittenTags
<1>3. CASE tag = "String"
  BY <1>3, WrittenTags
<1>4. CASE tag \in IntTags
  <2>1. JsonNode(tag, v) = <<"Number", v>>
    BY <1>4, WrittenTags
  <2> QED BY <2>1
<1>5. CASE tag \in FloatTags
  <2>1. JsonNode(tag, v) = <<"Number", IF v \in NonFinite THEN "0" ELSE v>>
    BY <1>5, WrittenTags
  <2> QED BY <2>1
<1>6. CASE tag \in ArrayTags
  BY <1>6, WrittenTags
<1> QED BY <1>1, <1>2, <1>3, <1>4, <1>5, <1>6 DEF NbtTags

\* Compounds and objects have fields, lists and arrays have items, and nothing
\* else has children.
LEMMA ChildrenByTag ==
  ASSUME NEW d, NEW p
  PROVE  /\ d[p][1] \in {"Compound", "Object"} => Children(d, p) = {Field(p, name) : name \in d[p][2]}
         /\ d[p][1] \in {"List", "Array"} => Children(d, p) = {Item(p, k) : k \in 1 .. d[p][2]}
         /\ d[p][1] \notin {"Compound", "Object", "List", "Array"} => Children(d, p) = {}
BY DEF Children

\* What nbt_to_json makes of a document is a document.
LEMMA WrittenIsJson ==
  ASSUME NEW n, IsNbt(n)
  PROVE  IsJson(nbt_to_json(n))
<1> DEFINE J == nbt_to_json(n)
           Arr(p) == p \in DOMAIN n /\ n[p][1] \in ArrayTags
<1>1. J = [p \in DOMAIN J |-> J[p]]
  BY DEF nbt_to_json
<1>2. /\ DOMAIN n \subseteq DOMAIN J
      /\ \A q \in DOMAIN J :
           \/ q \in DOMAIN n
           \/ \E p : Arr(p) /\ q = Numbers(n, p)
           \/ \E p : Arr(p) /\ \E k \in 1 .. Len(n[p][2]) : q = Item(Numbers(n, p), k)
  BY WrittenPaths
<1>3. ASSUME NEW p, Arr(p)
      PROVE  /\ p \in Seq(Steps) /\ Len(n[p][2]) \in Nat
             /\ Numbers(n, p) \in DOMAIN J \cap Seq(Steps) /\ Numbers(n, p) # Root
             /\ Parent(Numbers(n, p)) = p /\ Numbers(n, p) = Field(p, Key(n[p][1]))
             /\ J[Numbers(n, p)] = <<"Array", Len(n[p][2])>>
             /\ J[p] = <<"Object", {Key(n[p][1])}>>
             /\ n[p][2] \in Seq(Words)
  <2>1. /\ p \in Seq(Steps) /\ Len(n[p][2]) \in Nat
        /\ Numbers(n, p) \in Seq(Steps) /\ Numbers(n, p) # Root /\ Parent(Numbers(n, p)) = p
    BY <1>3, NumbersApart
  <2>2. Numbers(n, p) \in DOMAIN J /\ J[Numbers(n, p)] = <<"Array", Len(n[p][2])>>
    BY <1>3, WrittenPaths, WrittenNodes
  <2>3. J[p] = <<"Object", {Key(n[p][1])}>>
    <3>1. J[p] = JsonNode(n[p][1], n[p][2])
      BY <1>3, WrittenNodes
    <3>2. \A tag \in ArrayTags : JsonNode(tag, n[p][2]) = <<"Object", {Key(tag)}>>
      BY WrittenTags
    <3> QED BY <1>3, <3>1, <3>2
  <2>4. n[p][2] \in Seq(Words)
    BY <1>3, NbtNodeShape DEF IsNbt
  <2>5. Numbers(n, p) = Field(p, Key(n[p][1]))
    BY DEF Numbers
  <2> QED BY <2>1, <2>2, <2>3, <2>4, <2>5
<1>4. ASSUME NEW p, Arr(p), NEW k \in 1 .. Len(n[p][2])
      PROVE  /\ Item(Numbers(n, p), k) \in DOMAIN J \cap Seq(Steps)
             /\ Item(Numbers(n, p), k) # Root /\ Parent(Item(Numbers(n, p), k)) = Numbers(n, p)
             /\ J[Item(Numbers(n, p), k)] = <<"Number", n[p][2][k]>>
  <2>1. k \in Nat
    BY <1>3, <1>4
  <2>2. Item(Numbers(n, p), k) \in DOMAIN J /\ J[Item(Numbers(n, p), k)] = <<"Number", n[p][2][k]>>
    BY <1>4, WrittenPaths, WrittenNodes
  <2>3. Numbers(n, p) \in Seq(Steps)
    BY <1>3, <1>4
  <2> QED BY <2>1, <2>2, <2>3, ItemStep
<1>5. ASSUME NEW p \in DOMAIN n
      PROVE  n[p] \in NbtNodes /\ J[p] = JsonNode(n[p][1], n[p][2]) /\ p \in Seq(Steps) /\ Children(n, p) \subseteq DOMAIN J
  BY <1>2, <1>5, WrittenNodes DEF IsNbt, IsTree
<1>6. Root \in DOMAIN J
  BY <1>2 DEF IsNbt, IsTree
<1> HIDE DEF J
<1>7. ASSUME NEW p \in DOMAIN n
      PROVE  /\ J[p] \in JsonNodes
             /\ Children(J, p) = IF Arr(p) THEN {Numbers(n, p)} ELSE Children(n, p)
  <2> DEFINE tag == n[p][1]
             v == n[p][2]
  <2>1. /\ tag \in NbtTags
        /\ tag = "Compound" => v \in SUBSET Words
        /\ tag = "List" => v \in Nat
        /\ tag \in {"String"} \cup IntTags \cup FloatTags => v \in Words
    BY <1>5, NbtNodeShape
  <2>2. J[p] = JsonNode(tag, v)
    BY <1>5
  <2> HIDE DEF v
  <2>3. CASE tag = "Compound"
    <3>1. J[p] = <<"Object", v>>
      BY <2>2, <2>3, WrittenTags
    <3>2. Children(J, p) = {Field(p, name) : name \in v} /\ Children(n, p) = {Field(p, name) : name \in v}
      BY <2>3, <3>1, ChildrenByTag DEF v
    <3> QED BY <2>1, <2>3, <3>1, <3>2, TagsApart DEF JsonNodes
  <2>4. CASE tag = "List"
    <3>1. J[p] = <<"Array", v>>
      BY <2>2, <2>4, WrittenTags
    <3>2. Children(J, p) = {Item(p, k) : k \in 1 .. v} /\ Children(n, p) = {Item(p, k) : k \in 1 .. v}
      BY <2>4, <3>1, ChildrenByTag DEF v
    <3> QED BY <2>1, <2>4, <3>1, <3>2, TagsApart DEF JsonNodes
  <2>5. CASE tag \in ArrayTags
    <3>1. J[p] = <<"Object", {Key(tag)}>> /\ Arr(p)
      BY <2>2, <2>5, WrittenTags
    <3>2. Children(J, p) = {Field(p, Key(tag))} /\ Numbers(n, p) = Field(p, Key(tag))
      BY <3>1, ChildrenByTag DEF Numbers
    <3>3. J[p] \in JsonNodes
      BY <2>5, <3>1, Keys DEF JsonNodes
    <3> QED BY <3>1, <3>2, <3>3
  <2>6. CASE tag \in {"String"} \cup IntTags \cup FloatTags
    <3>1. J[p][1] \in {"String", "Number"} /\ J[p] \in JsonNodes
      <4>1. v \in Words /\ "0" \in Words
        BY <2>1, <2>6, WordsAssumption
      <4>2. \/ J[p] = <<"String", v>> \/ J[p] = <<"Number", v>> \/ J[p] = <<"Number", "0">>
        BY <2>2, <2>6, WrittenTags
      <4> QED BY <4>1, <4>2 DEF JsonNodes
    <3>2. Children(J, p) = {}
      BY <3>1, ChildrenByTag
    <3>3. Children(n, p) = {} /\ ~ Arr(p)
      <4>1. tag \notin {"Compound", "Object", "List", "Array"} /\ tag \notin ArrayTags
        BY <2>6 DEF IntTags, FloatTags, ArrayTags
      <4> QED BY <4>1, ChildrenByTag
    <3> QED BY <3>1, <3>2, <3>3
  <2> QED BY <2>1, <2>3, <2>4, <2>5, <2>6 DEF NbtTags
<1>8. ASSUME NEW p, Arr(p)
      PROVE  /\ J[Numbers(n, p)] \in JsonNodes
             /\ Children(J, Numbers(n, p)) = {Item(Numbers(n, p), k) : k \in 1 .. Len(n[p][2])}
  <2>1. J[Numbers(n, p)] = <<"Array", Len(n[p][2])>> /\ Len(n[p][2]) \in Nat
    BY <1>3, <1>8
  <2> QED BY <2>1, ChildrenByTag DEF JsonNodes
<1>9. ASSUME NEW p, Arr(p), NEW k \in 1 .. Len(n[p][2])
      PROVE  /\ J[Item(Numbers(n, p), k)] \in JsonNodes
             /\ Children(J, Item(Numbers(n, p), k)) = {}
  <2>1. n[p][2][k] \in Words
    BY <1>3, <1>9, ElementOfSeq
  <2>2. J[Item(Numbers(n, p), k)] = <<"Number", n[p][2][k]>>
    BY <1>4, <1>9
  <2> QED BY <2>1, <2>2, ChildrenByTag DEF JsonNodes
<1> DEFINE Fits(q) == /\ q \in Seq(Steps) /\ J[q] \in JsonNodes
                      /\ Children(J, q) \subseteq DOMAIN J
                      /\ q # Root => Parent(q) \in DOMAIN J /\ q \in Children(J, Parent(q))
<1>10. ASSUME NEW q \in DOMAIN J
       PROVE  Fits(q)
  <2>1. CASE q \in DOMAIN n
    <3>1. /\ q \in Seq(Steps) /\ J[q] \in JsonNodes
      BY <1>5, <1>7, <2>1
    <3>2. Children(J, q) \subseteq DOMAIN J
      BY <1>3, <1>5, <1>7, <2>1
    <3>3. ASSUME q # Root
          PROVE  Parent(q) \in DOMAIN J /\ q \in Children(J, Parent(q))
      <4>1. Parent(q) \in DOMAIN n /\ q \in Children(n, Parent(q))
        BY <2>1, <3>3 DEF IsNbt, IsTree
      <4>2. ~ Arr(Parent(q))
        <5>1. ASSUME Arr(Parent(q)) PROVE Children(n, Parent(q)) = {}
          <6>1. n[Parent(q)][1] \notin {"Compound", "Object", "List", "Array"}
            BY <5>1 DEF ArrayTags
          <6> QED BY <6>1, ChildrenByTag
        <5> QED BY <4>1, <5>1
      <4> QED BY <1>2, <1>7, <4>1, <4>2
    <3> QED BY <3>1, <3>2, <3>3
  <2>2. ASSUME NEW p, Arr(p), q = Numbers(n, p)
        PROVE  Fits(q)
    <3>1. p \in DOMAIN n /\ Children(J, p) = {q} /\ Parent(q) = p
      BY <1>3, <1>7, <2>2
    <3>2. Children(J, q) \subseteq DOMAIN J
      BY <1>4, <1>8, <2>2
    <3> QED BY <1>2, <1>3, <1>8, <2>2, <3>1, <3>2
  <2>3. ASSUME NEW p, Arr(p), NEW k \in 1 .. Len(n[p][2]), q = Item(Numbers(n, p), k)
        PROVE  Fits(q)
    <3>1. Parent(q) = Numbers(n, p) /\ q \in Children(J, Parent(q)) /\ Parent(q) \in DOMAIN J
      BY <1>3, <1>4, <1>8, <2>3
    <3> QED BY <1>4, <1>9, <2>3, <3>1
  <2> QED BY <1>2, <2>1, <2>2, <2>3
<1> QED BY <1>1, <1>6, <1>10 DEF IsJson, IsTree, J

-----------------------------------------------------------------------------
(* Reading. *)

\* The paths of what is read: nothing below an object that is an array.
LEMMA ReadPaths ==
  ASSUME NEW j
  PROVE  /\ DOMAIN json_to_nbt(j) \subseteq DOMAIN j
         /\ \A q \in DOMAIN j :
              q \in DOMAIN json_to_nbt(j) <=> \A p \in DOMAIN j : Special(j, p) # {} => ~ Below(p, q)
         /\ \A q \in DOMAIN json_to_nbt(j) : json_to_nbt(j)[q] = NbtNode(j, q)
         /\ json_to_nbt(j) = [q \in DOMAIN json_to_nbt(j) |-> json_to_nbt(j)[q]]
<1> DEFINE arrays == {p \in DOMAIN j : Special(j, p) # {}}
           kept == {r \in DOMAIN j : \A p \in arrays : ~ Below(p, r)}
<1>1. json_to_nbt(j) = [q \in kept |-> NbtNode(j, q)]
  BY DEF json_to_nbt
<1>2. /\ kept \subseteq DOMAIN j
      /\ \A q \in DOMAIN j : q \in kept <=> \A p \in DOMAIN j : Special(j, p) # {} => ~ Below(p, q)
  OBVIOUS
<1> HIDE DEF kept
<1> QED BY <1>1, <1>2

\* A child is read unless its parent is an array.
LEMMA ReadChild ==
  ASSUME NEW j, IsTree(j), NEW p \in DOMAIN j, NEW x \in Steps, Append(p, x) \in DOMAIN j
  PROVE  Append(p, x) \in DOMAIN json_to_nbt(j) <=> p \in DOMAIN json_to_nbt(j) /\ Special(j, p) = {}
<1>1. DOMAIN j \subseteq Seq(Steps)
  BY DEF IsTree
<1>2. \A r \in DOMAIN j : Below(r, Append(p, x)) <=> r = p \/ Below(r, p)
  BY <1>1, BelowStep
<1> QED BY <1>2, ReadPaths

\* What is read of a row has a root.
LEMMA RootIsRead ==
  ASSUME NEW j, IsTree(j)
  PROVE  Root \in DOMAIN json_to_nbt(j)
BY ReadPaths, NothingAboveRoot DEF IsTree

\* What each kind of JSON is read as.
LEMMA ReadTags ==
  ASSUME NEW j, NEW p
  PROVE  /\ j[p][1] = "Object" /\ Special(j, p) = {} => NbtNode(j, p) = <<"Compound", j[p][2]>>
         /\ j[p][1] = "Object" /\ Special(j, p) # {} =>
              \E tag \in Special(j, p) : NbtNode(j, p) = <<tag, Elements(j, Field(p, Key(tag)))>>
         /\ j[p][1] = "Array" => NbtNode(j, p) = <<"List", j[p][2]>>
         /\ j[p][1] = "String" => NbtNode(j, p) = j[p]
         /\ j[p][1] = "Number" => NbtNode(j, p) = ReadNumber(j[p][2])
         /\ j[p][1] # "Object" => Special(j, p) = {}
<1>1. j[p][1] = "Object" => NbtNode(j, p) = ReadObject(j, p)
  BY DEF NbtNode
<1>2. Special(j, p) # {} => (CHOOSE tag \in Special(j, p) : TRUE) \in Special(j, p)
  OBVIOUS
<1>3. Special(j, p) # {} =>
        \E tag \in Special(j, p) : ReadObject(j, p) = <<tag, Elements(j, Field(p, Key(tag)))>>
  BY <1>2 DEF ReadObject
<1>4. Special(j, p) = {} => ReadObject(j, p) = <<"Compound", j[p][2]>>
  BY DEF ReadObject
<1>5. /\ j[p][1] = "Array" => NbtNode(j, p) = <<"List", j[p][2]>>
      /\ j[p][1] = "String" => NbtNode(j, p) = j[p]
      /\ j[p][1] = "Number" => NbtNode(j, p) = ReadNumber(j[p][2])
  BY DEF NbtNode, ReadArray
<1>6. j[p][1] # "Object" => Special(j, p) = {}
  BY DEF Special
<1> QED BY <1>1, <1>3, <1>4, <1>5, <1>6

\* A child is one step away.
LEMMA ChildIsStep ==
  ASSUME NEW j, NEW p, j[p] \in JsonNodes, NEW c \in Children(j, p)
  PROVE  \E x \in Steps : c = Append(p, x)
<1>1. CASE j[p][1] = "Object"
  <2>1. PICK name \in j[p][2] : c = Field(p, name)
    BY <1>1, ChildrenByTag
  <2>2. name \in Words
    BY <1>1, JsonNodeShape
  <2>3. <<"Field", name>> \in Steps
    BY <2>2 DEF Steps
  <2> QED BY <2>1, <2>3 DEF Field
<1>2. CASE j[p][1] = "Array"
  <2>1. PICK k \in 1 .. j[p][2] : c = Item(p, k)
    BY <1>2, ChildrenByTag
  <2>2. k \in Nat
    BY <1>2, JsonNodeShape
  <2>3. <<"Item", k>> \in Steps
    BY <2>2 DEF Steps
  <2> QED BY <2>1, <2>3 DEF Item
<1>3. CASE j[p][1] \notin {"Object", "Array"}
  <2>1. j[p][1] \in {"String", "Number"}
    BY <1>3, JsonNodeShape
  <2>2. Children(j, p) = {}
    BY <2>1, ChildrenByTag
  <2> QED BY <2>2
<1> QED BY <1>1, <1>2, <1>3

\* What json_to_nbt makes of a document is a document.
LEMMA ReadIsNbt ==
  ASSUME NEW j, IsJson(j)
  PROVE  IsNbt(json_to_nbt(j))
<1> DEFINE m == json_to_nbt(j)
<1>1. IsTree(j) /\ DOMAIN j \subseteq Seq(Steps) /\ \A p \in DOMAIN j : j[p] \in JsonNodes
  BY DEF IsJson, IsTree
<1>2. DOMAIN m \subseteq DOMAIN j /\ \A p \in DOMAIN m : m[p] = NbtNode(j, p)
  BY ReadPaths
<1>3. Root \in DOMAIN m /\ m = [q \in DOMAIN m |-> m[q]]
  BY <1>1, RootIsRead, ReadPaths
<1> HIDE DEF m
<1>4. ASSUME NEW p \in DOMAIN m
      PROVE  /\ m[p] \in NbtNodes
             /\ Children(m, p) = IF Special(j, p) = {} THEN Children(j, p) ELSE {}
  <2>1. /\ j[p][1] \in {"Object", "Array", "String", "Number"}
        /\ j[p][1] = "Object" => j[p][2] \in SUBSET Words
        /\ j[p][1] = "Array" => j[p][2] \in Nat
        /\ j[p][1] \in {"String", "Number"} => j[p][2] \in Words
        /\ j[p] = <<j[p][1], j[p][2]>>
    BY <1>1, <1>2, JsonNodeShape
  <2>2. m[p] = NbtNode(j, p) /\ p \in DOMAIN j
    BY <1>2
  <2>3. CASE j[p][1] = "Object" /\ Special(j, p) = {}
    <3>1. m[p] = <<"Compound", j[p][2]>>
      BY <2>2, <2>3, ReadTags
    <3>2. m[p] \in NbtNodes
      BY <2>1, <2>3, <3>1 DEF NbtNodes
    <3>3. Children(m, p) = {Field(p, name) : name \in j[p][2]} /\ Children(j, p) = {Field(p, name) : name \in j[p][2]}
      BY <2>3, <3>1, ChildrenByTag
    <3> QED BY <2>3, <3>2, <3>3
  <2>4. CASE j[p][1] = "Object" /\ Special(j, p) # {}
    <3>1. PICK tag \in Special(j, p) : m[p] = <<tag, Elements(j, Field(p, Key(tag)))>>
      BY <2>2, <2>4, ReadTags
    <3>2. tag \in ArrayTags /\ j[p][2] = {Key(tag)} /\ j[Field(p, Key(tag))][1] = "Array"
      BY DEF Special
    <3>3. Field(p, Key(tag)) \in DOMAIN j
      <4>1. Children(j, p) = {Field(p, Key(tag))}
        BY <2>4, <3>2, ChildrenByTag
      <4> QED BY <1>1, <2>2, <4>1 DEF IsTree
    <3>4. Elements(j, Field(p, Key(tag))) \in Seq(Words)
      BY <3>2, <3>3, ElementsAreWords
    <3>5. tag \notin {"Compound", "Object", "List", "Array"}
      BY <3>2 DEF ArrayTags
    <3> QED BY <2>4, <3>1, <3>2, <3>4, <3>5, ChildrenByTag DEF NbtNodes
  <2>5. CASE j[p][1] = "Array"
    <3>1. m[p] = <<"List", j[p][2]>> /\ Special(j, p) = {}
      BY <2>2, <2>5, ReadTags
    <3>2. m[p] \in NbtNodes
      BY <2>1, <2>5, <3>1 DEF NbtNodes
    <3>3. Children(m, p) = {Item(p, k) : k \in 1 .. j[p][2]} /\ Children(j, p) = {Item(p, k) : k \in 1 .. j[p][2]}
      BY <2>5, <3>1, ChildrenByTag
    <3> QED BY <3>1, <3>2, <3>3
  <2>6. CASE j[p][1] = "String"
    <3>1. m[p] = <<"String", j[p][2]>> /\ Special(j, p) = {}
      BY <2>1, <2>2, <2>6, ReadTags
    <3> QED BY <2>1, <2>6, <3>1, ChildrenByTag DEF NbtNodes
  <2>7. CASE j[p][1] = "Number"
    <3>1. m[p] = ReadNumber(j[p][2]) /\ Special(j, p) = {}
      BY <2>2, <2>7, ReadTags
    <3>2. m[p] = <<"Long", j[p][2]>> \/ m[p] = <<"Double", j[p][2]>>
      BY <3>1 DEF ReadNumber
    <3>3. m[p] \in NbtNodes
      BY <2>1, <2>7, <3>2 DEF NbtNodes, IntTags, FloatTags
    <3>4. Children(m, p) = {} /\ Children(j, p) = {}
      BY <2>7, <3>2, ChildrenByTag
    <3> QED BY <3>1, <3>3, <3>4
  <2> QED BY <2>1, <2>3, <2>4, <2>5, <2>6, <2>7
<1>5. ASSUME NEW p \in DOMAIN m
      PROVE  Children(m, p) \subseteq DOMAIN m
  <2> SUFFICES ASSUME Special(j, p) = {}, NEW c \in Children(j, p)
               PROVE  c \in DOMAIN m
    BY <1>4
  <2>1. p \in DOMAIN j /\ c \in DOMAIN j
    BY <1>1, <1>2 DEF IsTree
  <2>2. \E x \in Steps : c = Append(p, x)
    <3>1. j[p] \in JsonNodes
      BY <1>1, <2>1
    <3> QED BY <2>1, <3>1, ChildIsStep
  <2> QED BY <1>1, <2>1, <2>2, ReadChild DEF m
<1>6. ASSUME NEW q \in DOMAIN m, q # Root
      PROVE  Parent(q) \in DOMAIN m /\ q \in Children(m, Parent(q))
  <2> DEFINE p == Parent(q)
  <2>1. q \in DOMAIN j /\ p \in DOMAIN j /\ q \in Children(j, p)
    BY <1>1, <1>2, <1>6 DEF IsTree
  <2> HIDE DEF p
  <2>2. \E x \in Steps : q = Append(p, x)
    <3>1. j[p] \in JsonNodes
      BY <1>1, <2>1
    <3> QED BY <2>1, <3>1, ChildIsStep
  <2>3. p \in DOMAIN m /\ Special(j, p) = {}
    BY <1>1, <2>1, <2>2, ReadChild DEF m
  <2> QED BY <1>4, <2>1, <2>3 DEF p
<1> QED BY <1>1, <1>2, <1>3, <1>4, <1>5, <1>6 DEF IsNbt, IsTree, m

-----------------------------------------------------------------------------
(* There and back. *)

Back(n) == json_to_nbt(nbt_to_json(n))

\* The objects that will be read as arrays: the arrays, and the disguised
\* compounds.
LEMMA SpecialOfWritten ==
  ASSUME NEW n, IsNbt(n), NEW p \in DOMAIN n
  PROVE  /\ n[p][1] \in ArrayTags => Special(nbt_to_json(n), p) = {n[p][1]}
         /\ n[p][1] = "Compound" => \A tag \in Special(nbt_to_json(n), p) :
              tag \in ArrayTags /\ n[p][2] = {Key(tag)} /\ n[Field(p, Key(tag))][1] = "List"
         /\ n[p][1] \notin ArrayTags \cup {"Compound"} => Special(nbt_to_json(n), p) = {}
<1> DEFINE J == nbt_to_json(n)
<1>1. /\ n[p] \in NbtNodes /\ n[p][1] \in NbtTags
      /\ J[p] = JsonNode(n[p][1], n[p][2])
  BY WrittenNodes, NbtNodeShape DEF IsNbt
<1>2. ASSUME n[p][1] \in ArrayTags
      PROVE  Special(J, p) = {n[p][1]}
  <2>1. J[Field(p, Key(n[p][1]))] = <<"Array", Len(n[p][2])>>
    BY <1>2, WrittenNodes DEF Numbers
  <2> HIDE DEF J
  <2>2. J[p] = <<"Object", {Key(n[p][1])}>>
    BY <1>1, <1>2, WrittenTags
  <2>3. \A tag \in ArrayTags : {Key(n[p][1])} = {Key(tag)} => tag = n[p][1]
    BY <1>2, Keys
  <2> QED BY <1>2, <2>1, <2>2, <2>3 DEF Special
<1>3. ASSUME n[p][1] = "Compound", NEW tag \in Special(J, p)
      PROVE  tag \in ArrayTags /\ n[p][2] = {Key(tag)} /\ n[Field(p, Key(tag))][1] = "List"
  <2> DEFINE c == Field(p, Key(tag))
  <2>1. tag \in ArrayTags /\ J[p][2] = {Key(tag)} /\ J[c][1] = "Array"
    BY DEF Special
  <2>2. J[p] = <<"Object", n[p][2]>>
    BY <1>1, <1>3, WrittenTags
  <2>3. c \in DOMAIN n
    <3>1. Children(n, p) = {Field(p, name) : name \in n[p][2]}
      BY <1>3, ChildrenByTag
    <3>2. Key(tag) \in n[p][2]
      BY <2>1, <2>2
    <3>3. c \in Children(n, p)
      BY <3>1, <3>2
    <3> QED BY <3>3 DEF IsNbt, IsTree
  <2>4. n[c][1] \in NbtTags /\ J[c] = JsonNode(n[c][1], n[c][2])
    BY <2>3, WrittenNodes, NbtNodeShape DEF IsNbt
  <2> HIDE DEF J, c
  <2>5. n[c][1] = "List"
    BY <2>1, <2>4, WrittenKinds
  <2> QED BY <2>1, <2>2, <2>5 DEF c
<1>4. ASSUME n[p][1] \notin ArrayTags \cup {"Compound"}
      PROVE  Special(J, p) = {}
  <2>1. J[p][1] # "Object"
    <3> HIDE DEF J
    <3> QED BY <1>1, <1>4, WrittenKinds
  <2> QED BY <2>1, ReadTags
<1> QED BY <1>2, <1>3, <1>4 DEF J

\* Nothing is read that was not written, and what is read is of its kind.
LEMMA ReadAfterWrite ==
  ASSUME NEW n, IsNbt(n)
  PROVE  /\ DOMAIN Back(n) \subseteq DOMAIN n
         /\ Root \in DOMAIN Back(n)
         /\ \A p \in DOMAIN n, x \in Steps : Append(p, x) \in DOMAIN n =>
              (Append(p, x) \in DOMAIN Back(n)
                 <=> p \in DOMAIN Back(n) /\ Special(nbt_to_json(n), p) = {})
<1> DEFINE J == nbt_to_json(n)
<1>1. IsTree(J) /\ DOMAIN n \subseteq DOMAIN J
  BY WrittenIsJson, WrittenPaths DEF IsJson
<1>2. ASSUME NEW p \in DOMAIN n, n[p][1] \in ArrayTags
      PROVE  Numbers(n, p) \notin DOMAIN Back(n)
  <2>1. Special(J, p) # {}
    BY <1>2, SpecialOfWritten
  <2>2. Numbers(n, p) = Append(p, <<"Field", Key(n[p][1])>>) /\ Numbers(n, p) \in DOMAIN J
    BY <1>2, WrittenPaths, NumbersApart
  <2>3. <<"Field", Key(n[p][1])>> \in Steps
    BY <1>2, Keys DEF Steps
  <2> HIDE DEF J
  <2>4. Numbers(n, p) \notin DOMAIN json_to_nbt(J)
    BY <1>1, <2>1, <2>2, <2>3, ReadChild
  <2> QED BY <2>4 DEF Back, J
<1>3. ASSUME NEW p \in DOMAIN n, n[p][1] \in ArrayTags, NEW k \in 1 .. Len(n[p][2])
      PROVE  Item(Numbers(n, p), k) \notin DOMAIN Back(n)
  <2>1. Numbers(n, p) \in DOMAIN J /\ Item(Numbers(n, p), k) \in DOMAIN J
    BY <1>3, WrittenPaths
  <2>2. Len(n[p][2]) \in Nat
    BY <1>3, NumbersApart
  <2>3. <<"Item", k>> \in Steps /\ Item(Numbers(n, p), k) = Append(Numbers(n, p), <<"Item", k>>)
    BY <2>2 DEF Steps, Item
  <2>4. Numbers(n, p) \notin DOMAIN json_to_nbt(J)
    BY <1>2, <1>3 DEF Back
  <2> HIDE DEF J
  <2>5. Item(Numbers(n, p), k) \notin DOMAIN json_to_nbt(J)
    BY <1>1, <2>1, <2>3, <2>4, ReadChild
  <2> QED BY <2>5 DEF Back, J
<1>4. DOMAIN Back(n) \subseteq DOMAIN n
  <2>1. DOMAIN Back(n) \subseteq DOMAIN J
    BY ReadPaths DEF Back
  <2> QED BY <1>2, <1>3, <2>1, WrittenPaths
<1>5. ASSUME NEW p \in DOMAIN n, NEW x \in Steps, Append(p, x) \in DOMAIN n
      PROVE  Append(p, x) \in DOMAIN Back(n) <=> p \in DOMAIN Back(n) /\ Special(J, p) = {}
  <2> HIDE DEF J
  <2>1. Append(p, x) \in DOMAIN json_to_nbt(J) <=> p \in DOMAIN json_to_nbt(J) /\ Special(J, p) = {}
    BY <1>1, <1>5, ReadChild
  <2> QED BY <2>1 DEF Back, J
<1>6. Root \in DOMAIN Back(n)
  BY <1>1, RootIsRead DEF Back
<1> QED BY <1>4, <1>5, <1>6 DEF J

\* What a node is after the round trip, by its tag.
LEMMA ReadAfterWriteNodes ==
  ASSUME NEW n, IsNbt(n), NEW p \in DOMAIN Back(n)
  PROVE  /\ n[p][1] = "Compound" /\ Special(nbt_to_json(n), p) = {} => Back(n)[p] = n[p]
         /\ Back(n)[p][1] = "Compound" => Back(n)[p] = n[p] /\ Special(nbt_to_json(n), p) = {}
         /\ n[p][1] \in {"List", "String"} => Back(n)[p] = n[p]
         /\ n[p][1] \in IntTags => Back(n)[p] = ReadNumber(n[p][2])
         /\ n[p][1] \in FloatTags =>
              Back(n)[p] = ReadNumber(IF n[p][2] \in NonFinite THEN "0" ELSE n[p][2])
         /\ n[p][1] \in ArrayTags =>
              Back(n)[p] = <<n[p][1], Elements(nbt_to_json(n), Numbers(n, p))>>
<1> DEFINE J == nbt_to_json(n)
           v == n[p][2]
<1>1. /\ p \in DOMAIN n /\ n[p][1] \in NbtTags /\ n[p] = <<n[p][1], v>>
      /\ J[p] = JsonNode(n[p][1], v)
      /\ Back(n)[p] = NbtNode(J, p)
  BY ReadAfterWrite, WrittenNodes, NbtNodeShape, ReadPaths DEF IsNbt, Back
<1>2. n[p][1] \in ArrayTags => Special(J, p) = {n[p][1]}
  BY <1>1, SpecialOfWritten
<1>3. Numbers(n, p) = Field(p, Key(n[p][1]))
  BY DEF Numbers
<1> HIDE DEF J, v
<1>4. CASE n[p][1] = "Compound"
  <2>1. J[p] = <<"Object", v>>
    BY <1>1, <1>4, WrittenTags
  <2>2. Special(J, p) = {} => Back(n)[p] = <<"Compound", v>>
    BY <1>1, <2>1, ReadTags
  <2>3. Special(J, p) # {} => Back(n)[p][1] # "Compound"
    <3>1. \A tag \in Special(J, p) : tag \in ArrayTags
      BY DEF Special
    <3> QED BY <1>1, <2>1, <3>1, ReadTags, TagsApart
  <2> QED BY <1>1, <1>4, <2>2, <2>3, TagsApart DEF J
<1>5. CASE n[p][1] \in ArrayTags
  <2>1. J[p] = <<"Object", {Key(n[p][1])}>>
    BY <1>1, <1>5, WrittenTags
  <2>2. Back(n)[p] = <<n[p][1], Elements(J, Numbers(n, p))>>
    <3>1. PICK tag \in Special(J, p) : NbtNode(J, p) = <<tag, Elements(J, Field(p, Key(tag)))>>
      BY <1>2, <1>5, <2>1, ReadTags
    <3>2. tag = n[p][1]
      BY <1>2, <1>5
    <3> QED BY <1>1, <1>3, <3>1, <3>2
  <2> QED BY <1>5, <2>2, TagsApart DEF J
<1>6. CASE n[p][1] = "List"
  <2>1. J[p] = <<"Array", v>>
    BY <1>1, <1>6, WrittenTags
  <2>2. Back(n)[p] = n[p]
    BY <1>1, <1>6, <2>1, ReadTags
  <2> QED BY <1>6, <2>2, TagsApart
<1>7. CASE n[p][1] = "String"
  <2>1. J[p] = <<"String", v>>
    BY <1>1, <1>7, WrittenTags
  <2>2. Back(n)[p] = n[p]
    BY <1>1, <1>7, <2>1, ReadTags
  <2> QED BY <1>7, <2>2, TagsApart
<1>8. CASE n[p][1] \in IntTags
  <2>1. J[p] = <<"Number", v>>
    BY <1>1, <1>8, WrittenTags
  <2>2. Back(n)[p] = ReadNumber(v)
    BY <1>1, <2>1, ReadTags
  <2>3. Back(n)[p][1] # "Compound"
    BY <2>2 DEF ReadNumber
  <2> QED BY <1>8, <2>2, <2>3, TagsApart DEF v
<1>9. CASE n[p][1] \in FloatTags
  <2>1. J[p] = <<"Number", IF v \in NonFinite THEN "0" ELSE v>>
    BY <1>1, <1>9, WrittenTags
  <2>2. Back(n)[p] = ReadNumber(IF v \in NonFinite THEN "0" ELSE v)
    BY <1>1, <2>1, ReadTags
  <2>3. Back(n)[p][1] # "Compound"
    BY <2>2 DEF ReadNumber
  <2> QED BY <1>9, <2>2, <2>3, TagsApart DEF v
<1> QED BY <1>1, <1>4, <1>5, <1>6, <1>7, <1>8, <1>9 DEF NbtTags

-----------------------------------------------------------------------------
(* Where a chunk says it is. *)

\* The four paths at which a coordinate may stand.
LEMMA CoordinatesAre ==
  Coordinates = {Field(Root, "xPos"), Field(Root, "zPos"),
                 Field(Field(Root, "Level"), "xPos"), Field(Field(Root, "Level"), "zPos")}
BY DEF Coordinates

Sited(n) ==
  \A p \in Coordinates \cap DOMAIN n : n[p][1] \in IntTags /\ n[p][2] \notin Fraction

HasCoordinates(n, p) == n[p][1] = "Compound" /\ {"xPos", "zPos"} \subseteq n[p][2]

\* An entry of a compound is a child of it.
LEMMA EntryPath ==
  ASSUME NEW n, IsNbt(n), NEW p \in DOMAIN n, n[p][1] = "Compound", NEW name \in n[p][2]
  PROVE  /\ Field(p, name) \in DOMAIN n
         /\ <<"Field", name>> \in Steps /\ Field(p, name) = Append(p, <<"Field", name>>)
<1>1. Field(p, name) \in Children(n, p)
  BY ChildrenByTag
<1>2. name \in Words
  BY NbtNodeShape DEF IsNbt
<1> QED BY <1>1, <1>2 DEF IsNbt, IsTree, Steps, Field

\* An entry of an ordinary name is read: its compound is no array.
LEMMA EntryIsRead ==
  ASSUME NEW n, IsNbt(n), NEW p \in DOMAIN Back(n), n[p][1] = "Compound",
         NEW name \in n[p][2], name \in {"xPos", "zPos", "Level"}
  PROVE  Back(n)[p] = n[p] /\ Field(p, name) \in DOMAIN Back(n)
<1>1. p \in DOMAIN n
  BY ReadAfterWrite
<1>2. Special(nbt_to_json(n), p) = {}
  <2> SUFFICES ASSUME NEW tag \in Special(nbt_to_json(n), p) PROVE FALSE
    OBVIOUS
  <2>1. tag \in ArrayTags /\ n[p][2] = {Key(tag)}
    BY <1>1, SpecialOfWritten
  <2> QED BY <2>1, Keys
<1>3. Back(n)[p] = n[p]
  BY <1>2, ReadAfterWriteNodes
<1>4. Field(p, name) \in DOMAIN Back(n)
  <2>1. /\ Append(p, <<"Field", name>>) \in DOMAIN n /\ <<"Field", name>> \in Steps
        /\ Field(p, name) = Append(p, <<"Field", name>>)
    BY <1>1, EntryPath
  <2>2. Append(p, <<"Field", name>>) \in DOMAIN Back(n)
    BY <1>1, <1>2, <2>1, ReadAfterWrite
  <2> QED BY <2>1, <2>2
<1> QED BY <1>3, <1>4

\* A coordinate comes back as a long of the same value.
LEMMA CoordinateIsRead ==
  ASSUME NEW n, IsNbt(n), Sited(n), NEW c \in Coordinates \cap DOMAIN Back(n)
  PROVE  Back(n)[c] = <<"Long", n[c][2]>>
<1>1. c \in DOMAIN n
  BY ReadAfterWrite
<1>2. n[c][1] \in IntTags /\ n[c][2] \notin Fraction
  BY <1>1 DEF Sited
<1>3. Back(n)[c] = ReadNumber(n[c][2])
  BY <1>2, ReadAfterWriteNodes
<1> QED BY <1>2, <1>3 DEF ReadNumber, as_i64

\* A compound that has coordinates has the same ones after the round trip, and
\* one that has none gains none.
LEMMA HasCoordinatesKept ==
  ASSUME NEW n, IsNbt(n), Sited(n), NEW p \in {Root, Field(Root, "Level")}, p \in DOMAIN Back(n)
  PROVE  /\ HasCoordinates(Back(n), p) <=> HasCoordinates(n, p)
         /\ HasCoordinates(n, p) =>
              /\ Back(n)[Field(p, "xPos")][2] = n[Field(p, "xPos")][2]
              /\ Back(n)[Field(p, "zPos")][2] = n[Field(p, "zPos")][2]
<1>1. HasCoordinates(Back(n), p) => HasCoordinates(n, p)
  BY ReadAfterWriteNodes DEF HasCoordinates
<1>2. ASSUME HasCoordinates(n, p)
      PROVE  /\ HasCoordinates(Back(n), p)
             /\ Field(p, "xPos") \in DOMAIN Back(n) /\ Field(p, "zPos") \in DOMAIN Back(n)
  <2>1. n[p][1] = "Compound" /\ "xPos" \in n[p][2] /\ "zPos" \in n[p][2]
    BY <1>2 DEF HasCoordinates
  <2>2. Back(n)[p] = n[p] /\ Field(p, "xPos") \in DOMAIN Back(n)
    BY <2>1, EntryIsRead
  <2>3. Field(p, "zPos") \in DOMAIN Back(n)
    BY <2>1, EntryIsRead
  <2> QED BY <1>2, <2>2, <2>3 DEF HasCoordinates
<1>3. Field(p, "xPos") \in Coordinates /\ Field(p, "zPos") \in Coordinates
  BY CoordinatesAre
<1> QED BY <1>1, <1>2, <1>3, CoordinateIsRead

\* The position of a chunk survives the round trip, and so does what the
\* lemmas above ask of it.
LEMMA PositionKept ==
  ASSUME NEW n, IsNbt(n), Sited(n)
  PROVE  IsNbt(Back(n)) /\ Sited(Back(n)) /\ Position(Back(n)) = Position(n)
<1> DEFINE m == Back(n)
           L == Field(Root, "Level")
<1>1. IsNbt(m)
  BY WrittenIsJson, ReadIsNbt DEF Back
<1>2. Sited(m)
  <2>1. \A c \in Coordinates \cap DOMAIN m : m[c] = <<"Long", n[c][2]>> /\ c \in DOMAIN n
    BY CoordinateIsRead, ReadAfterWrite
  <2> HIDE DEF m
  <2> QED BY <2>1 DEF Sited, IntTags
<1>3. Root \in DOMAIN m /\ Root \in DOMAIN n
  BY ReadAfterWrite
<1>4. /\ HasCoordinates(m, Root) <=> HasCoordinates(n, Root)
      /\ HasCoordinates(n, Root) =>
           /\ m[Field(Root, "xPos")][2] = n[Field(Root, "xPos")][2]
           /\ m[Field(Root, "zPos")][2] = n[Field(Root, "zPos")][2]
  BY <1>3, HasCoordinatesKept
<1> DEFINE Old(d) == d[Root][1] = "Compound" /\ "Level" \in d[Root][2] /\ HasCoordinates(d, L)
<1>5. ASSUME NEW d
      PROVE  Position(d) =
               IF HasCoordinates(d, Root) THEN <<d[Field(Root, "xPos")][2], d[Field(Root, "zPos")][2]>>
               ELSE IF Old(d) THEN <<d[Field(L, "xPos")][2], d[Field(L, "zPos")][2]>>
               ELSE None
  BY DEF Position, HasCoordinates
<1>6. ASSUME Old(m)
      PROVE  Old(n) /\ L \in DOMAIN m
  <2>1. m[Root] = n[Root]
    BY <1>3, <1>6, ReadAfterWriteNodes
  <2>2. L \in DOMAIN m
    BY <1>3, <1>6, <2>1, EntryIsRead
  <2> QED BY <1>6, <2>1, <2>2, HasCoordinatesKept
<1>7. ASSUME Old(n)
      PROVE  Old(m) /\ L \in DOMAIN m
  <2>1. m[Root] = n[Root] /\ L \in DOMAIN m
    BY <1>3, <1>7, EntryIsRead
  <2> QED BY <1>7, <2>1, HasCoordinatesKept
<1>8. Old(n) => /\ m[Field(L, "xPos")][2] = n[Field(L, "xPos")][2]
                /\ m[Field(L, "zPos")][2] = n[Field(L, "zPos")][2]
  BY <1>7, HasCoordinatesKept
<1> HIDE DEF m, Old
<1>9. Position(m) = Position(n)
  BY <1>4, <1>5, <1>6, <1>7, <1>8
<1> QED BY <1>1, <1>2, <1>9 DEF m

-----------------------------------------------------------------------------
(* Documents without disguised compounds come back whole. *)

\* Integers, also those in arrays, are read as integers.
Integral(n) ==
  \A p \in DOMAIN n :
    /\ n[p][1] \in IntTags => n[p][2] \notin Fraction
    /\ n[p][1] \in ArrayTags => \A k \in 1 .. Len(n[p][2]) : n[p][2][k] \notin Fraction

\* In a chunk without disguised compounds only an array of numbers is written
\* with a special key.
LEMMA OnlyArraysSpecial ==
  ASSUME NEW n, IsNbt(n), ~ Disguised(n), NEW p \in DOMAIN n, n[p][1] \notin ArrayTags
  PROVE  Special(nbt_to_json(n), p) = {}
<1>1. CASE n[p][1] = "Compound"
  <2> SUFFICES ASSUME NEW tag \in Special(nbt_to_json(n), p) PROVE FALSE
    OBVIOUS
  <2>1. tag \in ArrayTags /\ n[p][2] = {Key(tag)} /\ n[Field(p, Key(tag))][1] = "List"
    BY <1>1, SpecialOfWritten
  <2> QED BY <1>1, <2>1 DEF Disguised
<1>2. CASE n[p][1] # "Compound"
  BY <1>2, SpecialOfWritten
<1> QED BY <1>1, <1>2

\* A shortest path that is not read would have a parent that is.
LEMMA AllRead ==
  ASSUME NEW n, IsNbt(n), ~ Disguised(n)
  PROVE  DOMAIN Back(n) = DOMAIN n
<1> DEFINE lost == DOMAIN n \ DOMAIN Back(n)
           lengths == {Len(p) : p \in lost}
<1>1. DOMAIN Back(n) \subseteq DOMAIN n /\ Root \in DOMAIN Back(n)
  BY ReadAfterWrite
<1>2. SUFFICES ASSUME lost # {} PROVE FALSE
  BY <1>1
<1>3. \A p \in DOMAIN n : p \in Seq(Steps) /\ Len(p) \in Nat
  BY LenProperties DEF IsNbt, IsTree
<1>4. PICK q \in lost : \A p \in lost : Len(q) <= Len(p)
  <2>1. lengths \subseteq Nat /\ lengths # {}
    BY <1>2, <1>3
  <2>2. PICK l \in lengths : \A k \in lengths : l <= k
    BY <2>1, LeastNumber
  <2> QED BY <2>2
<1>5. q \in DOMAIN n /\ q \notin DOMAIN Back(n) /\ q # Root
  BY <1>1
<1> DEFINE p == Parent(q)
<1>6. p \in DOMAIN n /\ q \in Children(n, p)
  BY <1>5 DEF IsNbt, IsTree
<1> HIDE DEF p
<1>7. PICK x \in Steps : q = Append(p, x)
  <2>1. n[p] \in NbtNodes
    BY <1>6 DEF IsNbt
  <2>2. CASE n[p][1] = "Compound"
    <3>1. PICK name \in n[p][2] : q = Field(p, name)
      BY <1>6, <2>2, ChildrenByTag
    <3> QED BY <1>6, <2>2, <3>1, EntryPath
  <2>3. CASE n[p][1] = "List"
    <3>1. PICK k \in 1 .. n[p][2] : q = Item(p, k)
      BY <1>6, <2>3, ChildrenByTag
    <3>2. k \in Nat
      BY <2>1, <2>3, NbtNodeShape
    <3>3. <<"Item", k>> \in Steps
      BY <3>2 DEF Steps
    <3> QED BY <3>1, <3>3 DEF Item
  <2>4. CASE n[p][1] \notin {"Compound", "List"}
    <3>1. n[p][1] \notin {"Compound", "Object", "List", "Array"}
      BY <2>1, <2>4, NbtNodeShape, TagsApart
    <3> QED BY <1>6, <3>1, ChildrenByTag
  <2> QED BY <2>2, <2>3, <2>4
<1>8. Len(q) = Len(p) + 1 /\ Len(p) \in Nat
  BY <1>3, <1>6, <1>7, Longer
<1>9. p \in DOMAIN Back(n)
  <2>1. ~ (Len(q) <= Len(p))
    BY <1>8
  <2> QED BY <1>4, <1>6, <2>1
<1>10. n[p][1] \notin ArrayTags
  <2>1. n[p][1] \in ArrayTags => Children(n, p) = {}
    <3>1. n[p][1] \in ArrayTags => n[p][1] \notin {"Compound", "Object", "List", "Array"}
      BY DEF ArrayTags
    <3> QED BY <3>1, ChildrenByTag
  <2> QED BY <1>6, <2>1
<1>11. Special(nbt_to_json(n), p) = {}
  BY <1>6, <1>10, OnlyArraysSpecial
<1>12. q \in DOMAIN Back(n)
  BY <1>5, <1>6, <1>7, <1>9, <1>11, ReadAfterWrite
<1> QED BY <1>5, <1>12

\* What each node comes back as.
ReadBack(node) ==
  CASE node[1] \in IntTags -> <<"Long", node[2]>>
    [] node[1] \in FloatTags -> ReadNumber(IF node[2] \in NonFinite THEN "0" ELSE node[2])
    [] OTHER -> node

\* Without disguised compounds every node comes back as ReadBack says.
LEMMA RoundTrip ==
  ASSUME NEW n, IsNbt(n), ~ Disguised(n), Integral(n), NEW p \in DOMAIN n
  PROVE  Back(n)[p] = ReadBack(n[p])
<1> DEFINE v == n[p][2]
<1>1. /\ p \in DOMAIN Back(n) /\ n[p] \in NbtNodes /\ n[p][1] \in NbtTags
      /\ n[p] = <<n[p][1], v>>
  BY AllRead, NbtNodeShape DEF IsNbt
<1>2. CASE n[p][1] \in {"Compound", "List", "String"}
  <2>1. ReadBack(n[p]) = n[p]
    BY <1>2, TagsApart DEF ReadBack
  <2>2. n[p][1] = "Compound" => Special(nbt_to_json(n), p) = {}
    BY OnlyArraysSpecial, TagsApart
  <2> QED BY <1>1, <1>2, <2>1, <2>2, ReadAfterWriteNodes
<1>3. CASE n[p][1] \in IntTags
  <2>1. Back(n)[p] = ReadNumber(v) /\ v \notin Fraction
    BY <1>1, <1>3, ReadAfterWriteNodes DEF Integral
  <2>2. ReadBack(n[p]) = <<"Long", v>>
    BY <1>3, TagsApart DEF ReadBack
  <2>3. ReadNumber(v) = <<"Long", v>>
    BY <2>1 DEF ReadNumber, as_i64
  <2> QED BY <2>1, <2>2, <2>3
<1>4. CASE n[p][1] \in FloatTags
  <2>1. n[p][1] \notin IntTags
    BY <1>4, TagsApart
  <2> QED BY <1>1, <1>4, <2>1, ReadAfterWriteNodes DEF ReadBack
<1>5. CASE n[p][1] \in ArrayTags
  <2> DEFINE J == nbt_to_json(n)
             l == Numbers(n, p)
  <2>1. Back(n)[p] = <<n[p][1], Elements(J, l)>>
    BY <1>1, <1>5, ReadAfterWriteNodes
  <2>2. J[l] = <<"Array", Len(v)>> /\ \A k \in 1 .. Len(v) : J[Item(l, k)] = <<"Number", v[k]>>
    BY <1>5, WrittenNodes
  <2>3. Len(v) \in Nat /\ v \in Seq(Words)
    BY <1>1, <1>5, NbtNodeShape, LenProperties
  <2>4. \A k \in 1 .. Len(v) : v[k] \notin Fraction
    BY <1>5 DEF Integral
  <2> HIDE DEF J, l, v
  <2>5. Elements(J, l) = [k \in 1 .. Len(v) |-> J[Item(l, k)][2]]
    <3>1. J[l][2] = Len(v)
      BY <2>2
    <3>2. \A k \in 1 .. Len(v) : J[Item(l, k)][1] = "Number" /\ as_i64(J[Item(l, k)][2])
      BY <2>2, <2>4 DEF as_i64
    <3> QED BY <2>3, <3>1, <3>2, AllElements
  <2>6. Elements(J, l) = v
    <3>1. Elements(J, l) = [k \in 1 .. Len(v) |-> v[k]]
      BY <2>2, <2>5
    <3>2. v = [k \in 1 .. Len(v) |-> v[k]]
      BY <2>3
    <3> QED BY <3>1, <3>2
  <2>7. ReadBack(n[p]) = n[p]
    BY <1>5, TagsApart DEF ReadBack
  <2> QED BY <1>1, <2>1, <2>6, <2>7
<1> QED BY <1>1, <1>2, <1>3, <1>4, <1>5 DEF NbtTags

\* What comes back of a node is written as the node was.
LEMMA ReadBackTags ==
  ASSUME NEW node \in NbtNodes
  PROVE  /\ ReadBack(node)[1] \in ArrayTags <=> node[1] \in ArrayTags
         /\ node[1] \in ArrayTags => ReadBack(node) = node
         /\ JsonNode(ReadBack(node)[1], ReadBack(node)[2]) = JsonNode(node[1], node[2])
<1>1. node[1] \in NbtTags
  BY NbtNodeShape
<1>2. CASE node[1] \in IntTags
  <2>1. ReadBack(node) = <<"Long", node[2]>>
    BY <1>2, TagsApart DEF ReadBack
  <2>2. JsonNode("Long", node[2]) = <<"Number", node[2]>> /\ JsonNode(node[1], node[2]) = <<"Number", node[2]>>
    BY <1>2, WrittenTags DEF IntTags
  <2> QED BY <1>2, <2>1, <2>2, TagsApart DEF IntTags, ArrayTags
<1>3. CASE node[1] \in FloatTags
  <2> DEFINE w == IF node[2] \in NonFinite THEN "0" ELSE node[2]
  <2>1. ReadBack(node) = ReadNumber(w) /\ node[1] \notin IntTags /\ node[1] \notin ArrayTags
    BY <1>3, TagsApart DEF ReadBack
  <2>2. JsonNode(node[1], node[2]) = <<"Number", w>>
    BY <1>3, WrittenTags
  <2>3. CASE w \in Fraction
    <3>1. ReadNumber(w) = <<"Double", w>> /\ w \notin NonFinite
      BY <2>3, ChunksAssumption DEF ReadNumber, as_i64
    <3>2. JsonNode("Double", w) = <<"Number", IF w \in NonFinite THEN "0" ELSE w>>
      BY WrittenTags DEF FloatTags
    <3> HIDE DEF w
    <3> QED BY <2>1, <2>2, <3>1, <3>2, TagsApart DEF FloatTags, ArrayTags
  <2>4. CASE w \notin Fraction
    <3>1. ReadNumber(w) = <<"Long", w>>
      BY <2>4 DEF ReadNumber, as_i64
    <3>2. JsonNode("Long", w) = <<"Number", w>>
      BY WrittenTags DEF IntTags
    <3> HIDE DEF w
    <3> QED BY <2>1, <2>2, <3>1, <3>2 DEF ArrayTags
  <2> QED BY <2>3, <2>4
<1>4. CASE node[1] \notin IntTags \cup FloatTags
  BY <1>4 DEF ReadBack
<1> QED BY <1>2, <1>3, <1>4

\* A chunk that is saved as it was loaded makes the same row.
LEMMA SameRow ==
  ASSUME NEW n, IsNbt(n), ~ Disguised(n), Integral(n)
  PROVE  nbt_to_json(Back(n)) = nbt_to_json(n)
<1> DEFINE m == Back(n)
           I == nbt_to_json(n)
           J == nbt_to_json(m)
<1>1. IsNbt(m)
  BY WrittenIsJson, ReadIsNbt DEF Back
<1>2. DOMAIN m = DOMAIN n /\ \A p \in DOMAIN n : m[p] = ReadBack(n[p]) /\ n[p] \in NbtNodes
  BY AllRead, RoundTrip DEF IsNbt
<1>3. I = [q \in DOMAIN I |-> I[q]] /\ J = [q \in DOMAIN J |-> J[q]]
  BY <1>1, WrittenIsJson DEF IsJson, IsTree
<1> HIDE DEF m
<1>4. ASSUME NEW p \in DOMAIN n
      PROVE  /\ m[p][1] \in ArrayTags <=> n[p][1] \in ArrayTags
             /\ n[p][1] \in ArrayTags => m[p] = n[p] /\ Numbers(m, p) = Numbers(n, p)
             /\ J[p] = I[p]
  <2>1. I[p] = JsonNode(n[p][1], n[p][2]) /\ J[p] = JsonNode(m[p][1], m[p][2])
    BY <1>1, <1>2, WrittenNodes
  <2> QED BY <1>2, <2>1, ReadBackTags DEF Numbers
<1>5. DOMAIN I \subseteq DOMAIN J /\ DOMAIN J \subseteq DOMAIN I
  <2>1. \A p \in DOMAIN n : n[p][1] \in ArrayTags =>
          /\ Numbers(n, p) \in DOMAIN I /\ Numbers(n, p) \in DOMAIN J
          /\ \A k \in 1 .. Len(n[p][2]) :
               Item(Numbers(n, p), k) \in DOMAIN I /\ Item(Numbers(n, p), k) \in DOMAIN J
    BY <1>1, <1>2, <1>4, WrittenPaths
  <2>2. DOMAIN n \subseteq DOMAIN I /\ DOMAIN n \subseteq DOMAIN J
    BY <1>1, <1>2, WrittenPaths
  <2>3. ASSUME NEW q \in DOMAIN I PROVE q \in DOMAIN J
    <3> HIDE DEF J
    <3> QED BY <2>1, <2>2, <2>3, WrittenPaths
  <2>4. ASSUME NEW q \in DOMAIN J PROVE q \in DOMAIN I
    <3>1. \/ q \in DOMAIN n
          \/ \E p \in DOMAIN n : n[p][1] \in ArrayTags /\ q = Numbers(n, p)
          \/ \E p \in DOMAIN n : n[p][1] \in ArrayTags
               /\ \E k \in 1 .. Len(n[p][2]) : q = Item(Numbers(n, p), k)
      BY <1>1, <1>2, <1>4, <2>4, WrittenPaths
    <3> HIDE DEF I, J
    <3> QED BY <2>1, <2>2, <3>1
  <2> QED BY <2>3, <2>4
<1>6. ASSUME NEW q \in DOMAIN I
      PROVE  I[q] = J[q]
  <2>1. CASE q \in DOMAIN n
    BY <1>4, <2>1
  <2>2. ASSUME NEW p \in DOMAIN n, n[p][1] \in ArrayTags, q = Numbers(n, p)
        PROVE  I[q] = J[q]
    <3>1. I[q] = <<"Array", Len(n[p][2])>>
      BY <2>2, WrittenNodes
    <3>2. m[p] = n[p] /\ q = Numbers(m, p) /\ p \in DOMAIN m
      BY <1>2, <1>4, <2>2
    <3>3. J[q] = <<"Array", Len(m[p][2])>>
      BY <1>1, <2>2, <3>2, WrittenNodes
    <3> QED BY <3>1, <3>2, <3>3
  <2>3. ASSUME NEW p \in DOMAIN n, n[p][1] \in ArrayTags, NEW k \in 1 .. Len(n[p][2]),
               q = Item(Numbers(n, p), k)
        PROVE  I[q] = J[q]
    <3>1. I[q] = <<"Number", n[p][2][k]>>
      BY <2>3, WrittenNodes
    <3>2. m[p] = n[p] /\ q = Item(Numbers(m, p), k) /\ p \in DOMAIN m /\ k \in 1 .. Len(m[p][2])
      BY <1>2, <1>4, <2>3
    <3>3. J[q] = <<"Number", m[p][2][k]>>
      BY <1>1, <2>3, <3>2, WrittenNodes
    <3> QED BY <3>1, <3>2, <3>3
  <2> HIDE DEF J
  <2> QED BY <1>6, <2>1, <2>2, <2>3, WrittenPaths
<1> HIDE DEF I, J
<1> QED BY <1>3, <1>5, <1>6 DEF I, J, m

-----------------------------------------------------------------------------
(* The theorems. *)

\* What a row or an answer may be, whatever was written: a document that says
\* it is the same chunk.
SameChunk(n) == IsNbt(n) /\ Sited(n) /\ Position(n) = Position(written)

PositionInv ==
  /\ written \in Chunks
  /\ row # None => \E n : SameChunk(n) /\ row = nbt_to_json(n)
  /\ found # None => SameChunk(found)

\* What the assumption on Chunks says of the chunk that is saved.
LEMMA Written ==
  ASSUME written \in Chunks
  PROVE  /\ IsNbt(written) /\ Encodable(written) /\ Sited(written) /\ Integral(written)
         /\ SameChunk(written)
<1>1. IsNbt(written) /\ Encodable(written) /\ Integral(written)
  BY ChunksAssumption DEF Integral
<1>2. Sited(written)
  BY ChunksAssumption DEF Sited
<1> QED BY <1>1, <1>2 DEF SameChunk

\* Through the table a chunk stays the chunk it says it is, whatever it holds,
\* however deep and however often: read_at does not discard it.
THEOREM AlwaysInPlace == Spec => []PositionSurvives
<1>1. Init => PositionInv
  BY DEF Init, PositionInv
<1>2. PositionInv /\ [Next]_vars => PositionInv'
  <2> SUFFICES ASSUME PositionInv, [Next]_vars PROVE PositionInv'
    OBVIOUS
  <2> USE DEF PositionInv
  <2>1. CASE save_chunk
    <3>1. row' = nbt_to_json(written) /\ SameChunk(written) /\ UNCHANGED <<written, found>>
      BY <2>1, Written DEF save_chunk
    <3> QED BY <3>1 DEF SameChunk
  <2>2. CASE load_chunk
    <3>1. PICK n : SameChunk(n) /\ row = nbt_to_json(n)
      BY <2>2 DEF load_chunk
    <3>2. SameChunk(Back(n))
      BY <3>1, PositionKept DEF SameChunk
    <3>3. UNCHANGED <<written, row>> /\ (found' = Back(n) \/ found' = None)
      BY <2>2, <3>1 DEF load_chunk, Back
    <3> QED BY <3>2, <3>3 DEF SameChunk
  <2>3. CASE Rewrite
    <3>1. row' = nbt_to_json(found) /\ SameChunk(found) /\ UNCHANGED <<written, found>>
      BY <2>3 DEF Rewrite
    <3> QED BY <3>1 DEF SameChunk
  <2>4. CASE UNCHANGED vars
    BY <2>4 DEF vars, SameChunk
  <2> QED BY <2>1, <2>2, <2>3, <2>4 DEF Next
<1>3. PositionInv => PositionSurvives
  BY DEF PositionInv, PositionSurvives, SameChunk
<1> QED BY <1>1, <1>2, <1>3, PTL DEF Spec

\* Without disguised compounds there is one row and one answer.
OneRowInv ==
  /\ written \in Chunks
  /\ ~ Disguised(written) => /\ row = None \/ row = nbt_to_json(written)
                             /\ found = None \/ found = Back(written)

\* OneRowInv is inductive.
LEMMA OneRow == Spec => []OneRowInv
<1>1. Init => OneRowInv
  BY DEF Init, OneRowInv
<1>2. OneRowInv /\ [Next]_vars => OneRowInv'
  <2> SUFFICES ASSUME OneRowInv, [Next]_vars PROVE OneRowInv'
    OBVIOUS
  <2>1. CASE save_chunk
    BY <2>1 DEF save_chunk, OneRowInv
  <2>2. CASE load_chunk
    BY <2>2 DEF load_chunk, OneRowInv, Back
  <2>3. CASE Rewrite
    <3>1. row' = nbt_to_json(found) /\ found # None /\ UNCHANGED <<written, found>>
      BY <2>3 DEF Rewrite
    <3>2. ~ Disguised(written) => nbt_to_json(Back(written)) = nbt_to_json(written)
      BY Written, SameRow DEF OneRowInv
    <3> QED BY <3>1, <3>2 DEF OneRowInv
  <2>4. CASE UNCHANGED vars
    BY <2>4 DEF vars, OneRowInv
  <2> QED BY <2>1, <2>2, <2>3, <2>4 DEF Next
<1> QED BY <1>1, <1>2, PTL DEF Spec

\* The first trip through the table loses all there is to lose: a chunk that
\* is saved as it was loaded leaves its row as it is, whatever its floats were,
\* unless a compound in it looks like an array.
THEOREM AlwaysSettles == Spec => Settles
<1>1. OneRowInv /\ [Next]_vars => [row # None /\ ~ Disguised(written) => row' = row]_vars
  <2> SUFFICES ASSUME OneRowInv, [Next]_vars, row # None, ~ Disguised(written)
               PROVE  row' = row
    OBVIOUS
  <2>1. CASE save_chunk
    BY <2>1 DEF save_chunk
  <2>2. CASE load_chunk
    BY <2>2 DEF load_chunk
  <2>3. CASE Rewrite
    <3>1. nbt_to_json(Back(written)) = nbt_to_json(written)
      BY Written, SameRow DEF OneRowInv
    <3> QED BY <2>3, <3>1 DEF Rewrite, OneRowInv
  <2>4. CASE UNCHANGED vars
    BY <2>4 DEF vars
  <2> QED BY <2>1, <2>2, <2>3, <2>4 DEF Next
<1> QED BY <1>1, OneRow, PTL DEF Spec, Settles

\* An ordinary chunk comes back with wider numbers, and otherwise as it was.
LEMMA OrdinaryNodes ==
  ASSUME NEW n, IsNbt(n), Ordinary(n), Integral(n)
  PROVE  /\ DOMAIN Back(n) = DOMAIN n
         /\ \A p \in DOMAIN n :
              Back(n)[p] = CASE n[p][1] \in IntTags -> <<"Long", n[p][2]>>
                             [] n[p][1] \in FloatTags -> <<"Double", n[p][2]>>
                             [] OTHER -> n[p]
<1>1. ~ Disguised(n)
  BY DEF Ordinary
<1>2. DOMAIN Back(n) = DOMAIN n
  BY <1>1, AllRead
<1>3. ASSUME NEW p \in DOMAIN n
      PROVE  Back(n)[p] = CASE n[p][1] \in IntTags -> <<"Long", n[p][2]>>
                            [] n[p][1] \in FloatTags -> <<"Double", n[p][2]>>
                            [] OTHER -> n[p]
  <2>1. Back(n)[p] = ReadBack(n[p])
    BY <1>1, RoundTrip
  <2>2. CASE n[p][1] \in FloatTags
    <3>1. n[p][2] \in Fraction /\ n[p][2] \notin NonFinite /\ n[p][1] \notin IntTags
      BY <2>2, ChunksAssumption, TagsApart DEF Ordinary
    <3>2. ReadBack(n[p]) = ReadNumber(n[p][2])
      BY <2>2, <3>1 DEF ReadBack
    <3>3. ReadNumber(n[p][2]) = <<"Double", n[p][2]>>
      BY <3>1 DEF ReadNumber, as_i64
    <3> QED BY <2>1, <2>2, <3>1, <3>2, <3>3
  <2>3. CASE n[p][1] \notin FloatTags
    BY <2>1, <2>3 DEF ReadBack
  <2> QED BY <2>2, <2>3
<1> QED BY <1>2, <1>3

\* However often an ordinary chunk of any depth goes through the table, what
\* comes back is what was written but for the width of its numbers.
THEOREM AlwaysOnlyWidens == Spec => []OnlyWidens
<1>1. OneRowInv => OnlyWidens
  <2> SUFFICES ASSUME OneRowInv, found # None, Ordinary(written) PROVE Widened(written, found)
    BY DEF OnlyWidens
  <2>1. found = Back(written)
    BY DEF OneRowInv, Ordinary
  <2>2. IsNbt(written) /\ Integral(written)
    BY Written DEF OneRowInv
  <2> QED BY <2>1, <2>2, OrdinaryNodes DEF Widened
<1> QED BY <1>1, OneRow, PTL

\* The row of an ordinary chunk can be given back: its lists have elements of
\* one type.
THEOREM AlwaysReadable == Spec => []RowsReadable
<1>1. OneRowInv => RowsReadable
  <2> SUFFICES ASSUME OneRowInv, row # None, Ordinary(written) PROVE Encodable(Back(written))
    BY DEF RowsReadable, OneRowInv, Ordinary, Back
  <2> DEFINE n == written
             m == Back(written)
  <2>1. IsNbt(n) /\ Integral(n) /\ Encodable(n)
    BY Written DEF OneRowInv
  <2>2. /\ DOMAIN m = DOMAIN n
        /\ \A p \in DOMAIN n :
             m[p] = CASE n[p][1] \in IntTags -> <<"Long", n[p][2]>>
                      [] n[p][1] \in FloatTags -> <<"Double", n[p][2]>>
                      [] OTHER -> n[p]
    BY <2>1, OrdinaryNodes
  <2> HIDE DEF n, m
  <2>3. ASSUME NEW p \in DOMAIN n, m[p][1] = "List"
        PROVE  n[p][1] = "List" /\ m[p][2] = n[p][2]
    BY <2>2, <2>3
  <2>4. ASSUME NEW p \in DOMAIN n, NEW q \in DOMAIN n, n[p][1] = n[q][1]
        PROVE  m[p][1] = m[q][1]
    BY <2>2, <2>4
  <2>5. ASSUME NEW p \in DOMAIN m, m[p][1] = "List", NEW k \in 1 .. m[p][2]
        PROVE  m[Item(p, k)][1] = m[Item(p, 1)][1]
    <3>1. p \in DOMAIN n /\ n[p][1] = "List" /\ k \in 1 .. n[p][2]
      BY <2>2, <2>3, <2>5
    <3>2. n[p][2] \in Nat
      BY <2>1, <3>1, NbtNodeShape DEF IsNbt
    <3>3. Item(p, k) \in DOMAIN n /\ Item(p, 1) \in DOMAIN n
      <4>1. Children(n, p) = {Item(p, i) : i \in 1 .. n[p][2]}
        BY <3>1, ChildrenByTag
      <4>2. 1 \in 1 .. n[p][2]
        BY <3>1, <3>2
      <4> QED BY <2>1, <3>1, <4>1, <4>2 DEF IsNbt, IsTree
    <3>4. n[Item(p, k)][1] = n[Item(p, 1)][1]
      BY <2>1, <3>1 DEF Encodable
    <3> QED BY <2>4, <3>3, <3>4
  <2> QED BY <2>5 DEF Encodable, m
<1> QED BY <1>1, OneRow, PTL
=============================================================================
