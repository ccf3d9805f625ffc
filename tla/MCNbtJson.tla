----------------------------- MODULE MCNbtJson -----------------------------
(* A finite set of chunks for NbtJson. *)
EXTENDS NbtJson, TLC

Strings == STRING
Fractions == {"0.5"}
NonFinites == {"NaN"}

\* The document with this node, and the documents v[k] in it.
Holding(node, step, v) ==
  [p \in {Root} \cup UNION {{<<<<step, k>>>> \o q : q \in DOMAIN v[k]} : k \in DOMAIN v} |->
     IF p = Root THEN node ELSE v[p[1][2]][Tail(p)]]

Leaf(node) == Root :> node
List(s) == Holding(<<"List", Len(s)>>, "Item", s)
Compound(v) == Holding(<<"Compound", DOMAIN v>>, "Field", v)

Leaves ==
  {Leaf(node) : node \in
     ({"Byte", "Int", "Long"} \X {"1", "300"}) \cup ({"Double"} \X {"0.5", "1e16", "NaN"})
       \cup {<<"String", "s">>, <<"List", 0>>}
       \cup {<<"ByteArray", <<"1">>>>, <<"IntArray", <<>>>>, <<"LongArray", <<"1", "300">>>>}}

\* Lists of one type of element, and compounds with some of the keys.
Lists(S) == {List(<<a>>) : a \in S}
  \cup {List(<<p[1], p[2]>>) : p \in {q \in S \X S : q[1][Root][1] = q[2][Root][1]}}

Compounds(K, S) == {Compound(v) : v \in UNION {[D -> S] : D \in SUBSET K}}

Level1 == Leaves \cup Lists(Leaves)

Level2 == Level1 \cup Lists(Lists({n \in Leaves : n[Root][1] \notin {"Byte", "Long"}}))
  \cup Compounds({"a", "__fastnbt_long_array"}, Leaves)
  \cup Compounds({"__fastnbt_long_array"}, Level1)
  \cup Lists(Compounds({"a"}, Leaves))

\* A coordinate is an Int as the game writes it, or a Long as it was loaded.
At(x, z) == "xPos" :> Leaf(x) @@ "zPos" :> Leaf(z)

Positions == {At(<<"Int", "-1">>, <<"Int", "0">>), At(<<"Long", "0">>, <<"Int", "300">>)}

Chunk(p, n) ==
  {Compound(p @@ "data" :> n),
   Compound("Level" :> Compound(p) @@ "data" :> n),
   Compound(p @@ "__fastnbt_byte_array" :> n)}

SomeChunks == UNION {Chunk(p, n) : p \in Positions, n \in Level2}
=============================================================================
