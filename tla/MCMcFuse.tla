------------------------------ MODULE MCMcFuse ------------------------------
(* Finite instances of McFuse for TLC. *)
EXTENDS McFuse, TLC

Word(t) == [text |-> t, i32 |-> NotNumber]
Number(t, i) == [text |-> t, i32 |-> i]
Mca(x, z) == <<Word("r"), x, z, Word("mca")>>

\* A region, one so far away that it has the same number, the copy of a
\* region, and a name that is not UTF-8.
Names ==
  {Mca(Number("0", 0), Number("0", 0)),
   Mca(Number("16777216", 16777216), Number("0", 0)),
   Mca(Number("0", 0), Number("0", 0)) \o <<Word("bak")>>,
   <<>>}

\* A chunk of each region, and the one that the far region's is taken for.
Places == {<<1, 0>>, <<31, 31>>, <<536870943, 31>>}

\* The copy's name has the hash that differs least from the region's number.
Hashes == [n \in Names |-> [bit63 |-> TRUE, x |-> OFFSET, z |-> OFFSET]]

\* VirtualFile may be asked for each chunk.
Singles == {<<c>> : c \in Chunk}

AnySlot == Chunk \cup {NoPos}

Threads == Permutations(Client) \cup Permutations(Writer)
=============================================================================
