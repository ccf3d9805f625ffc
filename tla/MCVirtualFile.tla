--------------------------- MODULE MCVirtualFile ---------------------------
(* Finite instances of VirtualFile for TLC. *)
EXTENDS VirtualFile, TLC

\* Slots of one region, side by side along x.
Two == {<<0, 0>>, <<1, 0>>}

\* Reads inside one blob, and one that takes a blob, the padding behind it
\* (a pass of its own, which looks the chunk up again) and the next slot.
Single == {<<c>> : c \in Chunk}
Spanning == Single \cup {<<<<0, 0>>, <<0, 0>>, <<1, 0>>>>}

AnySlot == Chunk \cup {NoPos}

Threads == Permutations(Writer) \cup Permutations(Worker)
=============================================================================
