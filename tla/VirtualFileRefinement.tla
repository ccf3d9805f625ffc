----------------------- MODULE VirtualFileRefinement -----------------------
(***************************************************************************)
(* Without prefetching and for a client that waits for its answers, the    *)
(* cache, the table and the write threads together are a ChunkStore.       *)
(***************************************************************************)
EXTENDS VirtualFile

\* What the table promises to keep of a chunk: the jsonb mode does not say of
\* which width its numbers were.
Content(n) == IF StorageMode = "pg_jsonb" THEN [n EXCEPT !.exact = TRUE] ELSE n

\* What a reader may count on when n is had for chunk c: nothing, if the table
\* has only a piece of it.
Seen(c, n) == IF Torn(c) THEN None ELSE Content(n)

\* The world is the table, with the generator behind it: the cache adds
\* nothing, although reads are answered from it.
World == [c \in Chunk |-> Seen(c, IF db[c] = None THEN Generated(c) ELSE db[c])]

Served == [i \in 1 .. Len(rd.got) |-> Seen(rd.req[i], rd.got[i].nbt)]

Store == INSTANCE ChunkStore
  WITH world <- World, asked <- rd.req, answer <- Served, Unknown <- None

\* Through restarts and however small the cache: a read answers what the
\* table holds, and an edit takes effect when it is saved, not before.  A
\* piece that is stored harms the chunk of its slot and no other, and only
\* until a whole chunk is saved there.
IsChunkStore == Store!Spec
=============================================================================
