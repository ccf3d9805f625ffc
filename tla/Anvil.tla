------------------------------- MODULE Anvil -------------------------------
(***************************************************************************)
(* What hoppermc-anvil does to one chunk: the NBT payload, the packet that *)
(* carries it inside a region file, and the check of the coordinates the   *)
(* payload names.  The bytes of a chunk are abstracted to what the system  *)
(* tells apart: which chunk the payload says it is, which edit of the      *)
(* world it holds, and whether it is still the bytes its author wrote.     *)
(***************************************************************************)
EXTENDS Integers

CONSTANTS
  Chunk,  \* absolute chunk coordinates in play, pairs of integers
  NoPos   \* the position of a payload that names none (not a chunk's NBT)

ASSUME ChunkAssumption == Chunk \subseteq Int \X Int /\ NoPos \notin Chunk

\* Version 0 is what a generator makes; a client's edit carries its number.
\* exact: byte for byte what the generator or the client produced.
Nbt == [pos : Chunk \cup {NoPos}, ver : Nat, exact : BOOLEAN]

Generated(c) == [pos |-> c, ver |-> 0, exact |-> TRUE]

\* What the fifth byte of a buffer is taken for: "deflated" stands for the
\* types a decoder must accept (GZIP, ZLIB, LZ4), "plain" for NONE, "unknown"
\* for every other byte and for buffers of less than five.  whole: all of a
\* chunk's packet, not one piece of a write that the client or the kernel
\* split; the fifth byte of a later piece is payload and may be any.
PacketKind == {"deflated", "plain", "unknown"}

Packet == [kind : PacketKind, whole : BOOLEAN, nbt : Nbt]

\* Mutant: the payload is passed on without its packet.
BarePayload(n) == n

compress_and_wrap_chunk(n) == [kind |-> "deflated", whole |-> TRUE, nbt |-> n]

\* Nothing but the fifth byte is looked at, and the length field not at all: a
\* piece that reads as compressed fails in the decoder, but of any packet,
\* deflated or not, a piece whose fifth byte reads as NONE is taken as it is.
unwraps(d) == \/ d.kind = "deflated" /\ d.whole
              \/ d.kind = "plain"

unwrap_and_decompress_chunk(d) ==
  IF d.whole THEN d.nbt ELSE [d.nbt EXCEPT !.pos = NoPos, !.exact = FALSE]

verify_chunk_coords(n, c) == n.pos = c
=============================================================================
