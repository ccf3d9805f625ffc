---------------------------- MODULE RegionLayout ----------------------------
(***************************************************************************)
(* The shape of a virtual region file (hoppermc-anvil): a header of        *)
(* locations, then one slot of fixed size per chunk of the region.  The    *)
(* code's sizes are 4096-byte sectors, a header of two of them, 64 sectors *)
(* per slot and 32 by 32 slots; nothing here depends on the numbers.       *)
(***************************************************************************)
EXTENDS Integers, Sequences

CONSTANTS
  SECTOR_BYTES,
  HEADER_BYTES,
  SECTORS_PER_CHUNK,
  Side                \* chunks along one side of a region

ASSUME LayoutAssumption ==
  /\ SECTOR_BYTES \in Nat \ {0}
  /\ HEADER_BYTES \in Nat \ {0}
  /\ SECTORS_PER_CHUNK \in Nat \ {0}
  /\ Side \in Nat \ {0}

SlotBytes == SECTORS_PER_CHUNK * SECTOR_BYTES
Slots == Side * Side

NoChunk == <<>>

\* Mutant: rows and columns swapped.
TransposedIndex(x, z) == (x % Side) * Side + (z % Side)

\* The code masks with & 31: the remainder by a power of two, also of a
\* negative coordinate.
slot_index(x, z) == (x % Side) + (z % Side) * Side

get_chunk_file_offset(x, z) == HEADER_BYTES + slot_index(x, z) * SlotBytes

get_chunk_coords_from_offset(offset) ==
  LET index == (offset - HEADER_BYTES) \div SlotBytes
  IN IF offset < HEADER_BYTES \/ index >= Slots
       THEN NoChunk
       ELSE <<index % Side, index \div Side>>

\* Mutant: the byte for the number of sectors is not written.
UncountedEntry(i) ==
  LET sector == get_chunk_file_offset(i % Side, i \div Side) \div SECTOR_BYTES
  IN <<(sector \div 65536) % 256, (sector \div 256) % 256, sector % 256>>

\* The four header bytes of entry i: the first sector of its slot, three
\* bytes with the high one first, and the sectors it may use in one byte.
header_entry(i) ==
  LET sector == get_chunk_file_offset(i % Side, i \div Side) \div SECTOR_BYTES
  IN <<(sector \div 65536) % 256, (sector \div 256) % 256, sector % 256,
       SECTORS_PER_CHUNK % 256>>
=============================================================================
