---------------------------- MODULE RegionHeader ----------------------------
(***************************************************************************)
(* generate_header: the location table that every region file starts with, *)
(* built once when the file system starts and served for all regions.      *)
(***************************************************************************)
EXTENDS RegionLayout

VARIABLES
  i,       \* the next entry
  header   \* the bytes of the location table written so far

Init == i = 0 /\ header = <<>>

WriteEntry ==
  /\ i < Slots
  /\ header' = header \o header_entry(i)
  /\ i' = i + 1

Spec == Init /\ [][WriteEntry]_<<i, header>>

-----------------------------------------------------------------------------
\* How a client reads entry k of the table.
EntrySector(k) == (header[4*k + 1] * 256 + header[4*k + 2]) * 256 + header[4*k + 3]
EntrySectors(k) == header[4*k + 4]

\* Bytes, four per entry.
TypeOK ==
  /\ i \in 0 .. Slots
  /\ Len(header) = 4 * i
  /\ \A b \in 1 .. Len(header) : header[b] \in 0 .. 255

\* Every sector that the table gives a chunk maps back to that chunk, at its
\* first and at its last byte, and the table gives each a whole slot: what a
\* client addresses through the header is what read_at and write_at resolve.
HeaderAgreesWithOffsets ==
  \A k \in 0 .. i - 1 :
    LET first == EntrySector(k) * SECTOR_BYTES
        last == first + EntrySectors(k) * SECTOR_BYTES - 1
    IN /\ get_chunk_coords_from_offset(first) = <<k % Side, k \div Side>>
       /\ get_chunk_coords_from_offset(last) = <<k % Side, k \div Side>>
       /\ last - first + 1 = SlotBytes
=============================================================================
