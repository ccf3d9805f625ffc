--------------------------- MODULE StartupProofs ---------------------------
(***************************************************************************)
(* What holds of the location table and of the program's life, for every   *)
(* layout that the table's entries have room for and every number of       *)
(* attempts.                                                               *)
(***************************************************************************)
EXTENDS Startup, LayoutProofs, SequenceTheorems

-----------------------------------------------------------------------------
(* The location table. *)

Byte == 0 .. 255

\* TypeOK says how long the table is; what is written stays as it was written.
HeaderInv ==
  /\ i \in 0 .. Slots
  /\ header \in Seq(Byte)
  /\ Len(header) = 4 * i
  /\ \A k \in 0 .. i - 1 : \A b \in 1 .. 4 : header[4*k + b] = header_entry(k)[b]

\* Four bytes per entry.
LEMMA EntryType ==
  ASSUME NEW k \in 0 .. Slots - 1
  PROVE  header_entry(k) \in Seq(Byte) /\ Len(header_entry(k)) = 4
<1> DEFINE sector == get_chunk_file_offset(k % Side, k \div Side) \div SECTOR_BYTES
<1>1. sector \in Int
  <2>1. slot_index(k % Side, k \div Side) \in Int
    BY IndexOfSlot
  <2> QED BY <2>1, Sizes DEF get_chunk_file_offset
<1>2. SECTORS_PER_CHUNK % 256 \in Byte
  BY Sizes DEF Byte
<1>3. header_entry(k) = <<(sector \div 65536) % 256, (sector \div 256) % 256, sector % 256,
                         SECTORS_PER_CHUNK % 256>>
  BY DEF header_entry
<1> HIDE DEF sector
<1>4. /\ (sector \div 65536) % 256 \in Byte
      /\ (sector \div 256) % 256 \in Byte
      /\ sector % 256 \in Byte
  BY <1>1 DEF Byte
<1> QED BY <1>2, <1>3, <1>4

\* Each step of the loop appends one entry and leaves the others alone.
LEMMA EntryWritten ==
  ASSUME HeaderInv, WriteEntry
  PROVE  HeaderInv'
<1>1. /\ i \in 0 .. Slots - 1 /\ i' = i + 1
      /\ header' = header \o header_entry(i)
  BY Sizes DEF HeaderInv, WriteEntry
<1> DEFINE e == header_entry(i)
<1>2. e \in Seq(Byte) /\ Len(e) = 4
  BY <1>1, EntryType
<1> HIDE DEF e
<1>3. header \in Seq(Byte) /\ Len(header) = 4 * i /\ i \in Nat
  BY Sizes DEF HeaderInv
<1>4. /\ header' \in Seq(Byte)
      /\ Len(header') = 4 * i'
      /\ \A n \in 1 .. 4 * i : header'[n] = header[n]
      /\ \A b \in 1 .. 4 : header'[4 * i + b] = e[b]
  <2>1. header' = header \o e
    BY <1>1 DEF e
  <2>2. /\ header \o e \in Seq(Byte) /\ Len(header \o e) = 4 * i + 4
        /\ \A n \in 1 .. 4 * i + 4 : (header \o e)[n] = IF n <= 4 * i THEN header[n] ELSE e[n - 4 * i]
    <3>1. /\ header \o e \in Seq(Byte) /\ Len(header \o e) = Len(header) + Len(e)
          /\ \A n \in 1 .. Len(header) + Len(e) :
               (header \o e)[n] = IF n <= Len(header) THEN header[n] ELSE e[n - Len(header)]
      BY <1>2, <1>3, ConcatProperties
    <3> QED BY <1>2, <1>3, <3>1
  <2>3. \A b \in 1 .. 4 : 4 * i + b \in 1 .. 4 * i + 4 /\ ~ (4 * i + b <= 4 * i) /\ 4 * i + b - 4 * i = b
    BY <1>3
  <2>4. header' \in Seq(Byte) /\ Len(header') = 4 * i'
    BY <1>1, <1>3, <2>1, <2>2
  <2>5. \A n \in 1 .. 4 * i : header'[n] = header[n]
    BY <1>3, <2>1, <2>2
  <2>6. ASSUME NEW b \in 1 .. 4
        PROVE  header'[4 * i + b] = e[b]
    <3>1. (header \o e)[4 * i + b] = e[4 * i + b - 4 * i]
      BY <1>3, <2>2, <2>3
    <3> QED BY <2>1, <2>3, <3>1
  <2> QED BY <2>4, <2>5, <2>6
<1>5. ASSUME NEW k \in 0 .. i' - 1, NEW b \in 1 .. 4
      PROVE  header'[4*k + b] = header_entry(k)[b]
  <2>1. CASE k = i
    BY <1>4, <2>1 DEF e
  <2>2. CASE k # i
    <3>1. k \in 0 .. i - 1 /\ 4*k + b \in 1 .. 4 * i
      BY <1>1, <1>3, <1>5, <2>2
    <3> QED BY <1>4, <3>1 DEF HeaderInv
  <2> QED BY <2>1, <2>2
<1>6. i' \in 0 .. Slots
  BY <1>1, Sizes
<1> QED BY <1>4, <1>5, <1>6 DEF HeaderInv

\* A table that is being built is a table so far.
LEMMA HeaderTypes == HeaderInv => TypeOK
BY ElementOfSeq DEF HeaderInv, TypeOK, Byte

\* What the table says of a slot, and what get_chunk_coords_from_offset says
\* of the sectors it names.
LEMMA EntryResolves ==
  ASSUME EntriesFit, HeaderInv, NEW k \in 0 .. i - 1
  PROVE  LET first == EntrySector(k) * SECTOR_BYTES
             last == first + EntrySectors(k) * SECTOR_BYTES - 1
         IN /\ get_chunk_coords_from_offset(first) = <<k % Side, k \div Side>>
            /\ get_chunk_coords_from_offset(last) = <<k % Side, k \div Side>>
            /\ last - first + 1 = SlotBytes
<1> DEFINE x == k % Side
           z == k \div Side
           o == get_chunk_file_offset(x, z)
           e == header_entry(k)
<1>1. k \in 0 .. Slots - 1
  BY Sizes DEF HeaderInv
<1>2. x \in 0 .. Side - 1 /\ z \in 0 .. Side - 1
  BY <1>1, IndexOfSlot
<1>3. x % Side = x /\ z % Side = z
  BY <1>2, Sizes
<1>4. /\ ((e[1] * 256 + e[2]) * 256 + e[3]) * SECTOR_BYTES = o
      /\ e[4] * SECTOR_BYTES = SlotBytes
      /\ o \in Int
  BY <1>1, EntryAddress
<1> HIDE DEF x, z, o, e
<1>5. \A b \in 1 .. 4 : header[4*k + b] = e[b]
  BY DEF HeaderInv, e
<1>6. EntrySector(k) * SECTOR_BYTES = o /\ EntrySectors(k) * SECTOR_BYTES = SlotBytes
  BY <1>4, <1>5 DEF EntrySector, EntrySectors
<1>7. \A b \in 0 .. SlotBytes - 1 : get_chunk_coords_from_offset(o + b) = <<x, z>>
  <2>1. x \in Int /\ z \in Int
    BY <1>2, Sizes
  <2> QED BY <1>3, <2>1, SlotResolves DEF o
<1>8. o + 0 = o /\ o + SlotBytes - 1 = o + (SlotBytes - 1)
       /\ 0 \in 0 .. SlotBytes - 1 /\ SlotBytes - 1 \in 0 .. SlotBytes - 1
       /\ o + SlotBytes - 1 - o + 1 = SlotBytes
  BY <1>4, Sizes
<1>9. /\ get_chunk_coords_from_offset(o) = <<x, z>>
      /\ get_chunk_coords_from_offset(o + SlotBytes - 1) = <<x, z>>
  BY <1>7, <1>8
<1> DEFINE first == EntrySector(k) * SECTOR_BYTES
           last == first + EntrySectors(k) * SECTOR_BYTES - 1
<1>10. first = o /\ last = o + SlotBytes - 1
  BY <1>6
<1> HIDE DEF first, last
<1>11. /\ get_chunk_coords_from_offset(first) = <<x, z>>
       /\ get_chunk_coords_from_offset(last) = <<x, z>>
       /\ last - first + 1 = SlotBytes
  <2>1. last - first + 1 = SlotBytes
    BY <1>4, <1>10, Sizes
  <2> QED BY <1>9, <1>10, <2>1
<1> QED BY <1>11 DEF first, last, x, z

-----------------------------------------------------------------------------
(* The program's life. *)

\* The script outlives the program, waits for a report once it has passed the
\* signal on, and goes on to unmount only when the program is gone.
Outlived ==
  /\ main \in Running \cup {"gone"}
  /\ script \in {"off", "waiting", "killing", "reaping", "unmounting"}
  /\ script \in {"off", "unmounting"} => main = "gone"
  /\ main = "reporting" => script = "reaping"

\* What main has behind it: the table it connected to, the header it built,
\* and then the mount.
Prepares ==
  /\ mount \in {"none", "live", "dead"}
  /\ main \in Running \ {"connecting"} /\ args.storage => table
  /\ MountedWhileServing
  /\ mount = "live" => i = Slots

\* Only an abrupt end leaves a mount without its process, or a script that is
\* about to unmount it; and only an abrupt end loses a report.
Accounted ==
  /\ mount = "dead" => abrupt \/ script \in {"reaping", "unmounting"}
  /\ report \in {"none", "due", "written", "lost"}
  /\ report = "due" => main = "reporting"
  /\ report = "lost" /\ script # "off" => abrupt

StartInv ==
  HeaderInv /\ attempts \in 0 .. RETRIES - 1 /\ Outlived /\ Prepares /\ Accounted

USE DEF MountedWhileServing, Running

\* The inductive invariant holds before the first container.
LEMMA InitStart == StartInit => StartInv
<1> SUFFICES ASSUME StartInit PROVE StartInv
  OBVIOUS
<1>1. HeaderInv
  BY Sizes DEF StartInit, Init, HeaderInv
<1> QED BY <1>1, StartupAssumption DEF StartInit, StartInv, Outlived, Prepares, Accounted

\* A header that nobody touches, and one that is begun again.
LEMMA HeaderKept ==
  /\ HeaderInv /\ UNCHANGED headerVars => HeaderInv'
  /\ i' = 0 /\ header' = <<>> => HeaderInv'
<1>1. HeaderInv /\ UNCHANGED headerVars => HeaderInv'
  BY DEF HeaderInv, headerVars
<1>2. i' = 0 /\ header' = <<>> => HeaderInv'
  BY Sizes DEF HeaderInv
<1> QED BY <1>1, <1>2

\* Every step of the program, its script, docker and the operator keeps it.
LEMMA NextStart == StartInv /\ [StartNext]_startVars => StartInv'
<1> SUFFICES ASSUME StartInv, [StartNext]_startVars PROVE StartInv'
  OBVIOUS
<1> USE DEF StartInv, Outlived, Prepares, Accounted
<1>1. CASE Connect
  <2>1. attempts' \in 0 .. RETRIES - 1
    <3>1. attempts' \in {0, attempts + 1} \ {RETRIES}
      BY <1>1, StartupAssumption DEF Connect
    <3>2. attempts \in Nat /\ attempts < RETRIES /\ RETRIES \in Nat \ {0}
      BY StartupAssumption
    <3> QED BY ONLY <3>1, <3>2
  <2> QED BY <1>1, <2>1, HeaderKept DEF Connect, Prepared, headerVars
<1>2. CASE Measure
  BY <1>2, HeaderKept DEF Measure, headerVars
<1>3. CASE Build
  <2>1. HeaderInv'
    BY <1>3, EntryWritten DEF Build
  <2>2. mount # "live"
    BY <1>3 DEF Build
  <2> QED BY <1>3, <2>1, <2>2 DEF Build, runVars
<1>4. CASE Mount
  BY <1>4, HeaderKept DEF Mount, headerVars
<1>5. CASE HandleSignals
  BY <1>5, HeaderKept DEF HandleSignals, headerVars
<1>6. CASE Finish
  BY <1>6, HeaderKept DEF Finish, headerVars
<1>7. CASE Die
  BY <1>7, HeaderKept DEF Die, Left, Unwritten, headerVars
<1>8. CASE Boot
  BY <1>8, HeaderKept, StartupAssumption DEF Boot, Prepared
<1>9. CASE End
  BY <1>9, HeaderKept DEF End, headerVars, runVars
<1>10. CASE Kill
  BY <1>10, HeaderKept DEF Kill, Left, headerVars
<1>11. CASE Reap
  BY <1>11, HeaderKept DEF Reap, headerVars, runVars
<1>12. CASE Unmount
  BY <1>12, HeaderKept DEF Unmount, headerVars, runVars
<1>13. CASE Stop
  BY <1>13, HeaderKept DEF Stop, headerVars, runVars
<1>14. CASE Expire
  BY <1>14, HeaderKept DEF Expire, Left, Unwritten, headerVars
<1>15. CASE Start
  BY <1>15, HeaderKept DEF Start, headerVars, runVars
<1>16. CASE UNCHANGED startVars
  BY <1>16, HeaderKept DEF startVars, headerVars, runVars
<1> QED
  BY <1>1, <1>2, <1>3, <1>4, <1>5, <1>6, <1>7, <1>8, <1>9, <1>10, <1>11, <1>12, <1>13, <1>14,
     <1>15, <1>16
  DEF StartNext, Main, Script

\* Every variable keeps its type: the table is four bytes per entry, no
\* attempt is counted past RETRIES, and nothing runs without a script.
THEOREM StartTypes == StartSpec => []StartTypeOK
<1>1. StartInv => StartTypeOK
  BY HeaderTypes DEF StartInv, StartTypeOK, Outlived, Prepares, Accounted
<1> QED BY <1>1, InitStart, NextStart, PTL DEF StartSpec

\* A client that follows the location table finds each chunk in a whole slot
\* of its own, and read_at and write_at resolve it to that chunk: in every
\* layout whose slots the entries have room for.
THEOREM HeaderResolves ==
  ASSUME EntriesFit
  PROVE  StartSpec => []HeaderAgreesWithOffsets
<1>1. StartInv => HeaderAgreesWithOffsets
  BY EntryResolves DEF StartInv, HeaderAgreesWithOffsets
<1> QED BY <1>1, InitStart, NextStart, PTL DEF StartSpec

\* Nothing is served before the table exists and the header is complete, and
\* nobody unmounts a program that still runs; whatever attempts fail and
\* however often and abruptly the container ends and starts.
THEOREM ServesInOrder == StartSpec => [](ServesCompletely /\ MountedWhileServing)
<1>1. StartInv => ServesCompletely /\ MountedWhileServing
  BY DEF StartInv, Prepares, ServesCompletely
<1> QED BY <1>1, InitStart, NextStart, PTL DEF StartSpec

\* A container leaves no mount behind and loses no report, in whatever state
\* its program was when it was told to stop: unless the process dies, docker
\* kills it (with a report that still waits for the database) or fusermount
\* fails.
THEOREM StopsInOrder == StartSpec => [](StoppedClean /\ ReportedInTime)
<1>1. StartInv => StoppedClean /\ ReportedInTime
  BY DEF StartInv, Outlived, Prepares, Accounted, StoppedClean, ReportedInTime
<1> QED BY <1>1, InitStart, NextStart, PTL DEF StartSpec
=============================================================================
