---------------------------- MODULE LayoutProofs ----------------------------
(***************************************************************************)
(* The arithmetic of the region file, for every size of the sectors, the   *)
(* header, the slots and the region.                                       *)
(***************************************************************************)
EXTENDS RegionLayout, TLAPS

\* An entry counts in sectors, has three bytes for the first one of a slot
\* and one byte for how many there are.
EntriesFit ==
  /\ HEADER_BYTES % SECTOR_BYTES = 0
  /\ SECTORS_PER_CHUNK <= 255
  /\ HEADER_BYTES \div SECTOR_BYTES + Slots * SECTORS_PER_CHUNK <= 16777216

\* The sizes are what the table is computed with.
LEMMA Sizes ==
  /\ Side \in Nat \ {0} /\ Slots \in Nat \ {0}
  /\ SECTOR_BYTES \in Nat \ {0} /\ SECTORS_PER_CHUNK \in Nat \ {0} /\ HEADER_BYTES \in Nat
  /\ SlotBytes \in Nat \ {0}
BY LayoutAssumption DEF Slots, SlotBytes

\* Quotient and remainder are determined by what they add up to.
LEMMA Quotient ==
  ASSUME NEW n \in Nat \ {0}, NEW q \in Nat, NEW r \in 0 .. n - 1
  PROVE  (q * n + r) \div n = q /\ (q * n + r) % n = r
OBVIOUS

\* Multiples of a size are at least that size apart.
LEMMA Apart ==
  ASSUME NEW n \in Nat \ {0}, NEW a \in Nat, NEW b \in Nat, a < b
  PROVE  a * n + n <= b * n
<1>1. (a + 1) * n = a * n + n
  OBVIOUS
<1>2. PICK d \in Nat : b = a + 1 + d
  <2>1. b - (a + 1) \in Nat /\ b = a + 1 + (b - (a + 1))
    OBVIOUS
  <2> QED BY <2>1
<1>3. d * n \in Nat /\ b * n = (a + 1) * n + d * n
  BY <1>2
<1> QED BY <1>1, <1>3

\* The masks of any coordinate, negative ones too, name a slot.
LEMMA MaskedIndex ==
  ASSUME NEW x \in Int, NEW z \in Int
  PROVE  /\ x % Side \in 0 .. Side - 1
         /\ z % Side \in 0 .. Side - 1
         /\ slot_index(x, z) \in 0 .. Slots - 1
         /\ slot_index(x, z) = (z % Side) * Side + (x % Side)
<1>1. Side \in Nat \ {0}
  BY LayoutAssumption
<1> DEFINE a == x % Side
           b == z % Side
<1>2. a \in 0 .. Side - 1 /\ b \in 0 .. Side - 1
  BY <1>1
<1>3. slot_index(x, z) = a + b * Side
  BY DEF slot_index
<1> HIDE DEF a, b
<1>4. b * Side + Side <= Side * Side /\ b * Side \in Nat
  BY <1>1, <1>2, Apart
<1>5. a + b * Side \in 0 .. Slots - 1 /\ a + b * Side = b * Side + a
  BY <1>1, <1>2, <1>4 DEF Slots
<1> QED BY <1>2, <1>3, <1>5 DEF a, b

\* Row and column of a slot number give the number back.
LEMMA IndexOfSlot ==
  ASSUME NEW k \in 0 .. Slots - 1
  PROVE  /\ k % Side \in 0 .. Side - 1
         /\ k \div Side \in 0 .. Side - 1
         /\ slot_index(k % Side, k \div Side) = k
<1>1. Side \in Nat \ {0}
  BY LayoutAssumption
<1> DEFINE x == k % Side
           z == k \div Side
<1>2. k \in Nat /\ k < Side * Side /\ Side * Side \in Nat
  BY <1>1 DEF Slots
<1>3. x \in 0 .. Side - 1 /\ z \in Nat /\ k = z * Side + x
  BY <1>1, <1>2
<1> HIDE DEF x, z
<1>4. slot_index(x, z) = (z % Side) * Side + (x % Side)
  <2>1. x \in Int /\ z \in Int
    BY <1>1, <1>3
  <2> QED BY ONLY <2>1, MaskedIndex
<1>5. z < Side
  <2> SUFFICES ASSUME Side <= z PROVE FALSE
    BY <1>1, <1>3
  <2>1. Side = z \/ Side * Side + Side <= z * Side
    BY <1>1, <1>3, Apart
  <2> QED BY <1>1, <1>2, <1>3, <2>1
<1>6. x % Side = x /\ z % Side = z
  BY <1>1, <1>3, <1>5
<1>7. z \in 0 .. Side - 1 /\ slot_index(x, z) = k
  BY <1>1, <1>3, <1>4, <1>5, <1>6
<1> QED BY <1>3, <1>7 DEF x, z

\* Every byte of a chunk's slot resolves to that chunk, whatever region the
\* coordinates are in: read_at and write_at find what get_chunk_file_offset
\* placed.
THEOREM SlotResolves ==
  ASSUME NEW x \in Int, NEW z \in Int, NEW b \in 0 .. SlotBytes - 1
  PROVE  get_chunk_coords_from_offset(get_chunk_file_offset(x, z) + b) = <<x % Side, z % Side>>
<1>1. /\ Side \in Nat \ {0} /\ HEADER_BYTES \in Nat
      /\ SlotBytes \in Nat \ {0}
  BY LayoutAssumption DEF SlotBytes
<1> DEFINE k == slot_index(x, z)
           o == get_chunk_file_offset(x, z) + b
<1>2. /\ k \in 0 .. Slots - 1
      /\ x % Side \in 0 .. Side - 1 /\ z % Side \in 0 .. Side - 1
      /\ k = (z % Side) * Side + (x % Side)
  BY MaskedIndex
<1>3. o = HEADER_BYTES + k * SlotBytes + b
  BY DEF get_chunk_file_offset
<1> HIDE DEF k, o
<1>4. k \in Nat /\ k * SlotBytes \in Nat
  BY <1>1, <1>2 DEF Slots
<1>5. o \in Nat /\ o >= HEADER_BYTES /\ o - HEADER_BYTES = k * SlotBytes + b
  BY <1>1, <1>3, <1>4
<1>6. (k * SlotBytes + b) \div SlotBytes = k
  BY <1>1, <1>4, Quotient
<1>7. k % Side = x % Side /\ k \div Side = z % Side
  <2> DEFINE q == z % Side
             r == x % Side
  <2>1. q \in Nat /\ r \in 0 .. Side - 1 /\ k = q * Side + r
    BY <1>1, <1>2
  <2> HIDE DEF q, r
  <2>2. k % Side = r /\ k \div Side = q
    BY <1>1, <2>1, Quotient
  <2> QED BY <2>2 DEF q, r
<1>8. k < Slots /\ ~ (k >= Slots) /\ ~ (o < HEADER_BYTES)
  BY <1>1, <1>2, <1>5 DEF Slots
<1>9. get_chunk_coords_from_offset(o) = <<k % Side, k \div Side>>
  BY <1>5, <1>6, <1>8 DEF get_chunk_coords_from_offset
<1> QED BY <1>7, <1>9 DEF o

\* Three bytes hold a number below 2^24.
LEMMA ThreeBytes ==
  ASSUME NEW s \in Nat, s < 16777216
  PROVE  (((s \div 65536) % 256) * 256 + ((s \div 256) % 256)) * 256 + (s % 256) = s
BY SMT

\* An entry of the location table says where get_chunk_file_offset puts the
\* slot, and how long it is.
LEMMA EntryAddress ==
  ASSUME EntriesFit, NEW k \in 0 .. Slots - 1
  PROVE  LET e == header_entry(k)
             o == get_chunk_file_offset(k % Side, k \div Side)
         IN /\ ((e[1] * 256 + e[2]) * 256 + e[3]) * SECTOR_BYTES = o
            /\ e[4] * SECTOR_BYTES = SlotBytes
            /\ o = HEADER_BYTES + k * SlotBytes
            /\ o \in Int
<1> DEFINE x == k % Side
           z == k \div Side
           e == header_entry(k)
           o == get_chunk_file_offset(x, z)
           sector == o \div SECTOR_BYTES
           h == HEADER_BYTES \div SECTOR_BYTES
<1>1. o = HEADER_BYTES + k * SlotBytes
  BY IndexOfSlot DEF get_chunk_file_offset
<1>2. h \in Nat /\ HEADER_BYTES = h * SECTOR_BYTES
  BY Sizes DEF EntriesFit
<1>3. e = <<(sector \div 65536) % 256, (sector \div 256) % 256, sector % 256, SECTORS_PER_CHUNK % 256>>
  BY DEF header_entry
<1> HIDE DEF x, z, o, h, e
<1>4. o = (h + k * SECTORS_PER_CHUNK) * SECTOR_BYTES /\ h + k * SECTORS_PER_CHUNK \in Nat
  <2>1. k \in Nat /\ k * SECTORS_PER_CHUNK \in Nat
    BY Sizes
  <2>2. k * SlotBytes = (k * SECTORS_PER_CHUNK) * SECTOR_BYTES
    BY Sizes DEF SlotBytes
  <2>3. (h + k * SECTORS_PER_CHUNK) * SECTOR_BYTES
          = h * SECTOR_BYTES + (k * SECTORS_PER_CHUNK) * SECTOR_BYTES
    BY <1>2, <2>1, Sizes
  <2> QED BY <1>1, <1>2, <2>1, <2>2, <2>3
<1>5. sector = h + k * SECTORS_PER_CHUNK
  <2> DEFINE n == h + k * SECTORS_PER_CHUNK
  <2>1. n \in Nat /\ o = n * SECTOR_BYTES + 0 /\ 0 \in 0 .. SECTOR_BYTES - 1
    BY <1>4, Sizes
  <2> HIDE DEF n
  <2>2. (n * SECTOR_BYTES + 0) \div SECTOR_BYTES = n
    BY <2>1, Sizes, Quotient
  <2> QED BY <2>1, <2>2 DEF n
<1>6. sector \in Nat /\ sector < 16777216
  <2> DEFINE m == k * SECTORS_PER_CHUNK
             n == Slots * SECTORS_PER_CHUNK
  <2>1. m \in Nat /\ n \in Nat /\ m + SECTORS_PER_CHUNK <= n
    <3>1. k \in Nat /\ Slots \in Nat /\ k < Slots
      BY Sizes
    <3> QED BY <3>1, Sizes, Apart
  <2>2. h + n <= 16777216
    BY SMT DEF EntriesFit, h
  <2>3. sector = h + m
    BY <1>5
  <2> HIDE DEF m, n
  <2> QED BY <1>2, <2>1, <2>2, <2>3, Sizes, SMT
<1> HIDE DEF sector
<1>7. (e[1] * 256 + e[2]) * 256 + e[3] = sector
  <2>1. (e[1] * 256 + e[2]) * 256 + e[3]
          = (((sector \div 65536) % 256) * 256 + ((sector \div 256) % 256)) * 256 + (sector % 256)
    BY <1>3, SMT
  <2>2. (((sector \div 65536) % 256) * 256 + ((sector \div 256) % 256)) * 256 + (sector % 256) = sector
    BY <1>6, ThreeBytes, SMT
  <2> QED BY <2>1, <2>2
<1>8. e[4] * SECTOR_BYTES = SlotBytes
  <2>1. SECTORS_PER_CHUNK % 256 = SECTORS_PER_CHUNK
    BY Sizes DEF EntriesFit
  <2> QED BY <1>3, <2>1 DEF SlotBytes
<1>9. o \in Int
  BY <1>4, Sizes
<1> QED BY <1>1, <1>4, <1>5, <1>7, <1>8, <1>9 DEF x, z, o, e
=============================================================================
