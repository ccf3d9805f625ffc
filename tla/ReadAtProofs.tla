---------------------------- MODULE ReadAtProofs ----------------------------
(***************************************************************************)
(* read_at answers the bytes of one file, for every layout, every length   *)
(* of the blobs, every failing slot and every request.                     *)
(***************************************************************************)
EXTENDS ReadAt, LayoutProofs, SequenceTheorems

Byte == {Zero} \cup {HeaderByte(p) : p \in Int} \cup {BlobByte(k, j) : k \in Int, j \in Int}

\* The byte that the file has at a position, or zero behind a failed fetch.
RightByte(p) == IF Lost(p) THEN Zero ELSE FileByte(p)

\* No blob is read past its slot: it fits, or the request ends before.
Regular == BlobsFit \/ (OneSlot /\ offset >= HEADER_BYTES)

FailedAt(q) == InSlot(q) /\ blobs[SlotOf(q)] = Failed

-----------------------------------------------------------------------------
(* The inductive invariant. *)

Request ==
  /\ blobs \in [0 .. Slots - 1 -> Nat \cup {Failed}]
  /\ offset \in Nat
  /\ size \in Nat
  /\ out \in Seq(Byte)

\* The header comes first, and the loop starts behind it.
Progress ==
  /\ TypeOK
  /\ pc = "header" => out = <<>>
  /\ pc = "loop" => Position >= HEADER_BYTES \/ Needed = 0

\* What is answered is right, and the loop goes on only while no fetch failed.
Content ==
  Regular =>
    /\ \A k \in 1 .. Len(out) : out[k] = RightByte(offset + k - 1)
    /\ pc # "done" => \A q \in offset .. Position - 1 : ~ FailedAt(q)

ReadInv == Request /\ Progress /\ Content

-----------------------------------------------------------------------------
(* Where a pass of the loop is. *)

\* The bytes that a pass adds stand behind those that were there.
LEMMA Extended ==
  ASSUME NEW S, NEW s \in Seq(S), NEW n \in Nat, NEW f \in [1 .. n -> S]
  PROVE  /\ s \o f \in Seq(S)
         /\ Len(s \o f) = Len(s) + n
         /\ \A k \in 1 .. Len(s) + n : (s \o f)[k] = IF k <= Len(s) THEN s[k] ELSE f[k - Len(s)]
<1>1. f \in Seq(S) /\ Len(f) = n
  OBVIOUS
<1> QED BY <1>1, ConcatProperties

\* The smaller of two lengths.
LEMMA LesserIs ==
  ASSUME NEW a \in Int, NEW b \in Int
  PROVE  /\ Lesser(a, b) \in {a, b}
         /\ Lesser(a, b) <= a /\ Lesser(a, b) <= b
BY DEF Lesser

\* Behind the header a position is a slot and a place in it.
LEMMA PlaceOf ==
  ASSUME NEW p \in Int, p >= HEADER_BYTES
  PROVE  /\ SlotOf(p) \in Nat
         /\ (p - HEADER_BYTES) % SlotBytes \in 0 .. SlotBytes - 1
         /\ p - HEADER_BYTES = SlotOf(p) * SlotBytes + ((p - HEADER_BYTES) % SlotBytes)
<1> DEFINE d == p - HEADER_BYTES
<1>1. d \in Nat /\ SlotBytes \in Nat \ {0}
  BY Sizes
<1> HIDE DEF d
<1>2. /\ d \div SlotBytes \in Nat /\ d % SlotBytes \in 0 .. SlotBytes - 1
      /\ d = (d \div SlotBytes) * SlotBytes + (d % SlotBytes)
  BY <1>1
<1> QED BY <1>2 DEF d, SlotOf

\* A few bytes on, while that is inside the slot, the slot is the same.
LEMMA SameSlot ==
  ASSUME NEW p \in Int, p >= HEADER_BYTES, NEW j \in Nat,
         ((p - HEADER_BYTES) % SlotBytes) + j < SlotBytes
  PROVE  /\ SlotOf(p + j) = SlotOf(p)
         /\ ((p + j) - HEADER_BYTES) % SlotBytes = ((p - HEADER_BYTES) % SlotBytes) + j
         /\ InSlot(p + j) <=> InSlot(p)
<1> DEFINE q == SlotOf(p)
           r == (p - HEADER_BYTES) % SlotBytes
<1>1. q \in Nat /\ r \in 0 .. SlotBytes - 1 /\ p - HEADER_BYTES = q * SlotBytes + r
  BY PlaceOf
<1>2. r + j < SlotBytes
  OBVIOUS
<1> HIDE DEF q, r
<1>3. r + j \in 0 .. SlotBytes - 1 /\ q * SlotBytes \in Nat
  BY <1>1, <1>2, Sizes
<1>4. (p + j) - HEADER_BYTES = q * SlotBytes + (r + j)
  BY <1>1, <1>3, Sizes
<1>5. ((p + j) - HEADER_BYTES) \div SlotBytes = q /\ ((p + j) - HEADER_BYTES) % SlotBytes = r + j
  <2>1. (q * SlotBytes + (r + j)) \div SlotBytes = q /\ (q * SlotBytes + (r + j)) % SlotBytes = r + j
    BY <1>1, <1>3, Sizes, Quotient
  <2> QED BY <1>4, <2>1
<1>6. SlotOf(p + j) = q
  BY <1>5 DEF SlotOf
<1>7. p + j >= HEADER_BYTES
  BY Sizes
<1> QED BY <1>5, <1>6, <1>7 DEF InSlot, q, r

\* The coordinates of a position name the slot that it lies in.
LEMMA MappedSlot ==
  ASSUME NEW p \in Int, p >= HEADER_BYTES
  PROVE  LET m == get_chunk_coords_from_offset(p)
         IN /\ m # NoChunk <=> InSlot(p)
            /\ InSlot(p) => /\ slot_index(m[1], m[2]) = SlotOf(p)
                            /\ get_chunk_file_offset(m[1], m[2]) = HEADER_BYTES + SlotOf(p) * SlotBytes
<1> DEFINE k == SlotOf(p)
           m == get_chunk_coords_from_offset(p)
<1>1. k \in Nat /\ Slots \in Nat \ {0} /\ HEADER_BYTES \in Nat
  BY PlaceOf, Sizes
<1>2. m = IF k >= Slots THEN NoChunk ELSE <<k % Side, k \div Side>>
  BY Sizes DEF get_chunk_coords_from_offset, SlotOf
<1>3. InSlot(p) <=> k < Slots
  BY DEF InSlot
<1> HIDE DEF k, m
<1>4. <<k % Side, k \div Side>> # NoChunk
  BY DEF NoChunk
<1>5. m # NoChunk <=> InSlot(p)
  BY <1>1, <1>2, <1>3, <1>4
<1>6. ASSUME InSlot(p)
      PROVE  /\ slot_index(m[1], m[2]) = k
             /\ get_chunk_file_offset(m[1], m[2]) = HEADER_BYTES + k * SlotBytes
  <2>1. k \in 0 .. Slots - 1 /\ m[1] = k % Side /\ m[2] = k \div Side
    BY <1>1, <1>2, <1>3, <1>6
  <2>2. slot_index(k % Side, k \div Side) = k
    BY <2>1, IndexOfSlot
  <2> QED BY <2>1, <2>2 DEF get_chunk_file_offset
<1> QED BY <1>5, <1>6 DEF k, m

\* A pass that fetches a blob is inside one slot, whose blob has a length.
LEMMA Stretch ==
  ASSUME Request, Progress, pc = "loop", Fetched
  PROVE  /\ Position \in Int /\ Position >= HEADER_BYTES /\ Needed \in Nat \ {0}
         /\ InSlot(Position)
         /\ Slot = SlotOf(Position) /\ Slot \in 0 .. Slots - 1
         /\ blobs[Slot] \in Nat
         /\ SlotStart = HEADER_BYTES + Slot * SlotBytes
         /\ Local = (Position - HEADER_BYTES) % SlotBytes
         /\ Local \in 0 .. SlotBytes - 1
         /\ SlotStart + SlotBytes - Position = SlotBytes - Local
<1>1. Position \in Int /\ Needed \in Nat
  BY LenProperties DEF Request, Progress, TypeOK, Position, Needed
<1>2. Needed > 0 /\ Mapped # NoChunk /\ blobs[Slot] # Failed
  BY DEF Fetched
<1>3. Position >= HEADER_BYTES
  BY <1>1, <1>2 DEF Progress
<1>4. /\ InSlot(Position)
      /\ Slot = SlotOf(Position)
      /\ SlotStart = HEADER_BYTES + SlotOf(Position) * SlotBytes
  BY <1>1, <1>2, <1>3, MappedSlot DEF Mapped, Slot, SlotStart
<1>5. /\ SlotOf(Position) \in Nat
      /\ (Position - HEADER_BYTES) % SlotBytes \in 0 .. SlotBytes - 1
      /\ Position - HEADER_BYTES
           = SlotOf(Position) * SlotBytes + ((Position - HEADER_BYTES) % SlotBytes)
  BY <1>1, <1>3, PlaceOf
<1>6. Slot \in 0 .. Slots - 1
  BY <1>4, <1>5, Sizes DEF InSlot
<1>7. blobs[Slot] \in Nat
  BY <1>2, <1>6 DEF Request
<1>8. SlotOf(Position) * SlotBytes \in Nat
  BY <1>5, Sizes
<1>9. /\ Local = (Position - HEADER_BYTES) % SlotBytes
      /\ SlotStart + SlotBytes - Position = SlotBytes - Local
  <2> DEFINE a == SlotOf(Position) * SlotBytes
             r == (Position - HEADER_BYTES) % SlotBytes
  <2>1. a \in Nat /\ r \in Int /\ Position - HEADER_BYTES = a + r /\ SlotStart = HEADER_BYTES + a
    BY <1>4, <1>5, <1>8
  <2> HIDE DEF a, r
  <2>2. Local = r /\ SlotStart + SlotBytes - Position = SlotBytes - Local
    BY <1>1, <2>1, Sizes DEF Local
  <2> QED BY <2>2 DEF r
<1> QED BY <1>1, <1>2, <1>3, <1>4, <1>5, <1>6, <1>7, <1>9

\* A pass that copies stays inside its slot where no blob is read past it.
LEMMA CopyStays ==
  ASSUME Request, Progress, pc = "loop", Fetched, Regular, Local < blobs[Slot]
  PROVE  Local + Lesser(blobs[Slot] - Local, Needed) <= SlotBytes
<1> DEFINE n == Lesser(blobs[Slot] - Local, Needed)
<1>1. /\ Needed \in Nat \ {0} /\ blobs[Slot] \in Nat /\ Local \in 0 .. SlotBytes - 1
      /\ Slot \in 0 .. Slots - 1 /\ SlotBytes \in Nat /\ blobs[Slot] # Failed
  BY Stretch, Sizes, ReadAtAssumption
<1>2. n \in Int /\ n <= blobs[Slot] - Local /\ n <= Needed
  BY <1>1, LesserIs
<1> SUFFICES Local + n <= SlotBytes
  OBVIOUS
<1> HIDE DEF n
<1>3. CASE BlobsFit
  <2>1. blobs[Slot] <= SlotBytes
    BY <1>1, <1>3 DEF BlobsFit
  <2> QED BY <1>1, <1>2, <2>1
<1>4. CASE OneSlot /\ offset >= HEADER_BYTES
  <2>1. /\ Position \in Int /\ Position >= HEADER_BYTES /\ Slot = SlotOf(Position)
        /\ SlotStart + SlotBytes - Position = SlotBytes - Local
        /\ SlotStart = HEADER_BYTES + Slot * SlotBytes /\ InSlot(Position)
    BY Stretch
  <2>2. /\ offset \in Nat /\ size \in Nat /\ Len(out) \in Nat
        /\ Position = offset + Len(out) /\ Needed = size - Len(out)
    BY LenProperties DEF Request, Position, Needed
  <2> DEFINE o == SlotOf(offset)
  <2>3. /\ o \in Nat
        /\ offset - HEADER_BYTES = o * SlotBytes + ((offset - HEADER_BYTES) % SlotBytes)
        /\ (offset - HEADER_BYTES) % SlotBytes \in 0 .. SlotBytes - 1
    BY <1>4, <2>2, PlaceOf
  <2> DEFINE a == Slot * SlotBytes
             b == o * SlotBytes
             r == (offset - HEADER_BYTES) % SlotBytes
  <2>4. /\ a \in Nat /\ b \in Nat /\ (o + 1) * SlotBytes = b + SlotBytes
        /\ r \in 0 .. SlotBytes - 1 /\ offset - HEADER_BYTES = b + r
        /\ SlotStart = HEADER_BYTES + a
    BY <1>1, <2>1, <2>3
  <2>5. o <= Slot
    <3>1. SUFFICES ASSUME Slot < o PROVE FALSE
      BY <1>1, <2>3
    <3>2. a + SlotBytes <= b
      BY <1>1, <2>3, <3>1, Sizes, Apart
    <3> HIDE DEF a, b, r
    <3>3. Position < HEADER_BYTES + a + SlotBytes
      BY <1>1, <2>1, <2>4, Sizes
    <3> QED BY <1>1, <2>2, <2>4, <3>2, <3>3, Sizes
  <2>6. InSlot(offset) /\ size > 0
    <3>1. o < Slots
      BY <1>1, <2>3, <2>5, Sizes
    <3>2. size > 0
      BY <1>1, <2>2
    <3> QED BY <1>4, <3>1, <3>2 DEF InSlot
  <2>7. offset + size <= HEADER_BYTES + (o + 1) * SlotBytes
    BY <1>4, <2>6 DEF OneSlot
  <2>8. b <= a
    <3>1. CASE o = Slot
      BY <2>4, <3>1
    <3>2. CASE o < Slot
      <4>1. b + SlotBytes <= a
        BY <1>1, <2>3, <3>2, Sizes, Apart
      <4> HIDE DEF a, b
      <4> QED BY <1>1, <2>4, <4>1
    <3> QED BY <1>1, <2>3, <2>5, <3>1, <3>2
  <2>9. offset + size <= HEADER_BYTES + b + SlotBytes
    BY <2>4, <2>7, Sizes
  <2> HIDE DEF o, a, b, r
  <2>10. Needed <= SlotBytes - Local
    <3>1. Needed = (offset + size) - Position
      BY <2>2
    <3>2. offset + size <= SlotStart + SlotBytes
      BY <1>1, <2>2, <2>4, <2>8, <2>9, Sizes
    <3>3. SlotStart \in Int /\ SlotBytes \in Int /\ offset + size \in Int /\ Position \in Int
          /\ Local \in Int
      BY <1>1, <2>1, <2>2, <2>4, Sizes
    <3>4. (offset + size) - Position <= (SlotStart + SlotBytes) - Position
      BY <3>2, <3>3
    <3> QED BY <2>1, <3>1, <3>3, <3>4
  <2> QED BY <1>1, <1>2, <2>10
<1>5. QED BY <1>3, <1>4 DEF Regular

\* While no fetch failed, a byte of the slot that a pass is in is the blob's,
\* or zero behind it.
LEMMA InStretch ==
  ASSUME ReadInv, pc = "loop", Fetched, Regular, NEW j \in Nat, Local + j < SlotBytes
  PROVE  /\ ~ FailedAt(Position + j)
         /\ RightByte(Position + j) = IF Local + j < blobs[Slot] THEN BlobByte(Slot, Local + j) ELSE Zero
<1>1. /\ Position \in Int /\ Position >= HEADER_BYTES /\ InSlot(Position)
      /\ Slot = SlotOf(Position) /\ blobs[Slot] \in Nat /\ blobs[Slot] # Failed
      /\ Local = (Position - HEADER_BYTES) % SlotBytes /\ Local \in Nat
  BY Stretch, Sizes, ReadAtAssumption DEF ReadInv
<1>2. ASSUME NEW i \in 0 .. j
      PROVE  /\ SlotOf(Position + i) = Slot
             /\ ((Position + i) - HEADER_BYTES) % SlotBytes = Local + i
             /\ InSlot(Position + i)
  <2>1. i \in Nat /\ ((Position - HEADER_BYTES) % SlotBytes) + i < SlotBytes
    BY <1>1, Sizes
  <2> QED BY <1>1, <2>1, SameSlot
<1>3. \A i \in 0 .. j : ~ FailedAt(Position + i)
  BY <1>1, <1>2 DEF FailedAt
<1>4. ~ Lost(Position + j)
  <2> SUFFICES ASSUME NEW q \in offset .. Position + j, FailedAt(q) PROVE FALSE
    BY DEF Lost, FailedAt
  <2>1. offset \in Int
    BY DEF ReadInv, Request
  <2>2. CASE q \in offset .. Position - 1
    BY <2>2 DEF ReadInv, Content
  <2>3. CASE q \notin offset .. Position - 1
    <3>1. q - Position \in 0 .. j /\ q = Position + (q - Position)
      BY <1>1, <2>1, <2>3
    <3> QED BY <1>3, <3>1
  <2> QED BY <2>2, <2>3
<1>5. j \in 0 .. j
  OBVIOUS
<1>6. ~ (Position + j < HEADER_BYTES)
  BY <1>1, Sizes
<1>7. FileByte(Position + j) = IF Local + j < blobs[Slot] THEN BlobByte(Slot, Local + j) ELSE Zero
  BY <1>1, <1>2, <1>5, <1>6 DEF FileByte
<1> QED BY <1>3, <1>4, <1>5, <1>7 DEF RightByte

-----------------------------------------------------------------------------
(* The steps. *)

\* Zero and the bytes of blobs and header are bytes.
LEMMA Bytes ==
  /\ Zero \in Byte
  /\ \A p \in Int : HeaderByte(p) \in Byte
  /\ \A k, j \in Int : BlobByte(k, j) \in Byte
BY DEF Byte

\* The request and the blobs do not change, so neither does the file.
LEMMA SameFile ==
  ASSUME UNCHANGED <<blobs, offset, size>>
  PROVE  /\ Regular' <=> Regular
         /\ \A p : RightByte(p)' = RightByte(p)
         /\ \A p : FailedAt(p)' <=> FailedAt(p)
BY DEF Regular, BlobsFit, OneSlot, InSlot, SlotOf, RightByte, Lost, FileByte, FailedAt

\* A pass that adds the next bytes of the file keeps the invariant.
LEMMA PassKeeps ==
  ASSUME ReadInv, pc = "loop", UNCHANGED <<blobs, offset, size>>,
         NEW n \in Nat, n <= Needed, NEW f \in [1 .. n -> Byte], out' = out \o f,
         pc' \in {"loop", "done"}, pc' = "done" => n = Needed,
         Regular => \A j \in 0 .. n - 1 : f[j + 1] = RightByte(Position + j),
         Regular /\ pc' # "done" => \A j \in 0 .. n - 1 : ~ FailedAt(Position + j)
  PROVE  ReadInv'
<1>1. /\ out \in Seq(Byte) /\ Len(out) \in Nat /\ offset \in Nat /\ size \in Nat
      /\ Position = offset + Len(out) /\ Needed = size - Len(out)
  BY LenProperties DEF ReadInv, Request, Position, Needed
<1>2. /\ out' \in Seq(Byte) /\ Len(out') = Len(out) + n
      /\ \A k \in 1 .. Len(out) + n : out'[k] = IF k <= Len(out) THEN out[k] ELSE f[k - Len(out)]
  <2> DEFINE s == out
             e == out \o f
  <2>1. s \in Seq(Byte)
    BY <1>1
  <2>2. /\ e \in Seq(Byte) /\ Len(e) = Len(s) + n
        /\ \A k \in 1 .. Len(s) + n : e[k] = IF k <= Len(s) THEN s[k] ELSE f[k - Len(s)]
    BY <2>1, Extended
  <2>3. out' = e
    OBVIOUS
  <2> HIDE DEF e
  <2> QED BY <2>2, <2>3
<1>3. Request'
  BY <1>2 DEF ReadInv, Request
<1>4. Progress'
  <2>1. TypeOK'
    BY <1>1, <1>2 DEF TypeOK
  <2>2. Position' = Position + n /\ Needed' = Needed - n
    BY <1>1, <1>2 DEF Position, Needed
  <2>3. Position >= HEADER_BYTES \/ Needed = 0
    BY DEF ReadInv, Progress
  <2> QED BY <1>1, <2>1, <2>2, <2>3, Sizes DEF Progress
<1>5. ASSUME Regular, NEW k \in 1 .. Len(out')
      PROVE  out'[k] = RightByte(offset + k - 1)
  <2>1. CASE k <= Len(out)
    BY <1>1, <1>2, <1>5, <2>1 DEF ReadInv, Content
  <2>2. CASE k > Len(out)
    <3> DEFINE j == (k - Len(out)) - 1
    <3>1. j \in 0 .. n - 1 /\ j + 1 = k - Len(out) /\ Position + j = offset + k - 1
      BY <1>1, <1>2, <2>2
    <3>2. out'[k] = f[j + 1]
      BY <1>1, <1>2, <2>2, <3>1
    <3> HIDE DEF j
    <3> QED BY <1>5, <3>1, <3>2
  <2> QED BY <1>1, <1>2, <2>1, <2>2
<1>6. ASSUME Regular, pc' # "done", NEW q \in offset .. Position' - 1
      PROVE  ~ FailedAt(q)
  <2>1. Position' = Position + n
    BY <1>1, <1>2 DEF Position
  <2>2. CASE q \in offset .. Position - 1
    BY <1>6, <2>2 DEF ReadInv, Content
  <2>3. CASE q \notin offset .. Position - 1
    <3>1. q - Position \in 0 .. n - 1 /\ q = Position + (q - Position)
      BY <1>1, <2>1, <2>3
    <3> QED BY <1>6, <3>1
  <2> QED BY <2>2, <2>3
<1>7. Content'
  <2>1. offset' = offset
    OBVIOUS
  <2> QED BY <1>5, <1>6, <2>1, SameFile DEF Content
<1> QED BY <1>3, <1>4, <1>7 DEF ReadInv

\* The invariant holds before anything is answered.
LEMMA InitRead == Init => ReadInv
<1> SUFFICES ASSUME Init PROVE ReadInv
  OBVIOUS
<1>1. Request
  <2>1. <<>> \in Seq(Byte)
    OBVIOUS
  <2>2. blobs \in [0 .. Slots - 1 -> Nat \cup {Failed}]
    BY ReadAtAssumption DEF Init
  <2>3. offset \in Nat /\ size \in Nat
    BY ReadAtAssumption DEF Init
  <2> QED BY <2>1, <2>2, <2>3 DEF Init, Request
<1>2. Progress
  BY <1>1, EmptySeq DEF Init, Progress, TypeOK, Request
<1>3. Position = offset /\ Len(out) = 0
  BY <1>1 DEF Init, Position, Request
<1>4. Content
  BY <1>1, <1>3 DEF Content, Request
<1> QED BY <1>1, <1>2, <1>4 DEF ReadInv

\* What of the header is asked for is answered first.
LEMMA HeaderKeeps == ASSUME ReadInv, HeaderPart PROVE ReadInv'
<1> DEFINE n == IF offset < HEADER_BYTES THEN Lesser(size, HEADER_BYTES - offset) ELSE 0
           f == [k \in 1 .. n |-> HeaderByte(offset + k - 1)]
<1>1. /\ out' = f /\ pc' = "loop" /\ UNCHANGED <<blobs, offset, size>>
      /\ offset \in Nat /\ size \in Nat /\ HEADER_BYTES \in Nat
  BY Sizes DEF HeaderPart, ReadInv, Request
<1>2. /\ n \in Nat /\ n <= size
      /\ offset < HEADER_BYTES => offset + n <= HEADER_BYTES /\ (n = size \/ offset + n = HEADER_BYTES)
      /\ offset >= HEADER_BYTES => n = 0
  BY <1>1 DEF Lesser
<1>3. f \in Seq(Byte) /\ Len(f) = n /\ \A k \in 1 .. n : f[k] = HeaderByte(offset + k - 1)
  <2>1. \A k \in 1 .. n : HeaderByte(offset + k - 1) \in Byte
    BY <1>1, <1>2, Bytes
  <2> HIDE DEF n
  <2> QED BY <1>2, <2>1
<1> HIDE DEF n, f
<1>4. Request'
  BY <1>1, <1>3 DEF ReadInv, Request
<1>5. Progress'
  <2>1. Position' = offset + n /\ Needed' = size - n /\ Len(out') = n
    BY <1>1, <1>3 DEF Position, Needed
  <2> QED BY <1>1, <1>2, <2>1 DEF Progress, TypeOK
<1>6. ASSUME NEW q \in offset .. (offset + n) - 1
      PROVE  q < HEADER_BYTES /\ ~ InSlot(q)
  BY <1>1, <1>2 DEF InSlot
<1>7. ASSUME NEW k \in 1 .. n PROVE RightByte(offset + k - 1) = HeaderByte(offset + k - 1)
  <2> DEFINE p == offset + k - 1
  <2>1. p \in offset .. (offset + n) - 1 /\ offset .. p \subseteq offset .. (offset + n) - 1
    BY <1>1, <1>2
  <2> HIDE DEF p
  <2>2. ~ Lost(p) /\ p < HEADER_BYTES
    BY <1>6, <2>1 DEF Lost
  <2>3. RightByte(p) = HeaderByte(p)
    BY <2>2 DEF RightByte, FileByte
  <2> QED BY <2>3 DEF p
<1>8. Content'
  <2>1. Position' = offset + n /\ Len(out') = n /\ offset' = offset
    BY <1>1, <1>3 DEF Position
  <2>2. \A k \in 1 .. Len(out') : out'[k] = RightByte(offset + k - 1)
    BY <1>1, <1>3, <1>7, <2>1
  <2>3. \A q \in offset .. Position' - 1 : ~ FailedAt(q)
    BY <1>6, <2>1 DEF FailedAt
  <2> QED BY <1>1, <2>1, <2>2, <2>3, SameFile DEF Content
<1> QED BY <1>4, <1>5, <1>8 DEF ReadInv

\* A copy out of a blob goes as far as the blob or the request.
LEMMA CopyKeeps == ASSUME ReadInv, CopyBlob PROVE ReadInv'
<1> DEFINE n == Lesser(blobs[Slot] - Local, Needed)
           f == [k \in 1 .. n |-> BlobByte(Slot, Local + k - 1)]
<1>1. /\ pc = "loop" /\ Fetched /\ Local < blobs[Slot]
      /\ out' = out \o f /\ UNCHANGED <<blobs, offset, size, pc>>
  BY DEF CopyBlob
<1>2. /\ Needed \in Nat \ {0} /\ blobs[Slot] \in Nat /\ Local \in Nat /\ Slot \in Int
      /\ Position \in Int
  BY <1>1, Stretch, Sizes DEF ReadInv
<1>3. n \in Nat /\ n <= Needed /\ n <= blobs[Slot] - Local
  BY <1>1, <1>2 DEF Lesser
<1>4. Regular => Local + n <= SlotBytes
  BY <1>1, CopyStays DEF ReadInv
<1> HIDE DEF n
<1>5. f \in [1 .. n -> Byte] /\ \A j \in 0 .. n - 1 : f[j + 1] = BlobByte(Slot, Local + j)
  <2>1. \A k \in 1 .. n : BlobByte(Slot, Local + k - 1) \in Byte
    BY <1>2, <1>3, Bytes
  <2>2. \A j \in 0 .. n - 1 : j + 1 \in 1 .. n /\ Local + (j + 1) - 1 = Local + j
    BY <1>2, <1>3
  <2> QED BY <2>1, <2>2
<1> HIDE DEF f
<1>6. ASSUME Regular, NEW j \in 0 .. n - 1
      PROVE  f[j + 1] = RightByte(Position + j) /\ ~ FailedAt(Position + j)
  <2>1. j \in Nat /\ Local + j < SlotBytes /\ Local + j < blobs[Slot]
    BY <1>2, <1>3, <1>4, <1>6, Sizes
  <2> QED BY <1>1, <1>5, <1>6, <2>1, InStretch
<1> QED BY <1>1, <1>3, <1>5, <1>6, PassKeeps

\* Zeros behind a blob end where its slot does.
LEMMA FillKeeps == ASSUME ReadInv, SparseFill PROVE ReadInv'
<1> DEFINE n == Lesser(SlotStart + SlotBytes - Position, Needed)
           f == Zeros(n)
<1>1. /\ pc = "loop" /\ Fetched /\ Local >= blobs[Slot]
      /\ out' = out \o f /\ UNCHANGED <<blobs, offset, size, pc>>
  BY DEF SparseFill
<1>2. /\ Needed \in Nat \ {0} /\ blobs[Slot] \in Nat /\ Local \in 0 .. SlotBytes - 1
      /\ Position \in Int /\ SlotStart + SlotBytes - Position = SlotBytes - Local
  BY <1>1, Stretch DEF ReadInv
<1>3. n \in Nat /\ n <= Needed /\ Local + n <= SlotBytes
  BY <1>2, Sizes DEF Lesser
<1> HIDE DEF n
<1>4. f \in [1 .. n -> Byte] /\ \A j \in 0 .. n - 1 : f[j + 1] = Zero
  BY <1>3, Bytes DEF Zeros
<1> HIDE DEF f
<1>5. ASSUME Regular, NEW j \in 0 .. n - 1
      PROVE  f[j + 1] = RightByte(Position + j) /\ ~ FailedAt(Position + j)
  <2>1. j \in Nat /\ Local + j < SlotBytes /\ ~ (Local + j < blobs[Slot])
    BY <1>1, <1>2, <1>3, <1>5, Sizes
  <2> QED BY <1>1, <1>4, <1>5, <2>1, InStretch
<1> QED BY <1>1, <1>3, <1>4, <1>5, PassKeeps

\* Zeros to the end of the request stand for what is behind the last slot or
\* a failed fetch.
LEMMA PadKeeps == ASSUME ReadInv, Pad PROVE ReadInv'
<1> DEFINE f == Zeros(Needed)
<1>1. /\ pc = "loop" /\ ~ Fetched /\ pc' = "done"
      /\ out' = out \o f /\ UNCHANGED <<blobs, offset, size>>
  BY DEF Pad
<1>2. Needed \in Nat /\ Position \in Int /\ offset \in Nat /\ Position >= offset
  BY LenProperties DEF ReadInv, Request, Progress, TypeOK, Needed, Position
<1>3. f \in [1 .. Needed -> Byte] /\ \A j \in 0 .. Needed - 1 : f[j + 1] = Zero
  BY <1>2, Bytes DEF Zeros
<1> HIDE DEF f
<1>4. ASSUME NEW j \in 0 .. Needed - 1 PROVE RightByte(Position + j) = Zero
  <2>1. Needed > 0 /\ Position >= HEADER_BYTES
    BY <1>1, <1>2, <1>4 DEF ReadInv, Progress
  <2>2. CASE ~ InSlot(Position)
    <3> DEFINE p == Position + j
    <3>1. p \in Int /\ p >= HEADER_BYTES /\ Position <= p
      BY <1>2, <2>1, Sizes
    <3> HIDE DEF p
    <3>2. SlotOf(Position) >= Slots
      BY <1>2, <2>1, <2>2, PlaceOf, Sizes DEF InSlot
    <3>3. SlotOf(Position) <= SlotOf(p)
      <4> DEFINE u == SlotOf(Position)
                 v == SlotOf(p)
      <4>1. SUFFICES ASSUME v < u PROVE FALSE
        BY <1>2, <2>1, <3>1, PlaceOf
      <4> DEFINE r == (Position - HEADER_BYTES) % SlotBytes
                 s == (p - HEADER_BYTES) % SlotBytes
                 a == u * SlotBytes
                 b == v * SlotBytes
      <4>2. /\ u \in Nat /\ v \in Nat
            /\ r \in 0 .. SlotBytes - 1 /\ s \in 0 .. SlotBytes - 1
            /\ Position - HEADER_BYTES = a + r /\ p - HEADER_BYTES = b + s
        BY <1>2, <2>1, <3>1, PlaceOf
      <4>3. b + SlotBytes <= a /\ a \in Nat /\ b \in Nat
        BY <4>1, <4>2, Sizes, Apart
      <4> HIDE DEF u, v, r, s, a, b
      <4> QED BY <1>2, <3>1, <4>2, <4>3, Sizes
    <3>4. ~ InSlot(p) /\ ~ (p < HEADER_BYTES)
      BY <1>2, <2>1, <3>1, <3>2, <3>3, PlaceOf, Sizes DEF InSlot
    <3>5. RightByte(p) = Zero
      BY <3>4 DEF RightByte, FileByte
    <3> QED BY <3>5 DEF p
  <2>3. CASE InSlot(Position)
    <3>1. Mapped # NoChunk /\ Slot = SlotOf(Position)
      BY <1>2, <2>1, <2>3, MappedSlot DEF Mapped, Slot
    <3>2. blobs[SlotOf(Position)] = Failed
      BY <1>1, <2>1, <3>1 DEF Fetched
    <3>3. Position \in offset .. Position + j
      BY <1>2
    <3>4. Lost(Position + j)
      BY <2>3, <3>2, <3>3 DEF Lost
    <3> QED BY <3>4 DEF RightByte
  <2> QED BY <2>2, <2>3
<1>5. \A j \in 0 .. Needed - 1 : f[j + 1] = RightByte(Position + j)
  BY <1>3, <1>4
<1>6. Needed <= Needed
  BY <1>2
<1> QED BY ONLY ReadInv, <1>1, <1>2, <1>3, <1>5, <1>6, PassKeeps

\* Every step keeps the invariant.
LEMMA NextRead == ReadInv /\ [Next]_vars => ReadInv'
<1> SUFFICES ASSUME ReadInv, [Next]_vars PROVE ReadInv'
  OBVIOUS
<1>1. CASE UNCHANGED vars
  <2>1. /\ UNCHANGED <<blobs, offset, size>> /\ out' = out /\ pc' = pc
    BY <1>1 DEF vars
  <2>2. Request' /\ Progress'
    BY <2>1 DEF ReadInv, Request, Progress, TypeOK, Position, Needed
  <2>3. Content'
    BY <2>1, SameFile DEF ReadInv, Content, Position
  <2> QED BY <2>2, <2>3 DEF ReadInv
<1> QED BY <1>1, HeaderKeeps, CopyKeeps, FillKeeps, PadKeeps DEF Next

-----------------------------------------------------------------------------
(* The properties. *)

\* The answer never grows past the request, and is as long as it at the end.
THEOREM NeverTooLong == Spec => []TypeOK
<1>1. ReadInv => TypeOK
  BY DEF ReadInv, Progress
<1> QED BY <1>1, InitRead, NextRead, PTL DEF Spec

\* However clients cut their requests and whichever fetch fails, the answers
\* are pieces of one file; a blob that is larger than its slot spoils only
\* what is read beyond the slot.
THEOREM OneFile == Spec => [](AnswersTheFile /\ OversizeStaysRight)
<1>1. ReadInv => AnswersTheFile /\ OversizeStaysRight
  BY DEF ReadInv, Content, Regular, RightByte, AnswersTheFile, OversizeStaysRight
<1> QED BY <1>1, InitRead, NextRead, PTL DEF Spec
=============================================================================
