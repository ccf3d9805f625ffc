---------------------------- MODULE McFuseProofs ----------------------------
(***************************************************************************)
(* What the numbers of files and the handlers guarantee, for any number of *)
(* clients and threads, any names and hash, any layout that the location   *)
(* table has room for, and every failure and lost mount.                   *)
(***************************************************************************)
EXTENDS McFuse, VirtualFileProofs, LayoutProofs, FiniteSetTheorems

-----------------------------------------------------------------------------
(* Numbers. *)

\* A value below the width of a field is kept by the mask.
LEMMA MaskKeeps == ASSUME NEW n \in Nat \ {0}, NEW a \in 0 .. n - 1 PROVE a % n = a
  OBVIOUS

\* What the mask leaves fits the field.
LEMMA MaskFits == ASSUME NEW n \in Nat \ {0}, NEW a \in Int PROVE a % n \in 0 .. n - 1
  OBVIOUS

\* read and write address the region that lookup and create were asked for:
\* unpack undoes pack for the regions that fit its fields, and only for them.
THEOREM UnpackUndoesPack ==
  ASSUME NEW x \in Int, NEW z \in Int
  PROVE  unpack(pack(x, z)) = <<x, z>> <=> Fits(x) /\ Fits(z)
<1>1. OFFSET \in Nat /\ FIELD \in Nat \ {0}
  BY InodeAssumption
<1>2. ASSUME NEW v \in Int
      PROVE  ((v + OFFSET) % FIELD) - OFFSET = v <=> Fits(v)
  <2>1. CASE Fits(v)
    <3>1. v + OFFSET \in 0 .. FIELD - 1
      BY <1>1, <2>1 DEF Fits
    <3>2. (v + OFFSET) % FIELD = v + OFFSET
      BY <1>1, <3>1, MaskKeeps
    <3> QED BY <1>1, <2>1, <3>2
  <2>2. CASE ~ Fits(v)
    <3>1. (v + OFFSET) % FIELD \in 0 .. FIELD - 1
      <4>1. v + OFFSET \in Int
        BY <1>1
      <4> QED BY <1>1, <4>1, MaskFits
    <3>2. v \notin -OFFSET .. FIELD - 1 - OFFSET
      BY <2>2 DEF Fits
    <3> QED BY <1>1, <2>2, <3>1, <3>2
  <2> QED BY <2>1, <2>2
<1>3. unpack(pack(x, z)) = <<((x + OFFSET) % FIELD) - OFFSET, ((z + OFFSET) % FIELD) - OFFSET>>
  BY DEF unpack, pack, is_region_inode
<1> QED BY <1>2, <1>3

\* Two regions that fit have two numbers, so one never serves the chunks of
\* the other.
THEOREM NumbersDiffer ==
  ASSUME NEW x \in Int, NEW z \in Int, NEW u \in Int, NEW w \in Int,
         Fits(x), Fits(z), Fits(u), Fits(w),
         pack(x, z) = pack(u, w)
  PROVE  x = u /\ z = w
<1>1. <<x, z>> = <<u, w>>
  <2>1. unpack(pack(x, z)) = <<x, z>>
    BY UnpackUndoesPack
  <2>2. unpack(pack(u, w)) = <<u, w>>
    BY UnpackUndoesPack
  <2> QED BY <2>1, <2>2
<1> QED BY <1>1

\* Whatever its hash, the number of a file that is no region is that of no
\* region and not that of the directory, and unpack finds no region in it:
\* what is written to it reaches no chunk.
THEOREM GenericsApart ==
  ASSUME NEW name \in Name, NEW x \in Int, NEW z \in Int
  PROVE  /\ pack_generic(name) \notin {pack(x, z), ROOT}
         /\ unpack(pack_generic(name)) = NoRegion
<1>1. pack_generic(name).generic = TRUE /\ pack_generic(name).region = FALSE
  BY DEF pack_generic
<1>2. pack(x, z).generic = FALSE /\ ROOT.generic = FALSE
  BY DEF pack, ROOT
<1> QED BY <1>1, <1>2 DEF unpack, is_region_inode

-----------------------------------------------------------------------------
(* What is assumed of the instance. *)

\* There is a chunk, each one can be asked for, and the chunks in play hold
\* those that the number of a region too far away leads to.
WholeRegions ==
  /\ Chunk # {}
  /\ \A c \in Chunk : <<c>> \in Requests
  /\ \A n \in Name : IsRegion(n) =>
       \A c \in Meant(n) : SlotAt(RegionInode(n), Address(c)) \in Chunk

-----------------------------------------------------------------------------
(* Names and addresses. *)

\* The names that a client has files under: those it asks for, and the one
\* that the directory shows.
KnownNames == Name \cup {Listed}

NumberOf(n) == IF IsRegion(n) THEN RegionInode(n) ELSE pack_generic(n)

SizeOf(n) == IF IsRegion(n) THEN FILE_SIZE ELSE 0

\* The coordinates in a region's name are integers.
LEMMA RegionNames ==
  ASSUME NEW n \in KnownNames, IsRegion(n)
  PROVE  LET r == parse_region_filename(n)
         IN /\ r = <<r[1], r[2]>>
            /\ r[1] \in Int /\ r[2] \in Int
            /\ r # NoRegion
<1>1. /\ Len(n) = 4
      /\ NotNumber \notin {n[2].i32, n[3].i32}
      /\ parse_region_filename(n) = <<n[2].i32, n[3].i32>>
  BY DEF IsRegion, parse_region_filename
<1>2. n[2].i32 \in Int /\ n[3].i32 \in Int
  <2>1. CASE n \in Name
    <3> DEFINE Part == [text : STRING, i32 : Int \cup {NotNumber}]
    <3>1. n \in Seq(Part)
      BY <2>1, FuseAssumption
    <3>2. \A m \in Part : m.i32 \in Int \cup {NotNumber}
      OBVIOUS
    <3> HIDE DEF Part
    <3>3. n[2] \in Part /\ n[3] \in Part
      <4>1. 2 \in 1 .. Len(n) /\ 3 \in 1 .. Len(n)
        BY <1>1
      <4> QED BY <3>1, <4>1, ElementOfSeq
    <3> QED BY <1>1, <3>2, <3>3
  <2>2. CASE n = Listed
    BY <2>2 DEF Listed
  <2> QED BY <2>1, <2>2 DEF KnownNames
<1> QED BY <1>1, <1>2 DEF IsRegion

\* The directory shows a region.
LEMMA ListedRegion ==
  /\ IsRegion(Listed)
  /\ parse_region_filename(Listed) = <<0, 0>>
  /\ NumberOf(Listed) = pack(0, 0)
<1>1. /\ Len(Listed) = 4
      /\ Listed[1].text = "r" /\ Listed[4].text = "mca"
      /\ Listed[2].i32 = 0 /\ Listed[3].i32 = 0
  BY DEF Listed
<1>2. parse_region_filename(Listed) = <<0, 0>>
  BY <1>1, FuseAssumption DEF parse_region_filename
<1>3. <<0, 0>> # NoRegion
  BY InodeAssumption
<1> QED BY <1>2, <1>3 DEF IsRegion, NumberOf, RegionInode

\* A number is never the directory's, and says whether it is a region's.
LEMMA NumberFlags ==
  ASSUME NEW n \in KnownNames
  PROVE  /\ NumberOf(n) # ROOT
         /\ Known(NumberOf(n))
         /\ is_region_inode(NumberOf(n)) <=> IsRegion(n)
         /\ is_generic_inode(NumberOf(n)) <=> ~ IsRegion(n)
         /\ unpack(NumberOf(n)) # NoRegion <=> IsRegion(n)
<1>1. IsRegion(n) \in BOOLEAN
  BY DEF IsRegion
<1>2. CASE IsRegion(n)
  <2> DEFINE r == parse_region_filename(n)
  <2>1. NumberOf(n) = pack(r[1], r[2]) /\ r[1] \in Int /\ r[2] \in Int
    BY <1>2, RegionNames DEF NumberOf, RegionInode
  <2> HIDE DEF r
  <2>2. /\ NumberOf(n).region = TRUE /\ NumberOf(n).generic = FALSE
        /\ NumberOf(n).x \in Int /\ NumberOf(n).z \in Int
    BY <2>1, InodeAssumption DEF pack
  <2>3. <<NumberOf(n).x - OFFSET, NumberOf(n).z - OFFSET>> # NoRegion
    BY <2>2, InodeAssumption
  <2> QED BY <1>2, <2>2, <2>3 DEF Known, is_region_inode, is_generic_inode, unpack, ROOT
<1>3. CASE ~ IsRegion(n)
  <2>1. NumberOf(n).region = FALSE /\ NumberOf(n).generic = TRUE
    BY <1>3 DEF NumberOf, pack_generic
  <2> QED BY <1>3, <2>1 DEF Known, is_region_inode, is_generic_inode, unpack, ROOT
<1> QED BY <1>1, <1>2, <1>3

\* What a client reads from the location table for a chunk leads to its slot.
LEMMA AddressResolves ==
  ASSUME EntriesFit, NEW x \in Int, NEW z \in Int
  PROVE  get_chunk_coords_from_offset(Address(<<x, z>>)) = <<x % Side, z % Side>>
<1> DEFINE k == (x % Side) + Side * (z % Side)
           o == get_chunk_file_offset(k % Side, k \div Side)
<1>1. k = slot_index(x, z) /\ k \in 0 .. Slots - 1
  <2>1. x % Side \in Int /\ z % Side \in Int
    BY Sizes
  <2>2. Side * (z % Side) = (z % Side) * Side
    BY <2>1, Sizes
  <2> QED BY <2>2, MaskedIndex DEF slot_index
<1> HIDE DEF k
<1>2. o = HEADER_BYTES + k * SlotBytes /\ o \in Int
  BY <1>1, EntryAddress
<1>3. Address(<<x, z>>) = o
  BY <1>1, EntryAddress DEF Address, k
<1>4. get_chunk_file_offset(x, z) = o
  BY <1>1, <1>2 DEF get_chunk_file_offset
<1>5. get_chunk_coords_from_offset(get_chunk_file_offset(x, z) + 0) = <<x % Side, z % Side>>
  <2>1. 0 \in 0 .. SlotBytes - 1
    BY Sizes
  <2> QED BY <2>1, SlotResolves
<1> HIDE DEF o
<1> QED BY <1>2, <1>3, <1>4, <1>5

\* A client that goes by the names, the numbers and the table comes to the
\* chunk it means; the table itself is in no chunk.
LEMMA SlotOfRegion ==
  ASSUME EntriesFit, NEW n \in KnownNames, IsRegion(n)
  PROVE  /\ SlotAt(NumberOf(n), 0) = NoPos
         /\ FitsInode(n) => \A c \in Meant(n) : SlotAt(NumberOf(n), Address(c)) = c
<1>1. SlotAt(NumberOf(n), 0) = NoPos
  <2>1. 0 < HEADER_BYTES
    BY LayoutAssumption
  <2> QED BY <2>1 DEF SlotAt, get_chunk_coords_from_offset
<1>2. ASSUME FitsInode(n), NEW c \in Meant(n)
      PROVE  SlotAt(NumberOf(n), Address(c)) = c
  <2> DEFINE r == parse_region_filename(n)
  <2>1. r = <<r[1], r[2]>> /\ r[1] \in Int /\ r[2] \in Int /\ r # NoRegion
    BY RegionNames
  <2>2. c = <<c[1], c[2]>> /\ c[1] \in Int /\ c[2] \in Int
    BY ChunkAssumption DEF Meant
  <2>3. r = <<c[1] \div Side, c[2] \div Side>>
    BY <2>1 DEF Meant
  <2>4. unpack(NumberOf(n)) = r
    <3>1. Fits(r[1]) /\ Fits(r[2])
      BY <1>2 DEF FitsInode
    <3>2. NumberOf(n) = pack(r[1], r[2])
      BY DEF NumberOf, RegionInode
    <3> HIDE DEF r
    <3> QED BY <2>1, <3>1, <3>2, UnpackUndoesPack
  <2> HIDE DEF r
  <2>5. get_chunk_coords_from_offset(Address(c)) = <<c[1] % Side, c[2] % Side>>
    BY <2>2, AddressResolves
  <2>6. <<c[1] % Side, c[2] % Side>> # NoChunk
    BY DEF NoChunk
  <2>7. SlotAt(NumberOf(n), Address(c))
          = <<r[1] * Side + (c[1] % Side), r[2] * Side + (c[2] % Side)>>
    BY <2>4, <2>5, <2>6 DEF SlotAt
  <2>8. \A v \in Int : (v \div Side) * Side + (v % Side) = v
    BY Sizes
  <2> QED BY <2>2, <2>3, <2>7, <2>8
<1> QED BY <1>1, <1>2

-----------------------------------------------------------------------------
(* What clients have in hand, and what they ask. *)

Numbers == {ROOT} \cup {NumberOf(n) : n \in KnownNames}

\* What a client has in hand, whatever it asks and in whatever order it is
\* answered: files under their names' numbers, with no size or theirs, and
\* listings that are complete as far as they go.
Hand ==
  [name : KnownNames \cup {<<>>}, ino : Numbers, size : {NoSize, 0, FILE_SIZE},
   denied : SUBSET {"lookup"}, listed : Seq(Int), cursor : 0 .. Entries]

HandOK(f) ==
  /\ f \in Hand
  /\ f.denied \subseteq IF IsRegion(f.name) \/ f.size = NoSize THEN {} ELSE {"lookup"}
  /\ f.listed = [j \in 1 .. f.cursor |-> j - 1]
  /\ f.ino # ROOT => f.name \in KnownNames /\ f.ino = NumberOf(f.name)
  /\ f.size \in {NoSize, SizeOf(f.name)}
  /\ f.size # NoSize => f.name \in Name /\ f.ino = NumberOf(f.name)

\* A listing goes on where it stopped.
LEMMA ListingGoesOn ==
  ASSUME NEW k \in Nat, NEW m \in Nat, k <= m
  PROVE  [j \in 1 .. k |-> j - 1] \o [j \in 1 .. m - k |-> k + j - 1] = [j \in 1 .. m |-> j - 1]
<1> DEFINE f == [j \in 1 .. k |-> j - 1]
           g == [j \in 1 .. m - k |-> k + j - 1]
           h == [j \in 1 .. m |-> j - 1]
<1>1. f \in Seq(Int) /\ g \in Seq(Int) /\ h \in Seq(Int)
  OBVIOUS
<1>2. Len(f) = k /\ Len(g) = m - k /\ Len(h) = m
  OBVIOUS
<1>3. /\ \A j \in 1 .. k : f[j] = j - 1
      /\ \A j \in 1 .. m - k : g[j] = k + j - 1
      /\ \A j \in 1 .. m : h[j] = j - 1
  OBVIOUS
<1> HIDE DEF f, g, h
<1>4. /\ f \o g \in Seq(Int) /\ Len(f \o g) = m
      /\ \A j \in 1 .. m : (f \o g)[j] = IF j <= k THEN f[j] ELSE g[j - k]
  <2>1. /\ f \o g \in Seq(Int) /\ Len(f \o g) = Len(f) + Len(g)
        /\ \A j \in 1 .. Len(f) + Len(g) : (f \o g)[j] = IF j <= Len(f) THEN f[j] ELSE g[j - Len(f)]
    BY ONLY <1>1, ConcatProperties
  <2>2. Len(f) + Len(g) = m
    BY <1>2
  <2> QED BY <1>2, <2>1, <2>2
<1>5. ASSUME NEW j \in 1 .. m PROVE (f \o g)[j] = h[j]
  <2>1. CASE j <= k
    <3>1. j \in 1 .. k
      BY <2>1
    <3> QED BY <1>3, <1>4, <2>1, <3>1
  <2>2. CASE ~ (j <= k)
    <3>1. j - k \in 1 .. m - k /\ k + (j - k) - 1 = j - 1
      BY <2>2
    <3> QED BY <1>3, <1>4, <2>2, <3>1
  <2> QED BY <2>1, <2>2
<1>6. f \o g = h
  BY <1>1, <1>2, <1>4, <1>5, SeqEqual
<1> QED BY <1>6 DEF f, g, h

\* A client with nothing in hand has nothing wrong in hand.
LEMMA NothingOK == HandOK(Nothing) /\ Nothing.ino = ROOT /\ Nothing.size = NoSize
<1>1. [j \in 1 .. 0 |-> j - 1] = <<>>
  OBVIOUS
<1>2. Nothing \in Hand
  <2>1. <<>> \in Seq(Int) /\ 0 \in 0 .. Entries
    BY DEF Entries
  <2>2. ROOT \in Numbers /\ NoSize \in {NoSize, 0, FILE_SIZE}
    BY DEF Numbers
  <2> QED BY <2>1, <2>2 DEF Nothing, Hand
<1> QED BY <1>1, <1>2 DEF HandOK, Nothing

\* A client that resolves a name has the file in hand.
LEMMA ResolvedOK ==
  ASSUME NEW n \in Name, NEW ino, ino = NumberOf(n), NEW size, size = SizeOf(n)
  PROVE  HandOK([Nothing EXCEPT !.name = n, !.ino = ino, !.size = size])
<1> DEFINE f == [Nothing EXCEPT !.name = n, !.ino = ino, !.size = size]
<1>1. n \in KnownNames /\ ino \in Numbers /\ size \in {NoSize, 0, FILE_SIZE}
  BY DEF KnownNames, Numbers, SizeOf
<1>2. Nothing \in Hand /\ Nothing.denied = {} /\ Nothing.listed = <<>> /\ Nothing.cursor = 0
  BY NothingOK DEF HandOK, Nothing
<1>3. f \in Hand
  BY <1>1, <1>2 DEF Hand
<1>4. /\ f.name = n /\ f.ino = ino /\ f.size = size
      /\ f.denied = {} /\ f.listed = <<>> /\ f.cursor = 0
  BY <1>2 DEF Hand
<1>5. [j \in 1 .. 0 |-> j - 1] = <<>>
  OBVIOUS
<1> HIDE DEF f
<1>6. HandOK(f)
  BY <1>1, <1>3, <1>4, <1>5 DEF HandOK
<1> QED BY <1>6 DEF f

\* Whatever a handler says of the size of a file in hand is its size.
LEMMA SizedOK ==
  ASSUME NEW f, HandOK(f), f.size # NoSize
  PROVE  HandOK([f EXCEPT !.size = SizeOf(f.name)])
<1>1. SizeOf(f.name) \in {NoSize, 0, FILE_SIZE}
  BY DEF SizeOf
<1> QED BY <1>1 DEF HandOK, Hand

\* What is no region may be denied by a lookup.
LEMMA DeniedOK ==
  ASSUME NEW f, HandOK(f), f.size # NoSize, ~ IsRegion(f.name)
  PROVE  HandOK([f EXCEPT !.denied = @ \cup {"lookup"}])
BY DEF HandOK, Hand

\* A piece of the listing, and its end.
LEMMA ListedOK ==
  ASSUME NEW f, HandOK(f), f.size = NoSize, NEW end \in f.cursor .. Entries
  PROVE  LET more == [f EXCEPT !.listed = @ \o [j \in 1 .. end - f.cursor |-> f.cursor + j - 1],
                               !.cursor = end]
         IN HandOK(more) /\ HandOK([more EXCEPT !.name = Listed, !.ino = pack(0, 0)])
<1> DEFINE l == f.listed \o [j \in 1 .. end - f.cursor |-> f.cursor + j - 1]
           more == [f EXCEPT !.listed = l, !.cursor = end]
           last == [more EXCEPT !.name = Listed, !.ino = pack(0, 0)]
<1>1. f \in Hand /\ f.cursor \in 0 .. Entries /\ Entries = 3
  BY DEF HandOK, Hand, Entries
<1>2. end \in 0 .. Entries
  BY <1>1
<1>3. l = [j \in 1 .. end |-> j - 1]
  <2> DEFINE k == f.cursor
  <2>1. k \in Nat /\ end \in Nat /\ k <= end
    BY <1>1
  <2>2. f.listed = [j \in 1 .. k |-> j - 1]
    BY DEF HandOK
  <2> HIDE DEF k
  <2>3. [j \in 1 .. k |-> j - 1] \o [j \in 1 .. end - k |-> k + j - 1] = [j \in 1 .. end |-> j - 1]
    BY <2>1, ListingGoesOn
  <2> QED BY <2>2, <2>3 DEF k
<1>4. [j \in 1 .. end |-> j - 1] \in Seq(Int)
  BY <1>2
<1> HIDE DEF l
<1>5. more \in Hand
  BY <1>1, <1>2, <1>3, <1>4 DEF Hand
<1>6. /\ more.name = f.name /\ more.ino = f.ino /\ more.size = f.size /\ more.denied = f.denied
      /\ more.listed = l /\ more.cursor = end
  BY <1>1 DEF Hand
<1> HIDE DEF more
<1>7. more.denied = {} /\ more.size = NoSize
  BY <1>6 DEF HandOK
<1>8. more.ino # ROOT => more.name \in KnownNames /\ more.ino = NumberOf(more.name)
  BY <1>6 DEF HandOK
<1>9. more.listed = [j \in 1 .. more.cursor |-> j - 1]
  BY <1>3, <1>6
<1>10. more.denied \subseteq IF IsRegion(more.name) \/ more.size = NoSize THEN {} ELSE {"lookup"}
  BY <1>7
<1>11. more.size \in {NoSize, SizeOf(more.name)} /\ ~ more.size # NoSize
  BY <1>7
<1>12. HandOK(more)
  BY <1>5, <1>8, <1>9, <1>10, <1>11 DEF HandOK
<1>13. pack(0, 0) \in Numbers /\ Listed \in KnownNames /\ pack(0, 0) = NumberOf(Listed)
  BY ListedRegion DEF KnownNames, Numbers
<1>14. last \in Hand
  BY <1>5, <1>13 DEF Hand
<1>15. /\ last.name = Listed /\ last.ino = pack(0, 0) /\ last.size = NoSize /\ last.denied = more.denied
       /\ last.listed = l /\ last.cursor = end
  BY <1>5, <1>6 DEF Hand
<1> HIDE DEF last
<1>16. last.denied = {} /\ last.size = NoSize
  BY <1>15, <1>7
<1>17. last.denied \subseteq IF IsRegion(last.name) \/ last.size = NoSize THEN {} ELSE {"lookup"}
  BY <1>16
<1>18. last.size \in {NoSize, SizeOf(last.name)} /\ ~ last.size # NoSize
  BY <1>16
<1>19. last.name \in KnownNames /\ last.ino = NumberOf(last.name)
  BY <1>13, <1>15
<1>20. last.listed = [j \in 1 .. last.cursor |-> j - 1]
  BY <1>3, <1>15
<1>21. HandOK(last)
  BY <1>14, <1>17, <1>18, <1>19, <1>20 DEF HandOK
<1> QED BY <1>12, <1>21 DEF l, more, last

\* What a client asks follows from what it has in hand.
LEMMA Questions ==
  ASSUME NEW t \in Client, HandOK(hand[t]), NEW q \in CallsOf(t)
  PROVE  /\ q.op # "none"
         /\ q.op \in {"lookup", "create"} => q.name \in Name /\ q.ino = ROOT
         /\ q.op = "lookup" /\ hand[t].size # NoSize => q.name = hand[t].name
         /\ q.op = "readdir" => hand[t].size = NoSize /\ q.offset = hand[t].cursor /\ q.ino = ROOT
         /\ q.op \in {"unlink", "rename"} => q.ino = ROOT
         /\ q.op \in {"setattr", "flush", "fsync", "read", "write"} =>
              hand[t].size # NoSize /\ q.ino = hand[t].ino /\ q.name = hand[t].name
         /\ q.op \in {"getattr", "access", "getxattr", "listxattr"} =>
              \/ q.ino = ROOT
              \/ hand[t].size # NoSize /\ q.ino = hand[t].ino
         /\ q.op \in {"read", "write"} =>
              \/ q.chunk = NoPos /\ q.offset = 0
              \/ q.chunk \in Meant(q.name) /\ q.offset = Address(q.chunk)
<1> DEFINE f == hand[t]
           Of(ops, ino, names) ==
             {[op |-> op, ino |-> ino, name |-> n, offset |-> 0, chunk |-> NoPos] :
                op \in ops, n \in names}
<1>1. CASE f.size = NoSize
  <2>1. \/ q = [op |-> "readdir", ino |-> ROOT, name |-> <<>>, offset |-> f.cursor, chunk |-> NoPos]
        \/ q \in Of({"lookup", "create"}, ROOT, Name)
        \/ q \in Of({"getattr", "access", "getxattr", "listxattr"}, ROOT, {<<>>})
    BY <1>1 DEF CallsOf
  <2> QED BY <1>1, <2>1
<1>2. CASE f.size # NoSize
  <2>1. \/ q \in Of({"lookup", "unlink", "rename"}, ROOT, {f.name})
        \/ q \in Of({"getattr", "access", "setattr", "flush", "fsync", "getxattr",
                     "listxattr", "read", "write"}, f.ino, {f.name})
        \/ q \in {[op |-> op, ino |-> f.ino, name |-> f.name, offset |-> Address(c), chunk |-> c] :
                    op \in {"read", "write"}, c \in Meant(f.name)}
    BY <1>2 DEF CallsOf
  <2>2. f.name \in Name
    BY <1>2 DEF HandOK
  <2> QED BY <1>2, <2>1, <2>2
<1> QED BY <1>1, <1>2

-----------------------------------------------------------------------------
(* The inductive invariant. *)

FuseTypes ==
  /\ queue \in Seq(Client)
  /\ call = [t \in Client |-> call[t]]
  /\ hand \in [Client -> Hand]
  /\ reader \in Client \cup {Nobody}
  /\ thread \in [Writer -> Client \cup {Nobody}]

\* A client waits for a call that what it has in hand led it to, and what it
\* has in hand stays as it is until then.
Asks ==
  \A t \in Client : HandOK(hand[t]) /\ (call[t] = NoCall \/ call[t] \in CallsOf(t))

Queued(t) == \E j \in 1 .. Len(queue) : queue[j] = t

WrittenFor(t) == \E w \in Writer : thread[w] = t

\* Who waits is in exactly one place, and who is served has somebody at work.
Placed ==
  /\ \A i, j \in 1 .. Len(queue) : queue[i] = queue[j] => i = j
  /\ \A w, x \in Writer : thread[w] = thread[x] /\ thread[w] # Nobody => w = x
  /\ \A t \in Client :
       /\ call[t] # NoCall <=> Queued(t) \/ reader = t \/ WrittenFor(t)
       /\ ~ (Queued(t) /\ reader = t)
       /\ ~ (Queued(t) /\ WrittenFor(t))
       /\ ~ (reader = t /\ WrittenFor(t))
  /\ reader = Nobody <=> rd.pc = "idle"
  /\ \A w \in Writer : thread[w] = Nobody <=> wr[w].pc = "idle"

\* Whoever is served means a chunk of a region, and that chunk is at work.
Reached ==
  /\ reader # Nobody =>
       /\ IsRegion(call[reader].name)
       /\ FitsInode(call[reader].name) => rd.req = <<call[reader].chunk>>
  /\ \A w \in Writer : thread[w] # Nobody =>
       /\ IsRegion(call[thread[w]].name)
       /\ FitsInode(call[thread[w]].name) => wr[w].key = call[thread[w]].chunk

FuseInv == TypeInv /\ FuseTypes /\ Asks /\ Placed

-----------------------------------------------------------------------------
(* What the handlers do. *)

\* Who is taken up is gone from the queue, and nobody else is.
LEMMA TailKeeps ==
  ASSUME NEW S, NEW s \in Seq(S), s # <<>>,
         \A i, j \in 1 .. Len(s) : s[i] = s[j] => i = j
  PROVE  /\ Tail(s) \in Seq(S)
         /\ Head(s) \in S /\ \E j \in 1 .. Len(s) : s[j] = Head(s)
         /\ \A i, j \in 1 .. Len(Tail(s)) : Tail(s)[i] = Tail(s)[j] => i = j
         /\ \A u : (\E j \in 1 .. Len(Tail(s)) : Tail(s)[j] = u)
                     <=> (\E j \in 1 .. Len(s) : s[j] = u) /\ u # Head(s)
<1> DEFINE r == Tail(s)
<1>1. /\ r \in Seq(S) /\ Len(r) = Len(s) - 1 /\ Len(s) \in Nat \ {0}
      /\ \A j \in 1 .. Len(s) - 1 : r[j] = s[j + 1]
      /\ Head(s) \in S /\ Head(s) = s[1]
  BY HeadTailProperties, LenProperties, EmptySeq
<1> HIDE DEF r
<1>2. \A i, j \in 1 .. Len(r) : r[i] = r[j] => i = j
  <2> SUFFICES ASSUME NEW i \in 1 .. Len(r), NEW j \in 1 .. Len(r), r[i] = r[j] PROVE i = j
    OBVIOUS
  <2>1. i + 1 \in 1 .. Len(s) /\ j + 1 \in 1 .. Len(s) /\ s[i + 1] = s[j + 1]
    BY <1>1
  <2>2. i + 1 = j + 1
    BY <2>1
  <2> QED BY <1>1, <2>2
<1>3. ASSUME NEW u, NEW j \in 1 .. Len(r), r[j] = u
      PROVE  (\E i \in 1 .. Len(s) : s[i] = u) /\ u # Head(s)
  <2>1. j + 1 \in 1 .. Len(s) /\ s[j + 1] = u /\ 1 \in 1 .. Len(s) /\ j + 1 # 1
    BY <1>1, <1>3
  <2> QED BY <1>1, <2>1
<1>4. ASSUME NEW u, NEW j \in 1 .. Len(s), s[j] = u, u # Head(s)
      PROVE  \E i \in 1 .. Len(r) : r[i] = u
  <2>1. j - 1 \in 1 .. Len(r) /\ r[j - 1] = u
    BY <1>1, <1>4
  <2> QED BY <2>1
<1>5. \E j \in 1 .. Len(s) : s[j] = Head(s)
  BY <1>1
<1>6. \A u : (\E j \in 1 .. Len(r) : r[j] = u) <=> (\E j \in 1 .. Len(s) : s[j] = u) /\ u # Head(s)
  BY <1>3, <1>4
<1> QED BY <1>1, <1>2, <1>5, <1>6 DEF r

\* Who calls is in the queue, behind those that were in it.
LEMMA AppendAdds ==
  ASSUME NEW S, NEW s \in Seq(S), NEW x \in S,
         \A i, j \in 1 .. Len(s) : s[i] = s[j] => i = j,
         ~ \E j \in 1 .. Len(s) : s[j] = x
  PROVE  /\ Append(s, x) \in Seq(S)
         /\ \A i, j \in 1 .. Len(Append(s, x)) : Append(s, x)[i] = Append(s, x)[j] => i = j
         /\ \A u : (\E j \in 1 .. Len(Append(s, x)) : Append(s, x)[j] = u)
                     <=> (\E j \in 1 .. Len(s) : s[j] = u) \/ u = x
<1> DEFINE r == Append(s, x)
<1>1. /\ r \in Seq(S) /\ Len(r) = Len(s) + 1 /\ Len(s) \in Nat
      /\ \A j \in 1 .. Len(s) : r[j] = s[j]
      /\ r[Len(s) + 1] = x
  BY AppendProperties, LenProperties
<1> HIDE DEF r
<1>2. \A i, j \in 1 .. Len(r) : r[i] = r[j] => i = j
  BY <1>1
<1>3. ASSUME NEW u, NEW j \in 1 .. Len(r), r[j] = u
      PROVE  (\E i \in 1 .. Len(s) : s[i] = u) \/ u = x
  BY <1>1, <1>3
<1>4. ASSUME NEW u, (\E j \in 1 .. Len(s) : s[j] = u) \/ u = x
      PROVE  \E i \in 1 .. Len(r) : r[i] = u
  <2>1. CASE u = x
    <3>1. Len(s) + 1 \in 1 .. Len(r) /\ r[Len(s) + 1] = u
      BY <1>1, <2>1
    <3> QED BY <3>1
  <2>2. CASE \E j \in 1 .. Len(s) : s[j] = u
    <3>1. PICK j \in 1 .. Len(s) : s[j] = u
      BY <2>2
    <3>2. j \in 1 .. Len(r) /\ r[j] = u
      BY <1>1, <3>1
    <3> QED BY <3>2
  <2> QED BY <1>4, <2>1, <2>2
<1>5. \A u : (\E j \in 1 .. Len(r) : r[j] = u) <=> (\E j \in 1 .. Len(s) : s[j] = u) \/ u = x
  BY <1>3, <1>4
<1> QED BY <1>1, <1>2, <1>5 DEF r

\* The client whose call is taken up waits for it.
LEMMA TakenUp ==
  ASSUME FuseInv, NEW t \in Client, NEW op, TakeUp(t, op)
  PROVE  /\ call[t] \in CallsOf(t) /\ call[t].op = op
         /\ HandOK(hand[t])
         /\ Queued(t)
<1>1. queue \in Seq(Client) /\ queue # <<>> /\ t = Head(queue)
      /\ \A i, j \in 1 .. Len(queue) : queue[i] = queue[j] => i = j
  BY DEF TakeUp, FuseInv, FuseTypes, Placed
<1>2. Queued(t)
  BY <1>1, TailKeeps DEF Queued
<1>3. call[t] # NoCall
  BY <1>2 DEF FuseInv, Placed
<1> QED BY <1>2, <1>3 DEF FuseInv, Asks, TakeUp

\* A handler that answers at once leaves the client with a file or a listing
\* that is as it should be.
LEMMA HandlerAnswers ==
  ASSUME FuseInv, NEW t \in Client,
         \/ Lookup(t) \/ Create(t) \/ Readdir(t)
         \/ Getattr(t) \/ Setattr(t) \/ Access(t) \/ Getxattr(t) \/ Listxattr(t)
         \/ Flush(t) \/ Fsync(t) \/ Unlink(t) \/ Rename(t)
  PROVE  \E op : TakeUp(t, op) /\ \E f : HandOK(f) /\ Answer(t, f)
<1> DEFINE q == call[t]
           h == hand[t]
           Goal == \E op : TakeUp(t, op) /\ \E f : HandOK(f) /\ Answer(t, f)
<1>1. CASE Lookup(t)
  <2>1. TakeUp(t, "lookup") /\ q \in CallsOf(t) /\ q.op = "lookup" /\ HandOK(h)
    BY <1>1, TakenUp DEF Lookup
  <2>2. q.name \in Name
    BY <2>1, Questions
  <2>3. CASE q.ino = ROOT /\ Readable(q.name) /\ IsRegion(q.name)
    <3>1. HandOK([Nothing EXCEPT !.name = q.name, !.ino = RegionInode(q.name), !.size = FILE_SIZE])
      <4>1. RegionInode(q.name) = NumberOf(q.name) /\ FILE_SIZE = SizeOf(q.name)
        BY <2>3 DEF NumberOf, SizeOf
      <4> QED BY <2>2, <4>1, ResolvedOK
    <3>2. Answer(t, [Nothing EXCEPT !.name = q.name, !.ino = RegionInode(q.name), !.size = FILE_SIZE])
      BY <1>1, <2>3 DEF Lookup
    <3> QED BY <2>1, <3>1, <3>2
  <2>4. CASE ~ (q.ino = ROOT /\ Readable(q.name) /\ IsRegion(q.name))
    <3>1. Answer(t, Denied(t))
      BY <1>1, <2>4 DEF Lookup
    <3>2. ~ IsRegion(q.name)
      <4>1. q.ino = ROOT
        BY <2>1, Questions
      <4>2. Readable(q.name) \/ ~ IsRegion(q.name)
        BY DEF Readable, IsRegion, parse_region_filename
      <4> QED BY <2>4, <4>1, <4>2
    <3>3. HandOK(Denied(t))
      <4>1. CASE h.size = NoSize
        BY <2>1, <4>1 DEF Denied
      <4>2. CASE h.size # NoSize
        <5>1. ~ IsRegion(h.name)
          BY <2>1, <3>2, <4>2, Questions
        <5> QED BY <2>1, <4>2, <5>1, DeniedOK DEF Denied
      <4> QED BY <4>1, <4>2
    <3> QED BY <2>1, <3>1, <3>3
  <2> QED BY <2>3, <2>4
<1>2. CASE Create(t)
  <2> DEFINE ino == IF IsRegion(q.name) THEN RegionInode(q.name) ELSE pack_generic(q.name)
             size == IF is_region_inode(ino) THEN FILE_SIZE ELSE 0
             f == [Nothing EXCEPT !.name = q.name, !.ino = ino, !.size = size]
  <2>1. TakeUp(t, "create") /\ q \in CallsOf(t) /\ q.op = "create" /\ HandOK(h)
    BY <1>2, TakenUp DEF Create
  <2>2. q.name \in Name
    BY <2>1, Questions
  <2>3. HandOK(f)
    <3>1. ino = NumberOf(q.name)
      BY DEF NumberOf
    <3>2. size = SizeOf(q.name)
      <4>1. is_region_inode(NumberOf(q.name)) <=> IsRegion(q.name)
        BY <2>2, NumberFlags DEF KnownNames
      <4> HIDE DEF ino
      <4> QED BY <3>1, <4>1 DEF SizeOf
    <3> HIDE DEF ino, size
    <3> QED BY <2>2, <3>1, <3>2, ResolvedOK
  <2>4. Answer(t, f) \/ Answer(t, h)
    BY <1>2 DEF Create
  <2> QED BY <2>1, <2>3, <2>4
<1>3. CASE Readdir(t)
  <2>1. TakeUp(t, "readdir") /\ q \in CallsOf(t) /\ q.op = "readdir" /\ HandOK(h)
    BY <1>3, TakenUp DEF Readdir
  <2>2. h.size = NoSize /\ q.offset = h.cursor
    BY <2>1, Questions
  <2> DEFINE More(end) == [h EXCEPT !.listed = @ \o [i \in 1 .. end - q.offset |-> q.offset + i - 1],
                                    !.cursor = end]
             Ended(end) == [More(end) EXCEPT !.name = Listed, !.ino = pack(0, 0)]
  <2>3. PICK end \in q.offset .. Entries : Answer(t, More(end)) \/ Answer(t, Ended(end))
    BY <1>3 DEF Readdir
  <2>4. HandOK(More(end)) /\ HandOK(Ended(end))
    BY <2>1, <2>2, ListedOK
  <2> QED BY <2>1, <2>3, <2>4
<1>4. CASE Getattr(t)
  <2>1. TakeUp(t, "getattr") /\ q \in CallsOf(t) /\ q.op = "getattr" /\ HandOK(h)
    BY <1>4, TakenUp DEF Getattr
  <2>2. q.ino = ROOT \/ (h.size # NoSize /\ q.ino = h.ino)
    BY <2>1, Questions
  <2>3. CASE q.ino = ROOT
    BY <1>4, <2>1, <2>3 DEF Getattr
  <2>4. CASE q.ino # ROOT
    <3>1. h.size # NoSize /\ q.ino = NumberOf(h.name) /\ h.name \in KnownNames
      BY <2>1, <2>2, <2>4 DEF HandOK
    <3>2. Known(q.ino) /\ (is_region_inode(q.ino) <=> IsRegion(h.name))
      BY <3>1, NumberFlags
    <3>3. (IF is_region_inode(q.ino) THEN FILE_SIZE ELSE 0) = SizeOf(h.name)
      BY <3>2 DEF SizeOf
    <3>4. HandOK([h EXCEPT !.size = SizeOf(h.name)])
      BY <2>1, <3>1, SizedOK
    <3>5. Answer(t, [h EXCEPT !.size = SizeOf(h.name)])
      BY <1>4, <2>4, <3>2, <3>3 DEF Getattr, Unless
    <3> QED BY <2>1, <3>4, <3>5
  <2> QED BY <2>3, <2>4
<1>5. CASE Setattr(t)
  <2>1. TakeUp(t, "setattr") /\ q \in CallsOf(t) /\ q.op = "setattr" /\ HandOK(h)
    BY <1>5, TakenUp DEF Setattr
  <2>2. h.size # NoSize /\ q.ino = NumberOf(h.name) /\ h.name \in KnownNames
    BY <2>1, Questions DEF HandOK, KnownNames
  <2>3. Known(q.ino) /\ (is_generic_inode(q.ino) <=> ~ IsRegion(h.name))
    BY <2>2, NumberFlags
  <2>4. (IF is_generic_inode(q.ino) THEN 0 ELSE FILE_SIZE) = SizeOf(h.name)
    BY <2>3 DEF SizeOf
  <2>5. HandOK([h EXCEPT !.size = SizeOf(h.name)])
    BY <2>1, <2>2, SizedOK
  <2>6. Answer(t, [h EXCEPT !.size = SizeOf(h.name)])
    BY <1>5, <2>3, <2>4 DEF Setattr, Unless
  <2> QED BY <2>1, <2>5, <2>6
<1>6. ASSUME NEW op \in {"access", "getxattr", "listxattr", "flush", "fsync", "unlink", "rename"},
             TakeUp(t, op), NEW found, Answer(t, Unless(t, found, h)),
             found <=> q.ino = ROOT \/ Known(q.ino)
      PROVE  Goal
  <2>1. q \in CallsOf(t) /\ q.op = op /\ HandOK(h)
    BY <1>6, TakenUp
  <2>2. q.ino = ROOT \/ (h.size # NoSize /\ q.ino = h.ino)
    BY <2>1, Questions
  <2>3. q.ino = ROOT \/ Known(q.ino)
    BY <2>1, <2>2, NumberFlags DEF HandOK, KnownNames
  <2>4. Answer(t, h)
    BY <1>6, <2>3 DEF Unless
  <2> QED BY <1>6, <2>1, <2>4
<1>7. CASE Access(t) \/ Getxattr(t) \/ Listxattr(t)
  <2>1. PICK op \in {"access", "getxattr", "listxattr"} :
          TakeUp(t, op) /\ Answer(t, Unless(t, q.ino = ROOT \/ Known(q.ino), h))
    BY <1>7 DEF Access, Getxattr, Listxattr
  <2> QED BY <1>6, <2>1
<1>8. CASE Flush(t) \/ Fsync(t)
  <2>1. PICK op \in {"flush", "fsync"} :
          TakeUp(t, op) /\ Answer(t, Unless(t, Known(q.ino), h))
    BY <1>8 DEF Flush, Fsync
  <2>2. q \in CallsOf(t) /\ q.op = op /\ HandOK(h)
    BY <2>1, TakenUp
  <2>3. Known(q.ino)
    <3>1. h.size # NoSize /\ q.ino = h.ino
      BY <2>2, Questions
    <3> QED BY <2>2, <3>1, NumberFlags DEF HandOK, KnownNames
  <2> QED BY <1>6, <2>1, <2>3
<1>9. CASE Unlink(t) \/ Rename(t)
  <2>1. PICK op \in {"unlink", "rename"} :
          TakeUp(t, op) /\ Answer(t, Unless(t, q.ino = ROOT, h))
    BY <1>9 DEF Unlink, Rename
  <2>2. q \in CallsOf(t) /\ q.op = op /\ HandOK(h)
    BY <2>1, TakenUp
  <2>3. q.ino = ROOT
    BY <2>2, Questions
  <2> QED BY <1>6, <2>1, <2>3
<1> QED BY <1>1, <1>2, <1>3, <1>4, <1>5, <1>7, <1>8, <1>9

\* A read that is passed on is one of the chunk that a region's number and
\* the offset name.
LEMMA ReadHandled ==
  ASSUME EntriesFit, WholeRegions, FuseInv, NEW t \in Client, Read(t)
  PROVE  LET q == call[t]
             slot == SlotAt(q.ino, q.offset)
         IN /\ TakeUp(t, "read")
            /\ \/ HandOK(hand[t]) /\ Answer(t, hand[t])
               \/ /\ DispatchRead(<<slot>>) /\ reader' = t
                  /\ UNCHANGED <<call, hand, thread, writes>>
                  /\ slot \in Chunk /\ IsRegion(q.name)
                  /\ FitsInode(q.name) => slot = q.chunk
<1> DEFINE q == call[t]
           h == hand[t]
           slot == SlotAt(q.ino, q.offset)
<1>1. TakeUp(t, "read") /\ q \in CallsOf(t) /\ q.op = "read" /\ HandOK(h)
  BY TakenUp DEF Read
<1>2. /\ q.name \in Name /\ q.ino = NumberOf(q.name)
      /\ \/ q.chunk = NoPos /\ q.offset = 0
         \/ q.chunk \in Meant(q.name) /\ q.offset = Address(q.chunk)
  <2>1. h.size # NoSize /\ q.ino = h.ino /\ q.name = h.name
    BY <1>1, Questions
  <2>2. \/ q.chunk = NoPos /\ q.offset = 0
        \/ q.chunk \in Meant(q.name) /\ q.offset = Address(q.chunk)
    BY <1>1, Questions
  <2> QED BY <1>1, <2>1, <2>2 DEF HandOK
<1>3. q.name \in KnownNames
  BY <1>2 DEF KnownNames
<1>4. CASE unpack(q.ino) # NoRegion /\ slot # NoPos
  <2>1. IsRegion(q.name)
    BY <1>2, <1>3, <1>4, NumberFlags
  <2>2. q.chunk \in Meant(q.name) /\ q.offset = Address(q.chunk)
    BY <1>2, <1>3, <1>4, <2>1, SlotOfRegion
  <2>3. slot \in Chunk
    BY <1>2, <2>1, <2>2 DEF WholeRegions, NumberOf
  <2>4. FitsInode(q.name) => slot = q.chunk
    BY <1>2, <1>3, <2>1, <2>2, SlotOfRegion
  <2>5. DispatchRead(<<slot>>) /\ reader' = t /\ UNCHANGED <<call, hand, thread, writes>>
    BY <1>4 DEF Read
  <2> QED BY <1>1, <2>1, <2>3, <2>4, <2>5
<1>5. CASE ~ (unpack(q.ino) # NoRegion /\ slot # NoPos)
  <2>1. Answer(t, h)
    BY <1>5 DEF Read
  <2> QED BY <1>1, <2>1
<1> QED BY <1>4, <1>5

\* A whole packet is put under the chunk that it holds, or dropped.
LEMMA WholeDispatch ==
  ASSUME TypeInv, Fragments = {},
         NEW w \in Writer, NEW c \in Chunk, NEW slot, DispatchWrite(w, c, slot)
  PROVE  wr'[w].key = IF slot = NoPos THEN NoPos ELSE c
<1>1. wr \in [Writer -> WriteState]
  BY DEF TypeInv, TypeOK
<1>2. PICK d \in WritePackets(c, nwrites') :
        LET n == unwrap_and_decompress_chunk(d)
        IN wr' = [wr EXCEPT ![w] =
             IF slot # NoPos /\ unwraps(d)
               THEN [pc |-> IF Persistent THEN "save" ELSE "reply",
                     key |-> SaveKey(slot, n), nbt |-> n]
               ELSE [pc |-> "reply", key |-> NoPos, nbt |-> n]]
  BY DEF DispatchWrite
<1>3. d.kind \in {"deflated", "plain"} /\ d.whole = TRUE /\ d.nbt.pos = c
  <2> DEFINE n == [pos |-> c, ver |-> nwrites', exact |-> TRUE]
  <2>1. n.pos = c
    OBVIOUS
  <2>2. \/ d \in [kind : {"deflated", "plain"}, whole : {TRUE}, nbt : {n}]
        \/ d \in [kind : Fragments, whole : {FALSE}, nbt : {n}]
    BY <1>2 DEF WritePackets
  <2> HIDE DEF n
  <2>3. d \notin [kind : Fragments, whole : {FALSE}, nbt : {n}]
    OBVIOUS
  <2> QED BY <2>1, <2>2, <2>3
<1> DEFINE n == unwrap_and_decompress_chunk(d)
<1>4. unwraps(d) /\ n.pos = c
  BY <1>3 DEF unwraps, unwrap_and_decompress_chunk
<1>5. wr'[w] = IF slot # NoPos /\ unwraps(d)
                 THEN [pc |-> IF Persistent THEN "save" ELSE "reply",
                       key |-> SaveKey(slot, n), nbt |-> n]
                 ELSE [pc |-> "reply", key |-> NoPos, nbt |-> n]
  BY <1>1, <1>2
<1> HIDE DEF n
<1>6. c # NoPos
  BY ChunkAssumption
<1>7. SaveKey(slot, n) = c
  BY <1>4, <1>6 DEF SaveKey, verify_chunk_coords
<1> QED BY <1>4, <1>5, <1>7

\* A write that is passed on is one to a region, and goes to the thread that
\* answers it.
LEMMA WriteHandled ==
  ASSUME EntriesFit, WholeRegions, FuseInv, NEW t \in Client, Write(t)
  PROVE  LET q == call[t]
             slot == SlotAt(q.ino, q.offset)
         IN /\ TakeUp(t, "write")
            /\ \/ HandOK(hand[t]) /\ Answer(t, hand[t])
               \/ \E w \in Writer, c \in Chunk :
                    /\ DispatchWrite(w, c, slot)
                    /\ thread' = [thread EXCEPT ![w] = t]
                    /\ UNCHANGED <<call, hand, reader, writes>>
                    /\ slot \in Chunk \cup {NoPos} /\ IsRegion(q.name)
                    /\ FitsInode(q.name) => q.chunk = IF slot = NoPos THEN NoPos ELSE c
<1> DEFINE q == call[t]
           h == hand[t]
           slot == SlotAt(q.ino, q.offset)
           Targets == IF q.chunk = NoPos THEN {CHOOSE d \in Chunk : TRUE} ELSE {q.chunk}
<1>1. TakeUp(t, "write") /\ q \in CallsOf(t) /\ q.op = "write" /\ HandOK(h)
  BY TakenUp DEF Write
<1>2. /\ q.name \in Name /\ q.ino = NumberOf(q.name)
      /\ \/ q.chunk = NoPos /\ q.offset = 0
         \/ q.chunk \in Meant(q.name) /\ q.offset = Address(q.chunk)
  <2>1. h.size # NoSize /\ q.ino = h.ino /\ q.name = h.name
    BY <1>1, Questions
  <2>2. \/ q.chunk = NoPos /\ q.offset = 0
        \/ q.chunk \in Meant(q.name) /\ q.offset = Address(q.chunk)
    BY <1>1, Questions
  <2> QED BY <1>1, <2>1, <2>2 DEF HandOK
<1>3. q.name \in KnownNames
  BY <1>2 DEF KnownNames
<1>4. CASE unpack(q.ino) # NoRegion
  <2>1. IsRegion(q.name)
    BY <1>2, <1>3, <1>4, NumberFlags
  <2>2. PICK w \in Writer, c \in Targets :
          /\ DispatchWrite(w, c, slot)
          /\ thread' = [thread EXCEPT ![w] = t]
          /\ UNCHANGED <<call, hand, reader, writes>>
    BY <1>4 DEF Write
  <2>3. CASE q.chunk = NoPos /\ q.offset = 0
    <3>1. c \in Chunk
      BY <2>2, <2>3 DEF WholeRegions
    <3>2. slot = NoPos
      BY <1>2, <1>3, <2>1, <2>3, SlotOfRegion
    <3> QED BY <1>1, <2>1, <2>2, <2>3, <3>1, <3>2
  <2>4. CASE q.chunk \in Meant(q.name) /\ q.offset = Address(q.chunk)
    <3>1. c = q.chunk /\ c \in Chunk
      BY <2>2, <2>4, ChunkAssumption DEF Meant
    <3>2. slot \in Chunk
      BY <1>2, <2>1, <2>4 DEF WholeRegions, NumberOf
    <3>3. slot # NoPos
      BY <3>2, ChunkAssumption
    <3> QED BY <1>1, <2>1, <2>2, <3>1, <3>2, <3>3
  <2> QED BY <1>2, <2>3, <2>4
<1>5. CASE unpack(q.ino) = NoRegion
  <2>1. ~ IsRegion(q.name)
    BY <1>2, <1>3, <1>5, NumberFlags
  <2>2. is_generic_inode(q.ino)
    BY <1>2, <1>3, <2>1, NumberFlags
  <2>3. Answer(t, h)
    BY <1>5, <2>2 DEF Write, Unless
  <2> QED BY <1>1, <2>3
<1> QED BY <1>4, <1>5

-----------------------------------------------------------------------------
(* The handlers drive VirtualFile as its model allows. *)

\* Every step of the file system is one of VirtualFile or leaves it alone.
LEMMA FuseStepServes ==
  ASSUME EntriesFit, WholeRegions, FuseInv, [FuseNext]_allVars
  PROVE  [Next]_vars
<1>1. ASSUME NEW t \in Client, Send(t) \/ Close(t) PROVE UNCHANGED vars
  BY <1>1 DEF Send, Close
<1>2. ASSUME NEW t \in Client, Handle(t) PROVE [Next]_vars
  <2>1. CASE Read(t)
    <3> DEFINE slot == SlotAt(call[t].ino, call[t].offset)
    <3>1. UNCHANGED vars \/ (DispatchRead(<<slot>>) /\ slot \in Chunk)
      BY <2>1, ReadHandled DEF Answer
    <3>2. slot \in Chunk => <<slot>> \in Requests
      BY DEF WholeRegions
    <3> QED BY <3>1, <3>2 DEF Next
  <2>2. CASE Write(t)
    <3> DEFINE slot == SlotAt(call[t].ino, call[t].offset)
    <3>1. \/ UNCHANGED vars
          \/ \E w \in Writer, c \in Chunk : DispatchWrite(w, c, slot) /\ slot \in Chunk \cup {NoPos}
      BY <2>2, WriteHandled DEF Answer
    <3> QED BY <3>1 DEF Next
  <2>3. CASE \/ Lookup(t) \/ Create(t) \/ Readdir(t)
             \/ Getattr(t) \/ Setattr(t) \/ Access(t) \/ Getxattr(t) \/ Listxattr(t)
             \/ Flush(t) \/ Fsync(t) \/ Unlink(t) \/ Rename(t)
    BY <2>3, HandlerAnswers DEF Answer
  <2> QED BY <1>2, <2>1, <2>2, <2>3 DEF Handle
<1>3. CASE ReadWork
  BY <1>3 DEF ReadWork, Next, ReadStep
<1>4. CASE ReadAnswer
  BY <1>4 DEF ReadAnswer, Next, ReadStep
<1>5. ASSUME NEW w \in Writer, WriteWork(w) \/ WriteAnswer(w) PROVE Next
  BY <1>5 DEF WriteWork, WriteAnswer, Next, WriteStep
<1>6. CASE Remount
  BY <1>6 DEF Remount, Next
<1>7. CASE UNCHANGED allVars
  BY <1>7 DEF allVars
<1> QED BY <1>1, <1>2, <1>3, <1>4, <1>5, <1>6, <1>7 DEF FuseNext

-----------------------------------------------------------------------------
(* Every call is in one place. *)

AllAtRest ==
  /\ rd = IdleRead /\ wr = [w \in Writer |-> IdleWrite]
  /\ queue = <<>> /\ call = [t \in Client |-> NoCall] /\ hand = [t \in Client |-> Nothing]
  /\ reader = Nobody /\ thread = [w \in Writer |-> Nobody]

\* At the start, and after a restart, nobody waits and nobody works.
LEMMA AllIdle == AllAtRest => FuseTypes /\ Asks /\ Placed
<1> SUFFICES ASSUME AllAtRest PROVE FuseTypes /\ Asks /\ Placed
  OBVIOUS
<1> USE DEF AllAtRest
<1>1. HandOK(Nothing) /\ Nothing \in Hand
  BY NothingOK DEF HandOK
<1>2. FuseTypes /\ Asks
  BY <1>1 DEF FuseTypes, Asks
<1>3. \A t \in Client : ~ Queued(t) /\ reader # t /\ ~ WrittenFor(t)
  BY FuseAssumption DEF Queued, WrittenFor
<1>4. rd.pc = "idle" /\ \A w \in Writer : wr[w].pc = "idle"
  BY DEF IdleRead, IdleWrite
<1> QED BY <1>2, <1>3, <1>4 DEF Placed

\* What a client asks depends on what it has in hand alone.
LEMMA SameQuestions ==
  ASSUME NEW t \in Client, hand'[t] = hand[t]
  PROVE  CallsOf(t)' = CallsOf(t)
BY DEF CallsOf

\* Taking a call up takes its client out of the queue.
LEMMA QueueAfterTakeUp ==
  ASSUME FuseInv, NEW t \in Client, NEW op, TakeUp(t, op)
  PROVE  /\ queue' \in Seq(Client)
         /\ \A i, j \in 1 .. Len(queue') : queue'[i] = queue'[j] => i = j
         /\ \A u : Queued(u)' <=> Queued(u) /\ u # t
         /\ Queued(t) /\ reader = Nobody /\ ~ WrittenFor(t) /\ call[t] # NoCall
<1>1. /\ queue \in Seq(Client) /\ queue # <<>> /\ t = Head(queue) /\ queue' = Tail(queue)
      /\ \A i, j \in 1 .. Len(queue) : queue[i] = queue[j] => i = j
  BY DEF TakeUp, FuseInv, FuseTypes, Placed
<1>2. /\ queue' \in Seq(Client)
      /\ \A i, j \in 1 .. Len(queue') : queue'[i] = queue'[j] => i = j
      /\ \A u : (\E j \in 1 .. Len(queue') : queue'[j] = u)
                  <=> (\E j \in 1 .. Len(queue) : queue[j] = u) /\ u # t
  BY <1>1, TailKeeps
<1>3. \A u : Queued(u)' <=> Queued(u) /\ u # t
  BY <1>2 DEF Queued
<1>4. reader = Nobody
  BY DEF TakeUp, SessionFree, FuseInv, Placed
<1>5. Queued(t)
  BY TakenUp
<1>6. ~ WrittenFor(t) /\ call[t] # NoCall
  BY <1>5 DEF FuseInv, Placed
<1> QED BY <1>2, <1>3, <1>4, <1>5, <1>6

\* A call that is answered at once is gone.
LEMMA AnswerKeeps ==
  ASSUME FuseInv, NEW t \in Client, NEW op, TakeUp(t, op), NEW f, HandOK(f), Answer(t, f)
  PROVE  FuseTypes' /\ Asks' /\ Placed'
<1>1. /\ call' = [call EXCEPT ![t] = NoCall] /\ hand' = [hand EXCEPT ![t] = f]
      /\ rd' = rd /\ wr' = wr /\ reader' = reader /\ thread' = thread
  BY DEF Answer, vars
<1>2. /\ call = [u \in Client |-> call[u]] /\ hand \in [Client -> Hand]
      /\ reader \in Client \cup {Nobody} /\ thread \in [Writer -> Client \cup {Nobody}]
  BY DEF FuseInv, FuseTypes
<1>3. /\ call' = [u \in Client |-> call'[u]]
      /\ \A u \in Client : call'[u] = IF u = t THEN NoCall ELSE call[u]
      /\ hand' \in [Client -> Hand]
      /\ \A u \in Client : hand'[u] = IF u = t THEN f ELSE hand[u]
  <2>1. f \in Hand
    BY DEF HandOK
  <2> QED BY <1>1, <1>2, <2>1
<1>4. FuseTypes'
  BY <1>1, <1>2, <1>3, QueueAfterTakeUp DEF FuseTypes
<1>5. Asks'
  <2> SUFFICES ASSUME NEW u \in Client
               PROVE  HandOK(hand'[u]) /\ (call'[u] = NoCall \/ call'[u] \in CallsOf(u)')
    BY DEF Asks
  <2>1. CASE u = t
    BY <1>3, <2>1
  <2>2. CASE u # t
    <3>1. hand'[u] = hand[u] /\ call'[u] = call[u]
      BY <1>3, <2>2
    <3> QED BY <3>1, SameQuestions DEF FuseInv, Asks
  <2> QED BY <2>1, <2>2
<1>6. Placed'
  <2>1. \A u \in Client : WrittenFor(u)' <=> WrittenFor(u)
    BY <1>1 DEF WrittenFor
  <2>2. ASSUME NEW u \in Client
        PROVE  /\ call'[u] # NoCall <=> Queued(u)' \/ reader' = u \/ WrittenFor(u)'
               /\ ~ (Queued(u)' /\ reader' = u)
               /\ ~ (Queued(u)' /\ WrittenFor(u)')
               /\ ~ (reader' = u /\ WrittenFor(u)')
    <3>1. Queued(u)' <=> Queued(u) /\ u # t
      BY QueueAfterTakeUp
    <3>2. reader = Nobody /\ ~ WrittenFor(t)
      BY QueueAfterTakeUp
    <3>3. /\ call[u] # NoCall <=> Queued(u) \/ reader = u \/ WrittenFor(u)
          /\ ~ (Queued(u) /\ WrittenFor(u))
      BY DEF FuseInv, Placed
    <3>4. u # Nobody
      BY FuseAssumption
    <3> QED BY <1>1, <1>3, <2>1, <3>1, <3>2, <3>3, <3>4
  <2>3. \A i, j \in 1 .. Len(queue') : queue'[i] = queue'[j] => i = j
    BY QueueAfterTakeUp
  <2> QED BY <1>1, <2>2, <2>3 DEF FuseInv, Placed
<1> QED BY <1>4, <1>5, <1>6

\* A read that is passed on is read for.
LEMMA ReadKeeps ==
  ASSUME FuseInv, NEW t \in Client, TakeUp(t, "read"), NEW r, DispatchRead(r),
         reader' = t, UNCHANGED <<call, hand, thread, writes>>
  PROVE  FuseTypes' /\ Asks' /\ Placed'
<1>1. /\ rd'.pc = "lookup" /\ wr' = wr
      /\ call' = call /\ hand' = hand /\ reader' = t /\ thread' = thread
  BY DEF DispatchRead, IdleRead
<1>2. FuseTypes'
  BY <1>1, QueueAfterTakeUp DEF FuseInv, FuseTypes
<1>3. Asks'
  <2> SUFFICES ASSUME NEW u \in Client
               PROVE  HandOK(hand'[u]) /\ (call'[u] = NoCall \/ call'[u] \in CallsOf(u)')
    BY DEF Asks
  <2>1. hand'[u] = hand[u] /\ call'[u] = call[u]
    BY <1>1
  <2> QED BY <2>1, SameQuestions DEF FuseInv, Asks
<1>4. \A u \in Client : WrittenFor(u)' <=> WrittenFor(u)
  BY <1>1 DEF WrittenFor
<1>5. ASSUME NEW u \in Client
      PROVE  /\ call'[u] # NoCall <=> Queued(u)' \/ reader' = u \/ WrittenFor(u)'
             /\ ~ (Queued(u)' /\ reader' = u)
             /\ ~ (Queued(u)' /\ WrittenFor(u)')
             /\ ~ (reader' = u /\ WrittenFor(u)')
  <2>1. Queued(u)' <=> Queued(u) /\ u # t
    BY QueueAfterTakeUp
  <2>2. reader = Nobody /\ ~ WrittenFor(t) /\ call[t] # NoCall /\ u # Nobody
    BY QueueAfterTakeUp, FuseAssumption
  <2>3. /\ call[u] # NoCall <=> Queued(u) \/ reader = u \/ WrittenFor(u)
        /\ ~ (Queued(u) /\ WrittenFor(u))
    BY DEF FuseInv, Placed
  <2> QED BY <1>1, <1>4, <2>1, <2>2, <2>3
<1>6. reader' # Nobody /\ rd'.pc # "idle"
  BY <1>1, FuseAssumption
<1>7. \A i, j \in 1 .. Len(queue') : queue'[i] = queue'[j] => i = j
  BY QueueAfterTakeUp
<1>8. Placed'
  BY <1>1, <1>5, <1>6, <1>7 DEF FuseInv, Placed
<1> QED BY <1>2, <1>3, <1>8

\* A write that is passed on is written for by one thread.
LEMMA WriteKeeps ==
  ASSUME FuseInv, NEW t \in Client, TakeUp(t, "write"),
         NEW w \in Writer, NEW c, NEW slot, DispatchWrite(w, c, slot),
         thread' = [thread EXCEPT ![w] = t], UNCHANGED <<call, hand, reader, writes>>
  PROVE  FuseTypes' /\ Asks' /\ Placed'
<1>1. /\ rd' = rd /\ wr[w].pc = "idle"
      /\ call' = call /\ hand' = hand /\ reader' = reader
  BY DEF DispatchWrite
<1>2. wr \in [Writer -> WriteState] /\ thread \in [Writer -> Client \cup {Nobody}]
  BY DEF FuseInv, FuseTypes, TypeInv, TypeOK
<1>3. wr'[w].pc # "idle" /\ \A x \in Writer \ {w} : wr'[x] = wr[x]
  <2>1. PICK d \in WritePackets(c, nwrites') :
          LET n == unwrap_and_decompress_chunk(d)
          IN wr' = [wr EXCEPT ![w] =
               IF slot # NoPos /\ unwraps(d)
                 THEN [pc |-> IF Persistent THEN "save" ELSE "reply",
                       key |-> SaveKey(slot, n), nbt |-> n]
                 ELSE [pc |-> "reply", key |-> NoPos, nbt |-> n]]
    BY DEF DispatchWrite
  <2> DEFINE n == unwrap_and_decompress_chunk(d)
             e == IF slot # NoPos /\ unwraps(d)
                    THEN [pc |-> IF Persistent THEN "save" ELSE "reply",
                          key |-> SaveKey(slot, n), nbt |-> n]
                    ELSE [pc |-> "reply", key |-> NoPos, nbt |-> n]
  <2>2. e.pc # "idle"
    OBVIOUS
  <2>3. wr' = [wr EXCEPT ![w] = e]
    BY <2>1
  <2> HIDE DEF e
  <2> QED BY <1>2, <2>2, <2>3
<1>4. /\ thread' \in [Writer -> Client \cup {Nobody}] /\ thread'[w] = t
      /\ \A x \in Writer \ {w} : thread'[x] = thread[x]
      /\ thread[w] = Nobody
  <2>1. thread[w] = Nobody
    BY <1>1 DEF FuseInv, Placed
  <2> QED BY <1>2, <2>1
<1>5. FuseTypes'
  BY <1>1, <1>4, QueueAfterTakeUp DEF FuseInv, FuseTypes
<1>6. Asks'
  <2> SUFFICES ASSUME NEW u \in Client
               PROVE  HandOK(hand'[u]) /\ (call'[u] = NoCall \/ call'[u] \in CallsOf(u)')
    BY DEF Asks
  <2>1. hand'[u] = hand[u] /\ call'[u] = call[u]
    BY <1>1
  <2> QED BY <2>1, SameQuestions DEF FuseInv, Asks
<1>7. \A u \in Client : WrittenFor(u)' <=> WrittenFor(u) \/ u = t
  <2> SUFFICES ASSUME NEW u \in Client PROVE WrittenFor(u)' <=> WrittenFor(u) \/ u = t
    OBVIOUS
  <2>1. u # Nobody
    BY FuseAssumption
  <2> QED BY <1>4, <2>1 DEF WrittenFor
<1>8. ASSUME NEW u \in Client
      PROVE  /\ call'[u] # NoCall <=> Queued(u)' \/ reader' = u \/ WrittenFor(u)'
             /\ ~ (Queued(u)' /\ reader' = u)
             /\ ~ (Queued(u)' /\ WrittenFor(u)')
             /\ ~ (reader' = u /\ WrittenFor(u)')
  <2>1. Queued(u)' <=> Queued(u) /\ u # t
    BY QueueAfterTakeUp
  <2>2. reader = Nobody /\ ~ WrittenFor(t) /\ call[t] # NoCall /\ u # Nobody
    BY QueueAfterTakeUp, FuseAssumption
  <2>3. /\ call[u] # NoCall <=> Queued(u) \/ reader = u \/ WrittenFor(u)
        /\ ~ (Queued(u) /\ WrittenFor(u))
    BY DEF FuseInv, Placed
  <2> QED BY <1>1, <1>7, <2>1, <2>2, <2>3
<1>9. \A x, y \in Writer : thread'[x] = thread'[y] /\ thread'[x] # Nobody => x = y
  <2>1. \A x \in Writer : thread[x] # t
    BY QueueAfterTakeUp DEF WrittenFor
  <2>2. \A x, y \in Writer : thread[x] = thread[y] /\ thread[x] # Nobody => x = y
    BY DEF FuseInv, Placed
  <2> QED BY <1>4, <2>1, <2>2
<1>10. \A x \in Writer : thread'[x] = Nobody <=> wr'[x].pc = "idle"
  <2>1. t # Nobody
    BY FuseAssumption
  <2> QED BY <1>3, <1>4, <2>1 DEF FuseInv, Placed
<1>11. /\ \A i, j \in 1 .. Len(queue') : queue'[i] = queue'[j] => i = j
       /\ reader' = Nobody <=> rd'.pc = "idle"
  BY <1>1, QueueAfterTakeUp DEF FuseInv, Placed
<1>12. Placed'
  BY <1>8, <1>9, <1>10, <1>11 DEF Placed
<1> QED BY <1>5, <1>6, <1>12

\* A client asks only when it waits for nothing, and then waits in the queue.
LEMMA SendKeeps ==
  ASSUME FuseInv, NEW t \in Client, Send(t)
  PROVE  FuseTypes' /\ Asks' /\ Placed'
<1>1. PICK q \in CallsOf(t) : call' = [call EXCEPT ![t] = q]
  BY DEF Send
<1>2. /\ call[t] = NoCall /\ queue' = Append(queue, t)
      /\ rd' = rd /\ wr' = wr /\ hand' = hand /\ reader' = reader /\ thread' = thread
  BY DEF Send, vars
<1>3. q # NoCall
  <2>1. q.op # "none"
    BY Questions DEF FuseInv, Asks
  <2> QED BY <2>1 DEF NoCall
<1>4. /\ call' = [u \in Client |-> call'[u]]
      /\ \A u \in Client : call'[u] = IF u = t THEN q ELSE call[u]
  BY <1>1 DEF FuseInv, FuseTypes
<1>5. /\ queue' \in Seq(Client)
      /\ \A i, j \in 1 .. Len(queue') : queue'[i] = queue'[j] => i = j
      /\ \A u : Queued(u)' <=> Queued(u) \/ u = t
  <2>1. queue \in Seq(Client) /\ \A i, j \in 1 .. Len(queue) : queue[i] = queue[j] => i = j
    BY DEF FuseInv, FuseTypes, Placed
  <2>2. ~ \E j \in 1 .. Len(queue) : queue[j] = t
    BY <1>2 DEF FuseInv, Placed, Queued
  <2>3. /\ queue' \in Seq(Client)
        /\ \A i, j \in 1 .. Len(queue') : queue'[i] = queue'[j] => i = j
        /\ \A u : (\E j \in 1 .. Len(queue') : queue'[j] = u)
                    <=> (\E j \in 1 .. Len(queue) : queue[j] = u) \/ u = t
    BY <1>2, <2>1, <2>2, AppendAdds
  <2> QED BY <2>3 DEF Queued
<1>6. FuseTypes'
  BY <1>2, <1>4, <1>5 DEF FuseInv, FuseTypes
<1>7. Asks'
  <2> SUFFICES ASSUME NEW u \in Client
               PROVE  HandOK(hand'[u]) /\ (call'[u] = NoCall \/ call'[u] \in CallsOf(u)')
    BY DEF Asks
  <2>1. hand'[u] = hand[u] /\ call'[u] \in {q, call[u]} /\ (u # t => call'[u] = call[u])
    BY <1>2, <1>4
  <2> QED BY <2>1, SameQuestions DEF FuseInv, Asks
<1>8. ASSUME NEW u \in Client
      PROVE  /\ call'[u] # NoCall <=> Queued(u)' \/ reader' = u \/ WrittenFor(u)'
             /\ ~ (Queued(u)' /\ reader' = u)
             /\ ~ (Queued(u)' /\ WrittenFor(u)')
             /\ ~ (reader' = u /\ WrittenFor(u)')
  <2>1. /\ WrittenFor(u)' <=> WrittenFor(u)
        /\ Queued(u)' <=> Queued(u) \/ u = t
    BY <1>2, <1>5 DEF WrittenFor
  <2>2. /\ call[u] # NoCall <=> Queued(u) \/ reader = u \/ WrittenFor(u)
        /\ ~ (Queued(u) /\ reader = u)
        /\ ~ (Queued(u) /\ WrittenFor(u))
        /\ ~ (reader = u /\ WrittenFor(u))
    BY DEF FuseInv, Placed
  <2> QED BY <1>2, <1>3, <1>4, <2>1, <2>2
<1>9. Placed'
  BY <1>2, <1>5, <1>8 DEF FuseInv, Placed
<1> QED BY <1>6, <1>7, <1>9

\* A client that lets go of what it has in hand waits for nothing.
LEMMA CloseKeeps ==
  ASSUME FuseInv, NEW t \in Client, Close(t)
  PROVE  FuseTypes' /\ Asks' /\ Placed'
<1>1. /\ call[t] = NoCall /\ hand' = [hand EXCEPT ![t] = Nothing]
      /\ rd' = rd /\ wr' = wr
      /\ queue' = queue /\ call' = call /\ reader' = reader /\ thread' = thread
  BY DEF Close, vars
<1>2. Nothing \in Hand /\ HandOK(Nothing)
  BY NothingOK DEF HandOK
<1>3. /\ hand' \in [Client -> Hand]
      /\ \A u \in Client : hand'[u] = IF u = t THEN Nothing ELSE hand[u]
  BY <1>1, <1>2 DEF FuseInv, FuseTypes
<1>4. FuseTypes'
  BY <1>1, <1>3 DEF FuseInv, FuseTypes
<1>5. Asks'
  <2> SUFFICES ASSUME NEW u \in Client
               PROVE  HandOK(hand'[u]) /\ (call'[u] = NoCall \/ call'[u] \in CallsOf(u)')
    BY DEF Asks
  <2>1. CASE u = t
    BY <1>1, <1>2, <1>3, <2>1
  <2>2. CASE u # t
    <3>1. hand'[u] = hand[u] /\ call'[u] = call[u]
      BY <1>1, <1>3, <2>2
    <3> QED BY <3>1, SameQuestions DEF FuseInv, Asks
  <2> QED BY <2>1, <2>2
<1>6. Placed'
  BY <1>1 DEF FuseInv, Placed, Queued, WrittenFor
<1> QED BY <1>4, <1>5, <1>6

\* While nobody is taken up or answered, it is enough that the same threads
\* work.
LEMMA WorkKeeps ==
  ASSUME FuseInv, UNCHANGED fuseVars, rd'.pc = "idle" <=> rd.pc = "idle",
         \A w \in Writer : wr'[w].pc = "idle" <=> wr[w].pc = "idle"
  PROVE  FuseTypes' /\ Asks' /\ Placed'
<1>1. /\ queue' = queue /\ call' = call /\ hand' = hand
      /\ reader' = reader /\ thread' = thread
  BY DEF fuseVars
<1>2. FuseTypes'
  BY <1>1 DEF FuseInv, FuseTypes
<1>3. Asks'
  BY <1>1, SameQuestions DEF FuseInv, Asks
<1>4. Placed'
  BY <1>1 DEF FuseInv, Placed, Queued, WrittenFor
<1> QED BY <1>2, <1>3, <1>4

\* A pass of the reader is of the read under way, and writes nothing.
LEMMA ReadWorkFrame ==
  ASSUME TypeInv, ReadWork
  PROVE  /\ rd.pc # "idle" /\ rd'.pc # "idle" /\ rd'.req = rd.req
         /\ wr' = wr /\ UNCHANGED fuseVars
<1> USE DEF TypeInv, TypeOK
<1>1. CASE ReadHit \/ ReadPut
  <2>1. PICK b : rd' = Answered(b)
    BY <1>1 DEF ReadHit, ReadPut
  <2>2. rd'.pc \in {"reply", "lookup"} /\ rd'.req = rd.req
    BY <2>1 DEF Answered
  <2> QED BY <1>1, <2>2 DEF ReadHit, ReadPut, ReadWork
<1>2. CASE ReadMiss
  BY <1>2 DEF ReadMiss, ReadWork
<1>3. CASE ReadLoad
  <2>1. PICK res \in load_chunk(db[Wanted]) :
          rd' = IF res.found # None /\ verify_chunk_coords(res.found, Wanted)
                  THEN [rd EXCEPT !.pc = "put", !.val = res.found]
                  ELSE [rd EXCEPT !.pc = "generate"]
    BY <1>3 DEF ReadLoad
  <2>2. rd'.pc \in {"put", "generate"} /\ rd'.req = rd.req
    BY <2>1
  <2> QED BY <1>3, <2>2 DEF ReadLoad, ReadWork
<1>4. CASE ReadGenerate
  <2>1. PICK n \in generate_chunk(Wanted) :
          rd' = IF n # None /\ verify_chunk_coords(n, Wanted)
                  THEN [rd EXCEPT !.pc = "put", !.val = n]
                  ELSE Broken
    BY <1>4 DEF ReadGenerate
  <2>2. rd'.pc \in {"put", "reply"} /\ rd'.req = rd.req
    BY <2>1 DEF Broken
  <2> QED BY <1>4, <2>2 DEF ReadGenerate, ReadWork
<1> QED BY <1>1, <1>2, <1>3, <1>4 DEF ReadWork

\* A write thread at work stays with its chunk and disturbs no other thread.
LEMMA WriteWorkFrame ==
  ASSUME TypeInv, NEW w \in Writer, WriteWork(w)
  PROVE  /\ rd' = rd /\ UNCHANGED fuseVars
         /\ \A x \in Writer :
              /\ wr'[x].pc = "idle" <=> wr[x].pc = "idle"
              /\ wr'[x].key = wr[x].key
<1> USE DEF TypeInv, TypeOK
<1>1. PICK pc \in {"put", "reply"} : wr' = [wr EXCEPT ![w].pc = pc]
  <2>1. CASE WriteSave(w)
    <3>1. PICK res \in save_chunk(db[wr[w].key], wr[w].nbt) :
            wr' = [wr EXCEPT ![w].pc = IF res.ok THEN "put" ELSE "reply"]
      BY <2>1 DEF WriteSave
    <3>2. (IF res.ok THEN "put" ELSE "reply") \in {"put", "reply"}
      OBVIOUS
    <3> QED BY <3>1, <3>2
  <2>2. CASE WritePut(w)
    BY <2>2 DEF WritePut
  <2> QED BY <2>1, <2>2 DEF WriteWork
<1>2. wr[w].pc # "idle"
  BY DEF WriteWork, WriteSave, WritePut
<1>3. rd' = rd /\ UNCHANGED fuseVars
  BY DEF WriteWork, WriteSave, WritePut
<1>4. ASSUME NEW x \in Writer
      PROVE  /\ wr'[x].pc = "idle" <=> wr[x].pc = "idle"
             /\ wr'[x].key = wr[x].key
  BY <1>1, <1>2
<1> QED BY <1>3, <1>4

\* Who is read for is answered by the end of the read.
LEMMA ReadAnswerKeeps ==
  ASSUME FuseInv, ReadAnswer
  PROVE  FuseTypes' /\ Asks' /\ Placed'
<1>1. /\ rd.pc = "reply" /\ rd'.pc = "idle" /\ wr' = wr
      /\ call' = [call EXCEPT ![reader] = NoCall] /\ reader' = Nobody
      /\ queue' = queue /\ hand' = hand /\ thread' = thread
  BY DEF ReadAnswer, ReadReply, IdleRead
<1>2. reader \in Client /\ reader # Nobody
  BY <1>1 DEF FuseInv, FuseTypes, Placed
<1>3. /\ call' = [u \in Client |-> call'[u]]
      /\ \A u \in Client : call'[u] = IF u = reader THEN NoCall ELSE call[u]
  BY <1>1, <1>2 DEF FuseInv, FuseTypes
<1>4. FuseTypes'
  BY <1>1, <1>3 DEF FuseInv, FuseTypes
<1>5. Asks'
  <2> SUFFICES ASSUME NEW u \in Client
               PROVE  HandOK(hand'[u]) /\ (call'[u] = NoCall \/ call'[u] \in CallsOf(u)')
    BY DEF Asks
  <2>1. hand'[u] = hand[u] /\ call'[u] \in {NoCall, call[u]}
    BY <1>1, <1>3
  <2> QED BY <2>1, SameQuestions DEF FuseInv, Asks
<1>6. ASSUME NEW u \in Client
      PROVE  /\ call'[u] # NoCall <=> Queued(u)' \/ reader' = u \/ WrittenFor(u)'
             /\ ~ (Queued(u)' /\ reader' = u)
             /\ ~ (Queued(u)' /\ WrittenFor(u)')
             /\ ~ (reader' = u /\ WrittenFor(u)')
  <2>1. /\ WrittenFor(u)' <=> WrittenFor(u)
        /\ Queued(u)' <=> Queued(u)
        /\ u # Nobody
    BY <1>1, FuseAssumption DEF WrittenFor, Queued
  <2>2. /\ call[u] # NoCall <=> Queued(u) \/ reader = u \/ WrittenFor(u)
        /\ ~ (Queued(u) /\ reader = u)
        /\ ~ (Queued(u) /\ WrittenFor(u))
        /\ ~ (reader = u /\ WrittenFor(u))
    BY DEF FuseInv, Placed
  <2> QED BY <1>1, <1>3, <2>1, <2>2
<1>7. Placed'
  BY <1>1, <1>6 DEF FuseInv, Placed
<1> QED BY <1>4, <1>5, <1>7

\* Who is written for is answered by the end of its thread.
LEMMA WriteAnswerKeeps ==
  ASSUME FuseInv, NEW w \in Writer, WriteAnswer(w)
  PROVE  FuseTypes' /\ Asks' /\ Placed'
<1>1. /\ rd' = rd /\ wr[w].pc = "reply" /\ wr' = [wr EXCEPT ![w] = IdleWrite]
      /\ call' = [call EXCEPT ![thread[w]] = NoCall] /\ thread' = [thread EXCEPT ![w] = Nobody]
      /\ queue' = queue /\ hand' = hand /\ reader' = reader
  BY DEF WriteAnswer, WriteReply
<1>2. /\ thread \in [Writer -> Client \cup {Nobody}]
      /\ thread[w] \in Client /\ thread[w] # Nobody
  BY <1>1 DEF FuseInv, FuseTypes, Placed
<1>3. /\ call' = [u \in Client |-> call'[u]]
      /\ \A u \in Client : call'[u] = IF u = thread[w] THEN NoCall ELSE call[u]
  BY <1>1, <1>2 DEF FuseInv, FuseTypes
<1>4. /\ wr'[w].pc = "idle" /\ thread'[w] = Nobody
      /\ thread' \in [Writer -> Client \cup {Nobody}]
      /\ \A x \in Writer \ {w} : wr'[x] = wr[x] /\ thread'[x] = thread[x]
  <2>1. wr \in [Writer -> WriteState]
    BY DEF FuseInv, TypeInv, TypeOK
  <2> QED BY <1>1, <1>2, <2>1 DEF IdleWrite
<1>5. FuseTypes'
  BY <1>1, <1>3, <1>4 DEF FuseInv, FuseTypes
<1>6. Asks'
  <2> SUFFICES ASSUME NEW u \in Client
               PROVE  HandOK(hand'[u]) /\ (call'[u] = NoCall \/ call'[u] \in CallsOf(u)')
    BY DEF Asks
  <2>1. hand'[u] = hand[u] /\ call'[u] \in {NoCall, call[u]}
    BY <1>1, <1>3
  <2> QED BY <2>1, SameQuestions DEF FuseInv, Asks
<1>7. ASSUME NEW u \in Client
      PROVE  /\ call'[u] # NoCall <=> Queued(u)' \/ reader' = u \/ WrittenFor(u)'
             /\ ~ (Queued(u)' /\ reader' = u)
             /\ ~ (Queued(u)' /\ WrittenFor(u)')
             /\ ~ (reader' = u /\ WrittenFor(u)')
  <2>1. u # Nobody /\ \A x \in Writer : thread[x] = thread[w] => x = w
    BY <1>2, FuseAssumption DEF FuseInv, Placed
  <2>2. Queued(u)' <=> Queued(u)
    BY <1>1 DEF Queued
  <2>3. WrittenFor(u)' <=> WrittenFor(u) /\ u # thread[w]
    BY <1>4, <2>1 DEF WrittenFor
  <2>4. /\ call[u] # NoCall <=> Queued(u) \/ reader = u \/ WrittenFor(u)
        /\ ~ (Queued(u) /\ reader = u)
        /\ ~ (Queued(u) /\ WrittenFor(u))
        /\ ~ (reader = u /\ WrittenFor(u))
    BY DEF FuseInv, Placed
  <2>5. u = thread[w] => WrittenFor(u)
    BY DEF WrittenFor
  <2> QED BY <1>1, <1>3, <2>2, <2>3, <2>4, <2>5
<1>8. \A x, y \in Writer : thread'[x] = thread'[y] /\ thread'[x] # Nobody => x = y
  BY <1>4 DEF FuseInv, Placed
<1>9. \A x \in Writer : thread'[x] = Nobody <=> wr'[x].pc = "idle"
  BY <1>4 DEF FuseInv, Placed
<1>10. Placed'
  BY <1>1, <1>7, <1>8, <1>9 DEF FuseInv, Placed
<1> QED BY <1>5, <1>6, <1>10

-----------------------------------------------------------------------------
\* The inductive invariant holds at the start.
LEMMA InitFuse == FuseInit => FuseInv
<1> SUFFICES ASSUME FuseInit PROVE FuseInv
  OBVIOUS
<1>1. TypeInv
  BY InitTypes DEF FuseInit
<1>2. FuseTypes /\ Asks /\ Placed
  BY AllIdle DEF FuseInit, Init, AllAtRest
<1> QED BY <1>1, <1>2 DEF FuseInv

\* Every call, every answer, every step in between and every lost mount keeps
\* it.
LEMMA NextFuse ==
  ASSUME EntriesFit, WholeRegions, FuseInv, [FuseNext]_allVars
  PROVE  FuseInv'
<1> SUFFICES FuseTypes' /\ Asks' /\ Placed'
  BY FuseStepServes, NextTypes DEF FuseInv
<1>1. ASSUME NEW t \in Client, Send(t) \/ Close(t) PROVE FuseTypes' /\ Asks' /\ Placed'
  BY <1>1, SendKeeps, CloseKeeps
<1>2. ASSUME NEW t \in Client, Handle(t) PROVE FuseTypes' /\ Asks' /\ Placed'
  <2>1. CASE Read(t)
    <3> DEFINE slot == SlotAt(call[t].ino, call[t].offset)
    <3>1. /\ TakeUp(t, "read")
          /\ \/ HandOK(hand[t]) /\ Answer(t, hand[t])
             \/ /\ DispatchRead(<<slot>>) /\ reader' = t
                /\ UNCHANGED <<call, hand, thread, writes>>
      BY <2>1, ReadHandled
    <3> HIDE DEF slot
    <3> QED BY <3>1, AnswerKeeps, ReadKeeps
  <2>2. CASE Write(t)
    <3> DEFINE slot == SlotAt(call[t].ino, call[t].offset)
    <3>1. /\ TakeUp(t, "write")
          /\ \/ HandOK(hand[t]) /\ Answer(t, hand[t])
             \/ \E w \in Writer, c \in Chunk :
                  /\ DispatchWrite(w, c, slot)
                  /\ thread' = [thread EXCEPT ![w] = t]
                  /\ UNCHANGED <<call, hand, reader, writes>>
      BY <2>2, WriteHandled
    <3> HIDE DEF slot
    <3> QED BY <3>1, AnswerKeeps, WriteKeeps
  <2>3. CASE \/ Lookup(t) \/ Create(t) \/ Readdir(t)
             \/ Getattr(t) \/ Setattr(t) \/ Access(t) \/ Getxattr(t) \/ Listxattr(t)
             \/ Flush(t) \/ Fsync(t) \/ Unlink(t) \/ Rename(t)
    <3>1. PICK op : TakeUp(t, op) /\ \E f : HandOK(f) /\ Answer(t, f)
      BY <2>3, HandlerAnswers
    <3> QED BY <3>1, AnswerKeeps
  <2> QED BY <1>2, <2>1, <2>2, <2>3 DEF Handle
<1>3. CASE ReadWork
  BY <1>3, ReadWorkFrame, WorkKeeps DEF FuseInv
<1>4. CASE ReadAnswer
  BY <1>4, ReadAnswerKeeps
<1>5. ASSUME NEW w \in Writer, WriteWork(w) \/ WriteAnswer(w) PROVE FuseTypes' /\ Asks' /\ Placed'
  <2>1. CASE WriteWork(w)
    BY <2>1, WriteWorkFrame, WorkKeeps DEF FuseInv
  <2>2. CASE WriteAnswer(w)
    BY <2>2, WriteAnswerKeeps
  <2> QED BY <1>5, <2>1, <2>2
<1>6. CASE Remount
  <2>1. AllAtRest'
    BY <1>6 DEF Remount, Crash, AllAtRest
  <2> QED BY <2>1, AllIdle, PTL
<1>7. CASE UNCHANGED allVars
  BY <1>7, WorkKeeps DEF allVars, vars
<1> QED BY <1>1, <1>2, <1>3, <1>4, <1>5, <1>6, <1>7 DEF FuseNext

-----------------------------------------------------------------------------
(* Whoever is served, is served the chunk it means. *)

\* Who goes on being served goes on with the same chunk.
LEMMA StillReached ==
  ASSUME Reached,
         reader' # Nobody =>
           reader' = reader /\ rd'.req = rd.req /\ call'[reader] = call[reader],
         \A w \in Writer : thread'[w] # Nobody =>
           thread'[w] = thread[w] /\ wr'[w].key = wr[w].key /\ call'[thread[w]] = call[thread[w]]
  PROVE  Reached'
BY DEF Reached, IsRegion, FitsInode

\* Names, numbers, the location table and the offsets lead every read and
\* every write of a whole packet to the chunk that was meant.
LEMMA NextReached ==
  ASSUME EntriesFit, WholeRegions, Fragments = {}, FuseInv, Reached, [FuseNext]_allVars
  PROVE  Reached'
<1>1. /\ call = [u \in Client |-> call[u]]
      /\ thread \in [Writer -> Client \cup {Nobody}]
      /\ wr \in [Writer -> WriteState]
  BY DEF FuseInv, FuseTypes, TypeInv, TypeOK
<1>2. ASSUME NEW t \in Client, reader # t, ~ WrittenFor(t),
             NEW q, call' = [call EXCEPT ![t] = q],
             rd' = rd, wr' = wr, reader' = reader, thread' = thread
      PROVE  Reached'
  <2>1. \A u \in Client : u # t => call'[u] = call[u]
    BY <1>1, <1>2
  <2>2. reader \in Client \cup {Nobody}
    BY DEF FuseInv, FuseTypes
  <2>3. \A w \in Writer : thread[w] # t
    BY <1>2 DEF WrittenFor
  <2> QED BY <1>1, <1>2, <2>1, <2>2, <2>3, StillReached
<1>3. ASSUME NEW t \in Client, Send(t) PROVE Reached'
  <2>1. reader # t /\ ~ WrittenFor(t)
    BY <1>3 DEF Send, FuseInv, Placed
  <2>2. PICK q : call' = [call EXCEPT ![t] = q]
    BY <1>3 DEF Send
  <2>3. rd' = rd /\ wr' = wr /\ reader' = reader /\ thread' = thread
    BY <1>3 DEF Send, vars
  <2> QED BY <1>2, <2>1, <2>2, <2>3
<1>4. ASSUME NEW t \in Client, Close(t) PROVE Reached'
  <2>1. rd' = rd /\ wr' = wr /\ reader' = reader /\ thread' = thread /\ call' = call
    BY <1>4 DEF Close, vars
  <2> QED BY <2>1, StillReached
<1>5. ASSUME NEW t \in Client, NEW op, TakeUp(t, op), NEW f, Answer(t, f) PROVE Reached'
  <2>1. reader # t /\ ~ WrittenFor(t)
    BY <1>5, QueueAfterTakeUp, FuseAssumption
  <2>2. /\ call' = [call EXCEPT ![t] = NoCall]
        /\ rd' = rd /\ wr' = wr /\ reader' = reader /\ thread' = thread
    BY <1>5 DEF Answer, vars
  <2> QED BY <1>2, <2>1, <2>2
<1>6. ASSUME NEW t \in Client, Read(t) PROVE Reached'
  <2> DEFINE q == call[t]
             slot == SlotAt(q.ino, q.offset)
  <2>1. /\ TakeUp(t, "read")
        /\ \/ Answer(t, hand[t])
           \/ /\ DispatchRead(<<slot>>) /\ reader' = t
              /\ UNCHANGED <<call, hand, thread, writes>>
              /\ IsRegion(q.name)
              /\ FitsInode(q.name) => slot = q.chunk
    BY <1>6, ReadHandled
  <2>2. CASE Answer(t, hand[t])
    BY <1>5, <2>1, <2>2
  <2>3. CASE /\ DispatchRead(<<slot>>) /\ reader' = t
             /\ UNCHANGED <<call, hand, thread, writes>>
             /\ IsRegion(q.name)
             /\ FitsInode(q.name) => slot = q.chunk
    <3> HIDE DEF slot
    <3>1. /\ rd'.req = <<slot>> /\ wr' = wr
          /\ reader' = t /\ call' = call /\ thread' = thread
      BY <2>3 DEF DispatchRead, IdleRead
    <3>2. FitsInode(q.name) => rd'.req = <<q.chunk>>
      BY <2>3, <3>1
    <3> QED BY <2>3, <3>1, <3>2 DEF Reached, IsRegion, FitsInode
  <2> QED BY <2>1, <2>2, <2>3
<1>7. ASSUME NEW t \in Client, Write(t) PROVE Reached'
  <2> DEFINE q == call[t]
             slot == SlotAt(q.ino, q.offset)
  <2>1. TakeUp(t, "write")
    BY <1>7, WriteHandled
  <2>2. CASE Answer(t, hand[t])
    BY <1>5, <2>1, <2>2
  <2>3. CASE ~ Answer(t, hand[t])
    <3>1. PICK w \in Writer, c \in Chunk :
            /\ DispatchWrite(w, c, slot)
            /\ thread' = [thread EXCEPT ![w] = t]
            /\ UNCHANGED <<call, hand, reader, writes>>
            /\ IsRegion(q.name)
            /\ FitsInode(q.name) => q.chunk = IF slot = NoPos THEN NoPos ELSE c
      BY <1>7, <2>3, WriteHandled
    <3> HIDE DEF slot
    <3>2. wr'[w].key = IF slot = NoPos THEN NoPos ELSE c
      BY <3>1, WholeDispatch DEF FuseInv
    <3>3. FitsInode(q.name) => wr'[w].key = q.chunk
      BY <3>1, <3>2
    <3>4. /\ thread'[w] = t /\ \A x \in Writer \ {w} : thread'[x] = thread[x]
          /\ call' = call /\ reader' = reader /\ rd' = rd
      BY <1>1, <3>1 DEF DispatchWrite
    <3>5. \A x \in Writer \ {w} : wr'[x] = wr[x]
      <4>1. PICK e : wr' = [wr EXCEPT ![w] = e]
        BY <3>1 DEF DispatchWrite
      <4> QED BY <1>1, <4>1
    <3> QED BY <3>1, <3>3, <3>4, <3>5 DEF Reached, IsRegion, FitsInode
  <2> QED BY <2>2, <2>3
<1>8. ASSUME NEW t \in Client, Handle(t) PROVE Reached'
  <2>1. CASE \/ Lookup(t) \/ Create(t) \/ Readdir(t)
             \/ Getattr(t) \/ Setattr(t) \/ Access(t) \/ Getxattr(t) \/ Listxattr(t)
             \/ Flush(t) \/ Fsync(t) \/ Unlink(t) \/ Rename(t)
    BY <1>5, <2>1, HandlerAnswers
  <2> QED BY <1>6, <1>7, <1>8, <2>1 DEF Handle
<1>9. CASE ReadWork
  <2>1. rd'.req = rd.req /\ wr' = wr /\ reader' = reader /\ thread' = thread /\ call' = call
    BY <1>9, ReadWorkFrame DEF FuseInv, fuseVars
  <2> QED BY <2>1, StillReached
<1>10. CASE ReadAnswer
  <2>1. /\ call' = [call EXCEPT ![reader] = NoCall]
        /\ wr' = wr /\ reader' = Nobody /\ thread' = thread /\ rd.pc = "reply"
    BY <1>10 DEF ReadAnswer, ReadReply
  <2>2. reader \in Client /\ ~ WrittenFor(reader)
    BY <2>1 DEF FuseInv, FuseTypes, Placed
  <2>3. \A w \in Writer : thread[w] # Nobody => call'[thread[w]] = call[thread[w]]
    BY <1>1, <2>1, <2>2 DEF WrittenFor
  <2> QED BY <2>1, <2>3, StillReached
<1>11. ASSUME NEW w \in Writer, WriteWork(w) PROVE Reached'
  <2>1. /\ rd' = rd /\ reader' = reader /\ thread' = thread /\ call' = call
        /\ \A x \in Writer : wr'[x].key = wr[x].key
    BY <1>11, WriteWorkFrame DEF FuseInv, fuseVars
  <2> QED BY <2>1, StillReached
<1>12. ASSUME NEW w \in Writer, WriteAnswer(w) PROVE Reached'
  <2>1. /\ call' = [call EXCEPT ![thread[w]] = NoCall]
        /\ thread' = [thread EXCEPT ![w] = Nobody]
        /\ wr' = [wr EXCEPT ![w] = IdleWrite] /\ wr[w].pc = "reply"
        /\ rd' = rd /\ reader' = reader
    BY <1>12 DEF WriteAnswer, WriteReply
  <2>2. /\ thread[w] \in Client /\ thread[w] # Nobody /\ WrittenFor(thread[w])
        /\ \A x \in Writer : thread[x] = thread[w] => x = w
    BY <1>1, <2>1 DEF FuseInv, Placed, WrittenFor
  <2>3. reader # thread[w]
    BY <2>2 DEF FuseInv, Placed
  <2>4. reader # Nobody => call'[reader] = call[reader]
    BY <1>1, <2>1, <2>3 DEF FuseInv, FuseTypes
  <2>5. ASSUME NEW x \in Writer, thread'[x] # Nobody
        PROVE  /\ thread'[x] = thread[x] /\ wr'[x].key = wr[x].key
               /\ call'[thread[x]] = call[thread[x]]
    <3>1. x # w
      BY <1>1, <2>1, <2>5
    <3>2. thread'[x] = thread[x] /\ wr'[x] = wr[x] /\ thread[x] # thread[w]
      BY <1>1, <2>1, <2>2, <3>1
    <3>3. thread[x] \in Client
      BY <1>1, <2>5, <3>2
    <3> QED BY <1>1, <2>1, <3>2, <3>3
  <2> QED BY <2>1, <2>4, <2>5, StillReached
<1>13. CASE Remount
  <2>1. reader' = Nobody /\ \A w \in Writer : thread'[w] = Nobody
    BY <1>13 DEF Remount
  <2> QED BY <2>1 DEF Reached
<1>14. CASE UNCHANGED allVars
  <2>1. rd' = rd /\ wr' = wr /\ reader' = reader /\ thread' = thread /\ call' = call
    BY <1>14 DEF allVars, vars, fuseVars
  <2> QED BY <2>1, StillReached
<1> QED BY <1>3, <1>4, <1>8, <1>9, <1>10, <1>11, <1>12, <1>13, <1>14 DEF FuseNext

-----------------------------------------------------------------------------
(* The properties. *)

\* The file system drives VirtualFile as any client may, so what is proved of
\* VirtualFile holds behind the handlers: no saved edit is lost or reverted,
\* no chunk is served for another, and nothing unsaved is shown.
THEOREM FuseServes ==
  ASSUME EntriesFit, WholeRegions
  PROVE  /\ FuseSpec => Spec
         /\ FuseSpec => [](TypeOK /\ CacheBounded)
         /\ SavesParse => (FuseSpec => []Durable)
         /\ FuseSpec => NoRevert
         /\ FuseSpec => []Isolation
         /\ ErrorsUndone => (FuseSpec => []NoPhantom)
<1>1. FuseInit => Init
  BY DEF FuseInit
<1>2. FuseInv /\ [FuseNext]_allVars => [Next]_vars
  BY FuseStepServes
<1>3. FuseInv /\ [FuseNext]_allVars => FuseInv'
  BY NextFuse
<1>4. FuseSpec => Spec
  BY <1>1, <1>2, <1>3, InitFuse, PTL DEF FuseSpec, Spec
<1>5. ASSUME SavesParse PROVE Spec => []Durable
  BY <1>5, AlwaysDurable, FuseAssumption
<1>6. Spec => NoRevert
  BY NeverReverts, FuseAssumption
<1>7. Spec => []Isolation
  BY AlwaysIsolated, FuseAssumption DEF TasksTrusted
<1>8. ASSUME ErrorsUndone PROVE Spec => []NoPhantom
  BY <1>8, NeverPhantom
<1> QED BY <1>4, <1>5, <1>6, <1>7, <1>8, TypeCorrect

\* Every call waits in the queue, is read for, or is written for by one
\* thread, until it is answered once: none is lost, none is answered for
\* somebody else, whatever fails and whenever the mount is lost.
THEOREM OnePlace ==
  ASSUME EntriesFit, WholeRegions
  PROVE  FuseSpec => []EveryCallInOnePlace
<1>1. ASSUME FuseInv PROVE EveryCallInOnePlace
  <2>1. ASSUME NEW t \in Client
        PROVE  Cardinality({i \in 1 .. Len(queue) : queue[i] = t})
                 = IF Queued(t) THEN 1 ELSE 0
    <3> DEFINE S == {i \in 1 .. Len(queue) : queue[i] = t}
    <3>1. CASE Queued(t)
      <4>1. PICK j \in 1 .. Len(queue) : queue[j] = t
        BY <3>1 DEF Queued
      <4>2. S = {j}
        BY <1>1, <4>1 DEF FuseInv, Placed
      <4> HIDE DEF S
      <4>3. Cardinality(S) = 1
        BY <4>2, FS_Singleton
      <4> QED BY <3>1, <4>3 DEF S
    <3>2. CASE ~ Queued(t)
      <4>1. S = {}
        BY <3>2 DEF Queued
      <4> HIDE DEF S
      <4>2. Cardinality(S) = 0
        BY <4>1, FS_EmptySet
      <4> QED BY <3>2, <4>2 DEF S
    <3> QED BY <3>1, <3>2
  <2>2. ASSUME NEW t \in Client
        PROVE  Cardinality({w \in Writer : thread[w] = t}) = IF WrittenFor(t) THEN 1 ELSE 0
    <3> DEFINE S == {w \in Writer : thread[w] = t}
    <3>1. CASE WrittenFor(t)
      <4>1. PICK w \in Writer : thread[w] = t
        BY <3>1 DEF WrittenFor
      <4>2. S = {w}
        BY <1>1, <4>1, FuseAssumption DEF FuseInv, Placed
      <4> HIDE DEF S
      <4>3. Cardinality(S) = 1
        BY <4>2, FS_Singleton
      <4> QED BY <3>1, <4>3 DEF S
    <3>2. CASE ~ WrittenFor(t)
      <4>1. S = {}
        BY <3>2 DEF WrittenFor
      <4> HIDE DEF S
      <4>2. Cardinality(S) = 0
        BY <4>1, FS_EmptySet
      <4> QED BY <3>2, <4>2 DEF S
    <3> QED BY <3>1, <3>2
  <2>3. ASSUME NEW t \in Client
        PROVE  (IF Queued(t) THEN 1 ELSE 0) + (IF reader = t THEN 1 ELSE 0)
                 + (IF WrittenFor(t) THEN 1 ELSE 0) = IF call[t] = NoCall THEN 0 ELSE 1
    BY <1>1 DEF FuseInv, Placed
  <2> QED BY <1>1, <2>1, <2>2, <2>3 DEF EveryCallInOnePlace, FuseInv, Placed
<1>2. FuseInv /\ [FuseNext]_allVars => FuseInv'
  BY NextFuse
<1> QED BY <1>1, <1>2, InitFuse, PTL DEF FuseSpec

\* Whatever handler gave the numbers out, two clients have the same number in
\* hand only for the same region or for files that are no region.
THEOREM NumbersAgree ==
  ASSUME EntriesFit, WholeRegions
  PROVE  FuseSpec => []OneNumberPerRegion
<1>1. ASSUME FuseInv PROVE OneNumberPerRegion
  <2>1. ASSUME NEW t \in Files
        PROVE  hand[t].name \in KnownNames /\ hand[t].ino = NumberOf(hand[t].name)
    BY <1>1 DEF Files, FuseInv, Asks, HandOK
  <2>2. ASSUME NEW n \in KnownNames, NEW m \in KnownNames,
               IsRegion(n), IsRegion(m), FitsInode(n), FitsInode(m), NumberOf(n) = NumberOf(m)
        PROVE  parse_region_filename(n) = parse_region_filename(m)
    <3> DEFINE r == parse_region_filename(n)
               s == parse_region_filename(m)
    <3>1. /\ r = <<r[1], r[2]>> /\ r[1] \in Int /\ r[2] \in Int
          /\ s = <<s[1], s[2]>> /\ s[1] \in Int /\ s[2] \in Int
      BY <2>2, RegionNames
    <3>2. Fits(r[1]) /\ Fits(r[2]) /\ Fits(s[1]) /\ Fits(s[2])
      BY <2>2 DEF FitsInode
    <3>3. pack(r[1], r[2]) = pack(s[1], s[2])
      BY <2>2 DEF NumberOf, RegionInode
    <3> HIDE DEF r, s
    <3>4. r[1] = s[1] /\ r[2] = s[2]
      BY <3>1, <3>2, <3>3, NumbersDiffer
    <3>5. r = s
      BY <3>1, <3>4
    <3> QED BY <3>5 DEF r, s
  <2> SUFFICES ASSUME NEW t \in Files, NEW u \in Files
               PROVE  LET n == hand[t].name
                          m == hand[u].name
                      IN /\ IsRegion(n) /\ parse_region_filename(n) = parse_region_filename(m) =>
                              hand[t].ino = hand[u].ino
                         /\ IsRegion(n) /\ IsRegion(m) /\ FitsInode(n) /\ FitsInode(m)
                              /\ parse_region_filename(n) # parse_region_filename(m) =>
                                   hand[t].ino # hand[u].ino
                         /\ IsRegion(n) /\ ~ IsRegion(m) => hand[t].ino # hand[u].ino
    BY DEF OneNumberPerRegion
  <2> DEFINE n == hand[t].name
             m == hand[u].name
  <2>3. /\ n \in KnownNames /\ hand[t].ino = NumberOf(n)
        /\ m \in KnownNames /\ hand[u].ino = NumberOf(m)
    BY <2>1
  <2> HIDE DEF n, m
  <2>4. IsRegion(n) /\ parse_region_filename(n) = parse_region_filename(m) => NumberOf(n) = NumberOf(m)
    BY DEF IsRegion, NumberOf, RegionInode
  <2>5. IsRegion(n) /\ ~ IsRegion(m) => NumberOf(n) # NumberOf(m)
    BY <2>3, NumberFlags
  <2> QED BY <2>2, <2>3, <2>4, <2>5 DEF n, m
<1>2. FuseInv /\ [FuseNext]_allVars => FuseInv'
  BY NextFuse
<1> QED BY <1>1, <1>2, InitFuse, PTL DEF FuseSpec

\* No handler gives a file that another gave out a size that is not its own,
\* and none denies it but lookup, a file that is no region (lib.rs 123-129).
THEOREM OneStory ==
  ASSUME EntriesFit, WholeRegions
  PROVE  FuseSpec => []HandlersAgree
<1>1. FuseInv => HandlersAgree
  BY DEF FuseInv, Asks, HandOK, SizeOf, HandlersAgree, Files
<1>2. FuseInv /\ [FuseNext]_allVars => FuseInv'
  BY NextFuse
<1> QED BY <1>1, <1>2, InitFuse, PTL DEF FuseSpec

\* A listing in pieces leaves out nothing and repeats nothing.
THEOREM CompleteListing ==
  ASSUME EntriesFit, WholeRegions
  PROVE  FuseSpec => []ListingInOrder
<1>1. ASSUME FuseInv PROVE ListingInOrder
  <2> SUFFICES ASSUME NEW t \in Client
               PROVE  hand[t].listed = [i \in 1 .. Len(hand[t].listed) |-> i - 1]
    BY DEF ListingInOrder
  <2> DEFINE k == hand[t].cursor
  <2>0. HandOK(hand[t])
    BY <1>1 DEF FuseInv, Asks
  <2>1. hand[t].listed = [i \in 1 .. k |-> i - 1] /\ k \in Nat
    BY <2>0 DEF HandOK, Hand, Entries
  <2>2. Len([i \in 1 .. k |-> i - 1]) = k
    BY <2>1
  <2> QED BY <2>1, <2>2
<1>2. FuseInv /\ [FuseNext]_allVars => FuseInv'
  BY NextFuse
<1> QED BY <1>1, <1>2, InitFuse, PTL DEF FuseSpec

\* What clients read and write as a chunk of a region is that chunk, if they
\* write whole packets.
THEOREM ReachesTheChunk ==
  ASSUME EntriesFit, WholeRegions, Fragments = {}
  PROVE  FuseSpec => []ReachesItsChunk
<1> DEFINE ReachInv == FuseInv /\ IsolationInv /\ Reached
<1>1. FuseInit => ReachInv
  <2>1. FuseInit => Reached
    BY DEF FuseInit, Reached
  <2> QED BY <2>1, InitFuse, InitIsolated DEF FuseInit
<1>2. ReachInv /\ [FuseNext]_allVars => ReachInv'
  <2>1. TasksTrusted
    BY FuseAssumption DEF TasksTrusted
  <2> QED BY <2>1, NextFuse, NextReached, NextIsolated, FuseStepServes
<1>3. ASSUME ReachInv PROVE ReachesItsChunk
  <2>1. ASSUME reader # Nobody, FitsInode(call[reader].name), NEW i \in 1 .. Len(rd.got)
        PROVE  rd.got[i].nbt.pos = call[reader].chunk
    <3>1. rd.req = <<call[reader].chunk>> /\ Len(rd.req) = 1
      BY <1>3, <2>1 DEF Reached
    <3>2. i = 1
      <4>1. Len(rd.got) <= Len(rd.req) /\ rd.got \in Seq(Packet)
        BY <1>3 DEF FuseInv, TypeInv, TypeOK, ReadState, ReaderOK
      <4> QED BY <3>1, <4>1, LenProperties
    <3>3. rd.got[i].nbt.pos = rd.req[i]
      BY <1>3 DEF IsolationInv, ReaderIsolated, Isolated
    <3> QED BY <3>1, <3>2, <3>3
  <2> QED BY <1>3, <2>1 DEF Reached, ReachesItsChunk
<1> HIDE DEF ReachInv
<1> QED BY <1>1, <1>2, <1>3, PTL DEF FuseSpec
=============================================================================
