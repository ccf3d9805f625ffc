------------------------------- MODULE Inode -------------------------------
(***************************************************************************)
(* hoppermc-fs/src/inode.rs: the 64-bit inode number of a file is all that *)
(* a request says about it, so the number carries the region's             *)
(* coordinates: a flag bit, and a field of 24 bits for each coordinate.    *)
(* A number is the record of its two flags and its two fields; the 14 bits *)
(* between them are zero for a region, and part of the hash otherwise.     *)
(***************************************************************************)
EXTENDS Integers

CONSTANTS
  OFFSET,      \* what makes a coordinate positive: 8,000,000
  FIELD,       \* what a field can hold: 2^24 values
  Name,        \* file names
  fnv1a_hash,  \* of each name: its highest bit and the bits of the fields
  NoRegion     \* the coordinates of a file that is no region

ASSUME InodeAssumption ==
  /\ OFFSET \in Nat
  /\ FIELD \in Nat \ {0}
  /\ fnv1a_hash \in [Name -> [bit63 : BOOLEAN, x : 0 .. FIELD - 1, z : 0 .. FIELD - 1]]
  /\ NoRegion \notin Int \X Int

\* Number 1, the directory.
ROOT == [region |-> FALSE, generic |-> FALSE, x |-> 0, z |-> 1]

is_region_inode(ino) == ino.region

is_generic_inode(ino) == ino.generic

\* The mask keeps the sum modulo FIELD; the 32-bit addition may wrap first,
\* which a power of two below does not see.
pack(x, z) ==
  [region |-> TRUE, generic |-> FALSE,
   x |-> (x + OFFSET) % FIELD, z |-> (z + OFFSET) % FIELD]

\* The two flag bits of the hash are masked away.
pack_generic(name) ==
  [region |-> FALSE, generic |-> TRUE,
   x |-> fnv1a_hash[name].x, z |-> fnv1a_hash[name].z]

\* Mutant: the offset is not taken off again.
UnshiftedUnpack(ino) ==
  IF is_region_inode(ino) THEN <<ino.x, ino.z>> ELSE NoRegion

unpack(ino) ==
  IF is_region_inode(ino) THEN <<ino.x - OFFSET, ino.z - OFFSET>> ELSE NoRegion

\* The coordinates that a field holds.
Fits(v) == v \in -OFFSET .. FIELD - 1 - OFFSET
=============================================================================
