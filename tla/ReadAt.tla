------------------------------- MODULE ReadAt -------------------------------
(***************************************************************************)
(* The bytes of one read_at call: the header's part of the request, then   *)
(* one pass of the loop per stretch of a slot, then zeros for what is      *)
(* missing.  Where a chunk's blob comes from is VirtualFile's business;    *)
(* here every slot has one, of some length, or a fetch that fails.         *)
(***************************************************************************)
EXTENDS RegionLayout

CONSTANTS
  BlobLengths,  \* lengths that blobs may have
  Failed,       \* a slot whose chunk can be neither loaded nor generated
  MaxOffset,    \* bounds of the requests
  MaxSize

ASSUME ReadAtAssumption ==
  /\ BlobLengths \subseteq Nat
  /\ Failed \notin Nat
  /\ MaxOffset \in Nat
  /\ MaxSize \in Nat

\* A byte is named by where it comes from; zero is a byte of its own.
Zero == <<"zero", 0, 0>>
HeaderByte(p) == <<"header", 0, p>>
BlobByte(s, j) == <<"blob", s, j>>

VARIABLES
  blobs,   \* length of each slot's blob, or Failed
  offset,
  size,
  out,     \* response_data
  pc       \* "header", "loop" or "done"

vars == <<blobs, offset, size, out, pc>>

Init ==
  /\ blobs \in [0 .. Slots - 1 -> BlobLengths \cup {Failed}]
  /\ offset \in 0 .. MaxOffset
  /\ size \in 0 .. MaxSize
  /\ out = <<>>
  /\ pc = "header"

Lesser(a, b) == IF a < b THEN a ELSE b
Zeros(n) == [k \in 1 .. n |-> Zero]

\* Where the next byte of the answer lies, and the slot it lies in.
Position == offset + Len(out)
Needed == size - Len(out)
Mapped == get_chunk_coords_from_offset(Position)
Slot == slot_index(Mapped[1], Mapped[2])
SlotStart == get_chunk_file_offset(Mapped[1], Mapped[2])
Local == Position - SlotStart

HeaderPart ==
  /\ pc = "header"
  /\ out' = [k \in 1 .. IF offset < HEADER_BYTES
                          THEN Lesser(size, HEADER_BYTES - offset) ELSE 0
               |-> HeaderByte(offset + k - 1)]
  /\ pc' = "loop"
  /\ UNCHANGED <<blobs, offset, size>>

\* The pass finds a chunk at the position and its blob in the cache, the
\* table or the generator.
Fetched == Needed > 0 /\ Mapped # NoChunk /\ blobs[Slot] # Failed

\* Mutant: the rest of the blob is copied, however much the client asked for.
UnclampedCopy ==
  /\ pc = "loop"
  /\ Fetched
  /\ Local < blobs[Slot]
  /\ out' = out \o [k \in 1 .. blobs[Slot] - Local |-> BlobByte(Slot, Local + k - 1)]
  /\ UNCHANGED <<blobs, offset, size, pc>>

\* Mutant: every copy starts at the blob's first byte.
UnalignedCopy ==
  /\ pc = "loop"
  /\ Fetched
  /\ Local < blobs[Slot]
  /\ out' = out \o [k \in 1 .. Lesser(blobs[Slot] - Local, Needed) |-> BlobByte(Slot, k - 1)]
  /\ UNCHANGED <<blobs, offset, size, pc>>

\* The blob is copied as far as it or the request goes, not as far as the
\* slot does.
CopyBlob ==
  /\ pc = "loop"
  /\ Fetched
  /\ Local < blobs[Slot]
  /\ out' = out \o [k \in 1 .. Lesser(blobs[Slot] - Local, Needed) |->
                      BlobByte(Slot, Local + k - 1)]
  /\ UNCHANGED <<blobs, offset, size, pc>>

\* Mutant: zeros to the end of the request, over the slots that follow.
OverlongFill ==
  /\ pc = "loop"
  /\ Fetched
  /\ Local >= blobs[Slot]
  /\ out' = out \o Zeros(Needed)
  /\ UNCHANGED <<blobs, offset, size, pc>>

\* Mutant: the slot is taken to end one byte early, where a pass adds nothing.
StuckFill ==
  /\ pc = "loop"
  /\ Fetched
  /\ Local >= blobs[Slot]
  /\ out' = out \o Zeros(Lesser(SlotStart + SlotBytes - 1 - Position, Needed))
  /\ UNCHANGED <<blobs, offset, size, pc>>

SparseFill ==
  /\ pc = "loop"
  /\ Fetched
  /\ Local >= blobs[Slot]
  /\ out' = out \o Zeros(Lesser(SlotStart + SlotBytes - Position, Needed))
  /\ UNCHANGED <<blobs, offset, size, pc>>

\* The request is served, runs past the last slot or meets a failed fetch:
\* what is missing is padded.
Pad ==
  /\ pc = "loop"
  /\ ~ Fetched
  /\ out' = out \o Zeros(Needed)
  /\ pc' = "done"
  /\ UNCHANGED <<blobs, offset, size>>

Next == HeaderPart \/ CopyBlob \/ SparseFill \/ Pad

Spec == Init /\ [][Next]_vars

FairSpec == Spec /\ WF_vars(Next)

-----------------------------------------------------------------------------
(* The file that the answers are pieces of. *)

SlotOf(p) == (p - HEADER_BYTES) \div SlotBytes
InSlot(p) == p >= HEADER_BYTES /\ SlotOf(p) < Slots

FileByte(p) ==
  IF p < HEADER_BYTES
    THEN HeaderByte(p)
    ELSE IF InSlot(p) /\ blobs[SlotOf(p)] # Failed
              /\ (p - HEADER_BYTES) % SlotBytes < blobs[SlotOf(p)]
           THEN BlobByte(SlotOf(p), (p - HEADER_BYTES) % SlotBytes)
           ELSE Zero

\* A position is lost when the request meets a failed slot at or before it.
Lost(p) == \E q \in offset .. p : InSlot(q) /\ blobs[SlotOf(q)] = Failed

BlobsFit == \A s \in 0 .. Slots - 1 : blobs[s] = Failed \/ blobs[s] <= SlotBytes

\* The request keeps to one slot.
OneSlot == size > 0 /\ InSlot(offset) => offset + size <= HEADER_BYTES + (SlotOf(offset) + 1) * SlotBytes

\* The answer so far is never longer than the request.
TypeOK ==
  /\ Len(out) <= size
  /\ pc = "done" => Len(out) = size
  /\ pc \in {"header", "loop", "done"}

\* However a client cuts its requests, each answer is that piece of one and
\* the same file, except that everything after a failed fetch is zero.  It
\* needs blobs that fit their slots.
AnswersTheFile ==
  BlobsFit =>
    \A k \in 1 .. Len(out) :
      out[k] = IF Lost(offset + k - 1) THEN Zero ELSE FileByte(offset + k - 1)

\* A blob larger than its slot still reads right inside the slot it starts in.
OversizeStaysRight ==
  (OneSlot /\ offset >= HEADER_BYTES) =>
    \A k \in 1 .. Len(out) :
      out[k] = IF Lost(offset + k - 1) THEN Zero ELSE FileByte(offset + k - 1)

\* The loop ends: every pass adds at least one byte.
Terminates == <>(pc = "done")
=============================================================================
