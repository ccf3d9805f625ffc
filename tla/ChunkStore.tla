----------------------------- MODULE ChunkStore -----------------------------
(***************************************************************************)
(* What the region files promise a client: a world that holds one chunk    *)
(* per place, generated until an edit of it is stored, and reads that      *)
(* answer with the world's chunks.  There is no cache, no table and no     *)
(* time between looking a chunk up and answering it.  A client that stores *)
(* a piece of a chunk loses the chunk until it stores a whole one.         *)
(***************************************************************************)
EXTENDS Anvil, Sequences

CONSTANTS
  Requests,  \* the chunks one read spans
  Unknown    \* what is said of a chunk that was lost: nothing

VARIABLES
  world,   \* the chunk at each place
  asked,   \* the read in progress, empty when there is none
  answer   \* its chunks so far

vars == <<world, asked, answer>>

Init ==
  /\ world = [c \in Chunk |-> Generated(c)]
  /\ asked = <<>>
  /\ answer = <<>>

Ask(r) ==
  /\ asked = <<>>
  /\ asked' = r
  /\ UNCHANGED <<world, answer>>

Answer ==
  /\ Len(answer) < Len(asked)
  /\ answer' = Append(answer, world[asked[Len(answer) + 1]])
  /\ UNCHANGED <<world, asked>>

Finish ==
  /\ asked # <<>>
  /\ Len(answer) = Len(asked)
  /\ asked' = <<>>
  /\ answer' = <<>>
  /\ UNCHANGED world

\* The server goes away; the world stays.
Abandon ==
  /\ asked' = <<>>
  /\ answer' = <<>>
  /\ UNCHANGED world

\* An edit is stored between reads, at the place it belongs to.
Store(n) ==
  /\ asked = <<>>
  /\ n.pos \in Chunk
  /\ world' = [world EXCEPT ![n.pos] = n]
  /\ UNCHANGED <<asked, answer>>

\* A piece is stored, between reads, as if it were the chunk.
Tear(c) ==
  /\ asked = <<>>
  /\ world' = [world EXCEPT ![c] = Unknown]
  /\ UNCHANGED <<asked, answer>>

Next ==
  \/ \E r \in Requests : Ask(r)
  \/ Answer
  \/ Finish
  \/ Abandon
  \/ \E c \in Chunk : world'[c] \in Nbt /\ Store(world'[c])
  \/ \E c \in Chunk : Tear(c)

Spec == Init /\ [][Next]_vars
=============================================================================
