---------------------------- MODULE VirtualFile ----------------------------
(***************************************************************************)
(* hoppermc-fs/src/virtual_file.rs: the shared LRU cache, the reader, the  *)
(* threads that serve writes and the background prefetch tasks, between a  *)
(* FUSE client and the chunk table of the database.                        *)
(*                                                                         *)
(* The FUSE session has one thread.  It runs read_at itself, so no other   *)
(* request is taken up while a read is served, and starts a thread per     *)
(* write.  The steps are cut where the code calls out: every storage call, *)
(* every generation and every use of the cache's mutex is a step.          *)
(***************************************************************************)
EXTENDS Storage, Lru, FiniteSetsExt

CONSTANTS
  Writer,          \* write threads that may run at once
  Worker,          \* permits of prefetch_limiter, each held by one task
  PrefetchRadius,  \* --prefetch-radius
  Requests,        \* the reads a client makes: the chunk that each pass of
                   \* the loop looks up
  Fragments,       \* what the fifth byte of a piece may be taken for, if
                   \* clients or the kernel write packets in pieces
  Stray,           \* slots a client may use for a chunk that is not theirs,
                   \* NoPos among them for an offset past the last slot
  Overlap,         \* TRUE: the client may issue a request before the
                   \* answer to the one before
  MaxWrites,       \* bound on the writes of a behaviour
  MaxTasks         \* bound on the prefetch tasks that exist at once

ASSUME VirtualFileAssumption ==
  /\ PrefetchRadius \in Nat
  /\ Requests \subseteq Seq(Chunk) \ {<<>>}
  /\ Fragments \subseteq PacketKind
  /\ Stray \subseteq Chunk \cup {NoPos}
  /\ Overlap \in BOOLEAN
  /\ MaxWrites \in Nat
  /\ MaxTasks \in Nat
  /\ NoBlob \notin Packet

VARIABLES
  cache,     \* VirtualFile.cache
  db,        \* the chunk table
  rd,        \* read_at on the session thread
  wr,        \* write_at on each write thread
  spawned,   \* for each chunk, prefetch tasks that have not run yet
  waiting,   \* chunks of the tasks queued on prefetch_limiter, first in front
  running,   \* the task that holds each permit
  nwrites,   \* writes taken up so far; write number v carries version v
  acked,     \* history: versions whose write was answered
  saved,     \* history: versions whose save under a chunk returned Ok
  before,    \* history: for each version, those answered before its write
  raced      \* history: versions saved while a prefetch of the same chunk
             \* had already missed its row

dataVars == <<cache, db>>
prefetchVars == <<spawned, waiting, running>>
histVars == <<nwrites, acked, saved, before, raced>>
vars == <<dataVars, rd, wr, prefetchVars, histVars>>

Version == 1 .. MaxWrites

IdleRead == [pc |-> "idle", req |-> <<>>, got |-> <<>>, val |-> None, seen |-> {}]
IdleWrite == [pc |-> "idle", key |-> NoPos, nbt |-> None]
IdleTask == [pc |-> "idle", chunk |-> NoPos, nbt |-> None]

ReadState == [pc : {"idle", "lookup", "load", "generate", "put", "reply"},
              req : Seq(Chunk), got : Seq(Packet), val : Row, seen : SUBSET Version]
WriteState == [pc : {"idle", "save", "put", "reply"},
               key : Chunk \cup {NoPos}, nbt : Row]
TaskState == [pc : {"idle", "load", "generate", "save", "put"},
              chunk : Chunk \cup {NoPos}, nbt : Row]

\* What each part of the server may hold: the cache packets, the table rows,
\* every thread and task the fields its program counter speaks of.
TypeOK ==
  /\ cache \in [blob : [Chunk -> Packet \cup {NoBlob}], order : Seq(Chunk)]
  /\ db \in [Chunk -> Row]
  /\ rd \in ReadState
  /\ wr \in [Writer -> WriteState]
  /\ spawned \in [Chunk -> Nat]
  /\ waiting \in Seq(Chunk)
  /\ running \in [Worker -> TaskState]
  /\ nwrites \in 0 .. MaxWrites
  /\ acked \in SUBSET Version
  /\ saved \in [Chunk -> SUBSET Version]
  /\ before \in [Version -> SUBSET Version]
  /\ raced \in SUBSET Version

Init ==
  /\ cache = EmptyCache(Chunk)
  /\ db = [c \in Chunk |-> None]
  /\ rd = IdleRead
  /\ wr = [w \in Writer |-> IdleWrite]
  /\ spawned = [c \in Chunk |-> 0]
  /\ waiting = <<>>
  /\ running = [p \in Worker |-> IdleTask]
  /\ nwrites = 0
  /\ acked = {}
  /\ saved = [c \in Chunk |-> {}]
  /\ before = [v \in Version |-> {}]
  /\ raced = {}

Persistent == StorageMode # "nostorage"

\* A correct generator returns the chunk it was asked for; with the fault
\* "coords" it may return another one.
generate_chunk(c) ==
  {Generated(c)}
    \cup {Generated(d) : d \in IF "coords" \in Faults THEN Chunk ELSE {}}
    \cup {None : f \in Faults \cap {"generate"}}

Quiet == rd.pc = "idle" /\ \A w \in Writer : wr[w].pc = "idle"

\* The client waits for its answers unless it overlaps requests; the
\* session thread takes up nothing while it serves a read.
SessionFree == rd.pc = "idle" /\ (Overlap \/ Quiet)

-----------------------------------------------------------------------------
(* read_at, pass by pass of its loop: a blob and the zeros behind it are two
   passes over the same chunk, each with its own look at the cache. *)

Wanted == rd.req[Len(rd.got) + 1]

\* The tasks one fetched chunk spawns: its neighbours, itself left out.
Near(c) ==
  {d \in Chunk \ {c} : /\ c[1] - d[1] \in -PrefetchRadius .. PrefetchRadius
                       /\ c[2] - d[2] \in -PrefetchRadius .. PrefetchRadius}

\* The code has no such limit: the runtime queues every task.
Tasks == MapThenSumSet(LAMBDA c : spawned[c], Chunk) + Len(waiting)
Busy == Cardinality({p \in Worker : running[p].pc # "idle"})

RoomForTasks(r) ==
  LET fetched == {r[i] : i \in 1 .. Len(r)}
  IN Tasks + Busy + MapThenSumSet(LAMBDA c : Cardinality(Near(c)), fetched) <= MaxTasks

DispatchRead(r) ==
  /\ SessionFree
  /\ RoomForTasks(r)
  /\ rd' = [IdleRead EXCEPT !.pc = "lookup", !.req = r, !.seen = acked]
  /\ UNCHANGED <<dataVars, wr, prefetchVars, histVars>>

\* Answering one chunk: the loop goes on until the request is served.
Answered(b) ==
  [rd EXCEPT !.pc = IF Len(rd.got) + 1 = Len(rd.req) THEN "reply" ELSE "lookup",
             !.got = Append(@, b), !.val = None]

\* Mutant: continue where the code breaks.
ContinuedLoop == [rd EXCEPT !.pc = "lookup", !.val = None]

\* A break: what is left of the answer stays zero.
Broken == [rd EXCEPT !.pc = "reply", !.val = None]

ReadHit ==
  /\ rd.pc = "lookup"
  /\ contains(cache, Wanted)
  /\ rd' = Answered(cache.blob[Wanted])
  /\ cache' = Touched(cache, Wanted)
  /\ UNCHANGED <<db, wr, prefetchVars, histVars>>

ReadMiss ==
  /\ rd.pc = "lookup"
  /\ ~ contains(cache, Wanted)
  /\ rd' = [rd EXCEPT !.pc = IF Persistent THEN "load" ELSE "generate"]
  /\ UNCHANGED <<dataVars, wr, prefetchVars, histVars>>

\* A row that holds another chunk, no row and a failed load all end in a
\* fresh generation.
ReadLoad ==
  /\ rd.pc = "load"
  /\ \E res \in load_chunk(db[Wanted]) :
       rd' = IF res.found # None /\ verify_chunk_coords(res.found, Wanted)
               THEN [rd EXCEPT !.pc = "put", !.val = res.found]
               ELSE [rd EXCEPT !.pc = "generate"]
  /\ UNCHANGED <<dataVars, wr, prefetchVars, histVars>>

\* Mutant: read_at saves what it generates, as the prefetch tasks do.
SavingGenerate ==
  /\ rd.pc = "generate"
  /\ \E n \in generate_chunk(Wanted) :
       IF n # None /\ verify_chunk_coords(n, Wanted)
         THEN /\ rd' = [rd EXCEPT !.pc = "put", !.val = n]
              /\ db' = [db EXCEPT ![Wanted] = n]
         ELSE rd' = Broken /\ db' = db
  /\ UNCHANGED <<cache, wr, prefetchVars, histVars>>

ReadGenerate ==
  /\ rd.pc = "generate"
  /\ \E n \in generate_chunk(Wanted) :
       rd' = IF n # None /\ verify_chunk_coords(n, Wanted)
               THEN [rd EXCEPT !.pc = "put", !.val = n]
               ELSE Broken
  /\ UNCHANGED <<dataVars, wr, prefetchVars, histVars>>

ReadPut ==
  /\ rd.pc = "put"
  /\ LET blob == compress_and_wrap_chunk(rd.val)
     IN /\ cache' = Put(cache, Wanted, blob)
        /\ rd' = Answered(blob)
  /\ spawned' = [c \in Chunk |-> spawned[c] + IF c \in Near(Wanted) THEN 1 ELSE 0]
  /\ UNCHANGED <<db, wr, waiting, running, histVars>>

ReadReply ==
  /\ rd.pc = "reply"
  /\ rd' = IdleRead
  /\ UNCHANGED <<dataVars, wr, prefetchVars, histVars>>

-----------------------------------------------------------------------------
(* write, and write_at on its own thread. *)

\* Mutant: the slot decides, whatever chunk the payload says it is.
SlotKey(slot, n) == slot

\* Where a payload is saved: the slot it was written to when the two agree,
\* otherwise the chunk it says it is, if it says so.
SaveKey(slot, n) ==
  IF verify_chunk_coords(n, slot) \/ n.pos = NoPos THEN slot ELSE n.pos

\* What a client writes for its edit v of chunk c: the whole packet, in a
\* compression the server knows, or one piece of it, a later one with any byte
\* where the type of a packet is.
WritePackets(c, v) ==
  LET n == [pos |-> c, ver |-> v, exact |-> TRUE]
  IN [kind : {"deflated", "plain"}, whole : {TRUE}, nbt : {n}]
       \cup [kind : Fragments, whole : {FALSE}, nbt : {n}]

\* An offset in no slot and a packet that cannot be decoded are dropped: the
\* thread goes straight to its answer.
DispatchWrite(w, c, slot) ==
  /\ SessionFree
  /\ wr[w].pc = "idle"
  /\ nwrites < MaxWrites
  /\ slot \in {c} \cup Stray
  /\ nwrites' = nwrites + 1
  /\ before' = [before EXCEPT ![nwrites'] = acked]
  /\ \E d \in WritePackets(c, nwrites') :
       LET n == unwrap_and_decompress_chunk(d)
       IN wr' = [wr EXCEPT ![w] =
            IF slot # NoPos /\ unwraps(d)
              THEN [pc |-> IF Persistent THEN "save" ELSE "reply",
                    key |-> SaveKey(slot, n), nbt |-> n]
              ELSE [pc |-> "reply", key |-> NoPos, nbt |-> n]]
  /\ UNCHANGED <<dataVars, rd, prefetchVars, acked, saved, raced>>

\* Some prefetch of c has found no row and will save what it generates.
MissedRow(c) ==
  \E p \in Worker : running[p].chunk = c /\ running[p].pc \in {"generate", "save"}

\* Mutant: a row that exists is left alone, and counts as saved.
LazySave(w) ==
  /\ wr[w].pc = "save"
  /\ LET c == wr[w].key
         v == wr[w].nbt.ver
     IN \E res \in save_chunk(db[c], wr[w].nbt) :
          /\ db' = [db EXCEPT ![c] = IF db[c] = None THEN res.row ELSE db[c]]
          /\ wr' = [wr EXCEPT ![w].pc = IF res.ok THEN "put" ELSE "reply"]
          /\ saved' = IF res.ok /\ db[c] = None THEN [saved EXCEPT ![c] = @ \cup {v}] ELSE saved
          /\ raced' = IF MissedRow(c) THEN raced \cup {v} ELSE raced
  /\ UNCHANGED <<cache, rd, prefetchVars, nwrites, acked, before>>

\* Mutant: a failed save is tried again until it succeeds.
StubbornSave(w) ==
  /\ wr[w].pc = "save"
  /\ LET c == wr[w].key
         v == wr[w].nbt.ver
     IN \E res \in save_chunk(db[c], wr[w].nbt) :
          /\ db' = [db EXCEPT ![c] = res.row]
          /\ wr' = [wr EXCEPT ![w].pc = IF res.ok THEN "put" ELSE "save"]
          /\ saved' = IF res.ok THEN [saved EXCEPT ![c] = @ \cup {v}] ELSE saved
          /\ raced' = IF MissedRow(c) THEN raced \cup {v} ELSE raced
  /\ UNCHANGED <<cache, rd, prefetchVars, nwrites, acked, before>>

\* An error is logged and the cache keeps what it has.
WriteSave(w) ==
  /\ wr[w].pc = "save"
  /\ LET c == wr[w].key
         v == wr[w].nbt.ver
     IN \E res \in save_chunk(db[c], wr[w].nbt) :
          /\ db' = [db EXCEPT ![c] = res.row]
          /\ wr' = [wr EXCEPT ![w].pc = IF res.ok THEN "put" ELSE "reply"]
          /\ saved' = IF res.ok THEN [saved EXCEPT ![c] = @ \cup {v}] ELSE saved
          /\ raced' = IF MissedRow(c) THEN raced \cup {v} ELSE raced
  /\ UNCHANGED <<cache, rd, prefetchVars, nwrites, acked, before>>

\* Mutant: the cache is not updated after a save.
ForgottenPut(w) ==
  /\ wr[w].pc = "put"
  /\ wr' = [wr EXCEPT ![w].pc = "reply"]
  /\ UNCHANGED <<dataVars, rd, prefetchVars, histVars>>

WritePut(w) ==
  /\ wr[w].pc = "put"
  /\ cache' = Put(cache, wr[w].key, compress_and_wrap_chunk(wr[w].nbt))
  /\ wr' = [wr EXCEPT ![w].pc = "reply"]
  /\ UNCHANGED <<db, rd, prefetchVars, histVars>>

\* The handler answers the full length whatever write_at did.
WriteReply(w) ==
  /\ wr[w].pc = "reply"
  /\ wr' = [wr EXCEPT ![w] = IdleWrite]
  /\ acked' = acked \cup {wr[w].nbt.ver}
  /\ UNCHANGED <<dataVars, rd, prefetchVars, nwrites, saved, before, raced>>

-----------------------------------------------------------------------------
(* trigger_prefetch: one task per neighbour. *)

PrefetchCheck(c) ==
  /\ spawned[c] > 0
  /\ spawned' = [spawned EXCEPT ![c] = @ - 1]
  /\ waiting' = IF contains(cache, c) THEN waiting ELSE Append(waiting, c)
  /\ UNCHANGED <<dataVars, rd, wr, running, histVars>>

\* Mutant: a task whose chunk is cached queues again.
RequeueingAcquire(p) ==
  /\ running[p].pc = "idle"
  /\ waiting # <<>>
  /\ waiting' = IF contains(cache, Head(waiting))
                  THEN Append(Tail(waiting), Head(waiting)) ELSE Tail(waiting)
  /\ running' = [running EXCEPT ![p] =
       IF contains(cache, Head(waiting))
         THEN IdleTask
         ELSE [IdleTask EXCEPT !.pc = IF Persistent THEN "load" ELSE "generate",
                               !.chunk = Head(waiting)]]
  /\ UNCHANGED <<dataVars, rd, wr, spawned, histVars>>

\* Taking a permit touches nothing the others see, so it is one step with
\* the second look at the cache that follows it.
PrefetchAcquire(p) ==
  /\ running[p].pc = "idle"
  /\ waiting # <<>>
  /\ waiting' = Tail(waiting)
  /\ running' = [running EXCEPT ![p] =
       IF contains(cache, Head(waiting))
         THEN IdleTask
         ELSE [IdleTask EXCEPT !.pc = IF Persistent THEN "load" ELSE "generate",
                               !.chunk = Head(waiting)]]
  /\ UNCHANGED <<dataVars, rd, wr, spawned, histVars>>

\* Mutant: the task generates without looking for a row.
BlindLoad(p) ==
  /\ running[p].pc = "load"
  /\ running' = [running EXCEPT ![p].pc = "generate"]
  /\ UNCHANGED <<dataVars, rd, wr, spawned, waiting, histVars>>

\* Only a row that was found ends the task here: an error does not.
PrefetchLoad(p) ==
  /\ running[p].pc = "load"
  /\ \E res \in load_chunk(db[running[p].chunk]) :
       running' = [running EXCEPT ![p] =
         IF res.ok /\ res.found # None THEN IdleTask ELSE [@ EXCEPT !.pc = "generate"]]
  /\ UNCHANGED <<dataVars, rd, wr, spawned, waiting, histVars>>

\* Unlike read_at, the task does not verify what it got.
PrefetchGenerate(p) ==
  /\ running[p].pc = "generate"
  /\ \E n \in generate_chunk(running[p].chunk) :
       running' = [running EXCEPT ![p] =
         IF n = None
           THEN IdleTask
           ELSE [@ EXCEPT !.pc = IF Persistent THEN "save" ELSE "put", !.nbt = n]]
  /\ UNCHANGED <<dataVars, rd, wr, spawned, waiting, histVars>>

\* The result of the save is ignored.
PrefetchSave(p) ==
  /\ running[p].pc = "save"
  /\ \E res \in save_chunk(db[running[p].chunk], running[p].nbt) :
       db' = [db EXCEPT ![running[p].chunk] = res.row]
  /\ running' = [running EXCEPT ![p].pc = "put"]
  /\ UNCHANGED <<cache, rd, wr, spawned, waiting, histVars>>

PrefetchPut(p) ==
  /\ running[p].pc = "put"
  /\ cache' = Put(cache, running[p].chunk, compress_and_wrap_chunk(running[p].nbt))
  /\ running' = [running EXCEPT ![p] = IdleTask]
  /\ UNCHANGED <<db, rd, wr, spawned, waiting, histVars>>

-----------------------------------------------------------------------------
\* The process ends, by a signal or a failure, and is started again.
Crash ==
  /\ "crash" \in Faults
  /\ cache' = EmptyCache(Chunk)
  /\ rd' = IdleRead
  /\ wr' = [w \in Writer |-> IdleWrite]
  /\ spawned' = [c \in Chunk |-> 0]
  /\ waiting' = <<>>
  /\ running' = [p \in Worker |-> IdleTask]
  /\ UNCHANGED <<db, histVars>>

ReadStep == ReadHit \/ ReadMiss \/ ReadLoad \/ ReadGenerate \/ ReadPut \/ ReadReply

WriteStep(w) == WriteSave(w) \/ WritePut(w) \/ WriteReply(w)

PrefetchStep(p) ==
  \/ PrefetchAcquire(p)
  \/ PrefetchLoad(p)
  \/ PrefetchGenerate(p)
  \/ PrefetchSave(p)
  \/ PrefetchPut(p)

Next ==
  \/ \E r \in Requests : DispatchRead(r)
  \/ ReadStep
  \/ \E w \in Writer, c \in Chunk, slot \in Chunk \cup {NoPos} : DispatchWrite(w, c, slot)
  \/ \E w \in Writer : WriteStep(w)
  \/ \E c \in Chunk : PrefetchCheck(c)
  \/ \E p \in Worker : PrefetchStep(p)
  \/ Crash

Spec == Init /\ [][Next]_vars

\* The operating system runs every thread and the runtime polls every task;
\* the client owes nothing, and nothing has to fail.
FairSpec ==
  /\ Spec
  /\ WF_vars(ReadStep)
  /\ \A w \in Writer : WF_vars(WriteStep(w))
  /\ \A c \in Chunk : WF_vars(PrefetchCheck(c))
  /\ \A p \in Worker : WF_vars(PrefetchStep(p))

-----------------------------------------------------------------------------
(* Safety. *)

\* A piece of a packet was stored as the chunk c: nothing else is known of c
\* until a whole chunk replaces it.
Torn(c) == db[c] # None /\ db[c].pos = NoPos

\* What is kept or answered for a chunk is that chunk, wherever in the file a
\* client wrote it, or else a piece that was written to its own slot, never
\* the chunk of another place: the cache, the table and the answer of a read.
Isolated(n, c) == n.pos = c \/ (n.pos = NoPos /\ "plain" \in Fragments)

Isolation ==
  /\ \A c \in Chunk : contains(cache, c) => Isolated(cache.blob[c].nbt, c)
  /\ \A c \in Chunk : db[c] # None => Isolated(db[c], c)
  /\ \A i \in 1 .. Len(rd.got) : Isolated(rd.got[i].nbt, rd.req[i])

\* The cache stays within --cache-size, and its recency list and its map
\* agree, whoever uses it between two steps of somebody else.
CacheBounded == Bounded(cache, Chunk)

\* n is as new as edit v: neither a generated chunk nor an edit that was
\* answered before v was written.
Supersedes(n, v) == n.ver # 0 /\ n.ver \notin before[v]

\* An edit whose save was confirmed is never lost: the row of its chunk
\* holds it or one that was written later or concurrently, through faults
\* and restarts.
Durable == \A c \in Chunk : \A v \in saved[c] : db[c] # None /\ Supersedes(db[c], v)

\* With prefetching, only an edit saved between the moment a prefetch task
\* missed the row and that task's own save may be lost.
DurableUnlessRaced ==
  \A c \in Chunk : \A v \in saved[c] \ raced : db[c] # None /\ Supersedes(db[c], v)

\* The cache never shows an edit whose save was not confirmed.
NoPhantom == \A c \in Chunk :
  contains(cache, c) => cache.blob[c].nbt.ver \in saved[c] \cup {0}

\* A finished read answers no chunk older than an edit of it that was saved
\* and answered before the read was taken up, unless a piece has taken the
\* place of the edit in the table.
ReadFresh ==
  rd.pc = "reply" =>
    \A i \in 1 .. Len(rd.got) : \A v \in rd.seen \cap saved[rd.req[i]] :
      Torn(rd.req[i]) \/ Supersedes(rd.got[i].nbt, v)

\* Once every write is answered, the cache agrees with the table on every
\* chunk of which the table holds more than a piece.
CacheCoherent ==
  Quiet => \A c \in Chunk : contains(cache, c) /\ ~ Torn(c) =>
    \/ db[c] = cache.blob[c].nbt
    \/ db[c] = None /\ cache.blob[c].nbt = Generated(c)

\* Without a database every answer is the generated world.
Stateless ==
  /\ \A c \in Chunk : db[c] = None
  /\ \A i \in 1 .. Len(rd.got) :
       rd.got[i] = compress_and_wrap_chunk(Generated(rd.req[i]))

\* Only whole chunks are ever stored.
OnlyWholeChunksStored == \A c \in Chunk : db[c] # None => db[c].pos # NoPos

\* The rows change only by a save, and a failed or raced prefetch apart no
\* step takes an edit out of the table: a row goes from an edit back to the
\* generated chunk only by a task that had found no row.
NoRevert ==
  [][\A c \in Chunk : db[c] # None /\ db[c].ver # 0 /\ db'[c].ver = 0 =>
       \E p \in Worker : running[p].chunk = c /\ running[p].pc = "save" /\ db[c].ver \in raced]_vars

-----------------------------------------------------------------------------
(* Liveness. *)

\* Every read that the session takes up is answered (or cut by a restart).
ReadReplied == rd.pc # "idle" ~> rd.pc = "idle"

\* So is every write.
WriteAcked == \A w \in Writer : wr[w].pc # "idle" ~> wr[w].pc = "idle"

\* Once clients stop reading, the prefetch queue drains and every permit comes
\* back.
PrefetchDrains == <>[](rd.pc = "idle") => <>[](Tasks + Busy = 0)
=============================================================================
