# HopperMC in TLA+

HopperMC mounts a directory of Minecraft region files that do not exist. Reads
of `r.x.z.mca` are answered from an LRU cache, from a PostgreSQL table or from a
world generator; writes are taken apart and saved chunk by chunk. This
directory models what can go wrong in between: threads, background tasks,
failing calls and restarts around one cache and one table; and what leads there:
names, inode numbers, the requests of the kernel, the JSON a chunk may be stored
as, and the life of the program in its container.

Paths below are relative to `src/`.

## 1. Inventory

| Component | State | Operations | Correct when |
|---|---|---|---|
| `hoppermc-fs/src/virtual_file.rs` VirtualFile | LRU cache under a mutex, semaphore of two permits, spawned tasks, handle of the storage | `read_at`, `write_at`, `trigger_prefetch` | a confirmed edit is never lost; reads are fresh; chunks do not mix; the cache keeps its bound; requests are answered |
| `lru` crate (external) | map and recency list | `get`, `contains`, `put` | both hold the same keys, at most the capacity |
| `hoppermc-anvil` codec | none | `compress_and_wrap_chunk`, `unwrap_and_decompress_chunk`, `verify_chunk_coords` | what it accepts is a chunk |
| `hoppermc-anvil` layout | the header vector while it is built | `get_chunk_file_offset`, its inverse, `generate_header` | table, offsets and inverse agree for all 1024 slots |
| `hoppermc-storage` PostgresStorage | table `chunks_raw` or `chunks_jsonb`, connection pool | `save_chunk`, `load_chunk`, `get_total_size`, `init_schema` | Ok means stored; a row survives until it is replaced |
| `hoppermc-storage` nbt_json | none | `nbt_to_json`, `json_to_nbt` | a round trip keeps the chunk |
| `hoppermc-fs` McFUSE, inode | none (inode numbers are computed) | FUSE handlers, `pack`, `unpack`, `pack_generic` | different regions have different inodes; a read or write reaches the chunk it means; every call is answered once |
| `hoppermc-gen` | seed, noise tables (read only) | `generate_chunk` | returns the chunk it was asked for |
| `hoppermc` main, `entrypoint.sh`, `compose.yml` | the process, the mount | select storage and generator, connect with retries, build the header, mount, wait for a signal, report; pass signals on, unmount, restart | serves only what is ready; a stop leaves no mount and writes the report; a restart loses nothing that was confirmed |
| `hoppermc` run_auto_benchmark | a VirtualFile, metrics and a thread per cycle | open, stress, stop, report | every configuration that can be opened is reported, with its own numbers |
| `hoppermc-benchmark` | relaxed atomic counters | record, report | a report taken while counters move shows nothing that did not happen |

How they interact. The FUSE session has **one** thread. `McFUSE::read` runs
`read_at` on it, so nothing else is taken up meanwhile; `McFUSE::write` starts a
thread per request, which runs `write_at` and answers. On a cache miss `read_at`
loads, else generates, fills the cache and spawns one task per neighbour; a task
looks at the cache, takes a permit, looks again, loads, generates on the
blocking pool, saves and fills the cache. The three meet in the cache (each
access locks the mutex by itself) and in the table (each call is one
statement); nothing is locked from a check to its use.

The hard behaviours, listed with their lines in `PROJECT.json`: a task or a
reader that acts on what it saw before somebody else's save; errors treated as
"no row"; failed saves that are answered; split and misplaced writes; restarts
between save, cache update and answer; permits and queues; the arithmetic of
slots, blobs and padding; numbers that stand for files of which nothing is kept;
answers given by another thread than the one that took the call; signals, deaths
and mounts; threads nobody joins.

## 2. Modules

| Module | What it is | Code |
|---|---|---|
| `Anvil` | payloads, packets, decoding, coordinate check | `hoppermc-anvil/src/lib.rs` 45-148 |
| `Storage` | the outcomes of a save and of a load, per mode and fault | `hoppermc-storage/src/postgres.rs` 69-139 |
| `Lru` | the cache as map and recency list | external, as used in `virtual_file.rs` |
| `VirtualFile` | reader, write threads, prefetch tasks, restarts | `virtual_file.rs`, `hoppermc-fs/src/lib.rs` 270-324, `main.rs` |
| `ChunkStore` | abstract: one atomic world of chunks | what a client is promised |
| `VirtualFileRefinement` | `VirtualFile` as a `ChunkStore` | |
| `RegionLayout`, `RegionHeader` | slots and offsets; the loop of `generate_header` | `hoppermc-anvil/src/lib.rs` 7-43, 151-167 |
| `ReadAt` | the byte assembly of `read_at`: header, blob, zeros, padding | `virtual_file.rs` 45-60, 65-70, 173-205 |
| `Inode` | numbers of files, and what they say | `hoppermc-fs/src/inode.rs` |
| `McFuse` | clients, the queue of the session, all handlers; extends `VirtualFile`, `RegionLayout` and `Inode` | `hoppermc-fs/src/lib.rs` |
| `NbtJson` | the conversion of the jsonb mode, there and back | `hoppermc-storage/src/nbt_json.rs`, `postgres.rs` 82-136 |
| `Startup` | main, the script and docker; extends `RegionHeader` | `main.rs` 46-174, `entrypoint.sh`, `compose.yml` |
| `AutoBenchmark` | the suite, its threads and counters; extends `Lru` | `main.rs` 176-264, `hoppermc-benchmark/src/lib.rs` |
| `LruProofs`, `LayoutProofs` | what the operations of the cache and the arithmetic of slots give | |
| `VirtualFileProofs` | types, durability, phantoms, reverts, isolation, the world without a database, freshness of `VirtualFile`, and the refinement of `ChunkStore` | |
| `ReadAtProofs`, `McFuseProofs`, `StartupProofs`, `AutoBenchmarkProofs`, `NbtJsonProofs` | theorems of these models | |
| `MC*` | instances for TLC | |

**State of `VirtualFile`.** `cache` and `db` are the shared data. `rd` is the
reader on the session thread: its program counter, the request as the chunk
each pass of the loop looks up, the blobs so far, and the payload it holds.
`wr[w]` is a write thread, `running[p]` the task that holds permit `p`,
`waiting` the tasks queued on the semaphore (tokio's is fair, so it is a
queue), `spawned[c]` the tasks for `c` that have not run yet. A chunk's bytes
are abstracted to the chunk they name, a version (0 generated, otherwise the
number of the client's write) and whether they are byte for byte the author's.
Of a buffer that is written the code looks at the fifth byte only, so `Fragments` says
what the fifth byte of a piece may be taken for: that of a later piece is payload, and
one in 256 reads as type 3, whatever packet it is from. Such a piece is saved as the
chunk of its slot; it names no chunk (`NoPos`), and `Torn(c)` says that the
table holds one for `c`.
`acked`, `saved`, `before`, `raced` are history variables: no action reads
them, the properties do.

**Grain.** A step is what happens between two calls to the outside: each
storage call, each generation and each locked use of the cache is a step of its
own, so every interleaving the code allows is a behaviour. A statement of the
database is atomic; one that reports an error may have been applied or not.
Decoding a write is local to its thread and part of taking the write up.

**Mapping of read_at.** `ReadHit`, `ReadMiss` (cache), `ReadLoad` (database,
verified), `ReadGenerate` (verified, a failure breaks the loop), `ReadPut`
(compress, cache, spawn), `ReadReply`. **write_at:** `DispatchWrite` (decode,
`SaveKey` picks the chunk), `WriteSave`, `WritePut` (only after Ok),
`WriteReply` (always). **trigger_prefetch:** `PrefetchCheck`,
`PrefetchAcquire`, `PrefetchLoad`, `PrefetchGenerate` (not verified),
`PrefetchSave` (result ignored), `PrefetchPut`. `Crash` ends the process at any
point and starts it with an empty cache.

**`McFuse`.** A client is a thread of the game server: it makes one call
(`Send`) and waits. `queue` is what the kernel has for the session thread,
`call[t]` what client `t` waits for, `hand[t]` the file it was given last (or
the listing under way), with the calls on it that were answered ENOENT. Each handler of `lib.rs` is an action that takes the
head of the queue; all but `Read` and `Write` of a region answer in that step.
A read goes on as `VirtualFile`'s reader while the session takes nothing else
up; a write goes on as one of its write threads, and that thread answers. The
client finds a chunk as the server does: it takes the region from the name, reads the
location table (`Address`) and addresses the sector it finds there. A name is
its parts between dots, each with its text and the number it parses to.

**`Startup`.** `main` is where main() is, `script` where `entrypoint.sh` is,
`mount` what is mounted. `Connect` is one attempt (it may fail after the table
was created), `Build` one entry of the header, `Kill`, `Reap`, `Unmount` the
three commands of `cleanup`; the last one may fail, which the script swallows. `Die`
ends the process anywhere, `Expire` is docker losing its patience; either loses the
report if it is due.

**`NbtJson`.** A document, of NBT or of JSON, is a function from the path of each of
its values to a tag and a content: the names in a compound, the length of a
list, the words of an array, a word. The conversions are recursive in the code;
here they say for every path of the result what is there. An array becomes an
object with one entry (`Key`), so its words get paths of their own (`Numbers`)
and lose them on the way back (`Below`). A number is a word: what matters is
only whether JSON has it (`NonFinite`) and whether it comes back with a point
(`Fraction`; jsonb gives 1e16 back without one). A chunk is written, loaded,
saved again as it was loaded, and so on.

**`AutoBenchmark`.** The suite is one actor, each cycle's stress thread
another. The thread goes through `read_at` with the counting that `VirtualFile`
leaves out; the report reads one counter per step. Counters and flags are atomics
used with `Ordering::Relaxed`: `ReadCounter` sees any value that the counter has
had, of each counter for itself, and `NextRead` may miss a flag that is set. An
increment is a read-modify-write and never lost.

**Variants.** Definitions commented "Mutant" are the code with a plausible bug.
No action uses them; each stands beside the definition it would replace, and
the property it must break is named in `PROJECT.json`.

## 3. Properties and runs

`tlc -workers 2 -config <run>.cfg <module>`

| Run | Module | Shows |
|---|---|---|
| `chunk_store` | MCVirtualFileRefinement | A client that waits for its answers, writes to wrong slots and to none, pieces of every kind, failing saves, failing and confused generators, restarts, no prefetching. `IsChunkStore`: the whole implements `ChunkStore`, where a piece that is stored loses its own chunk until a whole one is saved; `Isolation`: what is cached, stored or answered for a chunk is that chunk or a piece that was written to its slot; `Durable`: a confirmed edit stays until something later takes its place; `ReadFresh`: no answer older than what was confirmed before the request, and `CacheCoherent`, both but for a chunk that a piece has replaced in the table; `TypeOK` |
| `prefetch_pg_raw` | MCVirtualFile | Everything at once with two tasks: `CacheBounded`, `NoPhantom` (the cache shows only confirmed edits), `DurableUnlessRaced`, `NoRevert` (who may take an edit out of the table) |
| `liveness` | MCVirtualFile | `ReadReplied`, `WriteAcked`, `PrefetchDrains` (and every permit comes back), with calls that fail |
| `mcfuse` | MCMcFuse | Two clients, all handlers, the jsonb table with failing loads, saves and encodings, lost mounts. `OneNumberPerRegion`, `HandlersAgree`, `ListingInOrder`: what the stateless handlers say of a file fits together, except that `lookup` denies a file that is no region right after `create` gave it out (`hoppermc-fs/src/lib.rs` 123-129; its comment expects a server to "be confused"); `ReachesItsChunk`: name, number, location table and offset lead to the chunk the client means, and other files to none; `EveryCallInOnePlace`, `CallsAnswered`: each call is answered, once, and not before it is done (a write: not before its save has been tried); `Durable`: a failed load that is answered with a generated chunk leaves the table alone |
| `startup` | MCStartup | `HeaderAgreesWithOffsets` (every entry of the table leads to the slot that offsets resolve to), `ServesCompletely`, `MountedWhileServing`, `StoppedClean`, `ReportedInTime`, `ConnectingEnds`, `StopEnds`, `StartTypeOK` |
| `read_at` | MCReadAt | `AnswersTheFile`: however requests are cut, they are pieces of one file; `OversizeStaysRight`; `Terminates` |
| `nbt_json` | MCNbtJson | `OnlyWidens`, `RowsReadable`: but for the width of numbers an ordinary chunk comes back as it was, and can be encoded; `PositionSurvives`: it is taken for the same chunk; `Settles`: unless a compound looks like an array, what is lost is lost at the first trip |
| `benchmark` | MCAutoBenchmark | `NeverOvercounts`: counters read one after the other, and late, show nothing that did not happen; `OwnNumbers`: threads of earlier cycles do not show in later ones; `AllReported`, `SuiteEnds` |
| `lost_to_prefetch` | MCVirtualFile | violates `Durable` |
| `lost_to_load_error` | MCVirtualFile | violates `DurableUnlessRaced` |
| `stale_cache` | MCVirtualFile | violates `ReadFresh` |
| `partial_chunk` | MCVirtualFile | violates `OnlyWholeChunksStored` |

**What the last four found.** (1) A prefetch task looks for a row, generates,
and then upserts whatever it generated: an edit saved in between is overwritten
by bare terrain, in the table and in the cache. (2) The same task takes a load
*error* for "no row" and overwrites a row that was there all along. (3) The
reader's cache fill can land after a write's, so that later reads answer the
old chunk until it is evicted; the server may then save that one. It needs a
client that reads a chunk while its write is under way. (4) A piece of a chunk
decodes if its fifth byte reads as type 3, for that type accepts any bytes, and is
stored as the chunk: the first piece of an uncompressed packet, and by chance a later
piece of any. Reads of that chunk then answer the piece while it is cached, and the
generated chunk afterwards, for the row does not verify. Two more were met and are stated as assumptions instead: a write whose
save failed is answered as done, and in jsonb mode a payload that cannot be
parsed is answered Ok without having been stored.

Met in `nbt_json`, and part of its definitions: a float that JSON does not have
(NaN) or that jsonb prints without a point (from 1e16) comes back as a Long; in
a list with other floats that makes a list of two types, which cannot be
encoded, and the row is reported as absent. `Ordinary` names the chunks without
such floats and without a compound that looks like an array (`Disguised`); the
game writes neither. In `startup`: a process that dies leaves a mount without a
process, and docker's restarts cannot mount over it until the container is
stopped once (with a `fusermount` that succeeds). In `mcfuse`: regions 2^24 apart share their number, and so their
chunks; `FitsInode` keeps the properties to the others. In `benchmark`: nothing orders
the counters, so a report may show more generations than misses; `NeverOvercounts`
claims no more than the code gives. In `startup`: the size of the database is awaited
without a timeout (`main.rs` 151), so a database that hangs loses the report when
docker kills the container, and a failing `fusermount` (`entrypoint.sh` 11) leaves
the mount behind; `ReportedInTime` and `StoppedClean` name these exceptions.

A test disagrees with the code: `test_virtual_file_read_chunk_offset`
(`virtual_file.rs` 429-447) expects bytes other than zero of a generated chunk that
cannot be verified, where `read_at` breaks off and answers zeros (`Broken`, and
`AnswersTheFile` behind a failed fetch).

**Bounds, and why they are enough.** Two chunks side by side, so that they are
neighbours within radius 1 and compete for a cache of one: every put evicts,
every chunk can be generated again. Two write threads and two permits are the
smallest number at which two of a kind interleave; more are covered by the
theorems. `chunk_store` writes pieces of every kind, for one client at a time; the
interleavings of `prefetch_pg_raw` are of whole packets, to keep the run short
(the theorems on its properties allow pieces in the raw mode). `MaxWrites` of 2 or 3 lets an edit follow an answered and a concurrent
one (`mcfuse` has one, for the calls around it are what it is about). `MaxTasks` is the one bound the code does not have: a read that would
spawn more tasks is not taken up; two tasks of different chunks, or of the same
chunk, exist at once. `mcfuse` and `startup` use the real sizes, widths and attempts.
`mcfuse` has two clients (one more than the session thread can serve), a region,
one with the same number, the copy of a region with the hash nearest to the region's
number, a name that is not UTF-8, and chunks in the slots 1 and 1023, two regions'
chunks in the latter. One region is within range, under one spelling: that two
spellings of it, or two regions within range, keep their numbers together and apart
is left to the theorem `NumbersAgree`. The cache has at least one place
(`--cache-size 0` becomes 500, `virtual_file.rs` 29). `nbt_json` has chunks of every type of leaf, lists and compounds of them,
lists of lists and lists of compounds. `benchmark` has the six cycles of the
code, a cache of one chunk, reads of one and of two passes, one chunk with a row, and at most one thread left
over (`Lingering`) when a cycle starts; the cycles do not share what a second
one could meet. `read_at` uses a file of
four slots of four bytes behind a header of four, every offset to just past the
end, every size to more than two slots, blobs of 1, 4 (a full slot) and 6 bytes
(over it).

**Fairness** (`FairSpec`). Weak fairness of each thread and task: the operating
system schedules threads, the runtime polls tasks, and every storage call and
generation is assumed to return, with or without an error (the code sets no
timeout, so a call that never returns would block its caller for ever). Nothing
is assumed of the client, and no fault has to stop. `PrefetchDrains` assumes
that reads stop, for every miss spawns. `liveness` has no restarts: a restart
answers nobody. `FairFuseSpec` assumes the same of the session thread and the
write threads; a lost mount ends a call as an answer does. `StartSpec`: main and
the script run, docker starts what ended; neither deaths nor stops nor docker's
`Expire` are assumed, and the one query at the end returns, with or without an
error: that is what `StopEnds` rests on where docker does not kill. In `AutoBenchmark`, main wakes from its sleep and the threads run.

**Deadlock** is checked wherever somebody can go on; `read_at` and `benchmark` end.

## 4. Proofs

`tlapm <module>.tla`; all obligations are proved, for every value of the
constants that the named assumptions allow. Nothing is assumed that is not
stated in a theorem or as an `ASSUME` of a model. Each theorem rests on an
inductive invariant, for the property itself is hardly ever inductive. On the
instances of section 3, TLC finds the assumptions true and these invariants kept.

**Helpers.** `LruProofs`: moving a key to the front keeps the keys and their
uniqueness (`MovedToFrontKeys`); `get` and `put` keep a cache `Bounded`
(`TouchedOK`, `PutOK`). `LayoutProofs`: `SlotResolves`, and that an entry of the
location table leads to its slot (`EntryResolves`) if `EntriesFit`: the header is
whole sectors, and the first sector of a slot fits three bytes, their number one.

**`VirtualFileProofs`**, any threads, permits, chunks, requests and cache size:

| Theorem | States | Assumes | The invariant adds |
|---|---|---|---|
| `TypeCorrect` | `TypeOK`, `CacheBounded` | | `TypeInv`: which fields of a record are filled in at which program counter, and that the recency list holds exactly the keys of the map, without which it does not even stay a sequence of chunks |
| `AlwaysDurable` | `Durable` | `SavesParse`, `PrefetchRadius = 0` | `DurableInv`: versions are numbered in the order the writes are taken up, and one in progress is newer than all that was answered before any other write (`Numbered`); what is on its way to the table can be stored (`Savable`); a chunk with a saved edit that no task raced has a row as new as that, and no task that missed the row (`Kept`) |
| `UnracedDurable` | `DurableUnlessRaced` | `SavesParse`, and `LoadsAnswer` or no prefetching | the same |
| `NeverPhantom` | `NoPhantom` | `ErrorsUndone` | `PhantomInv`: rows, and what reader and writers are about to cache, are confirmed; tasks carry only what they generated |
| `NeverReverts` | `NoRevert` | `LoadsAnswer` or no prefetching | `RevertInv`: an edit in the table beside a task that is past its load was saved under that task's eyes (`RacedRows`) |

`SavesParse`: in jsonb mode no piece is written whose fifth byte reads as type 3. `LoadsAnswer`:
loads do not fail. `ErrorsUndone`: a statement that reports an error was not
applied. They are needed: `lost_to_load_error` is the counterexample without
`LoadsAnswer`, `lost_to_prefetch` the one to `Durable` with a radius.

What a read may answer:

| Theorem | States | Assumes | The invariant adds |
|---|---|---|---|
| `AlwaysIsolated` | `Isolation` | `TasksTrusted` | `IsolationInv`: what a thread or a task is about to save or to cache already names the chunk it will be put under, or is a piece; only writers hold pieces |
| `AlwaysStateless` | `Stateless`: the table stays empty, and every pass of every read answers the generated chunk | `WithoutDatabase` | nobody is on the way to the database; the cache, and whoever is about to fill it, has the generated chunk of that place |
| `AlwaysFresh` | `ReadFresh` | `OneByOne`, `MendsAreConfirmed` | `FreshInv`: one request is served at a time (`Alone`); the cache is as new as what was saved but for the chunk that was saved and is not cached yet (`CacheFresh`); nothing is saved under a reader, so what it has found stays new (`ReaderFresh`) |
| `AlwaysCoherent` | `CacheCoherent` | `OneAtATime`, not the jsonb mode | `StoreInv`: the cache shows the table but for the chunk that was saved and is not cached yet (`Coherent`); what the reader has so far is the world of this moment (`ReadsWorld`) |
| `RefinesChunkStore` | `IsChunkStore` | `OneAtATime` | the same; each step is a step of the store or changes nothing of it |

`TasksTrusted`: either the generator returns what it is asked for or nothing is
prefetched, for `read_at` checks what it is given and the tasks do not.
`WithoutDatabase`: the mode, and `TasksTrusted`. `OneByOne`: no prefetching, a
client that waits for its answers, `SavesParse`, loads
that answer; pieces may be written, saves may fail, the generator may fail or be confused, and the
process may be restarted. `OneAtATime` adds `ErrorsUndone`: an edit that is
applied with an error changes the table under the cache. That is no harm to
freshness, for nobody was told that it was saved, unless it mends a chunk that a
piece had replaced: the cache may still have the piece (`MendsAreConfirmed`: no piece
is stored, or `ErrorsUndone`). `OneByOne` and `OneAtATime` hold for every storage
mode. The jsonb mode keeps a chunk but for the widths of its numbers, so there
the refinement, too, is but for these (`Content`), and the cache, which keeps
them, differs from the table. TLC checks these theorems in the raw mode, and no
run has a mode without a database (`benchmark` has such cycles, in a model of
its own).

**`ReadAtProofs`**: `NeverTooLong` (`TypeOK`) and `OneFile` (`AnswersTheFile`,
`OversizeStaysRight`), for every layout, every offset and size, blobs of any
length and any fetch that fails. The invariant of the loop (`ReadInv`) says that what is
answered is right, that the loop is past the header, and that it goes on only
where no fetch has failed. Each pass appends the next bytes of the file
(`PassKeeps`); that a pass stays in its slot (`CopyStays`) is where both
hypotheses on oversized blobs come in.

**`McFuseProofs`**, any clients, threads, names and hash, if `EntriesFit` and
`WholeRegions` (each chunk can be asked for, and the chunks in play are closed
under what a number that does not fit leads to). `UnpackUndoesPack` (exactly for
the regions that fit the fields), `NumbersDiffer` and `GenericsApart` are about
numbers only. `FuseServes`: a behaviour of the handlers is one of `VirtualFile`, so
that its theorems hold behind them: `TypeOK`, `CacheBounded`, `Durable`, `NoRevert`,
`Isolation`, `NoPhantom`, without the assumptions on prefetching. `OnePlace` (`EveryCallInOnePlace`),
`NumbersAgree` (`OneNumberPerRegion`), `OneStory` (`HandlersAgree`: sizes agree, and
only `lookup` denies a file in hand, one that is no region),
`CompleteListing` (`ListingInOrder`). `FuseInv` is the reason for all of these: every
client that waits is in exactly one place (the queue, the session's hands, a
write thread, or answered), no two in the same, and a hand holds what a
handler can have given it. `ReachesTheChunk` (`ReachesItsChunk`) also assumes whole packets,
and takes `IsolationInv` along: the right place is no help if the wrong chunk is in it.

**`StartupProofs`**, any number of slots, attempts, deaths, stops and restarts:
`StartTypes`, `HeaderResolves` (`HeaderAgreesWithOffsets`, if `EntriesFit`),
`ServesInOrder` (`ServesCompletely`, `MountedWhileServing`), `StopsInOrder`
(`StoppedClean`, `ReportedInTime`, with the exceptions they name). `StartInv` relates the two processes at each
of their program counters: whom the script still waits for (`Outlived`), what main
has behind it (`Prepares`), and who answers for a mount and a report (`Accounted`).

**`AutoBenchmarkProofs`**, any suite, reads, caches and threads left over:
`NoOvercount` (`NeverOvercounts`), `OnlyItsOwn` (`OwnNumbers`), `NothingForgotten`
(`AllReported`). `BenchmarkInv`: a thread that has missed and not yet generated
leaves room for one more generation (`CountsOK`); what the report has read can
only be behind the counter (`ReportOK`).

**`NbtJsonProofs`**, any chunks of any size and depth, if they are trees of NBT
that fastnbt can encode, with integers for coordinates and in arrays
(`ChunksAssumption`): `AlwaysOnlyWidens` (`OnlyWidens`), `AlwaysReadable`
(`RowsReadable`), `AlwaysInPlace` (`PositionSurvives`), `AlwaysSettles` (`Settles`).
All come from two facts about the conversions. `WrittenIsJson`: the row of a
chunk is a tree of JSON, in which the object of an array looks like nothing else. `ReadAfterWrite`: reading
it back gives the paths of the chunk again and at each of them the widened node
(`ReadAfterWriteNodes`), unless a compound is disguised as an array. The invariants
carry that through the trips: `PositionInv`, that the coordinates in the row
are those written, whatever is disguised elsewhere; `OneRowInv`, that the row is the
one of what was written and that what was found makes the same row
(`SameRow`). The words of an array are found by counting (`Elements`); that
the k-th integer of an array of integers is the k-th element (`AllElements`)
is an induction on the least counterexample (`LeastNumber`).

**Only model-checked.** Liveness (`ReadReplied`, `WriteAcked`, `PrefetchDrains`,
`CallsAnswered`, `ConnectingEnds`, `StopEnds`, `Terminates`, `SuiteEnds`): fairness
and `ENABLED` are out of the prover's reach. The four violations are
counterexamples, not theorems.

## 5. Not modelled

- The terrain, compression and NBT as bytes; the wording of logs.
- The connection pool: a save or load waits for a connection as part of its
  call. A statement that the server applies only after the program that sent it
  has been restarted is left out.
- A thread that panics, and with it a poisoned mutex.
- The kernel's page cache, read-ahead and attribute timeouts between the client
  and the handlers.
- What a handler says of owners, modes and times; requests that the code has no
  handler for (fuser answers ENOSYS).
- Prefetching behind the handlers and in the auto-benchmark: both models have a
  radius of 0, the default. With a radius the suite saves chunks of its
  generators into the tables of the server.
- Times and bytes in the metrics, which are counted like the rest; the text of
  the report, and the file that the suite writes it to (`main.rs` 268-275: a failure
  is logged). `BENCHMARK=false` turns the metrics on, as does any other value
  (`main.rs` 109, `compose.yml` 18).
- Building the image, and the other services of `compose.yml`.

## 6. Plan

1. (done) `Anvil`, `Storage`, `Lru`, `VirtualFile` and its runs; `ChunkStore`
   and the refinement; `RegionLayout`, `RegionHeader`, `ReadAt`.
2. (done) `Inode`, `McFuse`, `NbtJson`, `Startup`, `AutoBenchmark`.
3. (done) The proofs of section 4: every safety invariant and action property of
   the runs, and the refinement.
4. Left: `ReachesTheChunk` for clients that also write pieces; a weaker `WholeRegions`; prefetching behind the handlers and
   in the auto-benchmark.
