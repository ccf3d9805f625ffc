------------------------------- MODULE McFuse -------------------------------
(***************************************************************************)
(* hoppermc-fs/src/lib.rs: the file system that the kernel talks to, in    *)
(* front of VirtualFile.  The clients are threads of a game server that    *)
(* make one call at a time; the kernel queues their calls, and the one     *)
(* thread of the FUSE session takes them up in that order.  It answers a   *)
(* call before it takes up the next one, except a write to a region file,  *)
(* which it leaves to a thread.  Nothing about a file is kept: its number  *)
(* says it all.  Prefetching is off, as it is by default: a task never     *)
(* meets a handler, and VirtualFile has them beside the same reads and     *)
(* writes.                                                                 *)
(***************************************************************************)
EXTENDS VirtualFile, RegionLayout, Inode

CONSTANTS
  Client,     \* threads of the game server
  Nobody,     \* no client
  NotNumber   \* the value of a part of a name that is not a 32-bit integer

ASSUME FuseAssumption ==
  /\ PrefetchRadius = 0
  /\ Nobody \notin Client
  /\ NotNumber \notin Int
  /\ \A n \in Name : n \in Seq([text : STRING, i32 : Int \cup {NotNumber}])

VARIABLES
  queue,   \* clients whose call waits for the session thread
  call,    \* the call each client waits for
  hand,    \* what each client has in hand: a file, or a listing under way
  reader,  \* the client that the session thread reads for
  thread,  \* the client that each write thread writes for
  writes   \* writes sent so far: a bound

fuseVars == <<queue, call, hand, reader, thread, writes>>
allVars == <<vars, fuseVars>>

NoSize == -1

\* The name, the number and the part of the file that a call is about; for
\* the properties also the chunk that its client means.
NoCall == [op |-> "none", ino |-> ROOT, name |-> <<>>, offset |-> 0, chunk |-> NoPos]

\* denied: the calls on the file in hand that were answered ENOENT.
Nothing == [name |-> <<>>, ino |-> ROOT, size |-> NoSize, denied |-> {},
            listed |-> <<>>, cursor |-> 0]

FuseInit ==
  /\ Init
  /\ queue = <<>>
  /\ call = [t \in Client |-> NoCall]
  /\ hand = [t \in Client |-> Nothing]
  /\ reader = Nobody
  /\ thread = [w \in Writer |-> Nobody]
  /\ writes = 0

-----------------------------------------------------------------------------
(* Names and sizes. *)

\* A name is the sequence of its parts between dots; one that is not UTF-8
\* has none.
Readable(name) == name # <<>>

parse_region_filename(name) ==
  IF /\ Len(name) = 4
     /\ name[1].text = "r" /\ name[4].text = "mca"
     /\ NotNumber \notin {name[2].i32, name[3].i32}
    THEN <<name[2].i32, name[3].i32>>
    ELSE NoRegion

IsRegion(name) == parse_region_filename(name) # NoRegion

RegionInode(name) ==
  LET r == parse_region_filename(name) IN pack(r[1], r[2])

FILE_SIZE == HEADER_BYTES + Slots * SlotBytes

\* The directory holds ".", ".." and one region.
Entries == 3

Listed == <<[text |-> "r", i32 |-> NotNumber], [text |-> "0", i32 |-> 0],
            [text |-> "0", i32 |-> 0], [text |-> "mca", i32 |-> NotNumber]>>

-----------------------------------------------------------------------------
(* What a client does.  It reads and writes a region file as the location
   table says: the entry of a chunk holds the sector its slot starts at. *)

Address(c) ==
  LET entry == header_entry((c[1] % Side) + Side * (c[2] % Side))
  IN ((entry[1] * 256 + entry[2]) * 256 + entry[3]) * SECTOR_BYTES

\* The chunks that a client looks for in a file.  A file that is no region
\* is a copy of one.
Meant(name) ==
  {c \in Chunk : parse_region_filename(name) \in {<<c[1] \div Side, c[2] \div Side>>, NoRegion}}

\* The kernel resolves names in the root only, that of a file in hand again
\* after a second, and sends no number that it was not given.  Reads and writes
\* at offset 0 are of the location table.
CallsOf(t) ==
  LET f == hand[t]
      Of(ops, ino, names) ==
        {[op |-> op, ino |-> ino, name |-> n, offset |-> 0, chunk |-> NoPos] :
           op \in ops, n \in names}
  IN IF f.size = NoSize
       THEN {[op |-> "readdir", ino |-> ROOT, name |-> <<>>, offset |-> f.cursor, chunk |-> NoPos]}
              \cup IF f # Nothing THEN {}
                   ELSE Of({"lookup", "create"}, ROOT, Name)
                          \cup Of({"getattr", "access", "getxattr", "listxattr"}, ROOT, {<<>>})
       ELSE Of({"lookup", "unlink", "rename"}, ROOT, {f.name})
              \cup Of({"getattr", "access", "setattr", "flush", "fsync", "getxattr",
                       "listxattr", "read", "write"}, f.ino, {f.name})
              \cup {[op |-> op, ino |-> f.ino, name |-> f.name, offset |-> Address(c), chunk |-> c] :
                      op \in {"read", "write"}, c \in Meant(f.name)}

Send(t) ==
  /\ call[t] = NoCall
  /\ \E q \in CallsOf(t) :
       /\ q.op = "write" => writes < MaxWrites
       /\ call' = [call EXCEPT ![t] = q]
       /\ writes' = IF q.op = "write" THEN writes + 1 ELSE writes
  /\ queue' = Append(queue, t)
  /\ UNCHANGED <<vars, hand, reader, thread>>

\* A client is done with a file, or gives up a listing.
Close(t) ==
  /\ call[t] = NoCall
  /\ hand[t] # Nothing
  /\ hand' = [hand EXCEPT ![t] = Nothing]
  /\ UNCHANGED <<vars, queue, call, reader, thread, writes>>

-----------------------------------------------------------------------------
(* The handlers. *)

TakeUp(t, op) ==
  /\ call[t].op = op
  /\ queue # <<>>
  /\ t = Head(queue)
  /\ SessionFree
  /\ queue' = Tail(queue)

\* The answer, and what its client has in hand after it.
Answer(t, f) ==
  /\ call' = [call EXCEPT ![t] = NoCall]
  /\ hand' = [hand EXCEPT ![t] = f]
  /\ UNCHANGED <<vars, reader, thread, writes>>

Known(ino) == is_region_inode(ino) \/ is_generic_inode(ino)

\* ENOENT, which counts if the client has the file in hand.
Denied(t) ==
  IF hand[t].size = NoSize THEN hand[t] ELSE [hand[t] EXCEPT !.denied = @ \cup {call[t].op}]

Unless(t, found, f) == IF found THEN f ELSE Denied(t)

\* A name that is no region's is not there, created or not.
Lookup(t) ==
  /\ TakeUp(t, "lookup")
  /\ LET q == call[t]
     IN Answer(t, IF q.ino = ROOT /\ Readable(q.name) /\ IsRegion(q.name)
                    THEN [Nothing EXCEPT !.name = q.name, !.ino = RegionInode(q.name),
                                         !.size = FILE_SIZE]
                    ELSE Denied(t))

\* Mutant: the number is the name's hash, whatever the name.
HashedCreate(t) ==
  /\ TakeUp(t, "create")
  /\ LET q == call[t]
     IN Answer(t, IF q.ino = ROOT /\ Readable(q.name)
                    THEN [Nothing EXCEPT !.name = q.name, !.ino = pack_generic(q.name), !.size = 0]
                    ELSE hand[t])

Create(t) ==
  /\ TakeUp(t, "create")
  /\ LET q == call[t]
         ino == IF IsRegion(q.name) THEN RegionInode(q.name) ELSE pack_generic(q.name)
     IN Answer(t, IF q.ino = ROOT /\ Readable(q.name)
                    THEN [Nothing EXCEPT !.name = q.name, !.ino = ino,
                                         !.size = IF is_region_inode(ino) THEN FILE_SIZE ELSE 0]
                    ELSE hand[t])

\* Mutant: an entry's offset is its own place, not the next one's.
RepeatingReaddir(t) ==
  /\ TakeUp(t, "readdir")
  /\ \E end \in call[t].offset .. Entries :
       LET more == [hand[t] EXCEPT !.listed = @ \o [i \in 1 .. end - call[t].offset |-> call[t].offset + i - 1],
                                   !.cursor = IF end = 0 THEN 0 ELSE end - 1]
       IN Answer(t, more)

\* The entries from the offset on, as many as the buffer takes, each with
\* the offset of the one behind it.
Readdir(t) ==
  /\ TakeUp(t, "readdir")
  /\ call[t].ino = ROOT
  /\ \E end \in call[t].offset .. Entries :
       LET more == [hand[t] EXCEPT !.listed = @ \o [i \in 1 .. end - call[t].offset |-> call[t].offset + i - 1],
                                   !.cursor = end]
       IN Answer(t, IF end = Entries
                      THEN [more EXCEPT !.name = Listed, !.ino = pack(0, 0)]
                      ELSE more)

\* Mutant: every file is as large as a region.
UniformGetattr(t) ==
  /\ TakeUp(t, "getattr")
  /\ LET i == call[t].ino
     IN Answer(t, IF i = ROOT THEN hand[t]
                  ELSE Unless(t, Known(i), [hand[t] EXCEPT !.size = FILE_SIZE]))

Getattr(t) ==
  /\ TakeUp(t, "getattr")
  /\ LET i == call[t].ino
     IN Answer(t, IF i = ROOT THEN hand[t]
                  ELSE Unless(t, Known(i), [hand[t] EXCEPT !.size = IF is_region_inode(i) THEN FILE_SIZE ELSE 0]))

\* Nothing that a client sets is kept.
Setattr(t) ==
  /\ TakeUp(t, "setattr")
  /\ LET i == call[t].ino
     IN Answer(t, Unless(t, Known(i), [hand[t] EXCEPT !.size = IF is_generic_inode(i) THEN 0 ELSE FILE_SIZE]))

Access(t) ==
  /\ TakeUp(t, "access")
  /\ Answer(t, Unless(t, call[t].ino = ROOT \/ Known(call[t].ino), hand[t]))

\* An attribute that is not there is ENODATA, and there are none to list.
Getxattr(t) ==
  /\ TakeUp(t, "getxattr")
  /\ Answer(t, Unless(t, call[t].ino = ROOT \/ Known(call[t].ino), hand[t]))

Listxattr(t) ==
  /\ TakeUp(t, "listxattr")
  /\ Answer(t, Unless(t, call[t].ino = ROOT \/ Known(call[t].ino), hand[t]))

\* Done at once: there is nothing to write back.
Flush(t) == TakeUp(t, "flush") /\ Answer(t, Unless(t, Known(call[t].ino), hand[t]))

Fsync(t) == TakeUp(t, "fsync") /\ Answer(t, Unless(t, Known(call[t].ino), hand[t]))

\* Granted, and nothing done: the file is still there under its name, and
\* nothing is there under the new one.
Unlink(t) == TakeUp(t, "unlink") /\ Answer(t, Unless(t, call[t].ino = ROOT, hand[t]))

Rename(t) == TakeUp(t, "rename") /\ Answer(t, Unless(t, call[t].ino = ROOT, hand[t]))

\* The chunk that a region's offset falls on.
SlotAt(ino, offset) ==
  LET region == unpack(ino)
      rel == get_chunk_coords_from_offset(offset)
  IN IF rel = NoChunk THEN NoPos
       ELSE <<region[1] * Side + rel[1], region[2] * Side + rel[2]>>

\* A read is served by the session thread itself.
Read(t) ==
  /\ TakeUp(t, "read")
  /\ LET q == call[t]
     IN IF unpack(q.ino) # NoRegion /\ SlotAt(q.ino, q.offset) # NoPos
          THEN /\ DispatchRead(<<SlotAt(q.ino, q.offset)>>)
               /\ reader' = t
               /\ UNCHANGED <<call, hand, thread, writes>>
          ELSE Answer(t, hand[t])

\* Mutant: the write is answered when its thread is started.
EarlyWrite(t) ==
  /\ TakeUp(t, "write")
  /\ LET q == call[t]
     IN IF unpack(q.ino) # NoRegion
          THEN \E w \in Writer, c \in IF q.chunk = NoPos THEN {CHOOSE d \in Chunk : TRUE} ELSE {q.chunk} :
                 /\ DispatchWrite(w, c, SlotAt(q.ino, q.offset))
                 /\ thread' = [thread EXCEPT ![w] = t]
                 /\ call' = [call EXCEPT ![t] = NoCall]
                 /\ UNCHANGED <<hand, reader, writes>>
          ELSE Answer(t, Unless(t, is_generic_inode(q.ino), hand[t]))

\* Mutant: what is written to other files is dropped, and not answered.
SilentWrite(t) ==
  /\ TakeUp(t, "write")
  /\ LET q == call[t]
     IN IF unpack(q.ino) # NoRegion
          THEN \E w \in Writer, c \in IF q.chunk = NoPos THEN {CHOOSE d \in Chunk : TRUE} ELSE {q.chunk} :
                 /\ DispatchWrite(w, c, SlotAt(q.ino, q.offset))
                 /\ thread' = [thread EXCEPT ![w] = t]
                 /\ UNCHANGED <<call, hand, reader, writes>>
          ELSE UNCHANGED <<vars, call, hand, reader, thread, writes>>

\* A write to a region is left to a thread.  What is written at offset 0 is
\* a location table; the chunk given for it does not matter, as there is no
\* slot to save it to.
Write(t) ==
  /\ TakeUp(t, "write")
  /\ LET q == call[t]
     IN IF unpack(q.ino) # NoRegion
          THEN \E w \in Writer, c \in IF q.chunk = NoPos THEN {CHOOSE d \in Chunk : TRUE} ELSE {q.chunk} :
                 /\ DispatchWrite(w, c, SlotAt(q.ino, q.offset))
                 /\ thread' = [thread EXCEPT ![w] = t]
                 /\ UNCHANGED <<call, hand, reader, writes>>
          ELSE Answer(t, Unless(t, is_generic_inode(q.ino), hand[t]))

-----------------------------------------------------------------------------
(* VirtualFile at work, and its answers. *)

ReadWork ==
  /\ ReadHit \/ ReadMiss \/ ReadLoad \/ ReadGenerate \/ ReadPut
  /\ UNCHANGED fuseVars

ReadAnswer ==
  /\ ReadReply
  /\ call' = [call EXCEPT ![reader] = NoCall]
  /\ reader' = Nobody
  /\ UNCHANGED <<queue, hand, thread, writes>>

WriteWork(w) == (WriteSave(w) \/ WritePut(w)) /\ UNCHANGED fuseVars

WriteAnswer(w) ==
  /\ WriteReply(w)
  /\ call' = [call EXCEPT ![thread[w]] = NoCall]
  /\ thread' = [thread EXCEPT ![w] = Nobody]
  /\ UNCHANGED <<queue, hand, reader, writes>>

\* The mount goes with the process: every call fails, and no file stays open.
Remount ==
  /\ Crash
  /\ queue' = <<>>
  /\ call' = [t \in Client |-> NoCall]
  /\ hand' = [t \in Client |-> Nothing]
  /\ reader' = Nobody
  /\ thread' = [w \in Writer |-> Nobody]
  /\ UNCHANGED writes

Handle(t) ==
  \/ Lookup(t) \/ Create(t) \/ Readdir(t)
  \/ Getattr(t) \/ Setattr(t) \/ Access(t) \/ Getxattr(t) \/ Listxattr(t)
  \/ Flush(t) \/ Fsync(t) \/ Unlink(t) \/ Rename(t)
  \/ Read(t) \/ Write(t)

FuseNext ==
  \/ \E t \in Client : Send(t) \/ Close(t)
  \/ \E t \in Client : Handle(t)
  \/ ReadWork
  \/ ReadAnswer
  \/ \E w \in Writer : WriteWork(w) \/ WriteAnswer(w)
  \/ Remount

FuseSpec == FuseInit /\ [][FuseNext]_allVars

\* The session thread and the write threads run; a client owes no call.
FairFuseSpec ==
  /\ FuseSpec
  /\ WF_allVars((\E t \in Client : Handle(t)) \/ ReadWork \/ ReadAnswer)
  /\ \A w \in Writer : WF_allVars(WriteWork(w) \/ WriteAnswer(w))

-----------------------------------------------------------------------------
(* Properties. *)

Files == {t \in Client : hand[t].ino # ROOT}

FitsInode(name) == \A v \in {parse_region_filename(name)[1], parse_region_filename(name)[2]} : Fits(v)

\* However a name was resolved, by lookup, create or in the directory, and
\* however it is spelled: the same region has the same number, and regions
\* that fit the number's fields and files that are no region never share one.
OneNumberPerRegion ==
  \A t, u \in Files :
    LET n == hand[t].name
        m == hand[u].name
    IN /\ IsRegion(n) /\ parse_region_filename(n) = parse_region_filename(m) =>
            hand[t].ino = hand[u].ino
       /\ IsRegion(n) /\ IsRegion(m) /\ FitsInode(n) /\ FitsInode(m)
            /\ parse_region_filename(n) # parse_region_filename(m) => hand[t].ino # hand[u].ino
       /\ IsRegion(n) /\ ~ IsRegion(m) => hand[t].ino # hand[u].ino

\* All handlers say the same of a file that one of them gave out: that it has
\* the size of a region or none, and that it is there.  Only lookup denies a
\* file, and only one that is no region, which create has just given out: the
\* handler's own comment expects it to confuse a server.
HandlersAgree ==
  \A t \in Files :
    /\ hand[t].denied \subseteq IF IsRegion(hand[t].name) THEN {} ELSE {"lookup"}
    /\ hand[t].size \in {NoSize, IF IsRegion(hand[t].name) THEN FILE_SIZE ELSE 0}

\* A listing shows every entry once and in order, in as many pieces as the
\* kernel's buffer makes of it.
ListingInOrder ==
  \A t \in Client : hand[t].listed = [i \in 1 .. Len(hand[t].listed) |-> i - 1]

\* What is read or written as a chunk is a region's: a copy of a region, or any
\* other file, stays out of the chunks.  And from its name over its number,
\* the location table and the offset, a read or a write of a region that fits
\* the number's fields reaches the chunk its client means.
ReachesItsChunk ==
  /\ reader # Nobody =>
       /\ IsRegion(call[reader].name)
       /\ FitsInode(call[reader].name) =>
            /\ rd.req = <<call[reader].chunk>>
            /\ \A i \in 1 .. Len(rd.got) : rd.got[i].nbt.pos = call[reader].chunk
  /\ \A w \in Writer : thread[w] # Nobody =>
       /\ IsRegion(call[thread[w]].name)
       /\ FitsInode(call[thread[w]].name) => wr[w].key = call[thread[w]].chunk

\* Every call is in one place until it is answered: in the queue, read for by
\* the session thread or written for by one thread, which has work to do for
\* no one else.  So none is forgotten and none is answered twice, or before
\* it is done: a write is answered when its save has been tried.
EveryCallInOnePlace ==
  /\ \A t \in Client :
       Cardinality({i \in 1 .. Len(queue) : queue[i] = t})
         + (IF reader = t THEN 1 ELSE 0)
         + Cardinality({w \in Writer : thread[w] = t}) = IF call[t] = NoCall THEN 0 ELSE 1
  /\ reader = Nobody <=> rd.pc = "idle"
  /\ \A w \in Writer : thread[w] = Nobody <=> wr[w].pc = "idle"

\* Every call is answered, those too that wait behind a read whose load and
\* generation fail (or the mount is lost).
CallsAnswered == \A t \in Client : call[t] # NoCall ~> call[t] = NoCall
=============================================================================
