------------------------- MODULE VirtualFileProofs -------------------------
(***************************************************************************)
(* What holds of VirtualFile for every set of chunks, threads and permits, *)
(* every cache size and every bound.                                       *)
(***************************************************************************)
EXTENDS VirtualFileRefinement, LruProofs

\* TypeOK alone is not inductive: the recency list stays a sequence of
\* chunks only because it holds the keys of the map, and each program
\* counter says which fields of its record are filled in.
ReaderOK ==
  /\ Len(rd.got) <= Len(rd.req)
  /\ rd.pc \in {"lookup", "load", "generate", "put"} => Len(rd.got) < Len(rd.req)
  /\ rd.pc = "put" => rd.val \in Nbt

WritersOK ==
  \A w \in Writer :
    /\ wr[w].pc # "idle" => wr[w].nbt \in Nbt /\ wr[w].nbt.ver \in Version
    /\ wr[w].pc \in {"save", "put"} => wr[w].key \in Chunk

TasksOK ==
  \A p \in Worker :
    /\ running[p].pc # "idle" => running[p].chunk \in Chunk
    /\ running[p].pc \in {"save", "put"} => running[p].nbt \in Nbt

TypeInv == TypeOK /\ CacheBounded /\ ReaderOK /\ WritersOK /\ TasksOK

USE DEF ReadState, WriteState, TaskState

-----------------------------------------------------------------------------
(* The operators the actions are made of. *)

\* Payloads and packets have their types, and None is no payload.
LEMMA PayloadTypes ==
  /\ None \notin Nbt
  /\ \A c \in Chunk : Generated(c) \in Nbt
  /\ \A n \in Nbt : compress_and_wrap_chunk(n) \in Packet
  /\ \A d \in Packet : unwrap_and_decompress_chunk(d) \in Nbt
BY StorageAssumption DEF Nbt, Generated, compress_and_wrap_chunk, Packet, PacketKind,
   unwrap_and_decompress_chunk

\* An absent row is a row.
LEMMA NoneInRow == None \in Row
BY DEF Row

\* Both storage calls answer with rows.
LEMMA StorageTypes ==
  ASSUME NEW row \in Row
  PROVE  /\ \A res \in load_chunk(row) : res.found \in Row /\ res.ok \in BOOLEAN
         /\ \A n \in Nbt : \A res \in save_chunk(row, n) : res.row \in Row /\ res.ok \in BOOLEAN
<1>1. \A n \in Nbt : Upserted(row, n) \in Row
  BY DEF Upserted, Row, Nbt
<1>2. \A res \in load_chunk(row) : res.found \in Row /\ res.ok \in BOOLEAN
  BY DEF load_chunk, Row
<1>3. \A n \in Nbt : \A res \in save_chunk(row, n) : res.row \in Row /\ res.ok \in BOOLEAN
  BY <1>1 DEF save_chunk
<1> QED BY <1>2, <1>3

\* A generator answers with a payload or with nothing.
LEMMA GenerateTypes ==
  ASSUME NEW c \in Chunk, NEW n \in generate_chunk(c)
  PROVE  n \in Row /\ (n # None => n \in Nbt)
BY PayloadTypes DEF generate_chunk, Row

\* write_at saves under a chunk, wherever the client wrote.
LEMMA SaveKeyType ==
  ASSUME NEW slot \in Chunk, NEW n \in Nbt
  PROVE  SaveKey(slot, n) \in Chunk
BY DEF SaveKey, Nbt

\* While read_at is in its loop there is a chunk left to look up.
LEMMA WantedType ==
  ASSUME TypeInv, rd.pc \in {"lookup", "load", "generate", "put"}
  PROVE  Wanted \in Chunk
<1>1. rd.req \in Seq(Chunk) /\ rd.got \in Seq(Packet) /\ Len(rd.got) < Len(rd.req)
  BY DEF TypeInv, TypeOK, ReaderOK
<1>2. Len(rd.got) + 1 \in 1 .. Len(rd.req)
  BY <1>1, LenProperties
<1> QED BY <1>1, <1>2, ElementOfSeq DEF Wanted

\* A pass of read_at that answers a chunk leaves the reader well formed.
LEMMA AnsweredTypes ==
  ASSUME TypeInv, rd.pc \in {"lookup", "put"}, NEW b \in Packet, rd' = Answered(b)
  PROVE  /\ rd' \in ReadState
         /\ ReaderOK'
<1>1. /\ rd.got \in Seq(Packet) /\ rd.req \in Seq(Chunk)
      /\ Len(rd.got) < Len(rd.req)
      /\ Len(rd.got) \in Nat /\ Len(rd.req) \in Nat
  BY LenProperties DEF TypeInv, TypeOK, ReaderOK
<1>2. Append(rd.got, b) \in Seq(Packet) /\ Len(Append(rd.got, b)) = Len(rd.got) + 1
  BY <1>1, AppendProperties
<1>3. rd' \in ReadState
  BY <1>2, NoneInRow DEF Answered, TypeInv, TypeOK
<1>4. /\ rd'.req = rd.req
      /\ rd'.got = Append(rd.got, b)
      /\ rd'.pc = IF Len(rd.got) + 1 = Len(rd.req) THEN "reply" ELSE "lookup"
  BY DEF Answered, TypeInv, TypeOK
<1>5. ReaderOK'
  BY <1>1, <1>2, <1>4 DEF ReaderOK
<1> QED BY <1>3, <1>5

\* A written packet decodes to a payload that carries the write's number.
LEMMA WrittenPackets ==
  ASSUME NEW c \in Chunk, NEW v \in Version, NEW d \in WritePackets(c, v)
  PROVE  /\ unwrap_and_decompress_chunk(d) \in Nbt
         /\ unwrap_and_decompress_chunk(d).ver = v
<1> DEFINE n == [pos |-> c, ver |-> v, exact |-> TRUE]
<1>1. n \in Nbt /\ n.ver = v
  BY DEF Nbt, Version
<1>2. d.nbt = n
  BY DEF WritePackets
<1> HIDE DEF n
<1> QED BY <1>1, <1>2 DEF unwrap_and_decompress_chunk, Nbt

\* The cache's part of TypeInv in the words of LruProofs.
LEMMA CacheTypes ==
  ASSUME TypeInv
  PROVE  LruType(cache, Chunk, Packet) /\ Bounded(cache, Chunk)
BY DEF TypeInv, TypeOK, CacheBounded, LruType

\* The cache after get of a chunk it holds.
LEMMA CacheAfterTouch ==
  ASSUME TypeInv, NEW k \in Chunk, contains(cache, k), cache' = Touched(cache, k)
  PROVE  /\ cache' \in [blob : [Chunk -> Packet \cup {NoBlob}], order : Seq(Chunk)]
         /\ CacheBounded'
         /\ cache'.blob = cache.blob
<1> DEFINE after == Touched(cache, k)
<1>1. LruType(after, Chunk, Packet) /\ Bounded(after, Chunk) /\ after.blob = cache.blob
  BY CacheTypes, TouchedOK
<1>2. cache' = after
  OBVIOUS
<1> HIDE DEF after
<1> QED BY <1>1, <1>2 DEF LruType, CacheBounded, Bounded, contains

\* The cache after put, which any of three threads may do.
LEMMA CacheAfterPut ==
  ASSUME TypeInv, NEW k \in Chunk, NEW b \in Packet, cache' = Put(cache, k, b)
  PROVE  /\ cache' \in [blob : [Chunk -> Packet \cup {NoBlob}], order : Seq(Chunk)]
         /\ CacheBounded'
         /\ cache'.blob[k] = b
         /\ \A c \in Chunk \ {k} : cache'.blob[c] \in {cache.blob[c], NoBlob}
<1> DEFINE after == Put(cache, k, b)
<1>1. /\ LruType(after, Chunk, Packet)
      /\ Bounded(after, Chunk)
      /\ after.blob[k] = b
      /\ \A c \in Chunk \ {k} : after.blob[c] \in {cache.blob[c], NoBlob}
  BY CacheTypes, PutOK, VirtualFileAssumption
<1>2. cache' = after
  OBVIOUS
<1> HIDE DEF after
<1> QED BY <1>1, <1>2 DEF LruType, CacheBounded, Bounded, contains

-----------------------------------------------------------------------------
\* The strengthened type invariant holds at the start.
LEMMA InitTypes == Init => TypeInv
<1> SUFFICES ASSUME Init PROVE TypeInv
  OBVIOUS
<1>1. /\ <<>> \in Seq(Chunk) /\ Len(<<>>) = 0
      /\ None \in Row /\ NoPos \in Chunk \cup {NoPos}
      /\ <<>> \in Seq(Packet)
  BY DEF Row
<1>2. TypeOK
  BY <1>1, VirtualFileAssumption DEF Init, TypeOK, EmptyCache, IdleRead, IdleWrite, IdleTask, Version
<1>3. CacheBounded
  BY <1>1, CacheAssumption DEF Init, CacheBounded, Bounded, EmptyCache, contains
<1>4. ReaderOK /\ WritersOK /\ TasksOK
  BY DEF Init, ReaderOK, WritersOK, TasksOK, IdleRead, IdleWrite, IdleTask
<1> QED BY <1>2, <1>3, <1>4 DEF TypeInv

\* Every step of every thread, task and restart keeps it: one case per action.
LEMMA NextTypes == TypeInv /\ [Next]_vars => TypeInv'
<1> SUFFICES ASSUME TypeInv, [Next]_vars
             PROVE  TypeInv'
  OBVIOUS
<1> USE DEF TypeInv
<1>a. ASSUME NEW w \in Writer, NEW pc \in {"idle", "save", "put", "reply"}
      PROVE  wr[w] \in WriteState /\ [wr EXCEPT ![w].pc = pc] \in [Writer -> WriteState]
  <2>1. wr \in [Writer -> WriteState] /\ wr[w] \in WriteState
    BY DEF TypeOK
  <2>2. [wr[w] EXCEPT !.pc = pc] \in WriteState
    BY <2>1 DEF WriteState
  <2> QED BY <2>1, <2>2
<1>b. ASSUME NEW p \in Worker, NEW pc \in {"idle", "load", "generate", "save", "put"}, NEW n \in Row
      PROVE  /\ running[p] \in TaskState
             /\ [running[p] EXCEPT !.pc = pc] \in TaskState
             /\ [running[p] EXCEPT !.pc = pc, !.nbt = n] \in TaskState
             /\ IdleTask \in TaskState
  <2>1. running[p] \in TaskState
    BY DEF TypeOK
  <2> QED BY <2>1, NoneInRow DEF TaskState, IdleTask
<1>1. ASSUME NEW r \in Requests, DispatchRead(r) PROVE TypeInv'
  <2>1. r \in Seq(Chunk) /\ r # <<>> /\ Len(r) > 0 /\ Len(<<>>) = 0 /\ <<>> \in Seq(Packet)
    BY VirtualFileAssumption, EmptySeq
  <2>2. TypeOK'
    BY <1>1, <2>1 DEF DispatchRead, TypeOK, IdleRead, Row, dataVars, prefetchVars, histVars
  <2>3. CacheBounded' /\ WritersOK' /\ TasksOK'
    BY <1>1 DEF DispatchRead, CacheBounded, WritersOK, TasksOK, dataVars, prefetchVars, histVars,
       Bounded, contains
  <2>4. ReaderOK'
    BY <1>1, <2>1 DEF DispatchRead, ReaderOK, IdleRead
  <2> QED BY <2>2, <2>3, <2>4
<1>2. CASE ReadHit
  <2>1. Wanted \in Chunk
    BY <1>2, WantedType DEF ReadHit
  <2>2. /\ cache' \in [blob : [Chunk -> Packet \cup {NoBlob}], order : Seq(Chunk)]
        /\ CacheBounded'
    BY <1>2, <2>1, CacheAfterTouch DEF ReadHit
  <2>3. cache.blob[Wanted] \in Packet
    BY <1>2, <2>1 DEF ReadHit, contains, TypeOK
  <2>4. rd' \in ReadState
        /\ ReaderOK'
    BY <1>2, <2>3, AnsweredTypes DEF ReadHit
  <2>5. TypeOK'
    BY <1>2, <2>2, <2>4 DEF ReadHit, TypeOK, prefetchVars, histVars
  <2>6. WritersOK' /\ TasksOK'
    BY <1>2 DEF ReadHit, WritersOK, TasksOK, prefetchVars
  <2> QED BY <2>2, <2>4, <2>5, <2>6
<1>3. CASE ReadMiss
  BY <1>3 DEF ReadMiss, TypeOK, CacheBounded, Bounded, contains, ReaderOK, WritersOK, TasksOK,
     dataVars, prefetchVars, histVars
<1>4. CASE ReadLoad
  <2>1. PICK res \in load_chunk(db[Wanted]) :
          rd' = IF res.found # None /\ verify_chunk_coords(res.found, Wanted)
                  THEN [rd EXCEPT !.pc = "put", !.val = res.found]
                  ELSE [rd EXCEPT !.pc = "generate"]
    BY <1>4 DEF ReadLoad
  <2>2. db[Wanted] \in Row
    BY <1>4, WantedType DEF ReadLoad, TypeOK
  <2>3. res.found \in Row /\ (res.found # None => res.found \in Nbt)
    BY <2>2, StorageTypes DEF Row
  <2>4. TypeOK' /\ ReaderOK'
    BY <1>4, <2>1, <2>3 DEF ReadLoad, TypeOK, ReaderOK, dataVars, prefetchVars, histVars
  <2>5. CacheBounded' /\ WritersOK' /\ TasksOK'
    BY <1>4 DEF ReadLoad, CacheBounded, Bounded, contains, WritersOK, TasksOK, dataVars, prefetchVars
  <2> QED BY <2>4, <2>5
<1>5. CASE ReadGenerate
  <2>1. PICK n \in generate_chunk(Wanted) :
          rd' = IF n # None /\ verify_chunk_coords(n, Wanted)
                  THEN [rd EXCEPT !.pc = "put", !.val = n]
                  ELSE Broken
    BY <1>5 DEF ReadGenerate
  <2>2. n \in Row /\ (n # None => n \in Nbt)
    BY <1>5, <2>1, WantedType, GenerateTypes DEF ReadGenerate
  <2>3. TypeOK' /\ ReaderOK'
    BY <1>5, <2>1, <2>2 DEF ReadGenerate, Broken, Row, TypeOK, ReaderOK, dataVars, prefetchVars, histVars
  <2>4. CacheBounded' /\ WritersOK' /\ TasksOK'
    BY <1>5 DEF ReadGenerate, CacheBounded, Bounded, contains, WritersOK, TasksOK, dataVars, prefetchVars
  <2> QED BY <2>3, <2>4
<1>6. CASE ReadPut
  <2> DEFINE blob == compress_and_wrap_chunk(rd.val)
  <2>1. Wanted \in Chunk
    BY <1>6, WantedType DEF ReadPut
  <2>2. blob \in Packet
    BY <1>6, PayloadTypes DEF ReadPut, ReaderOK
  <2>3. cache' = Put(cache, Wanted, blob) /\ rd' = Answered(blob)
    BY <1>6 DEF ReadPut
  <2> HIDE DEF blob
  <2>4. /\ cache' \in [blob : [Chunk -> Packet \cup {NoBlob}], order : Seq(Chunk)]
        /\ CacheBounded'
    BY <2>1, <2>2, <2>3, CacheAfterPut
  <2>5. rd' \in ReadState
        /\ ReaderOK'
    BY <1>6, <2>2, <2>3, AnsweredTypes DEF ReadPut
  <2>6. spawned' \in [Chunk -> Nat]
    BY <1>6 DEF ReadPut, TypeOK
  <2>7. TypeOK'
    BY <1>6, <2>4, <2>5, <2>6 DEF ReadPut, TypeOK, histVars
  <2>8. WritersOK' /\ TasksOK'
    BY <1>6 DEF ReadPut, WritersOK, TasksOK
  <2> QED BY <2>4, <2>5, <2>7, <2>8
<1>7. CASE ReadReply
  <2>1. <<>> \in Seq(Chunk) /\ <<>> \in Seq(Packet)
    OBVIOUS
  <2> QED BY <1>7, <2>1 DEF ReadReply, IdleRead, Row, TypeOK, CacheBounded, Bounded, contains, ReaderOK,
          WritersOK, TasksOK, dataVars, prefetchVars, histVars
<1>8. ASSUME NEW w \in Writer, NEW c \in Chunk, NEW slot \in Chunk \cup {NoPos},
             DispatchWrite(w, c, slot)
      PROVE  TypeInv'
  <2>1. PICK d \in WritePackets(c, nwrites') :
          wr' = [wr EXCEPT ![w] =
            IF slot # NoPos /\ unwraps(d)
              THEN [pc |-> IF Persistent THEN "save" ELSE "reply",
                    key |-> SaveKey(slot, unwrap_and_decompress_chunk(d)),
                    nbt |-> unwrap_and_decompress_chunk(d)]
              ELSE [pc |-> "reply", key |-> NoPos, nbt |-> unwrap_and_decompress_chunk(d)]]
    BY <1>8 DEF DispatchWrite
  <2>2. nwrites' \in Version /\ nwrites' \in 0 .. MaxWrites
    BY <1>8, VirtualFileAssumption DEF DispatchWrite, TypeOK, Version
  <2>3. /\ unwrap_and_decompress_chunk(d) \in Nbt
        /\ unwrap_and_decompress_chunk(d).ver = nwrites'
    BY <2>1, <2>2, WrittenPackets
  <2>4. slot # NoPos => SaveKey(slot, unwrap_and_decompress_chunk(d)) \in Chunk
    BY <2>3, SaveKeyType
  <2>5. WritersOK'
    BY <1>8, <2>1, <2>2, <2>3, <2>4 DEF WritersOK, TypeOK
  <2>6. TypeOK'
    BY <1>8, <2>1, <2>2, <2>3, <2>4 DEF DispatchWrite, TypeOK, Row, dataVars, prefetchVars
  <2>7. CacheBounded' /\ ReaderOK' /\ TasksOK'
    BY <1>8 DEF DispatchWrite, CacheBounded, Bounded, contains, ReaderOK, TasksOK, dataVars, prefetchVars
  <2> QED BY <2>5, <2>6, <2>7
<1>9. ASSUME NEW w \in Writer, WriteSave(w) PROVE TypeInv'
  <2> DEFINE c == wr[w].key
             n == wr[w].nbt
  <2>1. c \in Chunk /\ n \in Nbt /\ n.ver \in Version
    BY <1>9 DEF WriteSave, WritersOK
  <2>2. PICK res \in save_chunk(db[c], n) :
          /\ db' = [db EXCEPT ![c] = res.row]
          /\ wr' = [wr EXCEPT ![w].pc = IF res.ok THEN "put" ELSE "reply"]
          /\ saved' = IF res.ok THEN [saved EXCEPT ![c] = @ \cup {n.ver}] ELSE saved
          /\ raced' = IF MissedRow(c) THEN raced \cup {n.ver} ELSE raced
    BY <1>9 DEF WriteSave
  <2>3. res.row \in Row
    BY <2>1, <2>2, StorageTypes DEF TypeOK
  <2>4. TypeOK'
    <3> HIDE DEF c, n
    <3>1. db' \in [Chunk -> Row]
      BY <2>1, <2>2, <2>3 DEF TypeOK
    <3>2. wr' \in [Writer -> WriteState]
      <4>1. (IF res.ok THEN "put" ELSE "reply") \in {"idle", "save", "put", "reply"}
        OBVIOUS
      <4> QED BY <4>1, <2>2, <1>a
    <3>3. saved' \in [Chunk -> SUBSET Version] /\ raced' \in SUBSET Version
      BY <2>1, <2>2 DEF TypeOK
    <3> QED BY <1>9, <3>1, <3>2, <3>3 DEF WriteSave, TypeOK, prefetchVars
  <2>5. CacheBounded' /\ ReaderOK' /\ TasksOK'
    BY <1>9 DEF WriteSave, CacheBounded, Bounded, contains, ReaderOK, TasksOK, prefetchVars
  <2>6. WritersOK'
    BY <1>9, <2>1, <2>2 DEF WritersOK, TypeOK
  <2> QED BY <2>4, <2>5, <2>6
<1>10. ASSUME NEW w \in Writer, WritePut(w) PROVE TypeInv'
  <2>1. wr[w].key \in Chunk /\ wr[w].nbt \in Nbt
    BY <1>10 DEF WritePut, WritersOK
  <2>2. /\ cache' \in [blob : [Chunk -> Packet \cup {NoBlob}], order : Seq(Chunk)]
        /\ CacheBounded'
    <3> DEFINE k == wr[w].key
               blob == compress_and_wrap_chunk(wr[w].nbt)
    <3>1. k \in Chunk /\ blob \in Packet /\ cache' = Put(cache, k, blob)
      BY <1>10, <2>1, PayloadTypes DEF WritePut
    <3> HIDE DEF k, blob
    <3> QED BY <3>1, CacheAfterPut
  <2>3. TypeOK'
    <3>1. wr' \in [Writer -> WriteState]
      BY <1>10, <1>a DEF WritePut
    <3> HIDE DEF ReadState, WriteState, TaskState, TypeInv
    <3>2. TypeOK
      BY DEF TypeInv
    <3> QED BY <1>10, <2>2, <3>1, <3>2 DEF WritePut, TypeOK, prefetchVars, histVars
  <2>4. ReaderOK' /\ TasksOK'
    BY <1>10 DEF WritePut, ReaderOK, TasksOK, prefetchVars
  <2>5. WritersOK'
    BY <1>10 DEF WritePut, WritersOK, TypeOK
  <2> QED BY <2>2, <2>3, <2>4, <2>5
<1>11. ASSUME NEW w \in Writer, WriteReply(w) PROVE TypeInv'
  <2>1. wr[w].nbt.ver \in Version
    BY <1>11 DEF WriteReply, WritersOK
  <2>2. TypeOK'
    BY <1>11, <2>1 DEF WriteReply, IdleWrite, TypeOK, Row, dataVars, prefetchVars
  <2>3. CacheBounded' /\ ReaderOK' /\ TasksOK'
    BY <1>11 DEF WriteReply, CacheBounded, Bounded, contains, ReaderOK, TasksOK, dataVars, prefetchVars
  <2>4. WritersOK'
    BY <1>11 DEF WriteReply, WritersOK, IdleWrite, TypeOK
  <2> QED BY <2>2, <2>3, <2>4
<1>12. ASSUME NEW c \in Chunk, PrefetchCheck(c) PROVE TypeInv'
  <2>1. Append(waiting, c) \in Seq(Chunk)
    BY DEF TypeOK
  <2>2. TypeOK'
    BY <1>12, <2>1 DEF PrefetchCheck, TypeOK, dataVars, histVars
  <2>3. CacheBounded' /\ ReaderOK' /\ WritersOK' /\ TasksOK'
    BY <1>12 DEF PrefetchCheck, CacheBounded, Bounded, contains, ReaderOK, WritersOK, TasksOK, dataVars
  <2> QED BY <2>2, <2>3
<1>13. ASSUME NEW p \in Worker, PrefetchAcquire(p) PROVE TypeInv'
  <2>1. Head(waiting) \in Chunk /\ Tail(waiting) \in Seq(Chunk)
    BY <1>13, HeadTailProperties DEF PrefetchAcquire, TypeOK
  <2>2. TypeOK'
    BY <1>13, <2>1 DEF PrefetchAcquire, IdleTask, Row, TypeOK, dataVars, histVars
  <2>3. CacheBounded' /\ ReaderOK' /\ WritersOK'
    BY <1>13 DEF PrefetchAcquire, CacheBounded, Bounded, contains, ReaderOK, WritersOK, dataVars
  <2>4. TasksOK'
    BY <1>13, <2>1 DEF PrefetchAcquire, IdleTask, TasksOK, TypeOK
  <2> QED BY <2>2, <2>3, <2>4
<1>14. ASSUME NEW p \in Worker, PrefetchLoad(p) PROVE TypeInv'
  <2>1. TypeOK'
    <3>1. running' \in [Worker -> TaskState]
      <4>1. PICK res \in load_chunk(db[running[p].chunk]) :
              running' = [running EXCEPT ![p] =
                IF res.ok /\ res.found # None THEN IdleTask ELSE [running[p] EXCEPT !.pc = "generate"]]
        BY <1>14 DEF PrefetchLoad
      <4> DEFINE t == IF res.ok /\ res.found # None
                        THEN IdleTask ELSE [running[p] EXCEPT !.pc = "generate"]
      <4>2. t \in TaskState
        <5> HIDE DEF TaskState, TypeInv
        <5>1. IdleTask \in TaskState /\ [running[p] EXCEPT !.pc = "generate"] \in TaskState
          BY <1>b, NoneInRow
        <5> QED BY <5>1
      <4>3. running' = [running EXCEPT ![p] = t]
        BY <4>1
      <4> HIDE DEF t
      <4> QED BY <4>2, <4>3 DEF TypeOK
    <3> QED BY <1>14, <3>1 DEF PrefetchLoad, TypeOK, dataVars, histVars
  <2>2. CacheBounded' /\ ReaderOK' /\ WritersOK'
    BY <1>14 DEF PrefetchLoad, CacheBounded, Bounded, contains, ReaderOK, WritersOK, dataVars
  <2>3. TasksOK'
    BY <1>14 DEF PrefetchLoad, IdleTask, TasksOK, TypeOK
  <2> QED BY <2>1, <2>2, <2>3
<1>15. ASSUME NEW p \in Worker, PrefetchGenerate(p) PROVE TypeInv'
  <2>1. PICK n \in generate_chunk(running[p].chunk) :
          running' = [running EXCEPT ![p] =
            IF n = None
              THEN IdleTask
              ELSE [running[p] EXCEPT !.pc = IF Persistent THEN "save" ELSE "put", !.nbt = n]]
    BY <1>15 DEF PrefetchGenerate
  <2>2. n \in Row /\ (n # None => n \in Nbt)
    BY <1>15, <2>1, GenerateTypes DEF PrefetchGenerate, TasksOK
  <2>a. PICK q \in {"save", "put"} :
          running' = [running EXCEPT ![p] =
            IF n = None THEN IdleTask ELSE [running[p] EXCEPT !.pc = q, !.nbt = n]]
    <3>1. CASE Persistent
      BY <3>1, <2>1
    <3>2. CASE ~ Persistent
      BY <3>2, <2>1
    <3> QED BY <3>1, <3>2
  <2>3. TypeOK'
    <3>1. running' \in [Worker -> TaskState]
      <4> DEFINE t == IF n = None THEN IdleTask ELSE [running[p] EXCEPT !.pc = q, !.nbt = n]
      <4>1. t \in TaskState
        <5> HIDE DEF TaskState, TypeInv
        <5>1. [running[p] EXCEPT !.pc = q, !.nbt = n] \in TaskState /\ IdleTask \in TaskState
          BY <2>2, <1>b
        <5> QED BY <5>1
      <4>2. running' = [running EXCEPT ![p] = t]
        BY <2>a
      <4> HIDE DEF t
      <4> QED BY <4>1, <4>2 DEF TypeOK
    <3> QED BY <1>15, <3>1 DEF PrefetchGenerate, TypeOK, dataVars, histVars
  <2>4. CacheBounded' /\ ReaderOK' /\ WritersOK'
    BY <1>15 DEF PrefetchGenerate, CacheBounded, Bounded, contains, ReaderOK, WritersOK, dataVars
  <2>5. TasksOK'
    <3>1. running[p] \in TaskState /\ running[p].chunk \in Chunk /\ DOMAIN running = Worker
      BY <1>15 DEF PrefetchGenerate, TasksOK, TypeOK
    <3>2. \/ running'[p] = IdleTask
          \/ n \in Nbt /\ running'[p] = [running[p] EXCEPT !.pc = q, !.nbt = n]
      BY <2>a, <2>2, <3>1
    <3>3. /\ running'[p].pc # "idle" => running'[p].chunk \in Chunk
          /\ running'[p].pc \in {"save", "put"} => running'[p].nbt \in Nbt
      <4>1. CASE running'[p] = IdleTask
        BY <4>1 DEF IdleTask
      <4>2. CASE n \in Nbt /\ running'[p] = [running[p] EXCEPT !.pc = q, !.nbt = n]
        <5>1. running'[p].chunk = running[p].chunk /\ running'[p].nbt = n
          BY <3>1, <4>2
        <5> QED BY <3>1, <4>2, <5>1
      <4> QED BY <3>2, <4>1, <4>2
    <3>4. \A o \in Worker \ {p} : running'[o] = running[o]
      BY <2>a DEF TypeOK
    <3> QED BY <3>3, <3>4 DEF TasksOK
  <2> QED BY <2>3, <2>4, <2>5
<1>16. ASSUME NEW p \in Worker, PrefetchSave(p) PROVE TypeInv'
  <2>1. running[p].chunk \in Chunk /\ running[p].nbt \in Nbt
    BY <1>16 DEF PrefetchSave, TasksOK
  <2>2. PICK res \in save_chunk(db[running[p].chunk], running[p].nbt) :
          db' = [db EXCEPT ![running[p].chunk] = res.row]
    BY <1>16 DEF PrefetchSave
  <2>3. res.row \in Row
    BY <2>1, <2>2, StorageTypes DEF TypeOK
  <2>4. TypeOK'
    <3>1. db' \in [Chunk -> Row]
      BY <2>1, <2>2, <2>3 DEF TypeOK
    <3>2. running' \in [Worker -> TaskState]
      <4>1. [running[p] EXCEPT !.pc = "put"] \in TaskState
        <5> HIDE DEF TaskState, TypeInv
        <5> QED BY <1>b, NoneInRow
      <4> HIDE DEF TaskState
      <4> QED BY <1>16, <4>1 DEF PrefetchSave, TypeOK
    <3> HIDE DEF ReadState, WriteState, TaskState, TypeInv
    <3>3. TypeOK
      BY DEF TypeInv
    <3> QED BY <1>16, <3>1, <3>2, <3>3 DEF PrefetchSave, TypeOK, histVars
  <2>5. CacheBounded' /\ ReaderOK' /\ WritersOK'
    BY <1>16 DEF PrefetchSave, CacheBounded, Bounded, contains, ReaderOK, WritersOK
  <2>6. TasksOK'
    BY <1>16 DEF PrefetchSave, TasksOK, TypeOK
  <2> QED BY <2>4, <2>5, <2>6
<1>17. ASSUME NEW p \in Worker, PrefetchPut(p) PROVE TypeInv'
  <2>1. running[p].chunk \in Chunk /\ running[p].nbt \in Nbt
    BY <1>17 DEF PrefetchPut, TasksOK
  <2>2. /\ cache' \in [blob : [Chunk -> Packet \cup {NoBlob}], order : Seq(Chunk)]
        /\ CacheBounded'
    BY <1>17, <2>1, CacheAfterPut, PayloadTypes DEF PrefetchPut
  <2>3. TypeOK'
    BY <1>17, <2>2 DEF PrefetchPut, IdleTask, Row, TypeOK, histVars
  <2>4. ReaderOK' /\ WritersOK'
    BY <1>17 DEF PrefetchPut, ReaderOK, WritersOK
  <2>5. TasksOK'
    BY <1>17 DEF PrefetchPut, IdleTask, TasksOK, TypeOK
  <2> QED BY <2>2, <2>3, <2>4, <2>5
<1>18. CASE Crash
  <2>1. /\ <<>> \in Seq(Chunk) /\ Len(<<>>) = 0
        /\ <<>> \in Seq(Packet)
    OBVIOUS
  <2>2. TypeOK'
    BY <1>18, <2>1 DEF Crash, EmptyCache, IdleRead, IdleWrite, IdleTask, Row, TypeOK, histVars
  <2>3. CacheBounded'
    BY <1>18, <2>1, CacheAssumption DEF Crash, EmptyCache, CacheBounded, Bounded, contains
  <2>4. ReaderOK' /\ WritersOK' /\ TasksOK'
    BY <1>18 DEF Crash, ReaderOK, WritersOK, TasksOK, IdleRead, IdleWrite, IdleTask
  <2> QED BY <2>2, <2>3, <2>4
<1>19. CASE UNCHANGED vars
  BY <1>19 DEF vars, dataVars, prefetchVars, histVars, TypeOK, CacheBounded, Bounded, contains,
     ReaderOK, WritersOK, TasksOK
<1> QED
  BY <1>1, <1>2, <1>3, <1>4, <1>5, <1>6, <1>7, <1>8, <1>9, <1>10, <1>11, <1>12, <1>13, <1>14,
     <1>15, <1>16, <1>17, <1>18, <1>19
  DEF Next, ReadStep, WriteStep, PrefetchStep

\* Every variable keeps its type, and the cache its capacity and its shape.
THEOREM TypeCorrect == Spec => [](TypeOK /\ CacheBounded)
<1>1. TypeInv => TypeOK /\ CacheBounded
  BY DEF TypeInv
<1> QED BY <1>1, InitTypes, NextTypes, PTL DEF Spec

-----------------------------------------------------------------------------
(***************************************************************************)
(* A confirmed save is not lost.  Proved for every instance in which the   *)
(* jsonb mode is given only payloads it can parse and, if tasks are        *)
(* prefetched at all, the table answers their loads.                       *)
(***************************************************************************)

\* A piece whose fifth byte reads as NONE is the one payload that is saved
\* without being a chunk's NBT.
SavesParse == StorageMode = "pg_jsonb" => "plain" \notin Fragments

\* Only the jsonb mode encodes a row before it answers it.
LoadsAnswer == "load" \notin Faults /\ (StorageMode = "pg_jsonb" => "encode" \notin Faults)

-----------------------------------------------------------------------------
(* The inductive invariant. *)

\* Versions are numbered in the order their writes are taken up, and a write
\* that is still in progress is answered to nobody: whatever it saves is
\* newer than every edit that was answered before another write.
Numbered ==
  /\ acked \subseteq 1 .. nwrites
  /\ \A c \in Chunk : saved[c] \subseteq 1 .. nwrites
  /\ \A v \in Version : before[v] \subseteq acked
  /\ \A w \in Writer : wr[w].pc # "idle" => wr[w].nbt.ver \in 1 .. nwrites \ acked
  /\ \A w, x \in Writer : w # x /\ wr[w].pc # "idle" /\ wr[x].pc # "idle"
                            => wr[w].nbt.ver # wr[x].nbt.ver

\* What is waiting to be saved can be saved.
Savable ==
  /\ \A w \in Writer : wr[w].pc = "save" =>
       Persistent /\ (StorageMode = "pg_jsonb" => wr[w].nbt.pos # NoPos)
  /\ ~ Persistent => \A c \in Chunk : saved[c] = {}

\* DurableUnlessRaced, and no prefetch task is about to undo it: once a row
\* is there, no task misses it.
Kept ==
  \A c \in Chunk : \A v \in saved[c] \ raced :
    /\ db[c] # None
    /\ Supersedes(db[c], v)
    /\ ~ MissedRow(c)

\* With a radius of zero there are no tasks.
NoPrefetch ==
  /\ \A c \in Chunk : spawned[c] = 0
  /\ waiting = <<>>
  /\ \A p \in Worker : running[p].pc = "idle"
  /\ raced = {}

DurableInv ==
  /\ TypeInv
  /\ Numbered
  /\ Savable
  /\ Kept
  /\ PrefetchRadius = 0 => NoPrefetch

-----------------------------------------------------------------------------
\* There are no tasks at the start.
LEMMA InitNoPrefetch == Init => NoPrefetch
  BY DEF Init, NoPrefetch, IdleTask

\* The inductive invariant holds at the start: nothing has been saved.
LEMMA InitDurable == Init => DurableInv
<1> SUFFICES ASSUME Init PROVE DurableInv
  OBVIOUS
<1>1. TypeInv
  BY InitTypes
<1>2. Numbered /\ Savable /\ Kept
  BY DEF Init, Numbered, Savable, Kept, IdleWrite
<1> QED BY <1>1, <1>2, InitNoPrefetch DEF DurableInv

\* A fetched chunk has no neighbour within radius zero.
LEMMA NoNeighbours ==
  ASSUME PrefetchRadius = 0, NEW c \in Chunk
  PROVE  Near(c) = {}
<1> SUFFICES ASSUME NEW d \in Chunk, c[1] - d[1] \in -0 .. 0, c[2] - d[2] \in -0 .. 0
             PROVE  d = c
  BY DEF Near
<1>1. c \in Int \X Int /\ d \in Int \X Int
  BY ChunkAssumption
<1>2. c[1] = d[1] /\ c[2] = d[2]
  BY <1>1
<1> QED BY <1>1, <1>2

\* With --prefetch-radius 0 no read ever leaves a task behind.
LEMMA NextNoPrefetch ==
  ASSUME PrefetchRadius = 0, TypeInv, NoPrefetch, [Next]_vars
  PROVE  NoPrefetch'
<1> USE DEF NoPrefetch
<1>1. ASSUME NEW r \in Requests, DispatchRead(r) PROVE NoPrefetch'
  BY <1>1 DEF DispatchRead, prefetchVars, histVars
<1>2. CASE ReadHit \/ ReadMiss \/ ReadLoad \/ ReadGenerate \/ ReadReply
  BY <1>2 DEF ReadHit, ReadMiss, ReadLoad, ReadGenerate, ReadReply, prefetchVars, histVars
<1>3. CASE ReadPut
  <2>1. Near(Wanted) = {}
    BY <1>3, WantedType, NoNeighbours DEF ReadPut
  <2>2. \A c \in Chunk : spawned'[c] = 0
    BY <1>3, <2>1 DEF ReadPut
  <2> QED BY <1>3, <2>2 DEF ReadPut, histVars
<1>4. ASSUME NEW w \in Writer, NEW c \in Chunk, NEW slot \in Chunk \cup {NoPos},
             DispatchWrite(w, c, slot)
      PROVE  NoPrefetch'
  BY <1>4 DEF DispatchWrite, prefetchVars
<1>5. ASSUME NEW w \in Writer, WriteSave(w) PROVE NoPrefetch'
  <2>1. ~ MissedRow(wr[w].key)
    BY DEF MissedRow
  <2> QED BY <1>5, <2>1 DEF WriteSave, prefetchVars
<1>6. ASSUME NEW w \in Writer, WritePut(w) \/ WriteReply(w) PROVE NoPrefetch'
  BY <1>6 DEF WritePut, WriteReply, prefetchVars, histVars
<1>7. ASSUME NEW c \in Chunk, PrefetchCheck(c) PROVE NoPrefetch'
  BY <1>7 DEF PrefetchCheck
<1>8. ASSUME NEW p \in Worker, PrefetchStep(p) PROVE NoPrefetch'
  BY <1>8 DEF PrefetchStep, PrefetchAcquire, PrefetchLoad, PrefetchGenerate, PrefetchSave, PrefetchPut
<1>9. CASE Crash
  BY <1>9 DEF Crash, IdleTask, histVars
<1>10. CASE UNCHANGED vars
  BY <1>10 DEF vars, prefetchVars, histVars
<1> QED
  BY <1>1, <1>2, <1>3, <1>4, <1>5, <1>6, <1>7, <1>8, <1>9, <1>10 DEF Next, ReadStep, WriteStep

\* Versions stay numbered in the order the writes are taken up.
LEMMA NextNumbered ==
  ASSUME TypeInv, Numbered, [Next]_vars
  PROVE  Numbered'
<1> nwrites \in Nat /\ MaxWrites \in Nat
  BY VirtualFileAssumption DEF TypeInv, TypeOK
<1>1. CASE UNCHANGED <<wr, histVars>>
  BY <1>1 DEF Numbered, histVars
<1>2. ASSUME NEW w \in Writer, NEW c \in Chunk, NEW slot \in Chunk \cup {NoPos},
             DispatchWrite(w, c, slot)
      PROVE  Numbered'
  <2>1. /\ nwrites' = nwrites + 1
        /\ nwrites' \in Version
        /\ before' = [before EXCEPT ![nwrites'] = acked]
        /\ acked' = acked /\ saved' = saved
    BY <1>2, VirtualFileAssumption DEF DispatchWrite, TypeInv, TypeOK, Version
  <2>2. \E t : /\ wr' = [wr EXCEPT ![w] = t]
               /\ t.pc # "idle"
               /\ t.nbt.ver = nwrites'
    <3>1. PICK d \in WritePackets(c, nwrites') :
            wr' = [wr EXCEPT ![w] =
              IF slot # NoPos /\ unwraps(d)
                THEN [pc |-> IF Persistent THEN "save" ELSE "reply",
                      key |-> SaveKey(slot, unwrap_and_decompress_chunk(d)),
                      nbt |-> unwrap_and_decompress_chunk(d)]
                ELSE [pc |-> "reply", key |-> NoPos, nbt |-> unwrap_and_decompress_chunk(d)]]
      BY <1>2 DEF DispatchWrite
    <3>2. unwrap_and_decompress_chunk(d).ver = nwrites'
      BY <2>1, <3>1, WrittenPackets
    <3> DEFINE n == unwrap_and_decompress_chunk(d)
               t == IF slot # NoPos /\ unwraps(d)
                      THEN [pc |-> IF Persistent THEN "save" ELSE "reply",
                            key |-> SaveKey(slot, n), nbt |-> n]
                      ELSE [pc |-> "reply", key |-> NoPos, nbt |-> n]
    <3>3. t.pc # "idle" /\ t.nbt = n
      OBVIOUS
    <3>4. wr' = [wr EXCEPT ![w] = t]
      BY <3>1
    <3> HIDE DEF t
    <3> QED BY <3>2, <3>3, <3>4
  <2>3. PICK t : /\ wr' = [wr EXCEPT ![w] = t]
                 /\ t.pc # "idle"
                 /\ t.nbt.ver = nwrites'
    BY <2>2
  <2>4. /\ wr'[w] = t
        /\ \A x \in Writer \ {w} : wr'[x] = wr[x]
    BY <2>3 DEF TypeInv, TypeOK
  <2>5. nwrites' \notin acked /\ nwrites' \notin 1 .. nwrites
    BY <2>1 DEF Numbered
  <2>6. \A x \in Writer : wr'[x].pc # "idle" => wr'[x].nbt.ver \in 1 .. nwrites' \ acked'
    BY <2>1, <2>3, <2>4, <2>5 DEF Numbered
  <2>7. \A x, y \in Writer : x # y /\ wr'[x].pc # "idle" /\ wr'[y].pc # "idle"
                               => wr'[x].nbt.ver # wr'[y].nbt.ver
    BY <2>3, <2>4, <2>5 DEF Numbered
  <2>8. \A v \in Version : before'[v] \subseteq acked'
    BY <2>1 DEF Numbered, TypeInv, TypeOK
  <2>9. 1 .. nwrites \subseteq 1 .. nwrites'
    BY <2>1
  <2> QED BY <2>1, <2>6, <2>7, <2>8, <2>9 DEF Numbered
<1>3. ASSUME NEW w \in Writer, WriteSave(w) PROVE Numbered'
  <2>1. /\ nwrites' = nwrites /\ acked' = acked /\ before' = before
        /\ \A x \in Writer : wr'[x].nbt = wr[x].nbt /\ (wr'[x].pc # "idle" => wr[x].pc # "idle")
    BY <1>3 DEF WriteSave, TypeInv, TypeOK
  <2>2. wr[w].key \in Chunk /\ wr[w].nbt.ver \in 1 .. nwrites
    BY <1>3 DEF WriteSave, TypeInv, WritersOK, Numbered
  <2>3. \A c \in Chunk : saved'[c] \subseteq saved[c] \cup {wr[w].nbt.ver}
    BY <1>3, <2>2 DEF WriteSave, TypeInv, TypeOK
  <2> QED BY <2>1, <2>2, <2>3 DEF Numbered
<1>4. ASSUME NEW w \in Writer, WritePut(w) PROVE Numbered'
  <2>1. \A x \in Writer : wr'[x].nbt = wr[x].nbt /\ (wr'[x].pc # "idle" => wr[x].pc # "idle")
    BY <1>4 DEF WritePut, TypeInv, TypeOK
  <2>2. nwrites' = nwrites /\ acked' = acked /\ saved' = saved /\ before' = before
    BY <1>4 DEF WritePut, histVars
  <2>3. \A x \in Writer : wr'[x].pc # "idle" => wr'[x].nbt.ver \in 1 .. nwrites' \ acked'
    BY <2>1, <2>2 DEF Numbered
  <2>4. \A x, y \in Writer : x # y /\ wr'[x].pc # "idle" /\ wr'[y].pc # "idle"
                               => wr'[x].nbt.ver # wr'[y].nbt.ver
    BY <2>1 DEF Numbered
  <2> QED BY <2>2, <2>3, <2>4 DEF Numbered
<1>5. ASSUME NEW w \in Writer, WriteReply(w) PROVE Numbered'
  <2>1. /\ wr'[w].pc = "idle"
        /\ \A x \in Writer \ {w} : wr'[x] = wr[x]
    BY <1>5 DEF WriteReply, IdleWrite, TypeInv, TypeOK
  <2>2. acked' = acked \cup {wr[w].nbt.ver} /\ nwrites' = nwrites /\ saved' = saved /\ before' = before
    BY <1>5 DEF WriteReply
  <2>3. wr[w].pc # "idle"
    BY <1>5 DEF WriteReply
  <2>4. wr[w].nbt.ver \in 1 .. nwrites
    BY <2>3 DEF Numbered
  <2>5. \A x \in Writer : wr'[x].pc # "idle" => wr'[x].nbt.ver \in 1 .. nwrites' \ acked'
    BY <2>1, <2>2, <2>3 DEF Numbered
  <2>6. \A x, y \in Writer : x # y /\ wr'[x].pc # "idle" /\ wr'[y].pc # "idle"
                               => wr'[x].nbt.ver # wr'[y].nbt.ver
    BY <2>1 DEF Numbered
  <2> QED BY <2>2, <2>4, <2>5, <2>6 DEF Numbered
<1>6. CASE Crash
  BY <1>6 DEF Crash, histVars, IdleWrite, Numbered
<1>7. ASSUME NEW r \in Requests, DispatchRead(r) PROVE Numbered'
  BY <1>1, <1>7 DEF DispatchRead
<1>8. CASE ReadStep
  BY <1>1, <1>8 DEF ReadStep, ReadHit, ReadMiss, ReadLoad, ReadGenerate, ReadPut, ReadReply
<1>9. ASSUME NEW c \in Chunk, PrefetchCheck(c) PROVE Numbered'
  BY <1>1, <1>9 DEF PrefetchCheck
<1>10. ASSUME NEW p \in Worker, PrefetchStep(p) PROVE Numbered'
  BY <1>1, <1>10 DEF PrefetchStep, PrefetchAcquire, PrefetchLoad, PrefetchGenerate, PrefetchSave,
     PrefetchPut
<1>11. CASE UNCHANGED vars
  BY <1>1, <1>11 DEF vars
<1> QED
  BY <1>2, <1>3, <1>4, <1>5, <1>6, <1>7, <1>8, <1>9, <1>10, <1>11 DEF Next, WriteStep

\* Everything on its way to the table is a payload the table can keep.
LEMMA NextSavable ==
  ASSUME SavesParse, TypeInv, Savable, [Next]_vars
  PROVE  Savable'
<1>1. ASSUME UNCHANGED saved,
             \A w \in Writer : wr'[w].pc = "save" => wr[w].pc = "save" /\ wr'[w].nbt = wr[w].nbt
      PROVE  Savable'
  BY <1>1 DEF Savable, Persistent
<1>2. ASSUME NEW w \in Writer, NEW c \in Chunk, NEW slot \in Chunk \cup {NoPos},
             DispatchWrite(w, c, slot)
      PROVE  Savable'
  <2>1. PICK d \in WritePackets(c, nwrites') :
          wr' = [wr EXCEPT ![w] =
            IF slot # NoPos /\ unwraps(d)
              THEN [pc |-> IF Persistent THEN "save" ELSE "reply",
                    key |-> SaveKey(slot, unwrap_and_decompress_chunk(d)),
                    nbt |-> unwrap_and_decompress_chunk(d)]
              ELSE [pc |-> "reply", key |-> NoPos, nbt |-> unwrap_and_decompress_chunk(d)]]
    BY <1>2 DEF DispatchWrite
  <2>2. unwraps(d) /\ StorageMode = "pg_jsonb" => unwrap_and_decompress_chunk(d).pos = c
    <3>1. \/ d.whole = TRUE /\ d.nbt.pos = c
          \/ d.whole = FALSE /\ d.kind \in Fragments
      <4> DEFINE e == [pos |-> c, ver |-> nwrites', exact |-> TRUE]
      <4>1. e.pos = c
        OBVIOUS
      <4>2. \/ d \in [kind : {"deflated", "plain"}, whole : {TRUE}, nbt : {e}]
            \/ d \in [kind : Fragments, whole : {FALSE}, nbt : {e}]
        BY DEF WritePackets
      <4> HIDE DEF e
      <4> QED BY <4>1, <4>2
    <3> QED BY <3>1 DEF unwraps, unwrap_and_decompress_chunk, SavesParse
  <2>3. c # NoPos
    BY ChunkAssumption
  <2> DEFINE n == unwrap_and_decompress_chunk(d)
             t == IF slot # NoPos /\ unwraps(d)
                    THEN [pc |-> IF Persistent THEN "save" ELSE "reply",
                          key |-> SaveKey(slot, n), nbt |-> n]
                    ELSE [pc |-> "reply", key |-> NoPos, nbt |-> n]
  <2>4. t.pc = "save" => Persistent /\ unwraps(d) /\ t.nbt = n
    OBVIOUS
  <2>5. wr'[w] = t /\ \A x \in Writer \ {w} : wr'[x] = wr[x]
    BY <2>1 DEF TypeInv, TypeOK
  <2> HIDE DEF t
  <2>6. saved' = saved
    BY <1>2 DEF DispatchWrite
  <2> QED BY <2>2, <2>3, <2>4, <2>5, <2>6 DEF Savable, Persistent
<1>3. ASSUME NEW w \in Writer, WriteSave(w) PROVE Savable'
  <2>1. wr[w].pc = "save" /\ wr[w].key \in Chunk
    BY <1>3 DEF WriteSave, TypeInv, WritersOK
  <2>2. \A x \in Writer : wr'[x].pc = "save" => wr[x].pc = "save" /\ wr'[x].nbt = wr[x].nbt
    BY <1>3 DEF WriteSave, TypeInv, TypeOK
  <2>3. Persistent
    BY <2>1 DEF Savable
  <2> QED BY <2>2, <2>3 DEF Savable, Persistent
<1>4. ASSUME NEW w \in Writer, WritePut(w) PROVE Savable'
  BY <1>1, <1>4 DEF WritePut, histVars, TypeInv, TypeOK
<1>5. ASSUME NEW w \in Writer, WriteReply(w) PROVE Savable'
  BY <1>1, <1>5 DEF WriteReply, IdleWrite, TypeInv, TypeOK
<1>6. CASE Crash
  BY <1>1, <1>6 DEF Crash, histVars, IdleWrite
<1>7. CASE UNCHANGED <<wr, histVars>>
  BY <1>1, <1>7 DEF histVars
<1>8. ASSUME NEW r \in Requests, DispatchRead(r) PROVE Savable'
  BY <1>7, <1>8 DEF DispatchRead
<1>9. CASE ReadStep
  BY <1>7, <1>9 DEF ReadStep, ReadHit, ReadMiss, ReadLoad, ReadGenerate, ReadPut, ReadReply
<1>10. ASSUME NEW c \in Chunk, PrefetchCheck(c) PROVE Savable'
  BY <1>7, <1>10 DEF PrefetchCheck
<1>11. ASSUME NEW p \in Worker, PrefetchStep(p) PROVE Savable'
  BY <1>7, <1>11 DEF PrefetchStep, PrefetchAcquire, PrefetchLoad, PrefetchGenerate, PrefetchSave,
     PrefetchPut
<1>12. CASE UNCHANGED vars
  BY <1>7, <1>12 DEF vars
<1> QED
  BY <1>2, <1>3, <1>4, <1>5, <1>6, <1>8, <1>9, <1>10, <1>11, <1>12 DEF Next, WriteStep

\* The row a save of version v may leave: the old one, or v itself.
LEMMA SavedRow ==
  ASSUME NEW row \in Row, NEW n \in Nbt, NEW res \in save_chunk(row, n),
         StorageMode = "pg_jsonb" => n.pos # NoPos
  PROVE  /\ res.row = row \/ (res.row # None /\ res.row.ver = n.ver)
         /\ res.ok => res.row # None /\ res.row.ver = n.ver
<1>1. Upserted(row, n) \in Nbt /\ Upserted(row, n).ver = n.ver
  BY DEF Upserted, Nbt
<1>2. \/ res.ok /\ res.row = Upserted(row, n)
      \/ ~ res.ok /\ res.row \in {row, Upserted(row, n)}
  BY DEF save_chunk
<1> QED BY <1>1, <1>2, PayloadTypes

\* No step takes a saved edit out of its row, unless a task raced it.
LEMMA NextKept ==
  ASSUME LoadsAnswer \/ PrefetchRadius = 0, DurableInv, [Next]_vars
  PROVE  Kept'
<1> USE DEF DurableInv
<1>1. ASSUME UNCHANGED <<db, saved, raced, before>>,
             \A c \in Chunk : MissedRow(c)' => MissedRow(c) \/ saved[c] \ raced = {}
      PROVE  Kept'
  BY <1>1 DEF Kept, Supersedes
<1>2. ASSUME UNCHANGED <<db, running, saved, raced, before>> PROVE Kept'
  BY <1>1, <1>2 DEF MissedRow
<1>3. ASSUME NEW w \in Writer, NEW c \in Chunk, NEW slot \in Chunk \cup {NoPos},
             DispatchWrite(w, c, slot)
      PROVE  Kept'
  <2>1. /\ db' = db /\ running' = running /\ saved' = saved /\ raced' = raced
        /\ before' = [before EXCEPT ![nwrites + 1] = acked]
        /\ nwrites \in Nat
    BY <1>3 DEF DispatchWrite, dataVars, prefetchVars, TypeInv, TypeOK
  <2>2. \A d \in Chunk : \A v \in saved[d] : v \in Version /\ v # nwrites + 1
    BY <2>1 DEF Numbered, TypeInv, TypeOK
  <2>3. \A d \in Chunk : \A v \in saved[d] : before'[v] = before[v]
    BY <2>1, <2>2 DEF TypeInv, TypeOK
  <2> QED BY <2>1, <2>3 DEF Kept, Supersedes, MissedRow
<1>4. ASSUME NEW w \in Writer, WriteSave(w) PROVE Kept'
  <2> DEFINE k == wr[w].key
             n == wr[w].nbt
  <2>1. /\ k \in Chunk /\ n \in Nbt /\ n.ver \in Version
        /\ n.ver \notin acked /\ n.ver # 0
        /\ StorageMode = "pg_jsonb" => n.pos # NoPos
        /\ db[k] \in Row
    BY <1>4 DEF WriteSave, TypeInv, TypeOK, WritersOK, Numbered, Savable, Version
  <2>2. PICK res \in save_chunk(db[k], n) :
          /\ db' = [db EXCEPT ![k] = res.row]
          /\ saved' = IF res.ok THEN [saved EXCEPT ![k] = @ \cup {n.ver}] ELSE saved
          /\ raced' = IF MissedRow(k) THEN raced \cup {n.ver} ELSE raced
    BY <1>4 DEF WriteSave
  <2>3. /\ res.row = db[k] \/ (res.row # None /\ res.row.ver = n.ver)
        /\ res.ok => res.row # None /\ res.row.ver = n.ver
    BY <2>1, <2>2, SavedRow
  <2>4. before' = before /\ running' = running
    BY <1>4 DEF WriteSave, prefetchVars
  <2> HIDE DEF k, n
  <2> SUFFICES ASSUME NEW c \in Chunk, NEW v \in saved'[c] \ raced'
               PROVE  db'[c] # None /\ Supersedes(db'[c], v) /\ ~ MissedRow(c)
    BY <2>4 DEF Kept, Supersedes, MissedRow
  <2>5. CASE c # k
    <3>1. db'[c] = db[c] /\ v \in saved[c] \ raced
      BY <2>1, <2>2, <2>5 DEF TypeInv, TypeOK
    <3> QED BY <3>1 DEF Kept
  <2>6. CASE c = k
    <3>1. db'[c] = res.row
      BY <2>1, <2>2, <2>6 DEF TypeInv, TypeOK
    <3>2. v \in saved[c] \ raced \/ (v = n.ver /\ res.ok /\ ~ MissedRow(c))
      BY <2>1, <2>2, <2>6 DEF TypeInv, TypeOK
    <3>3. v \in Version
      BY <3>2, <2>1 DEF TypeInv, TypeOK
    <3>4. before[v] \subseteq acked
      BY <3>3 DEF Numbered
    <3>5. CASE v \in saved[c] \ raced
      <4>1. db[c] # None /\ Supersedes(db[c], v) /\ ~ MissedRow(c)
        BY <3>5 DEF Kept
      <4> QED BY <4>1, <3>1, <3>4, <2>1, <2>3, <2>6 DEF Supersedes
    <3>6. CASE v = n.ver /\ res.ok /\ ~ MissedRow(c)
      BY <3>6, <3>1, <3>4, <2>1, <2>3 DEF Supersedes
    <3> QED BY <3>2, <3>5, <3>6
  <2> QED BY <2>5, <2>6
<1>5. ASSUME NEW w \in Writer, WritePut(w) PROVE Kept'
  BY <1>2, <1>5 DEF WritePut, prefetchVars, histVars
<1>6. ASSUME NEW w \in Writer, WriteReply(w) PROVE Kept'
  BY <1>2, <1>6 DEF WriteReply, dataVars, prefetchVars
<1>7. ASSUME NEW p \in Worker, PrefetchAcquire(p) PROVE Kept'
  <2>1. UNCHANGED <<db, saved, raced, before>>
    BY <1>7 DEF PrefetchAcquire, dataVars, histVars
  <2>2. ASSUME NEW c \in Chunk, MissedRow(c)' PROVE MissedRow(c) \/ saved[c] \ raced = {}
    <3>1. CASE ~ Persistent
      BY <3>1 DEF Savable
    <3>2. CASE Persistent
      <4>1. running'[p].pc \in {"idle", "load"} /\ \A o \in Worker \ {p} : running'[o] = running[o]
        BY <1>7, <3>2 DEF PrefetchAcquire, IdleTask, TypeInv, TypeOK
      <4> QED BY <2>2, <4>1 DEF MissedRow
    <3> QED BY <3>1, <3>2
  <2> QED BY <1>1, <2>1, <2>2
<1>8. ASSUME NEW p \in Worker, PrefetchLoad(p) PROVE Kept'
  <2>1. UNCHANGED <<db, saved, raced, before>>
    BY <1>8 DEF PrefetchLoad, dataVars, histVars
  <2>2. LoadsAnswer
    BY <1>8 DEF PrefetchLoad, NoPrefetch
  <2>3. PICK res \in load_chunk(db[running[p].chunk]) :
          running' = [running EXCEPT ![p] =
            IF res.ok /\ res.found # None THEN IdleTask ELSE [running[p] EXCEPT !.pc = "generate"]]
    BY <1>8 DEF PrefetchLoad
  <2>4. res.ok /\ res.found = db[running[p].chunk]
    BY <2>2 DEF load_chunk, LoadsAnswer
  <2>5. ASSUME NEW c \in Chunk, MissedRow(c)' PROVE MissedRow(c) \/ saved[c] \ raced = {}
    <3>1. PICK o \in Worker : running'[o].chunk = c /\ running'[o].pc \in {"generate", "save"}
      BY <2>5 DEF MissedRow
    <3>2. CASE o # p
      <4>1. running'[o] = running[o]
        BY <2>3, <3>2 DEF TypeInv, TypeOK
      <4> QED BY <3>1, <4>1 DEF MissedRow
    <3>3. CASE o = p
      <4>1. running[p] \in TaskState /\ running \in [Worker -> TaskState]
        BY DEF TypeInv, TypeOK
      <4>2. ~ (res.ok /\ res.found # None)
        BY <2>3, <3>1, <3>3, <4>1 DEF IdleTask
      <4>3. running'[p] = [running[p] EXCEPT !.pc = "generate"]
        BY <2>3, <4>1, <4>2
      <4>4. running[p].chunk = c
        BY <3>1, <3>3, <4>1, <4>3
      <4>5. db[c] = None
        BY <2>4, <4>2, <4>4
      <4> QED BY <4>5 DEF Kept
    <3> QED BY <3>2, <3>3
  <2> QED BY <1>1, <2>1, <2>5
<1>9. ASSUME NEW p \in Worker, PrefetchGenerate(p) PROVE Kept'
  <2>1. UNCHANGED <<db, saved, raced, before>>
    BY <1>9 DEF PrefetchGenerate, dataVars, histVars
  <2>2. PICK n \in generate_chunk(running[p].chunk) :
          running' = [running EXCEPT ![p] =
            IF n = None
              THEN IdleTask
              ELSE [running[p] EXCEPT !.pc = IF Persistent THEN "save" ELSE "put", !.nbt = n]]
    BY <1>9 DEF PrefetchGenerate
  <2>3. running[p] \in TaskState /\ running \in [Worker -> TaskState] /\ running[p].pc = "generate"
    BY <1>9 DEF PrefetchGenerate, TypeInv, TypeOK
  <2>4. running'[p] = IdleTask \/ running'[p].chunk = running[p].chunk
    BY <2>2, <2>3
  <2>5. ASSUME NEW c \in Chunk, MissedRow(c)' PROVE MissedRow(c)
    <3>1. PICK o \in Worker : running'[o].chunk = c /\ running'[o].pc \in {"generate", "save"}
      BY <2>5 DEF MissedRow
    <3>2. CASE o # p
      <4>1. running'[o] = running[o]
        BY <2>2, <3>2, <2>3
      <4> QED BY <3>1, <4>1 DEF MissedRow
    <3>3. CASE o = p
      <4>1. running'[p] # IdleTask
        BY <3>1, <3>3 DEF IdleTask
      <4> QED BY <2>3, <2>4, <3>1, <3>3, <4>1 DEF MissedRow
    <3> QED BY <3>2, <3>3
  <2> QED BY <1>1, <2>1, <2>5
<1>10. ASSUME NEW p \in Worker, PrefetchSave(p) PROVE Kept'
  <2> DEFINE k == running[p].chunk
  <2>1. k \in Chunk /\ MissedRow(k)
    BY <1>10 DEF PrefetchSave, TypeInv, TasksOK, MissedRow
  <2>2. saved[k] \ raced = {}
    BY <2>1 DEF Kept
  <2>3. UNCHANGED <<saved, raced, before>>
    BY <1>10 DEF PrefetchSave, histVars
  <2>4. \A c \in Chunk \ {k} : db'[c] = db[c]
    BY <1>10 DEF PrefetchSave, TypeInv, TypeOK
  <2>5. \A o \in Worker : running'[o].chunk = running[o].chunk
                        /\ (running'[o].pc \in {"generate", "save"} => running[o].pc \in {"generate", "save"})
    BY <1>10 DEF PrefetchSave, TypeInv, TypeOK
  <2>6. \A c \in Chunk : MissedRow(c)' => MissedRow(c)
    BY <2>5 DEF MissedRow
  <2> HIDE DEF k
  <2> QED BY <2>2, <2>3, <2>4, <2>6 DEF Kept, Supersedes
<1>11. ASSUME NEW p \in Worker, PrefetchPut(p) PROVE Kept'
  <2>1. UNCHANGED <<db, saved, raced, before>>
    BY <1>11 DEF PrefetchPut, histVars
  <2>2. running'[p].pc = "idle" /\ \A o \in Worker \ {p} : running'[o] = running[o]
    BY <1>11 DEF PrefetchPut, IdleTask, TypeInv, TypeOK
  <2>3. \A c \in Chunk : MissedRow(c)' => MissedRow(c)
    BY <2>2 DEF MissedRow
  <2> QED BY <1>1, <2>1, <2>3
<1>12. CASE Crash
  <2>1. \A c \in Chunk : ~ MissedRow(c)'
    BY <1>12 DEF Crash, IdleTask, MissedRow
  <2> QED BY <1>1, <1>12, <2>1 DEF Crash, histVars
<1>13. ASSUME NEW r \in Requests, DispatchRead(r) PROVE Kept'
  BY <1>2, <1>13 DEF DispatchRead, dataVars, prefetchVars, histVars
<1>14. CASE ReadStep
  BY <1>2, <1>14 DEF ReadStep, ReadHit, ReadMiss, ReadLoad, ReadGenerate, ReadPut, ReadReply,
     dataVars, prefetchVars, histVars
<1>15. ASSUME NEW c \in Chunk, PrefetchCheck(c) PROVE Kept'
  BY <1>2, <1>15 DEF PrefetchCheck, dataVars, histVars
<1>16. CASE UNCHANGED vars
  BY <1>2, <1>16 DEF vars, dataVars, prefetchVars, histVars
<1> QED
  BY <1>3, <1>4, <1>5, <1>6, <1>7, <1>8, <1>9, <1>10, <1>11, <1>12, <1>13, <1>14, <1>15, <1>16
  DEF Next, WriteStep, PrefetchStep

\* The four parts together.
LEMMA NextDurable ==
  ASSUME SavesParse, LoadsAnswer \/ PrefetchRadius = 0
  PROVE  DurableInv /\ [Next]_vars => DurableInv'
<1> SUFFICES ASSUME DurableInv, [Next]_vars PROVE DurableInv'
  OBVIOUS
<1>1. TypeInv' /\ Numbered' /\ Savable'
  BY NextTypes, NextNumbered, NextSavable DEF DurableInv
<1>2. Kept'
  BY NextKept
<1>3. PrefetchRadius = 0 => NoPrefetch'
  BY NextNoPrefetch DEF DurableInv
<1> QED BY <1>1, <1>2, <1>3 DEF DurableInv

\* Saved edits that no prefetch task raced stay in the table, through every
\* interleaving of readers, writers and tasks, every fault but a failed load
\* and every restart.
THEOREM UnracedDurable ==
  ASSUME SavesParse, LoadsAnswer \/ PrefetchRadius = 0
  PROVE  Spec => []DurableUnlessRaced
<1>1. DurableInv => DurableUnlessRaced
  BY DEF DurableInv, Kept, DurableUnlessRaced
<1> QED BY <1>1, InitDurable, NextDurable, PTL DEF Spec

\* Without prefetching no saved edit is lost, whatever fails.
THEOREM AlwaysDurable ==
  ASSUME SavesParse, PrefetchRadius = 0
  PROVE  Spec => []Durable
<1>1. DurableInv => Durable
  BY DEF DurableInv, Kept, NoPrefetch, Durable
<1>2. DurableInv /\ [Next]_vars => DurableInv'
  BY NextDurable
<1> QED BY <1>1, <1>2, InitDurable, PTL DEF Spec

-----------------------------------------------------------------------------
(* What the cache shows.  A save that reports an error has not been applied
   here: one that has would bring an unconfirmed edit back with its next
   load. *)

ErrorsUndone == "commit" \notin Faults

Confirmed(n, c) == n.ver \in saved[c] \cup {0}

TableConfirmed == \A c \in Chunk : db[c] # None => Confirmed(db[c], c)

ReaderConfirmed == rd.pc = "put" => Confirmed(rd.val, Wanted)

WritersConfirmed == \A w \in Writer : wr[w].pc = "put" => Confirmed(wr[w].nbt, wr[w].key)

\* A task carries nothing but what it generated.
TasksGenerated == \A p \in Worker : running[p].pc \in {"save", "put"} => running[p].nbt.ver = 0

PhantomInv ==
  TypeInv /\ NoPhantom /\ TableConfirmed /\ ReaderConfirmed /\ WritersConfirmed /\ TasksGenerated

\* The inductive invariant holds at the start: nothing is shown.
LEMMA InitPhantom == Init => PhantomInv
<1> SUFFICES ASSUME Init PROVE PhantomInv
  OBVIOUS
<1>1. NoPhantom /\ TableConfirmed /\ ReaderConfirmed /\ WritersConfirmed /\ TasksGenerated
  BY DEF Init, NoPhantom, TableConfirmed, ReaderConfirmed, WritersConfirmed, TasksGenerated,
     EmptyCache, contains, IdleRead, IdleWrite, IdleTask
<1> QED BY <1>1, InitTypes DEF PhantomInv

\* Whoever puts a confirmed payload into the cache leaves it showing none but
\* confirmed ones.
LEMMA PutConfirmed ==
  ASSUME TypeInv, NoPhantom, NEW k \in Chunk, NEW n \in Nbt, Confirmed(n, k), saved' = saved,
         cache' = Put(cache, k, compress_and_wrap_chunk(n))
  PROVE  NoPhantom'
<1> DEFINE b == compress_and_wrap_chunk(n)
<1>1. b \in Packet /\ b.nbt = n
  BY PayloadTypes DEF compress_and_wrap_chunk
<1>2. cache' = Put(cache, k, b)
  OBVIOUS
<1> HIDE DEF b
<1>3. /\ cache'.blob[k] = b
      /\ \A c \in Chunk \ {k} : cache'.blob[c] \in {cache.blob[c], NoBlob}
  BY <1>1, <1>2, CacheAfterPut
<1> QED BY <1>1, <1>3 DEF NoPhantom, Confirmed, contains

\* Without the fault "commit", an edit gets into its row only by a save that
\* says so.
LEMMA ErrorsKeepTheRow ==
  ASSUME ErrorsUndone, NEW row \in Row, NEW n \in Nbt, NEW res \in save_chunk(row, n)
  PROVE  res.row = row \/ (res.row # None /\ res.row.ver = n.ver /\ res.ok)
<1>1. Upserted(row, n) = row \/ (Upserted(row, n) \in Nbt /\ Upserted(row, n).ver = n.ver)
  BY DEF Upserted, Nbt
<1>2. res.row = row \/ (res.ok /\ res.row = Upserted(row, n))
  BY DEF save_chunk, ErrorsUndone
<1> QED BY <1>1, <1>2, PayloadTypes

\* What read_at takes up to answer is what the cache or the table shows, or
\* generated.
LEMMA NextReaderConfirmed ==
  ASSUME PhantomInv, [Next]_vars, saved' = saved
  PROVE  ReaderConfirmed'
<1> USE DEF PhantomInv
<1>1. CASE UNCHANGED rd
  BY <1>1 DEF ReaderConfirmed, Confirmed, Wanted
<1>2. CASE rd'.pc # "put"
  BY <1>2 DEF ReaderConfirmed
<1>3. CASE ReadLoad
  <2>1. PICK res \in load_chunk(db[Wanted]) :
          rd' = IF res.found # None /\ verify_chunk_coords(res.found, Wanted)
                  THEN [rd EXCEPT !.pc = "put", !.val = res.found]
                  ELSE [rd EXCEPT !.pc = "generate"]
    BY <1>3 DEF ReadLoad
  <2>2. Wanted \in Chunk
    BY <1>3, WantedType DEF ReadLoad
  <2>3. res.found # None => res.found = db[Wanted]
    BY DEF load_chunk
  <2>4. /\ rd'.req = rd.req /\ rd'.got = rd.got
        /\ rd'.pc = "put" => rd'.val # None /\ rd'.val = db[Wanted]
    BY <2>1, <2>3 DEF TypeInv, TypeOK
  <2> QED BY <2>2, <2>4 DEF ReaderConfirmed, TableConfirmed, Confirmed, Wanted
<1>4. CASE ReadGenerate
  <2>1. PICK n \in generate_chunk(Wanted) :
          rd' = IF n # None /\ verify_chunk_coords(n, Wanted)
                  THEN [rd EXCEPT !.pc = "put", !.val = n]
                  ELSE Broken
    BY <1>4 DEF ReadGenerate
  <2>2. n # None => n.ver = 0
    BY DEF generate_chunk, Generated
  <2>3. rd'.pc = "put" => rd'.val.ver = 0
    BY <2>1, <2>2 DEF Broken, TypeInv, TypeOK
  <2> QED BY <2>3 DEF ReaderConfirmed, Confirmed
<1>5. CASE ReadHit \/ ReadPut
  <2>1. PICK b : rd' = Answered(b)
    BY <1>5 DEF ReadHit, ReadPut
  <2>2. rd'.pc \in {"reply", "lookup"}
    BY <2>1 DEF Answered, TypeInv, TypeOK
  <2> QED BY <1>2, <2>2
<1>6. CASE ReadMiss \/ ReadReply
  <2>1. CASE ReadMiss
    <3>1. PICK q \in {"load", "generate"} : rd' = [rd EXCEPT !.pc = q]
      BY <2>1 DEF ReadMiss
    <3> QED BY <1>2, <3>1 DEF TypeInv, TypeOK
  <2>2. CASE ReadReply
    BY <1>2, <2>2 DEF ReadReply, IdleRead
  <2> QED BY <1>6, <2>1, <2>2
<1>7. ASSUME NEW r \in Requests, DispatchRead(r) PROVE ReaderConfirmed'
  BY <1>2, <1>7 DEF DispatchRead, IdleRead
<1>8. CASE Crash
  BY <1>2, <1>8 DEF Crash, IdleRead
<1>9. ASSUME NEW w \in Writer, NEW c \in Chunk, NEW slot \in Chunk \cup {NoPos},
             DispatchWrite(w, c, slot)
      PROVE  ReaderConfirmed'
  BY <1>1, <1>9 DEF DispatchWrite
<1>10. ASSUME NEW w \in Writer, WriteStep(w) PROVE ReaderConfirmed'
  BY <1>1, <1>10 DEF WriteStep, WriteSave, WritePut, WriteReply
<1>11. ASSUME NEW c \in Chunk, PrefetchCheck(c) PROVE ReaderConfirmed'
  BY <1>1, <1>11 DEF PrefetchCheck
<1>12. ASSUME NEW p \in Worker, PrefetchStep(p) PROVE ReaderConfirmed'
  BY <1>1, <1>12 DEF PrefetchStep, PrefetchAcquire, PrefetchLoad, PrefetchGenerate, PrefetchSave,
     PrefetchPut
<1>13. CASE UNCHANGED vars
  BY <1>1, <1>13 DEF vars
<1> QED
  BY <1>3, <1>4, <1>5, <1>6, <1>7, <1>8, <1>9, <1>10, <1>11, <1>12, <1>13 DEF Next, ReadStep

\* A task that is past its generation has a generated chunk.
LEMMA NextTasksGenerated ==
  ASSUME TypeInv, TasksGenerated, [Next]_vars
  PROVE  TasksGenerated'
<1>0. running \in [Worker -> TaskState]
  BY DEF TypeInv, TypeOK
<1>1. CASE UNCHANGED running
  BY <1>1 DEF TasksGenerated
<1>2. ASSUME NEW p \in Worker, PrefetchAcquire(p) PROVE TasksGenerated'
  BY <1>0, <1>2 DEF PrefetchAcquire, IdleTask, TasksGenerated
<1>3. ASSUME NEW p \in Worker, PrefetchLoad(p) PROVE TasksGenerated'
  <2>1. running'[p].pc \in {"idle", "generate"}
    BY <1>0, <1>3 DEF PrefetchLoad, IdleTask
  <2> QED BY <1>0, <1>3, <2>1 DEF PrefetchLoad, TasksGenerated
<1>4. ASSUME NEW p \in Worker, PrefetchGenerate(p) PROVE TasksGenerated'
  <2>1. PICK n \in generate_chunk(running[p].chunk) :
          running' = [running EXCEPT ![p] =
            IF n = None
              THEN IdleTask
              ELSE [running[p] EXCEPT !.pc = IF Persistent THEN "save" ELSE "put", !.nbt = n]]
    BY <1>4 DEF PrefetchGenerate
  <2>2. n # None => n.ver = 0
    BY DEF generate_chunk, Generated
  <2>3. running'[p] = IdleTask \/ (n # None /\ running'[p].nbt = n)
    BY <1>0, <2>1
  <2>4. \A o \in Worker \ {p} : running'[o] = running[o]
    BY <1>0, <2>1
  <2> QED BY <2>2, <2>3, <2>4 DEF TasksGenerated, IdleTask
<1>5. ASSUME NEW p \in Worker, PrefetchSave(p) PROVE TasksGenerated'
  BY <1>0, <1>5 DEF PrefetchSave, TasksGenerated
<1>6. ASSUME NEW p \in Worker, PrefetchPut(p) PROVE TasksGenerated'
  BY <1>0, <1>6 DEF PrefetchPut, IdleTask, TasksGenerated
<1>7. CASE Crash
  BY <1>7 DEF Crash, IdleTask, TasksGenerated
<1>8. ASSUME NEW r \in Requests, DispatchRead(r) PROVE TasksGenerated'
  BY <1>1, <1>8 DEF DispatchRead, prefetchVars
<1>9. CASE ReadStep
  BY <1>1, <1>9 DEF ReadStep, ReadHit, ReadMiss, ReadLoad, ReadGenerate, ReadPut, ReadReply,
     prefetchVars
<1>10. ASSUME NEW w \in Writer, NEW c \in Chunk, NEW slot \in Chunk \cup {NoPos},
             DispatchWrite(w, c, slot)
      PROVE  TasksGenerated'
  BY <1>1, <1>10 DEF DispatchWrite, prefetchVars
<1>11. ASSUME NEW w \in Writer, WriteStep(w) PROVE TasksGenerated'
  BY <1>1, <1>11 DEF WriteStep, WriteSave, WritePut, WriteReply, prefetchVars
<1>12. ASSUME NEW c \in Chunk, PrefetchCheck(c) PROVE TasksGenerated'
  BY <1>1, <1>12 DEF PrefetchCheck
<1>13. CASE UNCHANGED vars
  BY <1>1, <1>13 DEF vars, prefetchVars
<1> QED
  BY <1>2, <1>3, <1>4, <1>5, <1>6, <1>7, <1>8, <1>9, <1>10, <1>11, <1>12, <1>13
  DEF Next, PrefetchStep

\* Once a version is saved it stays saved, and nobody but its own writer adds
\* it.
LEMMA NextWritersConfirmed ==
  ASSUME TypeInv, WritersConfirmed, [Next]_vars
  PROVE  /\ WritersConfirmed'
         /\ \A c \in Chunk : saved[c] \subseteq saved'[c]
<1>0. /\ wr \in [Writer -> WriteState]
      /\ saved \in [Chunk -> SUBSET Version]
  BY DEF TypeInv, TypeOK
<1>1. ASSUME UNCHANGED saved,
             \A w \in Writer : wr'[w] = wr[w] \/ wr'[w].pc # "put"
      PROVE  /\ WritersConfirmed'
             /\ \A c \in Chunk : saved[c] \subseteq saved'[c]
  BY <1>1 DEF WritersConfirmed, Confirmed
<1>2. ASSUME NEW w \in Writer, NEW c \in Chunk, NEW slot \in Chunk \cup {NoPos},
             DispatchWrite(w, c, slot)
      PROVE  UNCHANGED saved /\ \A x \in Writer : wr'[x] = wr[x] \/ wr'[x].pc # "put"
  BY <1>0, <1>2 DEF DispatchWrite
<1>3. ASSUME NEW w \in Writer, WriteSave(w)
      PROVE  /\ WritersConfirmed'
             /\ \A c \in Chunk : saved[c] \subseteq saved'[c]
  <2> DEFINE k == wr[w].key
             n == wr[w].nbt
  <2>1. PICK res \in save_chunk(db[k], n) :
          /\ wr' = [wr EXCEPT ![w].pc = IF res.ok THEN "put" ELSE "reply"]
          /\ saved' = IF res.ok THEN [saved EXCEPT ![k] = @ \cup {n.ver}] ELSE saved
    BY <1>3 DEF WriteSave
  <2>2. k \in Chunk
    BY <1>3 DEF WriteSave, TypeInv, WritersOK
  <2>3. \A x \in Writer \ {w} : wr'[x] = wr[x]
    BY <1>0, <2>1
  <2>4. /\ wr'[w].key = k /\ wr'[w].nbt = n
        /\ wr'[w].pc = "put" => res.ok
    BY <1>0, <2>1
  <2> HIDE DEF k, n
  <2>5. \A c \in Chunk : saved[c] \subseteq saved'[c]
    BY <1>0, <2>1, <2>2
  <2>6. res.ok => n.ver \in saved'[k]
    BY <1>0, <2>1, <2>2
  <2>7. \A x \in Writer \ {w} : wr[x].pc = "put" => wr[x].key \in Chunk
    BY DEF TypeInv, WritersOK
  <2> QED BY <2>3, <2>4, <2>5, <2>6, <2>7 DEF WritersConfirmed, Confirmed
<1>4. ASSUME NEW w \in Writer, WritePut(w) \/ WriteReply(w)
      PROVE  UNCHANGED saved /\ \A x \in Writer : wr'[x] = wr[x] \/ wr'[x].pc # "put"
  <2>1. \A x \in Writer \ {w} : wr'[x] = wr[x]
    BY <1>0, <1>4 DEF WritePut, WriteReply
  <2>2. CASE WritePut(w)
    BY <1>0, <2>1, <2>2 DEF WritePut, histVars
  <2>3. CASE WriteReply(w)
    BY <1>0, <2>1, <2>3 DEF WriteReply, IdleWrite
  <2> QED BY <1>4, <2>2, <2>3
<1>5. CASE Crash
  <2>1. UNCHANGED saved /\ \A x \in Writer : wr'[x] = wr[x] \/ wr'[x].pc # "put"
    BY <1>5 DEF Crash, IdleWrite, histVars
  <2> QED BY <1>1, <2>1
<1>6. ASSUME NEW r \in Requests, DispatchRead(r) PROVE UNCHANGED <<wr, saved>>
  BY <1>6 DEF DispatchRead, histVars
<1>7. ASSUME ReadStep PROVE UNCHANGED <<wr, saved>>
  BY <1>7 DEF ReadStep, ReadHit, ReadMiss, ReadLoad, ReadGenerate, ReadPut, ReadReply, histVars
<1>8. ASSUME NEW c \in Chunk, PrefetchCheck(c) PROVE UNCHANGED <<wr, saved>>
  BY <1>8 DEF PrefetchCheck, histVars
<1>9. ASSUME NEW p \in Worker, PrefetchStep(p) PROVE UNCHANGED <<wr, saved>>
  BY <1>9 DEF PrefetchStep, PrefetchAcquire, PrefetchLoad, PrefetchGenerate, PrefetchSave,
     PrefetchPut, histVars
<1>10. CASE UNCHANGED <<wr, saved>>
  BY <1>1, <1>10
<1>11. CASE UNCHANGED vars
  BY <1>10, <1>11 DEF vars, histVars
<1> QED
  BY <1>1, <1>2, <1>3, <1>4, <1>5, <1>6, <1>7, <1>8, <1>9, <1>10, <1>11 DEF Next, WriteStep

\* No step brings an unconfirmed edit into the cache or the table.
LEMMA NextPhantom ==
  ASSUME ErrorsUndone, PhantomInv, [Next]_vars
  PROVE  PhantomInv'
<1> USE DEF PhantomInv
<1>1. TypeInv' /\ WritersConfirmed' /\ TasksGenerated'
  BY NextTypes, NextWritersConfirmed, NextTasksGenerated
<1>2. \A c \in Chunk : saved[c] \subseteq saved'[c]
  BY NextWritersConfirmed
<1>3. ASSUME UNCHANGED dataVars, ReaderConfirmed' PROVE PhantomInv'
  BY <1>1, <1>2, <1>3 DEF dataVars, NoPhantom, TableConfirmed, Confirmed
<1>4. ASSUME UNCHANGED <<dataVars, saved>> PROVE PhantomInv'
  BY <1>3, <1>4, NextReaderConfirmed
<1>5. CASE ReadHit
  <2>1. Wanted \in Chunk
    BY <1>5, WantedType DEF ReadHit
  <2>2. cache'.blob = cache.blob /\ saved' = saved /\ db' = db
    BY <1>5, <2>1, CacheAfterTouch DEF ReadHit, histVars
  <2>3. NoPhantom' /\ TableConfirmed'
    BY <2>2 DEF NoPhantom, contains, TableConfirmed, Confirmed
  <2> QED BY <1>1, <2>2, <2>3, NextReaderConfirmed
<1>6. CASE ReadPut
  <2>1. Wanted \in Chunk /\ rd.val \in Nbt /\ Confirmed(rd.val, Wanted)
    BY <1>6, WantedType DEF ReadPut, TypeInv, ReaderOK, ReaderConfirmed
  <2>2. saved' = saved /\ db' = db
    BY <1>6 DEF ReadPut, histVars
  <2>3. NoPhantom'
    BY <1>6, <2>1, <2>2, PutConfirmed DEF ReadPut
  <2> QED BY <1>1, <2>2, <2>3, NextReaderConfirmed DEF TableConfirmed, Confirmed
<1>7. ASSUME NEW w \in Writer, WriteSave(w) PROVE PhantomInv'
  <2> DEFINE k == wr[w].key
             n == wr[w].nbt
  <2>1. /\ k \in Chunk /\ n \in Nbt
        /\ db[k] \in Row
    BY <1>7 DEF WriteSave, TypeInv, TypeOK, WritersOK
  <2>2. PICK res \in save_chunk(db[k], n) :
          /\ db' = [db EXCEPT ![k] = res.row]
          /\ saved' = IF res.ok THEN [saved EXCEPT ![k] = @ \cup {n.ver}] ELSE saved
    BY <1>7 DEF WriteSave
  <2>3. res.row = db[k] \/ (res.row # None /\ res.row.ver = n.ver /\ res.ok)
    BY <2>1, <2>2, ErrorsKeepTheRow
  <2>4. cache' = cache /\ rd' = rd
    BY <1>7 DEF WriteSave
  <2> HIDE DEF k, n
  <2>5. res.ok => n.ver \in saved'[k]
    BY <2>1, <2>2 DEF TypeInv, TypeOK
  <2>6. db'[k] = res.row /\ \A c \in Chunk \ {k} : db'[c] = db[c]
    BY <2>1, <2>2 DEF TypeInv, TypeOK
  <2>7. TableConfirmed'
    BY <1>2, <2>1, <2>3, <2>5, <2>6 DEF TableConfirmed, Confirmed
  <2>8. NoPhantom'
    BY <1>2, <2>4 DEF NoPhantom
  <2>9. ReaderConfirmed'
    <3>1. rd.pc = "put" => Wanted \in Chunk
      BY WantedType
    <3> QED BY <1>2, <2>4, <3>1 DEF ReaderConfirmed, Confirmed, Wanted
  <2> QED BY <1>1, <2>7, <2>8, <2>9
<1>8. ASSUME NEW w \in Writer, WritePut(w) PROVE PhantomInv'
  <2>1. wr[w].key \in Chunk /\ wr[w].nbt \in Nbt /\ Confirmed(wr[w].nbt, wr[w].key)
    BY <1>8 DEF WritePut, TypeInv, WritersOK, WritersConfirmed
  <2>2. saved' = saved /\ db' = db
    BY <1>8 DEF WritePut, histVars
  <2>3. NoPhantom'
    BY <1>8, <2>1, <2>2, PutConfirmed DEF WritePut
  <2> QED BY <1>1, <2>2, <2>3, NextReaderConfirmed DEF TableConfirmed, Confirmed
<1>9. ASSUME NEW p \in Worker, PrefetchSave(p) PROVE PhantomInv'
  <2> DEFINE k == running[p].chunk
             n == running[p].nbt
  <2>1. /\ k \in Chunk /\ n \in Nbt /\ n.ver = 0
        /\ db[k] \in Row
    BY <1>9 DEF PrefetchSave, TypeInv, TypeOK, TasksOK, TasksGenerated
  <2>2. PICK res \in save_chunk(db[k], n) : db' = [db EXCEPT ![k] = res.row]
    BY <1>9 DEF PrefetchSave
  <2>3. res.row = db[k] \/ (res.row # None /\ res.row.ver = 0)
    BY <2>1, <2>2, ErrorsKeepTheRow
  <2>4. cache' = cache /\ saved' = saved
    BY <1>9 DEF PrefetchSave, histVars
  <2> HIDE DEF k, n
  <2>5. TableConfirmed'
    BY <2>1, <2>2, <2>3, <2>4 DEF TableConfirmed, Confirmed, TypeInv, TypeOK
  <2> QED BY <1>1, <2>4, <2>5, NextReaderConfirmed DEF NoPhantom
<1>10. ASSUME NEW p \in Worker, PrefetchPut(p) PROVE PhantomInv'
  <2>1. /\ running[p].chunk \in Chunk /\ running[p].nbt \in Nbt
        /\ Confirmed(running[p].nbt, running[p].chunk)
    BY <1>10 DEF PrefetchPut, TypeInv, TasksOK, TasksGenerated, Confirmed
  <2>2. saved' = saved /\ db' = db
    BY <1>10 DEF PrefetchPut, histVars
  <2>3. NoPhantom'
    BY <1>10, <2>1, <2>2, PutConfirmed DEF PrefetchPut
  <2> QED BY <1>1, <2>2, <2>3, NextReaderConfirmed DEF TableConfirmed, Confirmed
<1>11. CASE Crash
  <2>1. NoPhantom'
    BY <1>11 DEF Crash, EmptyCache, contains, NoPhantom
  <2>2. db' = db /\ saved' = saved
    BY <1>11 DEF Crash, histVars
  <2> QED BY <1>1, <2>1, <2>2, NextReaderConfirmed DEF TableConfirmed, Confirmed
<1>12. ASSUME NEW r \in Requests, DispatchRead(r) PROVE PhantomInv'
  BY <1>4, <1>12 DEF DispatchRead, histVars
<1>13. CASE ReadMiss \/ ReadLoad \/ ReadGenerate \/ ReadReply
  BY <1>4, <1>13 DEF ReadMiss, ReadLoad, ReadGenerate, ReadReply, histVars
<1>14. ASSUME NEW w \in Writer, NEW c \in Chunk, NEW slot \in Chunk \cup {NoPos},
             DispatchWrite(w, c, slot)
      PROVE  PhantomInv'
  BY <1>4, <1>14 DEF DispatchWrite
<1>15. ASSUME NEW w \in Writer, WriteReply(w) PROVE PhantomInv'
  BY <1>4, <1>15 DEF WriteReply
<1>16. ASSUME NEW c \in Chunk, PrefetchCheck(c) PROVE PhantomInv'
  BY <1>4, <1>16 DEF PrefetchCheck, histVars
<1>17. ASSUME NEW p \in Worker, PrefetchAcquire(p) \/ PrefetchLoad(p) \/ PrefetchGenerate(p)
       PROVE  PhantomInv'
  BY <1>4, <1>17 DEF PrefetchAcquire, PrefetchLoad, PrefetchGenerate, histVars
<1>18. CASE UNCHANGED vars
  BY <1>4, <1>18 DEF vars, histVars
<1> QED
  BY <1>5, <1>6, <1>7, <1>8, <1>9, <1>10, <1>11, <1>12, <1>13, <1>14, <1>15, <1>16, <1>17, <1>18
  DEF Next, ReadStep, WriteStep, PrefetchStep

\* However reads, writes, tasks, evictions and restarts interleave, a client is
\* never shown an edit whose save was not confirmed, if a save that fails
\* leaves the table as it was.
THEOREM NeverPhantom ==
  ASSUME ErrorsUndone
  PROVE  Spec => []NoPhantom
<1>1. PhantomInv => NoPhantom
  BY DEF PhantomInv
<1>2. PhantomInv /\ [Next]_vars => PhantomInv'
  BY NextPhantom
<1> QED BY <1>1, <1>2, InitPhantom, PTL DEF Spec

-----------------------------------------------------------------------------
(* What takes an edit out of the table: nothing but a task that found no row. *)

\* Without a database nobody is on the way to it.
NoTable ==
  ~ Persistent =>
    /\ \A c \in Chunk : db[c] = None
    /\ \A w \in Writer : wr[w].pc # "save"
    /\ \A p \in Worker : running[p].pc # "save"

\* An edit that is in the table while a task is past its load came in after it.
RacedRows ==
  \A c \in Chunk : MissedRow(c) /\ db[c] # None /\ db[c].ver # 0 => db[c].ver \in raced

RevertInv ==
  TypeInv /\ TasksGenerated /\ NoTable /\ RacedRows /\ (PrefetchRadius = 0 => NoPrefetch)

\* The inductive invariant holds at the start: the table is empty.
LEMMA InitRevert == Init => RevertInv
<1> SUFFICES ASSUME Init PROVE RevertInv
  OBVIOUS
<1>1. TasksGenerated /\ NoTable /\ RacedRows /\ NoPrefetch
  BY DEF Init, TasksGenerated, NoTable, RacedRows, NoPrefetch, IdleWrite, IdleTask
<1> QED BY <1>1, InitTypes DEF RevertInv

\* Nobody starts a save without a database.
LEMMA NextNoTable ==
  ASSUME TypeInv, NoTable, [Next]_vars
  PROVE  NoTable'
<1> SUFFICES ASSUME ~ Persistent PROVE NoTable'
  BY DEF NoTable, Persistent
<1>0. /\ wr \in [Writer -> WriteState] /\ running \in [Worker -> TaskState]
      /\ \A c \in Chunk : db[c] = None
      /\ \A w \in Writer : wr[w].pc # "save"
      /\ \A p \in Worker : running[p].pc # "save"
  BY DEF TypeInv, TypeOK, NoTable
<1>1. ASSUME UNCHANGED db,
             \A w \in Writer : wr'[w] = wr[w] \/ wr'[w].pc # "save",
             \A p \in Worker : running'[p] = running[p] \/ running'[p].pc # "save"
      PROVE  NoTable'
  BY <1>0, <1>1 DEF NoTable
<1>2. ASSUME NEW w \in Writer, NEW c \in Chunk, NEW slot \in Chunk \cup {NoPos},
             DispatchWrite(w, c, slot)
      PROVE  NoTable'
  <2>1. PICK d \in WritePackets(c, nwrites') :
          wr' = [wr EXCEPT ![w] =
            IF slot # NoPos /\ unwraps(d)
              THEN [pc |-> IF Persistent THEN "save" ELSE "reply",
                    key |-> SaveKey(slot, unwrap_and_decompress_chunk(d)),
                    nbt |-> unwrap_and_decompress_chunk(d)]
              ELSE [pc |-> "reply", key |-> NoPos, nbt |-> unwrap_and_decompress_chunk(d)]]
    BY <1>2 DEF DispatchWrite
  <2>2. \A x \in Writer : wr'[x] = wr[x] \/ wr'[x].pc # "save"
    BY <1>0, <2>1
  <2> QED BY <1>1, <1>2, <2>2 DEF DispatchWrite, dataVars, prefetchVars
<1>3. ASSUME NEW w \in Writer, WriteStep(w) PROVE NoTable'
  <2>1. UNCHANGED <<db, running>>
    BY <1>0, <1>3 DEF WriteStep, WriteSave, WritePut, WriteReply, dataVars, prefetchVars
  <2>2. \A x \in Writer \ {w} : wr'[x] = wr[x]
    BY <1>0, <1>3 DEF WriteStep, WriteSave, WritePut, WriteReply
  <2>3. CASE WritePut(w)
    BY <1>0, <1>1, <2>1, <2>2, <2>3 DEF WritePut
  <2>4. CASE WriteReply(w)
    BY <1>0, <1>1, <2>1, <2>2, <2>4 DEF WriteReply, IdleWrite
  <2> QED BY <1>0, <1>3, <2>3, <2>4 DEF WriteStep, WriteSave
<1>4. ASSUME NEW p \in Worker, PrefetchStep(p) PROVE NoTable'
  <2>1. UNCHANGED <<db, wr>>
    BY <1>0, <1>4 DEF PrefetchStep, PrefetchAcquire, PrefetchLoad, PrefetchGenerate, PrefetchSave,
       PrefetchPut, dataVars
  <2>2. \A o \in Worker \ {p} : running'[o] = running[o]
    BY <1>0, <1>4 DEF PrefetchStep, PrefetchAcquire, PrefetchLoad, PrefetchGenerate, PrefetchSave,
       PrefetchPut
  <2>3. CASE PrefetchAcquire(p)
    BY <1>0, <1>1, <2>1, <2>2, <2>3 DEF PrefetchAcquire, IdleTask
  <2>4. CASE PrefetchLoad(p)
    <3>1. running'[p].pc \in {"idle", "generate"}
      BY <1>0, <2>4 DEF PrefetchLoad, IdleTask
    <3> QED BY <1>1, <2>1, <2>2, <3>1
  <2>5. CASE PrefetchGenerate(p)
    <3>1. PICK n \in generate_chunk(running[p].chunk) :
            running' = [running EXCEPT ![p] =
              IF n = None THEN IdleTask ELSE [running[p] EXCEPT !.pc = "put", !.nbt = n]]
      BY <2>5 DEF PrefetchGenerate
    <3>2. running'[p].pc \in {"idle", "put"}
      BY <1>0, <3>1 DEF IdleTask
    <3> QED BY <1>1, <2>1, <2>2, <3>2
  <2>6. CASE PrefetchPut(p)
    BY <1>0, <1>1, <2>1, <2>2, <2>6 DEF PrefetchPut, IdleTask
  <2> QED BY <1>0, <1>4, <2>3, <2>4, <2>5, <2>6 DEF PrefetchStep, PrefetchSave
<1>5. CASE Crash
  BY <1>1, <1>5 DEF Crash, IdleWrite, IdleTask
<1>6. ASSUME NEW r \in Requests, DispatchRead(r) PROVE NoTable'
  BY <1>1, <1>6 DEF DispatchRead, dataVars, prefetchVars
<1>7. CASE ReadStep
  BY <1>1, <1>7 DEF ReadStep, ReadHit, ReadMiss, ReadLoad, ReadGenerate, ReadPut, ReadReply,
     dataVars, prefetchVars
<1>8. ASSUME NEW c \in Chunk, PrefetchCheck(c) PROVE NoTable'
  BY <1>1, <1>8 DEF PrefetchCheck, dataVars
<1>9. CASE UNCHANGED vars
  BY <1>1, <1>9 DEF vars, dataVars, prefetchVars
<1> QED BY <1>2, <1>3, <1>4, <1>5, <1>6, <1>7, <1>8, <1>9 DEF Next

\* Which tasks are past a load that found nothing: those that were, and one
\* whose load has just been answered with an empty row.
LEMMA NextMissed ==
  ASSUME LoadsAnswer \/ PrefetchRadius = 0, RevertInv, [Next]_vars,
         NEW c \in Chunk, MissedRow(c)', ~ MissedRow(c)
  PROVE  db[c] = None /\ UNCHANGED <<db, raced>>
<1> USE DEF RevertInv
<1>0. /\ running \in [Worker -> TaskState]
      /\ waiting \in Seq(Chunk)
      /\ \A c1 \in Chunk : ~ Persistent => db[c1] = None
  BY DEF TypeInv, TypeOK, NoTable
<1>1. PICK o \in Worker : running'[o].chunk = c /\ running'[o].pc \in {"generate", "save"}
  BY DEF MissedRow
<1>2. ~ (running[o].chunk = c /\ running[o].pc \in {"generate", "save"})
  BY DEF MissedRow
<1>3. ASSUME NEW p \in Worker, PrefetchStep(p)
      PROVE  db[c] = None /\ UNCHANGED <<db, raced>>
  <2>1. o = p
    BY <1>0, <1>1, <1>2, <1>3 DEF PrefetchStep, PrefetchAcquire, PrefetchLoad, PrefetchGenerate,
       PrefetchSave, PrefetchPut
  <2>2. CASE PrefetchAcquire(p)
    <3>1. ~ Persistent
      BY <1>0, <1>1, <2>1, <2>2 DEF PrefetchAcquire, IdleTask
    <3> QED BY <1>0, <2>2, <3>1 DEF PrefetchAcquire, dataVars, histVars
  <2>3. CASE PrefetchLoad(p)
    <3>1. LoadsAnswer
      BY <2>3 DEF PrefetchLoad, NoPrefetch
    <3>2. PICK res \in load_chunk(db[running[p].chunk]) :
            running' = [running EXCEPT ![p] =
              IF res.ok /\ res.found # None THEN IdleTask ELSE [running[p] EXCEPT !.pc = "generate"]]
      BY <2>3 DEF PrefetchLoad
    <3>3. res.ok /\ res.found = db[running[p].chunk]
      BY <3>1 DEF load_chunk, LoadsAnswer
    <3>4. CASE res.found # None
      BY <1>0, <1>1, <2>1, <3>2, <3>3, <3>4 DEF IdleTask
    <3>5. CASE res.found = None
      <4>1. running'[p] = [running[p] EXCEPT !.pc = "generate"]
        BY <1>0, <3>2, <3>5
      <4>2. running[p].chunk = c
        BY <1>0, <1>1, <2>1, <4>1
      <4> QED BY <2>3, <3>3, <3>5, <4>2 DEF PrefetchLoad, dataVars, histVars
    <3> QED BY <3>4, <3>5
  <2>4. CASE PrefetchGenerate(p)
    <3>1. PICK n \in generate_chunk(running[p].chunk) :
            running' = [running EXCEPT ![p] =
              IF n = None
                THEN IdleTask
                ELSE [running[p] EXCEPT !.pc = IF Persistent THEN "save" ELSE "put", !.nbt = n]]
      BY <2>4 DEF PrefetchGenerate
    <3>2. running'[p] = IdleTask \/ running'[p].chunk = running[p].chunk
      BY <1>0, <3>1
    <3>3. running'[p] # IdleTask
      BY <1>1, <2>1 DEF IdleTask
    <3> QED BY <1>1, <1>2, <2>1, <2>4, <3>2, <3>3 DEF PrefetchGenerate
  <2>5. CASE PrefetchSave(p)
    BY <1>0, <1>1, <1>2, <2>1, <2>5 DEF PrefetchSave
  <2>6. CASE PrefetchPut(p)
    BY <1>0, <1>1, <2>1, <2>6 DEF PrefetchPut, IdleTask
  <2> QED BY <1>3, <2>2, <2>3, <2>4, <2>5, <2>6 DEF PrefetchStep
<1>4. CASE UNCHANGED running
  BY <1>1, <1>2, <1>4
<1>5. CASE Crash
  BY <1>1, <1>5 DEF Crash, IdleTask
<1>6. ASSUME NEW r \in Requests, DispatchRead(r) PROVE UNCHANGED running
  BY <1>6 DEF DispatchRead, prefetchVars
<1>7. ASSUME ReadStep PROVE UNCHANGED running
  BY <1>7 DEF ReadStep, ReadHit, ReadMiss, ReadLoad, ReadGenerate, ReadPut, ReadReply, prefetchVars
<1>8. ASSUME NEW w \in Writer, NEW k \in Chunk, NEW slot \in Chunk \cup {NoPos},
             DispatchWrite(w, k, slot)
      PROVE  UNCHANGED running
  BY <1>8 DEF DispatchWrite, prefetchVars
<1>9. ASSUME NEW w \in Writer, WriteStep(w) PROVE UNCHANGED running
  BY <1>9 DEF WriteStep, WriteSave, WritePut, WriteReply, prefetchVars
<1>10. ASSUME NEW k \in Chunk, PrefetchCheck(k) PROVE UNCHANGED running
  BY <1>10 DEF PrefetchCheck
<1>11. CASE UNCHANGED vars
  BY <1>4, <1>11 DEF vars, prefetchVars
<1> QED BY <1>3, <1>4, <1>5, <1>6, <1>7, <1>8, <1>9, <1>10, <1>11 DEF Next

\* The only steps that touch the table, and what each leaves in it.
LEMMA TableSteps ==
  ASSUME RevertInv, [Next]_vars
  PROVE  \/ db' = db /\ raced \subseteq raced'
         \/ \E w \in Writer, k \in Chunk, r \in Row, v \in Version :
              /\ wr[w].pc = "save"
              /\ r = db[k] \/ (r # None /\ r.ver = v)
              /\ db' = [db EXCEPT ![k] = r]
              /\ raced \subseteq raced'
              /\ MissedRow(k) => v \in raced'
         \/ \E p \in Worker, r \in Row :
              /\ running[p].pc = "save" /\ running[p].chunk \in Chunk
              /\ r = db[running[p].chunk] \/ (r # None /\ r.ver = 0)
              /\ db' = [db EXCEPT ![running[p].chunk] = r]
              /\ raced' = raced
<1> USE DEF RevertInv
<1>0. ASSUME NEW row \in Row, NEW n \in Nbt, NEW res \in save_chunk(row, n)
      PROVE  res.row \in Row /\ (res.row = row \/ (res.row # None /\ res.row.ver = n.ver))
  <2>1. Upserted(row, n) = row \/ (Upserted(row, n) \in Nbt /\ Upserted(row, n).ver = n.ver)
    BY DEF Upserted, Nbt
  <2>2. res.row = row \/ res.row = Upserted(row, n)
    BY DEF save_chunk
  <2> QED BY <2>1, <2>2, PayloadTypes DEF Row
<1>1. ASSUME NEW w \in Writer, WriteSave(w)
      PROVE  \E k \in Chunk, r \in Row, v \in Version :
              /\ wr[w].pc = "save"
              /\ r = db[k] \/ (r # None /\ r.ver = v)
              /\ db' = [db EXCEPT ![k] = r]
              /\ raced \subseteq raced'
              /\ MissedRow(k) => v \in raced'
  <2> DEFINE k == wr[w].key
             n == wr[w].nbt
  <2>1. k \in Chunk /\ n \in Nbt /\ n.ver \in Version /\ db[k] \in Row /\ wr[w].pc = "save"
    BY <1>1 DEF WriteSave, TypeInv, TypeOK, WritersOK
  <2>2. PICK res \in save_chunk(db[k], n) :
          /\ db' = [db EXCEPT ![k] = res.row]
          /\ raced' = IF MissedRow(k) THEN raced \cup {n.ver} ELSE raced
    BY <1>1 DEF WriteSave
  <2> HIDE DEF k, n
  <2>3. res.row \in Row /\ (res.row = db[k] \/ (res.row # None /\ res.row.ver = n.ver))
    BY <1>0, <2>1, <2>2
  <2>4. raced \subseteq raced' /\ (MissedRow(k) => n.ver \in raced')
    BY <2>2
  <2> QED BY <2>1, <2>2, <2>3, <2>4
<1>2. ASSUME NEW p \in Worker, PrefetchSave(p)
      PROVE  \E r \in Row :
              /\ running[p].pc = "save" /\ running[p].chunk \in Chunk
              /\ r = db[running[p].chunk] \/ (r # None /\ r.ver = 0)
              /\ db' = [db EXCEPT ![running[p].chunk] = r]
              /\ raced' = raced
  <2> DEFINE k == running[p].chunk
             n == running[p].nbt
  <2>1. k \in Chunk /\ n \in Nbt /\ n.ver = 0 /\ db[k] \in Row /\ running[p].pc = "save"
    BY <1>2 DEF PrefetchSave, TypeInv, TypeOK, TasksOK, TasksGenerated
  <2>2. PICK res \in save_chunk(db[k], n) : db' = [db EXCEPT ![k] = res.row]
    BY <1>2 DEF PrefetchSave
  <2>3. raced' = raced
    BY <1>2 DEF PrefetchSave, histVars
  <2> HIDE DEF k, n
  <2>4. res.row \in Row /\ (res.row = db[k] \/ (res.row # None /\ res.row.ver = n.ver))
    BY <1>0, <2>1, <2>2
  <2> QED BY <2>1, <2>2, <2>3, <2>4 DEF k
<1>3. ASSUME NEW w \in Writer, WritePut(w) \/ WriteReply(w) PROVE UNCHANGED <<db, raced>>
  BY <1>3 DEF WritePut, WriteReply, dataVars, histVars
<1>4. ASSUME NEW p \in Worker, PrefetchAcquire(p) \/ PrefetchLoad(p) \/ PrefetchGenerate(p)
                                 \/ PrefetchPut(p)
      PROVE  UNCHANGED <<db, raced>>
  BY <1>4 DEF PrefetchAcquire, PrefetchLoad, PrefetchGenerate, PrefetchPut, dataVars, histVars
<1>5. CASE Crash
  BY <1>5 DEF Crash, histVars
<1>6. ASSUME NEW r \in Requests, DispatchRead(r) PROVE UNCHANGED <<db, raced>>
  BY <1>6 DEF DispatchRead, dataVars, histVars
<1>7. ASSUME ReadStep PROVE UNCHANGED <<db, raced>>
  BY <1>7 DEF ReadStep, ReadHit, ReadMiss, ReadLoad, ReadGenerate, ReadPut, ReadReply, dataVars,
     histVars
<1>8. ASSUME NEW w \in Writer, NEW k \in Chunk, NEW slot \in Chunk \cup {NoPos},
             DispatchWrite(w, k, slot)
      PROVE  UNCHANGED <<db, raced>>
  BY <1>8 DEF DispatchWrite, dataVars
<1>9. ASSUME NEW k \in Chunk, PrefetchCheck(k) PROVE UNCHANGED <<db, raced>>
  BY <1>9 DEF PrefetchCheck, dataVars, histVars
<1>10. CASE UNCHANGED vars
  BY <1>10 DEF vars, dataVars, histVars
<1> QED
  BY <1>1, <1>2, <1>3, <1>4, <1>5, <1>6, <1>7, <1>8, <1>9, <1>10 DEF Next, WriteStep, PrefetchStep

\* The four parts together.
LEMMA NextRevert ==
  ASSUME LoadsAnswer \/ PrefetchRadius = 0
  PROVE  RevertInv /\ [Next]_vars => RevertInv'
<1> SUFFICES ASSUME RevertInv, [Next]_vars PROVE RevertInv'
  OBVIOUS
<1> USE DEF RevertInv
<1>1. TypeInv' /\ TasksGenerated' /\ NoTable' /\ (PrefetchRadius = 0 => NoPrefetch')
  BY NextTypes, NextTasksGenerated, NextNoTable, NextNoPrefetch
<1>2. RacedRows'
  <2> SUFFICES ASSUME NEW c \in Chunk, MissedRow(c)', db'[c] # None, db'[c].ver # 0
               PROVE  db'[c].ver \in raced'
    BY DEF RacedRows
  <2>1. CASE ~ MissedRow(c)
    BY <2>1, NextMissed
  <2>2. CASE MissedRow(c)
    <3>0. db \in [Chunk -> Row]
      BY DEF TypeInv, TypeOK
    <3>1. db[c] # None /\ db[c].ver # 0 => db[c].ver \in raced
      BY <2>2 DEF RacedRows
    <3>2. CASE db' = db /\ raced \subseteq raced'
      BY <3>1, <3>2
    <3>3. ASSUME NEW k \in Chunk, NEW r \in Row, NEW v \in Version,
                 r = db[k] \/ (r # None /\ r.ver = v), db' = [db EXCEPT ![k] = r],
                 raced \subseteq raced', MissedRow(k) => v \in raced'
          PROVE  db'[c].ver \in raced'
      BY <2>2, <3>0, <3>1, <3>3
    <3>4. ASSUME NEW k \in Chunk, NEW r \in Row, r = db[k] \/ (r # None /\ r.ver = 0),
                 db' = [db EXCEPT ![k] = r], raced' = raced
          PROVE  db'[c].ver \in raced'
      BY <3>0, <3>1, <3>4
    <3> QED BY TableSteps, <3>2, <3>3, <3>4
  <2> QED BY <2>1, <2>2
<1> QED BY <1>1, <1>2

\* No step but a prefetch task's save turns the row of an edit back into the
\* generated chunk, and only for an edit that was saved after the task had
\* found no row; for every instance whose loads are answered or that
\* prefetches nothing.
THEOREM NeverReverts ==
  ASSUME LoadsAnswer \/ PrefetchRadius = 0
  PROVE  Spec => NoRevert
<1>1. ASSUME RevertInv, [Next]_vars, NEW c \in Chunk,
             db[c] # None, db[c].ver # 0, db'[c].ver = 0
      PROVE  \E p \in Worker :
               running[p].chunk = c /\ running[p].pc = "save" /\ db[c].ver \in raced
  <2>0. db \in [Chunk -> Row] /\ \A v \in Version : v # 0
    BY <1>1 DEF RevertInv, TypeInv, TypeOK, Version
  <2>1. CASE db' = db
    BY <1>1, <2>1
  <2>2. ASSUME NEW k \in Chunk, NEW r \in Row, NEW v \in Version,
               r = db[k] \/ (r # None /\ r.ver = v), db' = [db EXCEPT ![k] = r]
        PROVE  FALSE
    BY <1>1, <2>0, <2>2
  <2>3. ASSUME NEW p \in Worker, NEW r \in Row,
               running[p].pc = "save", running[p].chunk \in Chunk,
               db' = [db EXCEPT ![running[p].chunk] = r]
        PROVE  running[p].chunk = c /\ db[c].ver \in raced
    <3>1. running[p].chunk = c
      BY <1>1, <2>0, <2>3
    <3>2. MissedRow(c)
      BY <2>3, <3>1 DEF MissedRow
    <3> QED BY <1>1, <2>3, <3>1, <3>2 DEF RevertInv, RacedRows
  <2> QED BY <1>1, <2>1, <2>2, <2>3, TableSteps
<1>2. RevertInv /\ [Next]_vars =>
        [\A c \in Chunk : db[c] # None /\ db[c].ver # 0 /\ db'[c].ver = 0 =>
           \E p \in Worker :
             running[p].chunk = c /\ running[p].pc = "save" /\ db[c].ver \in raced]_vars
  BY <1>1
<1>3. RevertInv /\ [Next]_vars => RevertInv'
  BY NextRevert
<1> QED BY <1>2, <1>3, InitRevert, PTL DEF Spec, NoRevert

-----------------------------------------------------------------------------
(***************************************************************************)
(* What a read may answer.  No chunk is ever kept or answered in the place *)
(* of another, if no task believes a generator that returns another chunk; *)
(* where in the file clients write, and how many pieces a packet comes in, *)
(* is up to them, and so is what fails.  Without a database the world is   *)
(* infinite and the same at every look, as --storage nostorage promises.   *)
(* With one, and for a client that waits for its answers, the cache, the   *)
(* table and the threads together are a ChunkStore: the cache agrees with  *)
(* the table, and reads are fresh, but for a chunk of which a piece was    *)
(* stored.                                                                 *)
(***************************************************************************)

\* read_at checks what the generator returns, the prefetch tasks do not.
TasksTrusted == "coords" \in Faults => PrefetchRadius = 0

-----------------------------------------------------------------------------
(* The inductive invariant: a payload that is on its way to the table or to
   the cache is already that of the chunk it will be put under, or a piece
   that names none; only the reader and the tasks never hold a piece. *)

CacheIsolated == \A c \in Chunk : contains(cache, c) => Isolated(cache.blob[c].nbt, c)

TableIsolated == \A c \in Chunk : db[c] # None => Isolated(db[c], c)

ReaderIsolated ==
  /\ rd.pc = "put" => rd.val.pos = Wanted
  /\ \A i \in 1 .. Len(rd.got) : Isolated(rd.got[i].nbt, rd.req[i])

WritersIsolated ==
  \A w \in Writer : wr[w].pc \in {"save", "put"} => Isolated(wr[w].nbt, wr[w].key)

TasksIsolated ==
  \A p \in Worker : running[p].pc \in {"save", "put"} => running[p].nbt.pos = running[p].chunk

IsolationInv ==
  /\ TypeInv
  /\ CacheIsolated /\ TableIsolated /\ ReaderIsolated /\ WritersIsolated /\ TasksIsolated
  /\ PrefetchRadius = 0 => NoPrefetch

-----------------------------------------------------------------------------
\* The inductive invariant holds at the start: nothing is kept anywhere.
LEMMA InitIsolated == Init => IsolationInv
<1> SUFFICES ASSUME Init PROVE IsolationInv
  OBVIOUS
<1>1. CacheIsolated /\ TableIsolated /\ WritersIsolated /\ TasksIsolated
  BY DEF Init, CacheIsolated, TableIsolated, WritersIsolated, TasksIsolated, EmptyCache, contains,
     IdleWrite, IdleTask
<1>2. ReaderIsolated
  BY DEF Init, ReaderIsolated, IdleRead
<1> QED BY <1>1, <1>2, InitTypes, InitNoPrefetch DEF IsolationInv

\* What a task is given is the chunk it asked for.
LEMMA TaskTrusts ==
  ASSUME TasksTrusted, TypeInv, PrefetchRadius = 0 => NoPrefetch,
         NEW p \in Worker, running[p].pc = "generate",
         NEW n \in generate_chunk(running[p].chunk), n # None
  PROVE  n = Generated(running[p].chunk)
<1>1. running[p].chunk \in Chunk
  BY DEF TypeInv, TasksOK
<1>2. "coords" \notin Faults
  BY DEF TasksTrusted, NoPrefetch
<1> QED BY <1>1, <1>2 DEF generate_chunk

\* A save leaves the payload in the row, or the row alone.
LEMMA SavesInPlace ==
  ASSUME NEW c \in Chunk, NEW row \in Row, NEW n \in Nbt, NEW res \in save_chunk(row, n),
         row # None => Isolated(row, c), Isolated(n, c)
  PROVE  res.row # None => Isolated(res.row, c)
BY DEF save_chunk, Upserted, Nbt, Isolated

\* Whichever slot it was written to, a whole packet is saved in its place and a
\* piece in its slot.
LEMMA KeyIsPlace ==
  ASSUME NEW c \in Chunk, NEW v \in Version, NEW d \in WritePackets(c, v),
         unwraps(d), NEW slot \in Chunk
  PROVE  Isolated(unwrap_and_decompress_chunk(d), SaveKey(slot, unwrap_and_decompress_chunk(d)))
<1> DEFINE n == [pos |-> c, ver |-> v, exact |-> TRUE]
<1>1. /\ d.nbt = n
      /\ d.whole \/ (d.kind = "plain" /\ "plain" \in Fragments)
  <2> HIDE DEF n
  <2>1. CASE d \in [kind : {"deflated", "plain"}, whole : {TRUE}, nbt : {n}]
    BY <2>1
  <2>2. CASE d \in [kind : Fragments, whole : {FALSE}, nbt : {n}]
    BY <2>2 DEF unwraps
  <2> QED BY <2>1, <2>2 DEF WritePackets, n
<1>2. c # NoPos
  BY ChunkAssumption
<1>3. CASE d.whole
  <2>1. unwrap_and_decompress_chunk(d) = n /\ n.pos = c
    BY <1>1, <1>3 DEF unwrap_and_decompress_chunk
  <2> QED BY <1>2, <2>1 DEF SaveKey, verify_chunk_coords, Isolated
<1>4. CASE ~ d.whole
  <2>1. unwrap_and_decompress_chunk(d).pos = NoPos
    BY <1>1, <1>4 DEF unwrap_and_decompress_chunk
  <2> QED BY <1>1, <1>4, <2>1 DEF Isolated
<1> QED BY <1>3, <1>4

\* A pass that answers the wanted chunk keeps the answers in their places.
LEMMA AnsweredInPlace ==
  ASSUME TypeInv, ReaderIsolated, rd.pc \in {"lookup", "put"}, NEW b \in Packet,
         Isolated(b.nbt, Wanted), rd' = Answered(b)
  PROVE  ReaderIsolated'
<1>1. /\ rd.got \in Seq(Packet) /\ rd.req \in Seq(Chunk)
      /\ Len(rd.got) \in Nat
  BY LenProperties DEF TypeInv, TypeOK
<1>2. /\ rd'.req = rd.req
      /\ rd'.got = Append(rd.got, b)
      /\ rd'.pc \in {"reply", "lookup"}
  BY DEF Answered, TypeInv, TypeOK
<1>3. ASSUME NEW i \in 1 .. Len(rd'.got) PROVE Isolated(rd'.got[i].nbt, rd'.req[i])
  <2>1. Len(rd'.got) = Len(rd.got) + 1
    BY <1>1, <1>2, AppendProperties
  <2>2. CASE i \in 1 .. Len(rd.got)
    <3>1. rd'.got[i] = rd.got[i]
      BY <1>1, <1>2, <2>2, AppendProperties
    <3> QED BY <1>2, <2>2, <3>1 DEF ReaderIsolated
  <2>3. CASE i = Len(rd.got) + 1
    <3>1. rd'.got[i] = b
      BY <1>1, <1>2, <2>3, AppendProperties
    <3> QED BY <1>2, <2>3, <3>1 DEF Wanted
  <2> QED BY <1>1, <2>1, <2>2, <2>3
<1> QED BY <1>2, <1>3 DEF ReaderIsolated

\* The cache after put of a payload under its chunk.
LEMMA CacheKeepsPlaces ==
  ASSUME TypeInv, CacheIsolated, NEW k \in Chunk, NEW n \in Nbt, Isolated(n, k),
         cache' = Put(cache, k, compress_and_wrap_chunk(n))
  PROVE  CacheIsolated'
<1> DEFINE b == compress_and_wrap_chunk(n)
<1>1. b \in Packet /\ Isolated(b.nbt, k)
  BY PayloadTypes DEF compress_and_wrap_chunk
<1>2. cache' = Put(cache, k, b)
  OBVIOUS
<1> HIDE DEF b
<1>3. /\ cache'.blob[k] = b
      /\ \A c \in Chunk \ {k} : cache'.blob[c] \in {cache.blob[c], NoBlob}
  BY <1>1, <1>2, CacheAfterPut
<1> QED BY <1>1, <1>3 DEF CacheIsolated, contains

\* No step of anybody misplaces a chunk: one case per action.
LEMMA NextIsolated ==
  ASSUME TasksTrusted, IsolationInv, [Next]_vars
  PROVE  IsolationInv'
<1> USE DEF IsolationInv
<1>0. TypeInv' /\ (PrefetchRadius = 0 => NoPrefetch')
  BY NextTypes, NextNoPrefetch
<1>1. ASSUME NEW r \in Requests, DispatchRead(r) PROVE IsolationInv'
  BY <1>0, <1>1 DEF DispatchRead, IdleRead, CacheIsolated, contains, TableIsolated, ReaderIsolated,
     WritersIsolated, TasksIsolated, dataVars, prefetchVars
<1>2. CASE ReadHit
  <2>1. Wanted \in Chunk
    BY <1>2, WantedType DEF ReadHit
  <2>2. cache'.blob = cache.blob
    BY <1>2, <2>1, CacheAfterTouch DEF ReadHit
  <2>3. CacheIsolated'
    BY <2>2 DEF CacheIsolated, contains
  <2>4. cache.blob[Wanted] \in Packet /\ Isolated(cache.blob[Wanted].nbt, Wanted)
    BY <1>2, <2>1 DEF ReadHit, CacheIsolated, contains, TypeInv, TypeOK
  <2>5. ReaderIsolated'
    BY <1>2, <2>4, AnsweredInPlace DEF ReadHit
  <2> QED BY <1>0, <1>2, <2>3, <2>5 DEF ReadHit, TableIsolated, WritersIsolated, TasksIsolated,
          prefetchVars
<1>3. CASE ReadMiss
  <2>1. ReaderIsolated'
    BY <1>3 DEF ReadMiss, ReaderIsolated, TypeInv, TypeOK
  <2> QED BY <1>0, <1>3, <2>1 DEF ReadMiss, CacheIsolated, contains, TableIsolated, WritersIsolated,
          TasksIsolated, dataVars, prefetchVars
<1>4. CASE ReadLoad
  <2>1. PICK res \in load_chunk(db[Wanted]) :
          rd' = IF res.found # None /\ verify_chunk_coords(res.found, Wanted)
                  THEN [rd EXCEPT !.pc = "put", !.val = res.found]
                  ELSE [rd EXCEPT !.pc = "generate"]
    BY <1>4 DEF ReadLoad
  <2>2. /\ rd'.req = rd.req /\ rd'.got = rd.got
        /\ rd'.pc = "put" => rd'.val.pos = Wanted
    BY <2>1 DEF verify_chunk_coords, TypeInv, TypeOK
  <2>3. ReaderIsolated'
    BY <2>2 DEF ReaderIsolated, Wanted
  <2> QED BY <1>0, <1>4, <2>3 DEF ReadLoad, CacheIsolated, contains, TableIsolated, WritersIsolated,
          TasksIsolated, dataVars, prefetchVars
<1>5. CASE ReadGenerate
  <2>1. PICK n \in generate_chunk(Wanted) :
          rd' = IF n # None /\ verify_chunk_coords(n, Wanted)
                  THEN [rd EXCEPT !.pc = "put", !.val = n]
                  ELSE Broken
    BY <1>5 DEF ReadGenerate
  <2>2. /\ rd'.req = rd.req /\ rd'.got = rd.got
        /\ rd'.pc = "put" => rd'.val.pos = Wanted
    BY <2>1 DEF Broken, verify_chunk_coords, TypeInv, TypeOK
  <2>3. ReaderIsolated'
    BY <2>2 DEF ReaderIsolated, Wanted
  <2> QED BY <1>0, <1>5, <2>3 DEF ReadGenerate, CacheIsolated, contains, TableIsolated,
          WritersIsolated, TasksIsolated, dataVars, prefetchVars
<1>6. CASE ReadPut
  <2> DEFINE b == compress_and_wrap_chunk(rd.val)
  <2>1. Wanted \in Chunk /\ rd.val \in Nbt /\ rd.val.pos = Wanted
    BY <1>6, WantedType DEF ReadPut, TypeInv, ReaderOK, ReaderIsolated
  <2>2. cache' = Put(cache, Wanted, b) /\ rd' = Answered(b)
    BY <1>6 DEF ReadPut
  <2>a. Isolated(rd.val, Wanted)
    BY <2>1 DEF Isolated
  <2>3. b \in Packet /\ Isolated(b.nbt, Wanted)
    BY <2>1, <2>a, PayloadTypes DEF compress_and_wrap_chunk
  <2>4. CacheIsolated'
    BY <2>1, <2>2, <2>a, CacheKeepsPlaces
  <2>5. ReaderIsolated'
    <3> HIDE DEF b
    <3> QED BY <1>6, <2>2, <2>3, AnsweredInPlace DEF ReadPut
  <2> QED BY <1>0, <1>6, <2>4, <2>5 DEF ReadPut, TableIsolated, WritersIsolated, TasksIsolated
<1>7. CASE ReadReply
  BY <1>0, <1>7 DEF ReadReply, IdleRead, CacheIsolated, contains, TableIsolated, ReaderIsolated,
     WritersIsolated, TasksIsolated, dataVars, prefetchVars
<1>8. ASSUME NEW w \in Writer, NEW c \in Chunk, NEW slot \in Chunk \cup {NoPos},
             DispatchWrite(w, c, slot)
      PROVE  IsolationInv'
  <2>1. PICK d \in WritePackets(c, nwrites') :
          wr' = [wr EXCEPT ![w] =
            IF slot # NoPos /\ unwraps(d)
              THEN [pc |-> IF Persistent THEN "save" ELSE "reply",
                    key |-> SaveKey(slot, unwrap_and_decompress_chunk(d)),
                    nbt |-> unwrap_and_decompress_chunk(d)]
              ELSE [pc |-> "reply", key |-> NoPos, nbt |-> unwrap_and_decompress_chunk(d)]]
    BY <1>8 DEF DispatchWrite
  <2>2. nwrites' \in Version
    BY <1>8, VirtualFileAssumption DEF DispatchWrite, TypeInv, TypeOK, Version
  <2>3. slot # NoPos /\ unwraps(d) =>
          Isolated(unwrap_and_decompress_chunk(d), SaveKey(slot, unwrap_and_decompress_chunk(d)))
    BY <2>1, <2>2, KeyIsPlace
  <2>4. WritersIsolated'
    BY <2>1, <2>3 DEF WritersIsolated, TypeInv, TypeOK
  <2> QED BY <1>0, <1>8, <2>4 DEF DispatchWrite, CacheIsolated, contains, TableIsolated,
          ReaderIsolated, Wanted, TasksIsolated, dataVars, prefetchVars
<1>9. ASSUME NEW w \in Writer, WriteSave(w) PROVE IsolationInv'
  <2>1. wr[w].key \in Chunk /\ wr[w].nbt \in Nbt /\ Isolated(wr[w].nbt, wr[w].key)
    BY <1>9 DEF WriteSave, WritersIsolated, TypeInv, WritersOK
  <2>2. PICK res \in save_chunk(db[wr[w].key], wr[w].nbt) :
          /\ db' = [db EXCEPT ![wr[w].key] = res.row]
          /\ wr' = [wr EXCEPT ![w].pc = IF res.ok THEN "put" ELSE "reply"]
    BY <1>9 DEF WriteSave
  <2>a. db[wr[w].key] \in Row /\ (db[wr[w].key] # None => Isolated(db[wr[w].key], wr[w].key))
    BY <2>1 DEF TableIsolated, TypeInv, TypeOK
  <2>3. res.row # None => Isolated(res.row, wr[w].key)
    BY <2>1, <2>2, <2>a, SavesInPlace
  <2>4. TableIsolated'
    BY <2>1, <2>2, <2>3 DEF TableIsolated, TypeInv, TypeOK
  <2>5. WritersIsolated'
    BY <2>1, <2>2 DEF WritersIsolated, TypeInv, TypeOK
  <2> QED BY <1>0, <1>9, <2>4, <2>5 DEF WriteSave, CacheIsolated, contains, ReaderIsolated, Wanted,
          TasksIsolated, prefetchVars
<1>10. ASSUME NEW w \in Writer, WritePut(w) PROVE IsolationInv'
  <2>1. wr[w].key \in Chunk /\ wr[w].nbt \in Nbt /\ Isolated(wr[w].nbt, wr[w].key)
    BY <1>10 DEF WritePut, WritersIsolated, TypeInv, WritersOK
  <2>2. CacheIsolated'
    BY <1>10, <2>1, CacheKeepsPlaces DEF WritePut
  <2>3. WritersIsolated'
    BY <1>10 DEF WritePut, WritersIsolated, TypeInv, TypeOK
  <2> QED BY <1>0, <1>10, <2>2, <2>3 DEF WritePut, TableIsolated, ReaderIsolated, Wanted,
          TasksIsolated, prefetchVars
<1>11. ASSUME NEW w \in Writer, WriteReply(w) PROVE IsolationInv'
  <2>1. WritersIsolated'
    BY <1>11 DEF WriteReply, IdleWrite, WritersIsolated, TypeInv, TypeOK
  <2> QED BY <1>0, <1>11, <2>1 DEF WriteReply, CacheIsolated, contains, TableIsolated, ReaderIsolated,
          Wanted, TasksIsolated, dataVars, prefetchVars
<1>12. ASSUME NEW c \in Chunk, PrefetchCheck(c) PROVE IsolationInv'
  BY <1>0, <1>12 DEF PrefetchCheck, CacheIsolated, contains, TableIsolated, ReaderIsolated, Wanted,
     WritersIsolated, TasksIsolated, dataVars
<1>13. ASSUME NEW p \in Worker, PrefetchAcquire(p) \/ PrefetchLoad(p) PROVE IsolationInv'
  <2>1. \A o \in Worker : running'[o] = running[o] \/ running'[o].pc \in {"idle", "load", "generate"}
    <3>1. running \in [Worker -> TaskState] /\ running[p] \in TaskState
      BY DEF TypeInv, TypeOK
    <3>2. CASE PrefetchAcquire(p)
      BY <3>1, <3>2 DEF PrefetchAcquire, IdleTask
    <3>3. CASE PrefetchLoad(p)
      <4>1. [running[p] EXCEPT !.pc = "generate"].pc = "generate"
        BY <3>1
      <4> QED BY <3>1, <3>3, <4>1 DEF PrefetchLoad, IdleTask
    <3> QED BY <1>13, <3>2, <3>3
  <2>2. TasksIsolated'
    BY <2>1 DEF TasksIsolated
  <2> QED BY <1>0, <1>13, <2>2 DEF PrefetchAcquire, PrefetchLoad, CacheIsolated, contains,
          TableIsolated, ReaderIsolated, Wanted, WritersIsolated, dataVars
<1>14. ASSUME NEW p \in Worker, PrefetchGenerate(p) PROVE IsolationInv'
  <2>1. running[p] \in TaskState /\ running[p].chunk \in Chunk /\ DOMAIN running = Worker
    BY <1>14 DEF PrefetchGenerate, TypeInv, TypeOK, TasksOK
  <2>2. PICK n \in generate_chunk(running[p].chunk) :
          running' = [running EXCEPT ![p] =
            IF n = None
              THEN IdleTask
              ELSE [running[p] EXCEPT !.pc = IF Persistent THEN "save" ELSE "put", !.nbt = n]]
    BY <1>14 DEF PrefetchGenerate
  <2>3. n # None => n.pos = running[p].chunk
    BY <1>14, <2>1, TaskTrusts DEF PrefetchGenerate, Generated
  <2>4. CASE n = None
    BY <1>0, <1>14, <2>1, <2>2, <2>4 DEF IdleTask, TasksIsolated, PrefetchGenerate, CacheIsolated,
       contains, TableIsolated, ReaderIsolated, Wanted, WritersIsolated, dataVars
  <2>5. CASE n # None
    <3>1. running'[p].nbt = n /\ running'[p].chunk = running[p].chunk
      BY <2>1, <2>2, <2>5 DEF TaskState
    <3>2. \A o \in Worker \ {p} : running'[o] = running[o]
      BY <2>1, <2>2
    <3>3. TasksIsolated'
      BY <2>3, <2>5, <3>1, <3>2 DEF TasksIsolated
    <3> QED BY <1>0, <1>14, <3>3 DEF PrefetchGenerate, CacheIsolated, contains, TableIsolated,
            ReaderIsolated, Wanted, WritersIsolated, dataVars
  <2> QED BY <2>4, <2>5
<1>15. ASSUME NEW p \in Worker, PrefetchSave(p) PROVE IsolationInv'
  <2>1. /\ running[p].chunk \in Chunk /\ running[p].nbt \in Nbt
        /\ Isolated(running[p].nbt, running[p].chunk)
    BY <1>15 DEF PrefetchSave, TasksIsolated, TypeInv, TasksOK, Isolated
  <2>2. PICK res \in save_chunk(db[running[p].chunk], running[p].nbt) :
          db' = [db EXCEPT ![running[p].chunk] = res.row]
    BY <1>15 DEF PrefetchSave
  <2>a. /\ db[running[p].chunk] \in Row
        /\ db[running[p].chunk] # None => Isolated(db[running[p].chunk], running[p].chunk)
    BY <2>1 DEF TableIsolated, TypeInv, TypeOK
  <2>3. res.row # None => Isolated(res.row, running[p].chunk)
    BY <2>1, <2>2, <2>a, SavesInPlace
  <2>4. TableIsolated'
    BY <2>1, <2>2, <2>3 DEF TableIsolated, TypeInv, TypeOK
  <2>5. TasksIsolated'
    BY <1>15, <2>1 DEF PrefetchSave, TasksIsolated, TypeInv, TypeOK
  <2> QED BY <1>0, <1>15, <2>4, <2>5 DEF PrefetchSave, CacheIsolated, contains, ReaderIsolated, Wanted,
          WritersIsolated
<1>16. ASSUME NEW p \in Worker, PrefetchPut(p) PROVE IsolationInv'
  <2>1. /\ running[p].chunk \in Chunk /\ running[p].nbt \in Nbt
        /\ Isolated(running[p].nbt, running[p].chunk)
    BY <1>16 DEF PrefetchPut, TasksIsolated, TypeInv, TasksOK, Isolated
  <2>2. CacheIsolated'
    BY <1>16, <2>1, CacheKeepsPlaces DEF PrefetchPut
  <2>3. TasksIsolated'
    BY <1>16 DEF PrefetchPut, IdleTask, TasksIsolated, TypeInv, TypeOK
  <2> QED BY <1>0, <1>16, <2>2, <2>3 DEF PrefetchPut, TableIsolated, ReaderIsolated, Wanted,
          WritersIsolated
<1>17. CASE Crash
  <2>1. CacheIsolated' /\ WritersIsolated' /\ TasksIsolated' /\ ReaderIsolated'
    BY <1>17 DEF Crash, CacheIsolated, contains, EmptyCache, WritersIsolated, IdleWrite,
       TasksIsolated, IdleTask, ReaderIsolated, IdleRead
  <2> QED BY <1>0, <1>17, <2>1 DEF Crash, TableIsolated
<1>18. CASE UNCHANGED vars
  BY <1>0, <1>18 DEF vars, dataVars, prefetchVars, CacheIsolated, contains, TableIsolated,
     ReaderIsolated, Wanted, WritersIsolated, TasksIsolated
<1> QED
  BY <1>1, <1>2, <1>3, <1>4, <1>5, <1>6, <1>7, <1>8, <1>9, <1>10, <1>11, <1>12, <1>13, <1>14,
     <1>15, <1>16, <1>17, <1>18
  DEF Next, ReadStep, WriteStep, PrefetchStep

\* The cache, the table and every answer keep each chunk in its own place,
\* wherever clients write, in however many pieces, whoever runs at once and
\* whatever fails: neither a write to a wrong slot nor an eviction nor a task
\* serves the neighbour.
THEOREM AlwaysIsolated == TasksTrusted /\ Spec => []Isolation
<1>1. IsolationInv => Isolation
  BY DEF IsolationInv, Isolation, CacheIsolated, TableIsolated, ReaderIsolated
<1>2. TasksTrusted /\ IsolationInv /\ [Next]_vars => IsolationInv'
  BY NextIsolated
<1>3. CASE TasksTrusted
  BY <1>1, <1>2, <1>3, InitIsolated, PTL DEF Spec
<1>4. CASE ~ TasksTrusted
  BY <1>4
<1> QED BY <1>3, <1>4

-----------------------------------------------------------------------------
(* Without a database. *)

\* The packet that every read of c answers.
WorldPacket(c) == compress_and_wrap_chunk(Generated(c))

WithoutDatabase == StorageMode = "nostorage" /\ TasksTrusted

-----------------------------------------------------------------------------
(* The inductive invariant: nobody is on the way to the database, and what
   the cache holds, or a thread or a task is about to put there, is the
   generated chunk of that very place. *)

CachedWorld == \A c \in Chunk : contains(cache, c) => cache.blob[c] = WorldPacket(c)

ReadingWorld ==
  /\ rd.pc # "load"
  /\ rd.pc = "put" => rd.val = Generated(Wanted)
  /\ \A i \in 1 .. Len(rd.got) : rd.got[i] = WorldPacket(rd.req[i])

DroppedWrites == \A w \in Writer : wr[w].pc \in {"idle", "reply"}

PrefetchedWorld ==
  \A p \in Worker :
    /\ running[p].pc \in {"idle", "generate", "put"}
    /\ running[p].pc = "put" => running[p].nbt = Generated(running[p].chunk)

EmptyTable == \A c \in Chunk : db[c] = None

StatelessInv ==
  /\ TypeInv
  /\ EmptyTable /\ CachedWorld /\ ReadingWorld /\ DroppedWrites /\ PrefetchedWorld
  /\ PrefetchRadius = 0 => NoPrefetch

-----------------------------------------------------------------------------
\* The inductive invariant holds at the start: nothing was read yet.
LEMMA InitStateless == Init => StatelessInv
<1> SUFFICES ASSUME Init PROVE StatelessInv
  OBVIOUS
<1>1. EmptyTable /\ CachedWorld /\ DroppedWrites /\ PrefetchedWorld
  BY DEF Init, EmptyTable, CachedWorld, DroppedWrites, PrefetchedWorld, EmptyCache, contains,
     IdleWrite, IdleTask
<1>2. ReadingWorld
  BY DEF Init, ReadingWorld, IdleRead
<1> QED BY <1>1, <1>2, InitTypes, InitNoPrefetch DEF StatelessInv

\* A pass that answers the generated chunk keeps the answer the world's.
LEMMA AnsweredWorld ==
  ASSUME TypeInv, ReadingWorld, rd.pc \in {"lookup", "put"}, rd' = Answered(WorldPacket(Wanted))
  PROVE  ReadingWorld'
<1>1. /\ rd.got \in Seq(Packet) /\ rd.req \in Seq(Chunk)
      /\ Len(rd.got) \in Nat
  BY LenProperties DEF TypeInv, TypeOK
<1>2. WorldPacket(Wanted) \in Packet
  BY WantedType, PayloadTypes DEF WorldPacket
<1> DEFINE b == WorldPacket(Wanted)
<1>3. /\ rd'.req = rd.req
      /\ rd'.got = Append(rd.got, b)
      /\ rd'.pc \in {"reply", "lookup"}
  BY DEF Answered, TypeInv, TypeOK
<1>4. b \in Packet /\ b = WorldPacket(rd.req[Len(rd.got) + 1])
  BY <1>2 DEF Wanted
<1> HIDE DEF b
<1>5. ASSUME NEW i \in 1 .. Len(rd'.got) PROVE rd'.got[i] = WorldPacket(rd'.req[i])
  <2>1. Len(rd'.got) = Len(rd.got) + 1
    BY <1>1, <1>3, <1>4, AppendProperties
  <2>2. CASE i \in 1 .. Len(rd.got)
    <3>1. rd'.got[i] = rd.got[i]
      BY <1>1, <1>3, <1>4, <2>2, AppendProperties
    <3> QED BY <1>3, <2>2, <3>1 DEF ReadingWorld
  <2>3. CASE i = Len(rd.got) + 1
    <3>1. rd'.got[i] = b
      BY <1>1, <1>3, <1>4, <2>3, AppendProperties
    <3> QED BY <1>3, <1>4, <2>3, <3>1
  <2> QED BY <1>1, <2>1, <2>2, <2>3
<1> QED BY <1>3, <1>5 DEF ReadingWorld

\* The cache after put of a generated chunk.
LEMMA CacheKeepsWorld ==
  ASSUME TypeInv, CachedWorld, NEW k \in Chunk, cache' = Put(cache, k, WorldPacket(k))
  PROVE  CachedWorld'
<1>1. WorldPacket(k) \in Packet
  BY PayloadTypes DEF WorldPacket
<1>2. /\ cache'.blob[k] = WorldPacket(k)
      /\ \A c \in Chunk \ {k} : cache'.blob[c] \in {cache.blob[c], NoBlob}
  BY <1>1, CacheAfterPut
<1> QED BY <1>2 DEF CachedWorld, contains

\* No step of anybody leaves the generated world: one case per action.
LEMMA NextStateless ==
  ASSUME WithoutDatabase, StatelessInv, [Next]_vars
  PROVE  StatelessInv'
<1> USE DEF StatelessInv
<1>0. TypeInv' /\ ~ Persistent /\ (PrefetchRadius = 0 => NoPrefetch')
  BY NextTypes, NextNoPrefetch DEF Persistent, WithoutDatabase
<1>1. ASSUME NEW r \in Requests, DispatchRead(r) PROVE StatelessInv'
  BY <1>0, <1>1 DEF DispatchRead, IdleRead, EmptyTable, CachedWorld, contains, ReadingWorld,
     DroppedWrites, PrefetchedWorld, dataVars, prefetchVars
<1>2. CASE ReadHit
  <2>1. Wanted \in Chunk
    BY <1>2, WantedType DEF ReadHit
  <2>2. cache'.blob = cache.blob
    BY <1>2, <2>1, CacheAfterTouch DEF ReadHit, Touched
  <2>3. CachedWorld'
    BY <2>2 DEF CachedWorld, contains
  <2>4. ReadingWorld'
    BY <1>2, <2>1, AnsweredWorld DEF ReadHit, CachedWorld
  <2> QED BY <1>0, <1>2, <2>3, <2>4 DEF ReadHit, EmptyTable, DroppedWrites, PrefetchedWorld, prefetchVars
<1>3. CASE ReadMiss
  <2>1. ReadingWorld'
    BY <1>0, <1>3 DEF ReadMiss, ReadingWorld, TypeInv, TypeOK
  <2> QED BY <1>0, <1>3, <2>1 DEF ReadMiss, EmptyTable, CachedWorld, contains, DroppedWrites,
          PrefetchedWorld, dataVars, prefetchVars
<1>4. CASE ReadLoad
  BY <1>4 DEF ReadLoad, ReadingWorld
<1>5. CASE ReadGenerate
  <2>1. PICK n \in generate_chunk(Wanted) :
          rd' = IF n # None /\ verify_chunk_coords(n, Wanted)
                  THEN [rd EXCEPT !.pc = "put", !.val = n]
                  ELSE Broken
    BY <1>5 DEF ReadGenerate
  <2>2. n # None /\ verify_chunk_coords(n, Wanted) => n = Generated(Wanted)
    BY <2>1 DEF generate_chunk, verify_chunk_coords, Generated
  <2>3. rd'.req = rd.req /\ rd'.got = rd.got
        /\ (rd'.pc = "put" => rd'.val = Generated(Wanted))
        /\ rd'.pc \in {"put", "reply"}
    BY <2>1, <2>2 DEF Broken, TypeInv, TypeOK
  <2>4. ReadingWorld'
    BY <2>3 DEF ReadingWorld, Wanted
  <2> QED BY <1>0, <1>5, <2>4 DEF ReadGenerate, EmptyTable, CachedWorld, contains, DroppedWrites,
          PrefetchedWorld, dataVars, prefetchVars
<1>6. CASE ReadPut
  <2>1. Wanted \in Chunk
    BY <1>6, WantedType DEF ReadPut
  <2>2. cache' = Put(cache, Wanted, WorldPacket(Wanted)) /\ rd' = Answered(WorldPacket(Wanted))
    BY <1>6 DEF ReadPut, ReadingWorld, WorldPacket
  <2>3. CachedWorld' /\ ReadingWorld'
    BY <1>6, <2>1, <2>2, CacheKeepsWorld, AnsweredWorld DEF ReadPut
  <2> QED BY <1>0, <1>6, <2>3 DEF ReadPut, EmptyTable, DroppedWrites, PrefetchedWorld
<1>7. CASE ReadReply
  BY <1>0, <1>7 DEF ReadReply, IdleRead, EmptyTable, CachedWorld, contains, ReadingWorld,
     DroppedWrites, PrefetchedWorld, dataVars, prefetchVars
<1>8. ASSUME NEW w \in Writer, NEW c \in Chunk, NEW slot \in Chunk \cup {NoPos},
             DispatchWrite(w, c, slot)
      PROVE  StatelessInv'
  <2>1. PICK d \in WritePackets(c, nwrites') :
          wr' = [wr EXCEPT ![w] =
            IF slot # NoPos /\ unwraps(d)
              THEN [pc |-> IF Persistent THEN "save" ELSE "reply",
                    key |-> SaveKey(slot, unwrap_and_decompress_chunk(d)),
                    nbt |-> unwrap_and_decompress_chunk(d)]
              ELSE [pc |-> "reply", key |-> NoPos, nbt |-> unwrap_and_decompress_chunk(d)]]
    BY <1>8 DEF DispatchWrite
  <2>2. DroppedWrites'
    BY <1>0, <2>1 DEF DroppedWrites, TypeInv, TypeOK
  <2> QED BY <1>0, <1>8, <2>2 DEF DispatchWrite, EmptyTable, CachedWorld, contains, ReadingWorld,
          Wanted, PrefetchedWorld, dataVars, prefetchVars
<1>9. ASSUME NEW w \in Writer, WriteSave(w) \/ WritePut(w) PROVE StatelessInv'
  BY <1>9 DEF WriteSave, WritePut, DroppedWrites
<1>10. ASSUME NEW w \in Writer, WriteReply(w) PROVE StatelessInv'
  <2>1. DroppedWrites'
    BY <1>10 DEF WriteReply, IdleWrite, DroppedWrites, TypeInv, TypeOK
  <2> QED BY <1>0, <1>10, <2>1 DEF WriteReply, EmptyTable, CachedWorld, contains, ReadingWorld,
          Wanted, PrefetchedWorld, dataVars, prefetchVars
<1>11. ASSUME NEW c \in Chunk, PrefetchCheck(c) PROVE StatelessInv'
  BY <1>0, <1>11 DEF PrefetchCheck, EmptyTable, CachedWorld, contains, ReadingWorld, Wanted,
     DroppedWrites, PrefetchedWorld, dataVars
<1>12. ASSUME NEW p \in Worker, PrefetchAcquire(p) PROVE StatelessInv'
  <2> DEFINE t == IF contains(cache, Head(waiting))
                    THEN IdleTask
                    ELSE [IdleTask EXCEPT !.pc = "generate", !.chunk = Head(waiting)]
  <2>1. t.pc \in {"idle", "generate"} /\ running' = [running EXCEPT ![p] = t]
    BY <1>0, <1>12 DEF PrefetchAcquire, IdleTask
  <2> HIDE DEF t
  <2>2. PrefetchedWorld'
    BY <2>1 DEF PrefetchedWorld, TypeInv, TypeOK
  <2> QED BY <1>0, <1>12, <2>2 DEF PrefetchAcquire, EmptyTable, CachedWorld, contains, ReadingWorld,
          Wanted, DroppedWrites, dataVars
<1>13. ASSUME NEW p \in Worker, PrefetchLoad(p) \/ PrefetchSave(p) PROVE StatelessInv'
  BY <1>13 DEF PrefetchLoad, PrefetchSave, PrefetchedWorld
<1>14. ASSUME NEW p \in Worker, PrefetchGenerate(p) PROVE StatelessInv'
  <2>1. running[p] \in TaskState /\ running[p].chunk \in Chunk /\ DOMAIN running = Worker
    BY <1>14 DEF PrefetchGenerate, TypeInv, TypeOK, TasksOK
  <2>2. PICK n \in generate_chunk(running[p].chunk) :
          running' = [running EXCEPT ![p] =
            IF n = None THEN IdleTask ELSE [running[p] EXCEPT !.pc = "put", !.nbt = n]]
    BY <1>0, <1>14 DEF PrefetchGenerate
  <2>3. n # None => n = Generated(running[p].chunk)
    BY <1>14, <2>1, TaskTrusts DEF PrefetchGenerate, WithoutDatabase
  <2>4. /\ running'[p].pc \in {"idle", "put"}
        /\ running'[p].pc = "put" => running'[p].nbt = Generated(running'[p].chunk)
        /\ \A o \in Worker \ {p} : running'[o] = running[o]
    BY <2>1, <2>2, <2>3 DEF IdleTask, TaskState
  <2>5. PrefetchedWorld'
    BY <2>4 DEF PrefetchedWorld
  <2> QED BY <1>0, <1>14, <2>5 DEF PrefetchGenerate, EmptyTable, CachedWorld, contains, ReadingWorld,
          Wanted, DroppedWrites, dataVars
<1>15. ASSUME NEW p \in Worker, PrefetchPut(p) PROVE StatelessInv'
  <2>1. running[p].chunk \in Chunk
    BY <1>15 DEF PrefetchPut, TypeInv, TasksOK
  <2>2. cache' = Put(cache, running[p].chunk, WorldPacket(running[p].chunk))
    BY <1>15 DEF PrefetchPut, PrefetchedWorld, WorldPacket
  <2>3. CachedWorld'
    BY <2>1, <2>2, CacheKeepsWorld
  <2>4. PrefetchedWorld'
    BY <1>15 DEF PrefetchPut, IdleTask, PrefetchedWorld, TypeInv, TypeOK
  <2> QED BY <1>0, <1>15, <2>3, <2>4 DEF PrefetchPut, EmptyTable, ReadingWorld, Wanted, DroppedWrites
<1>16. CASE Crash
  <2>1. CachedWorld' /\ DroppedWrites' /\ PrefetchedWorld' /\ ReadingWorld'
    BY <1>16 DEF Crash, CachedWorld, contains, EmptyCache, DroppedWrites, IdleWrite, PrefetchedWorld,
       IdleTask, ReadingWorld, IdleRead
  <2> QED BY <1>0, <1>16, <2>1 DEF Crash, EmptyTable
<1>17. CASE UNCHANGED vars
  BY <1>0, <1>17 DEF vars, dataVars, prefetchVars, EmptyTable, CachedWorld, contains, ReadingWorld,
     Wanted, DroppedWrites, PrefetchedWorld
<1> QED
  BY <1>1, <1>2, <1>3, <1>4, <1>5, <1>6, <1>7, <1>8, <1>9, <1>10, <1>11, <1>12, <1>13, <1>14,
     <1>15, <1>16, <1>17
  DEF Next, ReadStep, WriteStep, PrefetchStep

\* Without a database, nothing is ever stored and every pass of every read
\* answers the generated chunk, whatever clients write and wherever the
\* process is restarted: with any generator if nothing is prefetched, and
\* however far prefetching reaches if the generator answers the chunk it is
\* asked for.
THEOREM AlwaysStateless == WithoutDatabase /\ Spec => []Stateless
<1>1. StatelessInv => Stateless
  BY DEF StatelessInv, Stateless, EmptyTable, ReadingWorld, WorldPacket
<1>2. WithoutDatabase /\ StatelessInv /\ [Next]_vars => StatelessInv'
  BY NextStateless
<1>3. CASE WithoutDatabase
  BY <1>1, <1>2, <1>3, InitStateless, PTL DEF Spec
<1>4. CASE ~ WithoutDatabase
  BY <1>4
<1> QED BY <1>3, <1>4

-----------------------------------------------------------------------------
(* With a database, for a client that waits. *)

\* What the rest of the development shows to be needed: a task can undo an
\* edit and a load that fails hides one, a request that overlaps a write may
\* see either side of it, and the jsonb mode confirms the save of a piece that
\* it does not write.
OneByOne ==
  /\ PrefetchRadius = 0
  /\ ~ Overlap
  /\ SavesParse
  /\ LoadsAnswer

\* And an edit that was applied with an error is in the table, not in the
\* cache.
OneAtATime == OneByOne /\ ErrorsUndone

-----------------------------------------------------------------------------
(* The inductive invariant. *)

\* A client that waits for its answers has one request in the server.
Alone ==
  /\ rd.pc = "idle" => rd = IdleRead
  /\ rd.pc # "idle" => \A w \in Writer : wr[w].pc = "idle"
  /\ \A w, x \in Writer : w # x => wr[w].pc = "idle" \/ wr[x].pc = "idle"

InPlace ==
  /\ \A c \in Chunk : db[c] # None => Isolated(db[c], c)
  /\ \A w \in Writer : wr[w].pc \in {"save", "put"} => Isolated(wr[w].nbt, wr[w].key)

\* Only the writer that has just saved a chunk knows more than the cache.
Coherent ==
  /\ \A w \in Writer : wr[w].pc = "put" => World[wr[w].key] = Seen(wr[w].key, wr[w].nbt)
  /\ \A c \in Chunk : contains(cache, c) =>
       \/ Seen(c, cache.blob[c].nbt) = World[c]
       \/ \E w \in Writer : wr[w].pc = "put" /\ wr[w].key = c

\* What a read has answered, or is about to, is the world.
ReadsWorld ==
  /\ Len(rd.got) <= Len(rd.req)
  /\ rd.pc = "generate" => db[Wanted] = None \/ Torn(Wanted)
  /\ rd.pc = "put" => Seen(Wanted, rd.val) = World[Wanted]
  /\ \A i \in 1 .. Len(rd.got) : Seen(rd.req[i], rd.got[i].nbt) = World[rd.req[i]]

StoreInv ==
  TypeInv /\ NoPrefetch /\ NoTable /\ Alone /\ InPlace /\ Coherent /\ ReadsWorld

-----------------------------------------------------------------------------
\* The inductive invariant holds at the start: nothing was asked yet.
LEMMA InitStoreInv == Init => StoreInv
<1> SUFFICES ASSUME Init PROVE StoreInv
  OBVIOUS
<1>1. NoPrefetch /\ NoTable
  BY DEF Init, NoPrefetch, NoTable, IdleWrite, IdleTask
<1>2. Alone /\ InPlace
  BY DEF Init, Alone, InPlace, IdleWrite
<1>3. Coherent
  BY DEF Init, Coherent, EmptyCache, contains, IdleWrite
<1>4. ReadsWorld
  BY DEF Init, ReadsWorld, IdleRead
<1> QED BY <1>1, <1>2, <1>3, <1>4, InitTypes DEF StoreInv

\* What the table and its generator show of a chunk.
LEMMA WorldOf ==
  ASSUME NEW c \in Chunk
  PROVE  /\ World[c] = IF Torn(c) THEN None
                        ELSE Content(IF db[c] = None THEN Generated(c) ELSE db[c])
         /\ Torn(c) => \A n : Seen(c, n) = World[c]
         /\ ~ Torn(c) => \A n : Seen(c, n) = Content(n)
BY DEF World, Seen

\* As long as the table stays, so does the world and all that is seen of it.
LEMMA WorldStays ==
  ASSUME db' = db
  PROVE  /\ World' = World
         /\ \A c : Torn(c)' = Torn(c)
         /\ \A c, n : Seen(c, n)' = Seen(c, n)
BY DEF World, Seen, Torn, Content

\* The content of a chunk is a chunk of the same place.
LEMMA ContentType ==
  ASSUME NEW n \in Nbt
  PROVE  Content(n) \in Nbt /\ Content(n).pos = n.pos
BY DEF Content, Nbt

\* Nobody prefetches.
LEMMA NoTaskRuns ==
  ASSUME NoPrefetch
  PROVE  /\ \A c \in Chunk : ~ PrefetchCheck(c)
         /\ \A p \in Worker : ~ PrefetchStep(p)
<1>1. ASSUME NEW c \in Chunk, PrefetchCheck(c) PROVE FALSE
  BY <1>1 DEF NoPrefetch, PrefetchCheck
<1>2. ASSUME NEW p \in Worker, PrefetchAcquire(p) PROVE FALSE
  BY <1>2 DEF NoPrefetch, PrefetchAcquire
<1>3. ASSUME NEW p \in Worker, PrefetchLoad(p) \/ PrefetchGenerate(p) PROVE FALSE
  BY <1>3 DEF NoPrefetch, PrefetchLoad, PrefetchGenerate
<1>4. ASSUME NEW p \in Worker, PrefetchSave(p) \/ PrefetchPut(p) PROVE FALSE
  BY <1>4 DEF NoPrefetch, PrefetchSave, PrefetchPut
<1> QED BY <1>1, <1>2, <1>3, <1>4 DEF PrefetchStep

\* The one request in the server stays the only one.
LEMMA NextAlone ==
  ASSUME ~ Overlap, TypeInv, NoPrefetch, Alone, [Next]_vars
  PROVE  Alone'
<1>0. wr \in [Writer -> WriteState] /\ rd \in ReadState
  BY DEF TypeInv, TypeOK
<1>1. CASE UNCHANGED <<rd, wr>>
  BY <1>1 DEF Alone
<1>2. ASSUME NEW r \in Requests, DispatchRead(r) PROVE Alone'
  BY <1>2 DEF DispatchRead, SessionFree, Quiet, IdleRead, Alone
<1>3. CASE ReadStep
  <2>1. rd.pc # "idle"
    BY <1>3 DEF ReadStep, ReadHit, ReadMiss, ReadLoad, ReadGenerate, ReadPut, ReadReply
  <2>2. wr' = wr
    BY <1>3 DEF ReadStep, ReadHit, ReadMiss, ReadLoad, ReadGenerate, ReadPut, ReadReply
  <2>3. rd' = IdleRead \/ rd'.pc # "idle"
    <3>1. CASE ReadHit \/ ReadPut
      <4>1. PICK b : rd' = Answered(b)
        BY <3>1 DEF ReadHit, ReadPut
      <4> QED BY <1>0, <4>1 DEF Answered
    <3>2. CASE ReadMiss
      <4>1. PICK q \in {"load", "generate"} : rd' = [rd EXCEPT !.pc = q]
        BY <3>2 DEF ReadMiss
      <4> QED BY <1>0, <4>1
    <3>3. CASE ReadLoad
      BY <1>0, <3>3 DEF ReadLoad
    <3>4. CASE ReadGenerate
      BY <1>0, <3>4 DEF ReadGenerate, Broken
    <3>5. CASE ReadReply
      BY <3>5 DEF ReadReply
    <3> QED BY <1>3, <3>1, <3>2, <3>3, <3>4, <3>5 DEF ReadStep
  <2> QED BY <2>1, <2>2, <2>3 DEF Alone, IdleRead
<1>4. ASSUME NEW w \in Writer, NEW c \in Chunk, NEW slot \in Chunk \cup {NoPos},
             DispatchWrite(w, c, slot)
      PROVE  Alone'
  <2>1. /\ rd' = rd /\ rd.pc = "idle"
        /\ \A x \in Writer : wr[x].pc = "idle"
        /\ \A x \in Writer \ {w} : wr'[x] = wr[x]
    BY <1>0, <1>4 DEF DispatchWrite, SessionFree, Quiet
  <2> QED BY <2>1 DEF Alone
<1>5. ASSUME NEW w \in Writer, WriteStep(w) PROVE Alone'
  <2>1. /\ rd' = rd /\ wr[w].pc # "idle"
        /\ \A x \in Writer \ {w} : wr'[x] = wr[x]
    BY <1>0, <1>5 DEF WriteStep, WriteSave, WritePut, WriteReply
  <2> QED BY <2>1 DEF Alone
<1>6. CASE Crash
  BY <1>6 DEF Crash, IdleWrite, Alone
<1>7. CASE UNCHANGED vars
  BY <1>1, <1>7 DEF vars
<1> QED BY <1>2, <1>3, <1>4, <1>5, <1>6, <1>7, NoTaskRuns DEF Next

\* Every payload that is to be saved names its chunk, or is a piece on its way
\* to its own slot.
LEMMA DispatchedInPlace ==
  ASSUME OneAtATime, StoreInv, NEW w \in Writer, NEW c \in Chunk, NEW slot \in Chunk \cup {NoPos},
         DispatchWrite(w, c, slot)
  PROVE  /\ wr'[w].pc \in {"save", "reply"}
         /\ wr'[w].pc = "save" => Isolated(wr'[w].nbt, wr'[w].key) /\ Persistent
         /\ \A x \in Writer \ {w} : wr'[x] = wr[x]
<1>0. wr \in [Writer -> WriteState]
  BY DEF StoreInv, TypeInv, TypeOK
<1>1. PICK d \in WritePackets(c, nwrites') :
        wr' = [wr EXCEPT ![w] =
          IF slot # NoPos /\ unwraps(d)
            THEN [pc |-> IF Persistent THEN "save" ELSE "reply",
                  key |-> SaveKey(slot, unwrap_and_decompress_chunk(d)),
                  nbt |-> unwrap_and_decompress_chunk(d)]
            ELSE [pc |-> "reply", key |-> NoPos, nbt |-> unwrap_and_decompress_chunk(d)]]
  BY DEF DispatchWrite
<1>2. slot # NoPos /\ unwraps(d) =>
        Isolated(unwrap_and_decompress_chunk(d), SaveKey(slot, unwrap_and_decompress_chunk(d)))
  <2>1. nwrites' \in Version
    BY VirtualFileAssumption DEF DispatchWrite, StoreInv, TypeInv, TypeOK, Version
  <2> QED BY <2>1, KeyIsPlace
<1> DEFINE n == unwrap_and_decompress_chunk(d)
           k == SaveKey(slot, n)
           t == IF slot # NoPos /\ unwraps(d)
                  THEN [pc |-> IF Persistent THEN "save" ELSE "reply", key |-> k, nbt |-> n]
                  ELSE [pc |-> "reply", key |-> NoPos, nbt |-> n]
<1>3. slot # NoPos /\ unwraps(d) => Isolated(n, k)
  BY <1>2
<1>4. wr'[w] = t /\ \A x \in Writer \ {w} : wr'[x] = wr[x]
  BY <1>0, <1>1
<1> HIDE DEF n, k
<1>5. /\ t.pc \in {"save", "reply"}
      /\ t.pc = "save" => Persistent /\ slot # NoPos /\ unwraps(d) /\ t.key = k /\ t.nbt = n
  OBVIOUS
<1> HIDE DEF t
<1> QED BY <1>3, <1>4, <1>5

\* What a save of a chunk leaves: without the fault "commit" the row it found
\* or, if it says so, what the mode keeps of the payload.
LEMMA SaveIsExact ==
  ASSUME OneAtATime, NEW row, NEW n \in Nbt, StorageMode = "pg_jsonb" => n.pos # NoPos,
         NEW res \in save_chunk(row, n)
  PROVE  IF res.ok
           THEN res.row \in Nbt /\ res.row.pos = n.pos /\ Content(res.row) = Content(n)
           ELSE res.row = row
<1>1. CASE StorageMode = "pg_jsonb"
  <2>1. [n EXCEPT !.exact = FALSE] \in Nbt /\ [n EXCEPT !.exact = FALSE].pos = n.pos
    BY DEF Nbt
  <2>2. [[n EXCEPT !.exact = FALSE] EXCEPT !.exact = TRUE] = [n EXCEPT !.exact = TRUE]
    BY DEF Nbt
  <2> QED BY <1>1, <2>1, <2>2 DEF OneAtATime, ErrorsUndone, save_chunk, Upserted, Content
<1>2. CASE StorageMode # "pg_jsonb"
  BY <1>2 DEF OneAtATime, ErrorsUndone, save_chunk, Upserted
<1> QED BY <1>1, <1>2

\* What a load answers if it answers.
LEMMA LoadIsExact ==
  ASSUME OneByOne, NEW row, NEW res \in load_chunk(row)
  PROVE  res.found = row
BY DEF OneByOne, LoadsAnswer, load_chunk

\* What a save of writer w does, in the words of the invariant.
LEMMA SaveStep ==
  ASSUME OneAtATime, StoreInv, NEW w \in Writer, WriteSave(w)
  PROVE  /\ wr[w].key \in Chunk /\ wr[w].nbt \in Nbt /\ Isolated(wr[w].nbt, wr[w].key)
         /\ cache' = cache /\ rd' = rd /\ rd = IdleRead
         /\ \A x \in Writer \ {w} : wr[x].pc = "idle" /\ wr'[x] = wr[x]
         /\ wr'[w].key = wr[w].key /\ wr'[w].nbt = wr[w].nbt
         /\ \/ /\ wr'[w].pc = "put"
               /\ \E row \in Nbt : /\ Isolated(row, wr[w].key)
                                  /\ Content(row) = Content(wr[w].nbt)
                                  /\ db' = [db EXCEPT ![wr[w].key] = row]
            \/ wr'[w].pc = "reply" /\ db' = db
<1> DEFINE k == wr[w].key
           n == wr[w].nbt
<1>0. wr \in [Writer -> WriteState] /\ db \in [Chunk -> Row] /\ wr[w].pc = "save"
  BY DEF WriteSave, StoreInv, TypeInv, TypeOK
<1>1. k \in Chunk /\ n \in Nbt /\ Isolated(n, k)
  BY <1>0 DEF StoreInv, TypeInv, WritersOK, InPlace
<1>a. StorageMode = "pg_jsonb" => n.pos # NoPos
  BY <1>1, ChunkAssumption DEF Isolated, OneAtATime, OneByOne, SavesParse
<1>2. PICK res \in save_chunk(db[k], n) :
        /\ db' = [db EXCEPT ![k] = res.row]
        /\ wr' = [wr EXCEPT ![w].pc = IF res.ok THEN "put" ELSE "reply"]
  BY DEF WriteSave
<1>3. IF res.ok
        THEN res.row \in Nbt /\ Isolated(res.row, k) /\ Content(res.row) = Content(n)
        ELSE res.row = db[k]
  BY <1>1, <1>a, SaveIsExact DEF Isolated
<1>4. cache' = cache /\ rd' = rd
  BY DEF WriteSave
<1>5. rd = IdleRead /\ \A x \in Writer \ {w} : wr[x].pc = "idle"
  BY <1>0 DEF StoreInv, Alone
<1> HIDE DEF k, n
<1>6. \A x \in Writer \ {w} : wr'[x] = wr[x]
  BY <1>0, <1>2
<1>7. CASE res.ok
  <2>1. wr' = [wr EXCEPT ![w].pc = "put"]
    BY <1>2, <1>7
  <2>2. wr'[w].pc = "put" /\ wr'[w].key = wr[w].key /\ wr'[w].nbt = wr[w].nbt
    BY <1>0, <2>1
  <2>3. \E row \in Nbt : Isolated(row, k) /\ Content(row) = Content(n) /\ db' = [db EXCEPT ![k] = row]
    BY <1>2, <1>3, <1>7
  <2> QED BY <1>1, <1>4, <1>5, <1>6, <2>2, <2>3 DEF k, n
<1>8. CASE ~ res.ok
  <2>1. wr' = [wr EXCEPT ![w].pc = "reply"]
    BY <1>2, <1>8
  <2>2. wr'[w].pc = "reply" /\ wr'[w].key = wr[w].key /\ wr'[w].nbt = wr[w].nbt
    BY <1>0, <2>1
  <2>3. db' = db
    BY <1>0, <1>1, <1>2, <1>3, <1>8
  <2> QED BY <1>1, <1>4, <1>5, <1>6, <2>2, <2>3 DEF k, n
<1> QED BY <1>7, <1>8

\* Every payload is under the chunk it names, every piece in its slot.
LEMMA NextInPlace ==
  ASSUME OneAtATime, StoreInv, [Next]_vars
  PROVE  InPlace'
<1> USE DEF StoreInv
<1>0. wr \in [Writer -> WriteState] /\ db \in [Chunk -> Row]
  BY DEF TypeInv, TypeOK
<1>1. ASSUME UNCHANGED db,
             \A w \in Writer : wr'[w] = wr[w] \/ wr'[w].pc \notin {"save", "put"}
      PROVE  InPlace'
  BY <1>1 DEF InPlace
<1>2. ASSUME NEW w \in Writer, NEW c \in Chunk, NEW slot \in Chunk \cup {NoPos},
             DispatchWrite(w, c, slot)
      PROVE  InPlace'
  <2>1. db' = db
    BY <1>2 DEF DispatchWrite, dataVars
  <2> QED BY <1>2, <2>1, DispatchedInPlace DEF InPlace
<1>3. ASSUME NEW w \in Writer, WriteSave(w) PROVE InPlace'
  <2>1. \A c \in Chunk : db'[c] # None => Isolated(db'[c], c)
    BY <1>0, <1>3, SaveStep DEF InPlace
  <2>2. \A x \in Writer : wr'[x].pc \in {"save", "put"} => Isolated(wr'[x].nbt, wr'[x].key)
    BY <1>3, SaveStep DEF InPlace
  <2> QED BY <2>1, <2>2 DEF InPlace
<1>4. ASSUME NEW w \in Writer, WritePut(w) \/ WriteReply(w) PROVE InPlace'
  <2>1. \A x \in Writer \ {w} : wr'[x] = wr[x]
    BY <1>0, <1>4 DEF WritePut, WriteReply
  <2>2. db' = db
    BY <1>4 DEF WritePut, WriteReply, dataVars
  <2>3. CASE WritePut(w)
    BY <1>0, <1>1, <2>1, <2>2, <2>3 DEF WritePut
  <2>4. CASE WriteReply(w)
    BY <1>0, <1>1, <2>1, <2>2, <2>4 DEF WriteReply, IdleWrite
  <2> QED BY <1>4, <2>3, <2>4
<1>5. CASE Crash
  BY <1>1, <1>5 DEF Crash, IdleWrite
<1>6. ASSUME NEW r \in Requests, DispatchRead(r) PROVE InPlace'
  BY <1>1, <1>6 DEF DispatchRead, dataVars
<1>7. CASE ReadStep
  BY <1>1, <1>7 DEF ReadStep, ReadHit, ReadMiss, ReadLoad, ReadGenerate, ReadPut, ReadReply, dataVars
<1>8. CASE UNCHANGED vars
  BY <1>1, <1>8 DEF vars, dataVars
<1> QED BY <1>2, <1>3, <1>4, <1>5, <1>6, <1>7, <1>8, NoTaskRuns DEF Next, WriteStep

\* The cache follows the table: one step behind while a writer is between its
\* save and its put, and never otherwise.
LEMMA NextCoherent ==
  ASSUME OneAtATime, StoreInv, [Next]_vars
  PROVE  Coherent'
<1> USE DEF StoreInv
<1>0. wr \in [Writer -> WriteState] /\ db \in [Chunk -> Row]
  BY DEF TypeInv, TypeOK
<1>1. ASSUME UNCHANGED db, cache'.blob = cache.blob,
             \A w \in Writer : wr'[w] = wr[w] \/ (wr[w].pc # "put" /\ wr'[w].pc # "put")
      PROVE  Coherent'
  BY <1>1, WorldStays DEF Coherent, contains
<1>2. CASE ReadHit
  <2>1. Wanted \in Chunk
    BY <1>2, WantedType DEF ReadHit
  <2>2. cache'.blob = cache.blob
    BY <1>2, <2>1, CacheAfterTouch DEF ReadHit
  <2> QED BY <1>1, <1>2, <2>2 DEF ReadHit
<1>3. CASE ReadPut
  <2> DEFINE b == compress_and_wrap_chunk(rd.val)
  <2>1. Wanted \in Chunk
    BY <1>3, WantedType DEF ReadPut
  <2>2. b \in Packet /\ b.nbt = rd.val /\ Seen(Wanted, rd.val) = World[Wanted]
    BY <1>3, PayloadTypes DEF ReadPut, ReaderOK, ReadsWorld, compress_and_wrap_chunk, TypeInv
  <2>3. cache' = Put(cache, Wanted, b) /\ db' = db /\ wr' = wr
    BY <1>3 DEF ReadPut
  <2> HIDE DEF b
  <2>4. /\ cache'.blob[Wanted] = b
        /\ \A c \in Chunk \ {Wanted} : cache'.blob[c] \in {cache.blob[c], NoBlob}
    BY <2>1, <2>2, <2>3, CacheAfterPut
  <2>5. World' = World /\ \A c, n : Seen(c, n)' = Seen(c, n)
    BY <2>3, WorldStays
  <2>6. \A c \in Chunk : contains(cache', c) =>
          \/ Seen(c, cache'.blob[c].nbt) = World[c]
          \/ \E w \in Writer : wr[w].pc = "put" /\ wr[w].key = c
    BY <2>1, <2>2, <2>4 DEF Coherent, contains
  <2> QED BY <2>3, <2>5, <2>6 DEF Coherent
<1>4. ASSUME NEW w \in Writer, WriteSave(w) PROVE Coherent'
  <2>0. PICK k \in Chunk, n \in Nbt : k = wr[w].key /\ n = wr[w].nbt
    BY <1>4, SaveStep
  <2>1. \A x \in Writer : wr[x].pc # "put"
    BY <1>4, SaveStep DEF WriteSave
  <2>2. \A c \in Chunk : contains(cache, c) => Seen(c, cache.blob[c].nbt) = World[c]
    BY <2>1 DEF Coherent
  <2>3. CASE wr'[w].pc = "reply" /\ db' = db
    BY <1>1, <1>4, <2>1, <2>3, SaveStep
  <2>4. ASSUME wr'[w].pc = "put",
               NEW row \in Nbt, Content(row) = Content(n), db' = [db EXCEPT ![k] = row]
        PROVE  Coherent'
    <3>1. wr'[w].key = k /\ wr'[w].nbt = n /\ cache' = cache
      BY <1>4, <2>0, SaveStep
    <3>2. \A x \in Writer : wr'[x].pc = "put" => x = w
      BY <1>4, SaveStep
    <3>3. db'[k] = row /\ \A c \in Chunk \ {k} : db'[c] = db[c]
      BY <1>0, <2>4
    <3>4. World'[k] = Seen(k, n)'
      BY <2>4, <3>3, PayloadTypes DEF World, Seen, Torn, Content
    <3>5. ASSUME NEW c \in Chunk \ {k}
          PROVE  World'[c] = World[c] /\ \A m : Seen(c, m)' = Seen(c, m)
      BY <3>3 DEF Torn, World, Seen, Content
    <3>6. \A x \in Writer : wr'[x].pc = "put" => World'[wr'[x].key] = Seen(wr[x].key, wr[x].nbt)'
      BY <3>1, <3>2, <3>4
    <3>7. \A c \in Chunk : contains(cache, c)' =>
            \/ Seen(c, cache.blob[c].nbt)' = World'[c]
            \/ \E x \in Writer : wr'[x].pc = "put" /\ wr'[x].key = c
      BY <2>2, <2>4, <3>1, <3>5 DEF contains
    <3> QED BY <3>6, <3>7 DEF Coherent
  <2> QED BY <1>4, <2>0, <2>3, <2>4, SaveStep
<1>5. ASSUME NEW w \in Writer, WritePut(w) PROVE Coherent'
  <2> DEFINE k == wr[w].key
             n == wr[w].nbt
             b == compress_and_wrap_chunk(n)
  <2>1. k \in Chunk /\ n \in Nbt /\ wr[w].pc = "put" /\ World[k] = Seen(k, n)
    BY <1>5 DEF WritePut, TypeInv, WritersOK, Coherent
  <2>2. \A x \in Writer : wr[x].pc = "put" => x = w
    BY <2>1 DEF Alone
  <2>3. cache' = Put(cache, k, b) /\ db' = db
    BY <1>5 DEF WritePut
  <2>4. wr'[w].pc = "reply" /\ \A x \in Writer \ {w} : wr'[x] = wr[x]
    BY <1>0, <1>5 DEF WritePut
  <2>5. b \in Packet /\ b.nbt = n
    BY <2>1, PayloadTypes DEF compress_and_wrap_chunk
  <2>6. World' = World /\ \A c, m : Seen(c, m)' = Seen(c, m)
    BY <2>3, WorldStays
  <2> HIDE DEF k, n, b
  <2>7. /\ cache'.blob[k] = b
        /\ \A c \in Chunk \ {k} : cache'.blob[c] \in {cache.blob[c], NoBlob}
    BY <2>1, <2>3, <2>5, CacheAfterPut
  <2>8. ASSUME NEW c \in Chunk, contains(cache', c) PROVE Seen(c, cache'.blob[c].nbt) = World[c]
    <3>1. CASE c = k
      BY <2>1, <2>5, <2>7, <3>1
    <3>2. CASE c # k
      <4>1. cache'.blob[c] = cache.blob[c] /\ contains(cache, c)
        BY <2>7, <2>8, <3>2 DEF contains
      <4> QED BY <2>2, <3>2, <4>1 DEF Coherent, k
    <3> QED BY <3>1, <3>2
  <2>9. \A x \in Writer : wr'[x].pc # "put"
    BY <2>2, <2>4
  <2> QED BY <2>6, <2>8, <2>9 DEF Coherent
<1>6. ASSUME NEW w \in Writer, WriteReply(w) PROVE Coherent'
  <2>1. /\ UNCHANGED <<db, cache>> /\ wr[w].pc = "reply" /\ wr'[w].pc = "idle"
        /\ \A x \in Writer \ {w} : wr'[x] = wr[x]
    BY <1>0, <1>6 DEF WriteReply, IdleWrite, dataVars
  <2> QED BY <1>1, <2>1
<1>7. ASSUME NEW w \in Writer, NEW c \in Chunk, NEW slot \in Chunk \cup {NoPos},
             DispatchWrite(w, c, slot)
      PROVE  Coherent'
  <2>1. UNCHANGED <<db, cache>> /\ wr[w].pc = "idle"
    BY <1>7 DEF DispatchWrite, dataVars
  <2>2. wr'[w].pc # "put" /\ \A x \in Writer \ {w} : wr'[x] = wr[x]
    BY <1>7, DispatchedInPlace
  <2> QED BY <1>1, <2>1, <2>2
<1>8. CASE Crash
  <2>1. /\ \A c \in Chunk : ~ contains(cache, c)'
        /\ \A w \in Writer : wr'[w].pc = "idle"
    BY <1>8 DEF Crash, EmptyCache, contains, IdleWrite
  <2> QED BY <2>1 DEF Coherent
<1>9. CASE UNCHANGED <<cache, db, wr>>
  BY <1>1, <1>9
<1>10. ASSUME NEW r \in Requests, DispatchRead(r) PROVE Coherent'
  BY <1>9, <1>10 DEF DispatchRead, dataVars
<1>11. CASE ReadMiss \/ ReadLoad \/ ReadGenerate \/ ReadReply
  BY <1>9, <1>11 DEF ReadMiss, ReadLoad, ReadGenerate, ReadReply, dataVars
<1>12. CASE UNCHANGED vars
  BY <1>9, <1>12 DEF vars, dataVars
<1> QED
  BY <1>2, <1>3, <1>4, <1>5, <1>6, <1>7, <1>8, <1>10, <1>11, <1>12, NoTaskRuns
  DEF Next, ReadStep, WriteStep

\* What a pass that answers a chunk appends.
LEMMA AnswerStep ==
  ASSUME StoreInv, ReadHit \/ ReadPut
  PROVE  \E b \in Packet :
           /\ Seen(Wanted, b.nbt) = World[Wanted]
           /\ rd' = Answered(b)
           /\ db' = db /\ wr' = wr
           /\ rd'.req = rd.req /\ rd'.got = Append(rd.got, b)
           /\ rd'.pc \in {"lookup", "reply"}
<1> USE DEF StoreInv
<1>1. Wanted \in Chunk
  BY WantedType DEF ReadHit, ReadPut
<1>2. db' = db /\ wr' = wr
  BY DEF ReadHit, ReadPut
<1>3. ASSUME NEW b, rd' = Answered(b)
      PROVE  /\ rd'.req = rd.req /\ rd'.got = Append(rd.got, b)
             /\ rd'.pc \in {"lookup", "reply"}
  BY <1>3 DEF Answered, TypeInv, TypeOK
<1>4. CASE ReadHit
  <2> DEFINE b == cache.blob[Wanted]
  <2>1. b \in Packet /\ rd' = Answered(b)
    BY <1>1, <1>4 DEF ReadHit, contains, TypeInv, TypeOK
  <2>2. Seen(Wanted, b.nbt) = World[Wanted]
    BY <1>1, <1>4 DEF ReadHit, Alone, Coherent
  <2> HIDE DEF b
  <2> QED BY <1>2, <1>3, <2>1, <2>2
<1>5. CASE ReadPut
  <2> DEFINE b == compress_and_wrap_chunk(rd.val)
  <2>1. b \in Packet /\ rd' = Answered(b)
    BY <1>5, PayloadTypes DEF ReadPut, ReaderOK, TypeInv
  <2>2. Seen(Wanted, b.nbt) = World[Wanted]
    BY <1>5 DEF ReadPut, ReadsWorld, compress_and_wrap_chunk
  <2> HIDE DEF b
  <2> QED BY <1>2, <1>3, <2>1, <2>2
<1> QED BY <1>4, <1>5

\* What a read answers is the world it was taken up in, which is the world it
\* ends in.
LEMMA NextReadsWorld ==
  ASSUME OneAtATime, StoreInv, [Next]_vars
  PROVE  ReadsWorld'
<1> USE DEF StoreInv
<1>0. rd \in ReadState /\ db \in [Chunk -> Row]
  BY DEF TypeInv, TypeOK
<1>1. CASE rd' = IdleRead
  BY <1>1 DEF IdleRead, ReadsWorld
<1>2. CASE UNCHANGED <<rd, db>>
  BY <1>2, WorldStays DEF ReadsWorld, Wanted
<1>3. CASE ReadHit \/ ReadPut
  <2>1. PICK b \in Packet :
          /\ Seen(Wanted, b.nbt) = World[Wanted]
          /\ db' = db
          /\ rd'.req = rd.req /\ rd'.got = Append(rd.got, b)
          /\ rd'.pc \in {"lookup", "reply"}
    BY <1>3, AnswerStep
  <2>2. rd.got \in Seq(Packet) /\ Len(rd.got) \in Nat
    BY <1>0, LenProperties
  <2>3. World' = World /\ \A c, n : Seen(c, n)' = Seen(c, n)
    BY <2>1, WorldStays
  <2>4. ASSUME NEW m \in 1 .. Len(rd'.got)
        PROVE  Seen(rd'.req[m], rd'.got[m].nbt) = World[rd'.req[m]]
    <3>1. m \in 1 .. Len(rd.got) + 1
      BY <2>1, <2>2, AppendProperties
    <3>2. CASE m \in 1 .. Len(rd.got)
      <4>1. rd'.got[m] = rd.got[m]
        BY <2>1, <2>2, <3>2, AppendProperties
      <4> QED BY <2>1, <3>2, <4>1 DEF ReadsWorld
    <3>3. CASE m = Len(rd.got) + 1
      <4>1. rd'.got[m] = b
        BY <2>1, <2>2, <3>3, AppendProperties
      <4> QED BY <2>1, <3>3, <4>1 DEF Wanted
    <3> QED BY <2>2, <3>1, <3>2, <3>3
  <2>5. Len(rd'.got) <= Len(rd'.req)
    <3>1. Len(rd.got) < Len(rd.req) /\ Len(rd.req) \in Nat
      BY <1>0, <1>3, LenProperties DEF ReadHit, ReadPut, TypeInv, ReaderOK
    <3>2. Len(rd'.got) = Len(rd.got) + 1
      BY <2>1, <2>2, AppendProperties
    <3> QED BY <2>1, <2>2, <3>1, <3>2
  <2> QED BY <2>1, <2>3, <2>4, <2>5 DEF ReadsWorld
<1>4. ASSUME UNCHANGED db, rd'.req = rd.req, rd'.got = rd.got,
             rd'.pc = "generate" => db[Wanted] = None \/ Torn(Wanted),
             rd'.pc = "put" => Seen(Wanted, rd'.val) = World[Wanted]
      PROVE  ReadsWorld'
  <2>1. /\ World' = World /\ Wanted' = Wanted
        /\ \A c : Torn(c)' = Torn(c)
        /\ \A c, n : Seen(c, n)' = Seen(c, n)
    BY <1>4, WorldStays DEF Wanted
  <2> QED BY <1>4, <2>1 DEF ReadsWorld
<1>5. CASE ReadMiss
  <2>1. PICK q \in {"load", "generate"} : rd' = [rd EXCEPT !.pc = q] /\ (q = "generate" => ~ Persistent)
    BY <1>5 DEF ReadMiss
  <2>2. Wanted \in Chunk /\ db' = db
    BY <1>5, WantedType DEF ReadMiss, dataVars
  <2>3. rd'.pc = q /\ rd'.req = rd.req /\ rd'.got = rd.got
    BY <1>0, <2>1
  <2> QED BY <1>4, <2>1, <2>2, <2>3 DEF NoTable
<1>6. CASE ReadLoad
  <2>1. Wanted \in Chunk /\ db' = db
    BY <1>6, WantedType DEF ReadLoad, dataVars
  <2>2. PICK res \in load_chunk(db[Wanted]) :
          rd' = IF res.found # None /\ verify_chunk_coords(res.found, Wanted)
                  THEN [rd EXCEPT !.pc = "put", !.val = res.found]
                  ELSE [rd EXCEPT !.pc = "generate"]
    BY <1>6 DEF ReadLoad
  <2>3. res.found = db[Wanted]
    BY LoadIsExact DEF OneAtATime
  <2>4. db[Wanted] # None => verify_chunk_coords(db[Wanted], Wanted) \/ Torn(Wanted)
    BY <2>1 DEF InPlace, Isolated, verify_chunk_coords, Torn
  <2>5. CASE db[Wanted] = None \/ ~ verify_chunk_coords(db[Wanted], Wanted)
    <3>1. rd' = [rd EXCEPT !.pc = "generate"]
      BY <2>2, <2>3, <2>5
    <3>2. rd'.pc = "generate" /\ rd'.req = rd.req /\ rd'.got = rd.got
      BY <1>0, <3>1
    <3> QED BY <1>4, <2>1, <2>4, <2>5, <3>2
  <2>6. CASE db[Wanted] # None /\ verify_chunk_coords(db[Wanted], Wanted)
    <3>1. rd' = [rd EXCEPT !.pc = "put", !.val = db[Wanted]]
      BY <2>2, <2>3, <2>4, <2>6
    <3>2. rd'.pc = "put" /\ rd'.req = rd.req /\ rd'.got = rd.got /\ rd'.val = db[Wanted]
      BY <1>0, <3>1
    <3>3. World[Wanted] = Seen(Wanted, db[Wanted])
      BY <2>1, <2>6 DEF World
    <3> QED BY <1>4, <2>1, <3>2, <3>3
  <2> QED BY <2>5, <2>6
<1>7. CASE ReadGenerate
  <2>1. Wanted \in Chunk /\ db' = db /\ (db[Wanted] = None \/ Torn(Wanted))
    BY <1>7, WantedType DEF ReadGenerate, dataVars, ReadsWorld
  <2>2. PICK n \in generate_chunk(Wanted) :
          rd' = IF n # None /\ verify_chunk_coords(n, Wanted)
                  THEN [rd EXCEPT !.pc = "put", !.val = n]
                  ELSE Broken
    BY <1>7 DEF ReadGenerate
  <2>3. n # None /\ verify_chunk_coords(n, Wanted) => Seen(Wanted, n) = World[Wanted]
    <3>1. n # None => \E c \in Chunk : n = Generated(c)
      BY <2>1, <2>2 DEF generate_chunk
    <3>2. World[Wanted] = Seen(Wanted, Generated(Wanted))
      BY <2>1, WorldOf DEF World
    <3>3. n # None /\ verify_chunk_coords(n, Wanted) => n = Generated(Wanted)
      BY <3>1 DEF verify_chunk_coords, Generated
    <3> QED BY <3>2, <3>3
  <2>4. CASE n # None /\ verify_chunk_coords(n, Wanted)
    <3>1. rd' = [rd EXCEPT !.pc = "put", !.val = n]
      BY <2>2, <2>4
    <3>2. rd'.pc = "put" /\ rd'.req = rd.req /\ rd'.got = rd.got /\ rd'.val = n
      BY <1>0, <3>1
    <3> QED BY <1>4, <2>1, <2>3, <2>4, <3>2
  <2>5. CASE ~ (n # None /\ verify_chunk_coords(n, Wanted))
    <3>1. rd' = [rd EXCEPT !.pc = "reply", !.val = None]
      BY <2>2, <2>5 DEF Broken
    <3>2. rd'.pc = "reply" /\ rd'.req = rd.req /\ rd'.got = rd.got
      BY <1>0, <3>1
    <3> QED BY <1>4, <2>1, <3>2
  <2> QED BY <2>4, <2>5
<1>8. CASE ReadReply
  BY <1>1, <1>8 DEF ReadReply
<1>9. ASSUME NEW r \in Requests, DispatchRead(r) PROVE ReadsWorld'
  <2>1. rd'.pc = "lookup" /\ rd'.got = <<>> /\ rd'.req = r
    BY <1>9 DEF DispatchRead, IdleRead
  <2>2. Len(r) \in Nat
    BY VirtualFileAssumption, LenProperties
  <2> QED BY <2>1, <2>2 DEF ReadsWorld
<1>10. ASSUME NEW w \in Writer, WriteSave(w) PROVE ReadsWorld'
  BY <1>1, <1>10, SaveStep
<1>11. ASSUME NEW w \in Writer, WritePut(w) \/ WriteReply(w) PROVE ReadsWorld'
  BY <1>2, <1>11 DEF WritePut, WriteReply, dataVars
<1>12. ASSUME NEW w \in Writer, NEW c \in Chunk, NEW slot \in Chunk \cup {NoPos},
             DispatchWrite(w, c, slot)
      PROVE  ReadsWorld'
  BY <1>2, <1>12 DEF DispatchWrite, dataVars
<1>13. CASE Crash
  BY <1>1, <1>13 DEF Crash
<1>14. CASE UNCHANGED vars
  BY <1>2, <1>14 DEF vars, dataVars
<1> QED
  BY <1>3, <1>5, <1>6, <1>7, <1>8, <1>9, <1>10, <1>11, <1>12, <1>13, <1>14, NoTaskRuns
  DEF Next, ReadStep, WriteStep

\* The parts together.
LEMMA NextStoreInv ==
  ASSUME OneAtATime
  PROVE  StoreInv /\ [Next]_vars => StoreInv'
<1> SUFFICES ASSUME StoreInv, [Next]_vars PROVE StoreInv'
  OBVIOUS
<1>1. TypeInv' /\ NoPrefetch' /\ NoTable'
  BY NextTypes, NextNoPrefetch, NextNoTable DEF StoreInv, OneAtATime, OneByOne
<1>2. Alone' /\ InPlace' /\ Coherent' /\ ReadsWorld'
  BY NextAlone, NextInPlace, NextCoherent, NextReadsWorld DEF StoreInv, OneAtATime, OneByOne
<1> QED BY <1>1, <1>2 DEF StoreInv

\* For a client that waits for its answers the cache agrees with the table
\* whenever nobody is being served, however small it is and whatever save
\* fails; to the bit, but for the jsonb mode, and for every chunk of which the
\* table holds more than a piece.
THEOREM AlwaysCoherent ==
  ASSUME OneAtATime, StorageMode # "pg_jsonb"
  PROVE  Spec => []CacheCoherent
<1>1. StoreInv => CacheCoherent
  BY WorldOf DEF StoreInv, Coherent, Content, Quiet, CacheCoherent, Torn
<1> QED BY <1>1, InitStoreInv, NextStoreInv, PTL DEF Spec

-----------------------------------------------------------------------------
(* What such a client reads is fresh in every mode, and even if a statement
   that reports an error was applied. *)

\* A statement that was applied although it reports an error may mend a torn
\* chunk in the table, but not in the cache.
MendsAreConfirmed == "plain" \notin Fragments \/ ErrorsUndone

\* n replaces every edit of c that was saved.
UpToDate(n, c) == \A v \in saved[c] : Supersedes(n, v)

\* Only the writer that has just saved a chunk knows more than the cache.
CacheFresh ==
  \A c \in Chunk : contains(cache, c) =>
    \/ UpToDate(cache.blob[c].nbt, c)
    \/ Torn(c)
    \/ \E w \in Writer : wr[w].pc = "put" /\ wr[w].key = c

\* Nothing is saved while a read is served, so that all it has found stays
\* up to date until it is answered.
ReaderFresh ==
  /\ rd.pc = "generate" => saved[Wanted] = {} \/ Torn(Wanted)
  /\ rd.pc = "put" => UpToDate(rd.val, Wanted) \/ Torn(Wanted)
  /\ \A i \in 1 .. Len(rd.got) : UpToDate(rd.got[i].nbt, rd.req[i]) \/ Torn(rd.req[i])

FreshInv == IsolationInv /\ DurableInv /\ Alone /\ CacheFresh /\ ReaderFresh

\* The inductive invariant holds at the start: nothing was saved yet.
LEMMA InitFresh == Init => FreshInv
<1> SUFFICES ASSUME Init PROVE FreshInv
  OBVIOUS
<1>1. Alone
  BY DEF Init, Alone, IdleWrite
<1>2. CacheFresh /\ ReaderFresh
  BY DEF Init, CacheFresh, EmptyCache, contains, ReaderFresh, IdleRead
<1> QED BY <1>1, <1>2, InitIsolated, InitDurable DEF FreshInv

\* The row of a chunk is up to date, and there is one if there was an edit.
LEMMA RowUpToDate ==
  ASSUME OneByOne, DurableInv, NEW c \in Chunk
  PROVE  /\ UpToDate(db[c], c)
         /\ db[c] = None => saved[c] = {}
BY DEF OneByOne, DurableInv, NoPrefetch, Kept, UpToDate

\* A write that is taken up changes nothing of what is up to date.
LEMMA DispatchKeepsUpToDate ==
  ASSUME TypeInv, Numbered, nwrites < MaxWrites, nwrites' = nwrites + 1,
         before' = [before EXCEPT ![nwrites'] = acked], saved' = saved,
         NEW n, NEW c \in Chunk, UpToDate(n, c)
  PROVE  UpToDate(n, c)'
<1>1. saved[c] \subseteq 1 .. nwrites /\ nwrites \in Nat /\ before \in [Version -> SUBSET Version]
  BY VirtualFileAssumption DEF TypeInv, TypeOK, Numbered
<1>2. \A v \in saved[c] : before'[v] = before[v]
  BY <1>1, VirtualFileAssumption DEF Version, TypeInv, TypeOK
<1> QED BY <1>2 DEF UpToDate, Supersedes

\* A writer's payload replaces whatever was saved before.
LEMMA WriterUpToDate ==
  ASSUME TypeInv, Numbered, NEW w \in Writer, wr[w].pc # "idle", NEW c \in Chunk
  PROVE  UpToDate(wr[w].nbt, c)
<1>1. wr[w].nbt.ver \in 1 .. nwrites \ acked /\ nwrites \in Nat
  BY VirtualFileAssumption DEF TypeInv, TypeOK, Numbered
<1>2. \A v \in saved[c] : v \in Version /\ before[v] \subseteq acked
  BY DEF TypeInv, TypeOK, Numbered
<1> QED BY <1>1, <1>2 DEF UpToDate, Supersedes

\* A pass that answers something up to date.
LEMMA AnsweredFresh ==
  ASSUME TypeInv, ReaderFresh, rd.pc \in {"lookup", "put"}, NEW b \in Packet,
         UpToDate(b.nbt, Wanted) \/ Torn(Wanted), rd' = Answered(b),
         UNCHANGED <<db, saved, before>>
  PROVE  ReaderFresh'
<1>1. rd.got \in Seq(Packet) /\ Len(rd.got) \in Nat
  BY LenProperties DEF TypeInv, TypeOK
<1>2. /\ rd'.req = rd.req
      /\ rd'.got = Append(rd.got, b)
      /\ rd'.pc \in {"reply", "lookup"}
  BY DEF Answered, TypeInv, TypeOK
<1>3. ASSUME NEW i \in 1 .. Len(rd'.got)
      PROVE  UpToDate(rd'.got[i].nbt, rd.req[i]) \/ Torn(rd.req[i])
  <2>1. Len(rd'.got) = Len(rd.got) + 1
    BY <1>1, <1>2, AppendProperties
  <2>2. CASE i \in 1 .. Len(rd.got)
    <3>1. rd'.got[i] = rd.got[i]
      BY <1>1, <1>2, <2>2, AppendProperties
    <3> QED BY <2>2, <3>1 DEF ReaderFresh
  <2>3. CASE i = Len(rd.got) + 1
    <3>1. rd'.got[i] = b
      BY <1>1, <1>2, <2>3, AppendProperties
    <3> QED BY <2>3, <3>1 DEF Wanted
  <2> QED BY <1>1, <2>1, <2>2, <2>3
<1> QED BY <1>2, <1>3 DEF ReaderFresh, UpToDate, Supersedes, Torn

\* The cache after put of something up to date.
LEMMA CacheKeepsFresh ==
  ASSUME TypeInv, NEW k \in Chunk, NEW n \in Nbt, UpToDate(n, k) \/ Torn(k),
         cache' = Put(cache, k, compress_and_wrap_chunk(n)), UNCHANGED <<db, saved, before>>,
         \A c \in Chunk \ {k} : contains(cache, c) => UpToDate(cache.blob[c].nbt, c) \/ Torn(c)
  PROVE  CacheFresh'
<1> DEFINE b == compress_and_wrap_chunk(n)
<1>1. b \in Packet /\ b.nbt = n
  BY PayloadTypes DEF compress_and_wrap_chunk
<1>2. cache' = Put(cache, k, b)
  OBVIOUS
<1> HIDE DEF b
<1>3. /\ cache'.blob[k] = b
      /\ \A c \in Chunk \ {k} : cache'.blob[c] \in {cache.blob[c], NoBlob}
  BY <1>1, <1>2, CacheAfterPut
<1>4. ASSUME NEW c \in Chunk, contains(cache', c)
      PROVE  UpToDate(cache'.blob[c].nbt, c) \/ Torn(c)
  BY <1>1, <1>3, <1>4 DEF contains
<1> QED BY <1>4 DEF CacheFresh, UpToDate, Supersedes, Torn

\* The cache is behind a save by one step, and never otherwise.
LEMMA NextCacheFresh ==
  ASSUME OneByOne, MendsAreConfirmed, FreshInv, [Next]_vars
  PROVE  CacheFresh'
<1> USE DEF FreshInv, DurableInv
<1>0. wr \in [Writer -> WriteState] /\ NoPrefetch
  BY DEF TypeInv, TypeOK, OneByOne
<1>1. ASSUME UNCHANGED <<db, saved, before>>, cache'.blob = cache.blob,
             \A w \in Writer : wr'[w] = wr[w] \/ wr[w].pc # "put"
      PROVE  CacheFresh'
  BY <1>1 DEF CacheFresh, contains, UpToDate, Supersedes, Torn
<1>2. CASE ReadHit
  <2>1. Wanted \in Chunk
    BY <1>2, WantedType DEF ReadHit
  <2>2. cache'.blob = cache.blob
    BY <1>2, <2>1, CacheAfterTouch DEF ReadHit
  <2> QED BY <1>1, <1>2, <2>2 DEF ReadHit, histVars
<1>3. CASE ReadPut
  <2>1. Wanted \in Chunk /\ rd.val \in Nbt /\ (UpToDate(rd.val, Wanted) \/ Torn(Wanted))
    BY <1>3, WantedType DEF ReadPut, ReaderOK, ReaderFresh, TypeInv
  <2>2. /\ cache' = Put(cache, Wanted, compress_and_wrap_chunk(rd.val))
        /\ UNCHANGED <<db, saved, before>>
    BY <1>3 DEF ReadPut, histVars
  <2>3. \A w \in Writer : wr[w].pc = "idle"
    BY <1>3 DEF ReadPut, Alone
  <2> QED BY <2>1, <2>2, <2>3, CacheKeepsFresh DEF CacheFresh
<1>4. ASSUME NEW w \in Writer, NEW c \in Chunk, NEW slot \in Chunk \cup {NoPos},
             DispatchWrite(w, c, slot)
      PROVE  CacheFresh'
  <2>1. /\ UNCHANGED <<cache, db>> /\ saved' = saved
        /\ nwrites < MaxWrites /\ nwrites' = nwrites + 1
        /\ before' = [before EXCEPT ![nwrites'] = acked]
        /\ \A x \in Writer : wr[x].pc = "idle"
    BY <1>4 DEF DispatchWrite, dataVars, SessionFree, Quiet, OneByOne
  <2>2. ASSUME NEW d \in Chunk, contains(cache, d) PROVE UpToDate(cache.blob[d].nbt, d)' \/ Torn(d)
    <3>1. UpToDate(cache.blob[d].nbt, d) \/ Torn(d)
      BY <2>1, <2>2 DEF CacheFresh
    <3>2. ASSUME NEW n, UpToDate(n, d), n = cache.blob[d].nbt
          PROVE  UpToDate(cache.blob[d].nbt, d)'
      <4>1. UpToDate(n, d)'
        BY <2>1, <3>2, DispatchKeepsUpToDate
      <4> QED BY <2>1, <3>2, <4>1 DEF UpToDate, Supersedes
    <3> QED BY <3>1, <3>2
  <2> QED BY <2>1, <2>2 DEF CacheFresh, contains, Torn
<1>5. ASSUME NEW w \in Writer, WriteSave(w) PROVE CacheFresh'
  <2> DEFINE k == wr[w].key
  <2>1. k \in Chunk /\ wr[w].pc = "save" /\ \A x \in Writer \ {w} : wr[x].pc = "idle"
    BY <1>5 DEF WriteSave, TypeInv, WritersOK, Alone
  <2>2. PICK res \in save_chunk(db[k], wr[w].nbt) :
          /\ db' = [db EXCEPT ![k] = res.row]
          /\ wr' = [wr EXCEPT ![w].pc = IF res.ok THEN "put" ELSE "reply"]
          /\ saved' = IF res.ok THEN [saved EXCEPT ![k] = @ \cup {wr[w].nbt.ver}] ELSE saved
    BY <1>5 DEF WriteSave
  <2>3. cache' = cache /\ before' = before /\ saved \in [Chunk -> SUBSET Version]
    BY <1>5 DEF WriteSave, TypeInv, TypeOK
  <2>4. \A c \in Chunk : contains(cache, c) => UpToDate(cache.blob[c].nbt, c) \/ Torn(c)
    BY <2>1 DEF CacheFresh
  <2>a. db \in [Chunk -> Row]
    BY DEF TypeInv, TypeOK
  <2> HIDE DEF k
  <2>5. CASE res.ok
    <3>1. \A c \in Chunk \ {k} : saved'[c] = saved[c]
      BY <2>2, <2>3, <2>5
    <3>2. wr'[w].pc = "put" /\ wr'[w].key = k
      <4>1. wr' = [wr EXCEPT ![w].pc = "put"]
        BY <2>2, <2>5
      <4> QED BY <1>0, <4>1 DEF k
    <3>3. \A c \in Chunk \ {k} : contains(cache, c) =>
            UpToDate(cache.blob[c].nbt, c)' \/ Torn(c)'
      BY <2>2, <2>3, <2>4, <2>a, <3>1 DEF UpToDate, Supersedes, Torn
    <3> QED BY <2>3, <3>2, <3>3 DEF CacheFresh
  <2>6. CASE ~ res.ok
    <3>1. ASSUME NEW c \in Chunk, Torn(c) PROVE Torn(c)'
      <4>1. ~ ("plain" \notin Fragments)
        BY <3>1, ChunkAssumption DEF Torn, IsolationInv, TableIsolated, Isolated
      <4>2. res.row = db[k]
        BY <2>2, <2>6, <4>1 DEF MendsAreConfirmed, ErrorsUndone, save_chunk
      <4> QED BY <2>2, <2>a, <3>1, <4>2 DEF Torn
    <3> QED BY <2>2, <2>3, <2>4, <2>6, <3>1 DEF CacheFresh, UpToDate, Supersedes
  <2> QED BY <2>5, <2>6
<1>6. ASSUME NEW w \in Writer, WritePut(w) PROVE CacheFresh'
  <2>1. wr[w].key \in Chunk /\ wr[w].nbt \in Nbt /\ wr[w].pc = "put"
    BY <1>6 DEF WritePut, TypeInv, WritersOK
  <2>2. UpToDate(wr[w].nbt, wr[w].key)
    BY <2>1, WriterUpToDate
  <2>3. \A x \in Writer : wr[x].pc = "put" => x = w
    BY <2>1 DEF Alone
  <2>4. \A c \in Chunk \ {wr[w].key} : contains(cache, c) =>
          UpToDate(cache.blob[c].nbt, c) \/ Torn(c)
    BY <2>3 DEF CacheFresh
  <2> QED BY <1>6, <2>1, <2>2, <2>4, CacheKeepsFresh DEF WritePut, histVars
<1>7. ASSUME NEW w \in Writer, WriteReply(w) PROVE CacheFresh'
  <2>1. /\ UNCHANGED <<cache, db, saved, before>> /\ wr[w].pc = "reply"
        /\ \A x \in Writer \ {w} : wr'[x] = wr[x]
    BY <1>0, <1>7 DEF WriteReply, dataVars
  <2> QED BY <1>1, <2>1
<1>8. CASE Crash
  BY <1>8 DEF Crash, CacheFresh, EmptyCache, contains
<1>9. ASSUME NEW r \in Requests, DispatchRead(r) PROVE CacheFresh'
  BY <1>1, <1>9 DEF DispatchRead, dataVars, histVars
<1>10. CASE ReadMiss \/ ReadLoad \/ ReadGenerate \/ ReadReply
  BY <1>1, <1>10 DEF ReadMiss, ReadLoad, ReadGenerate, ReadReply, dataVars, histVars
<1>11. CASE UNCHANGED vars
  BY <1>1, <1>11 DEF vars, dataVars, histVars
<1> QED
  BY <1>0, <1>2, <1>3, <1>4, <1>5, <1>6, <1>7, <1>8, <1>9, <1>10, <1>11, NoTaskRuns
  DEF Next, ReadStep, WriteStep

\* What a read has found is up to date when it is answered.
LEMMA NextReaderFresh ==
  ASSUME OneByOne, FreshInv, [Next]_vars
  PROVE  ReaderFresh'
<1> USE DEF FreshInv, DurableInv
<1>0. rd \in ReadState /\ NoPrefetch
  BY DEF TypeInv, TypeOK, OneByOne
<1>1. CASE rd'.got = <<>> /\ rd'.pc \in {"idle", "lookup"}
  BY <1>1 DEF ReaderFresh
<1>2. ASSUME UNCHANGED <<db, saved, before>>, rd'.req = rd.req, rd'.got = rd.got,
             rd'.pc = "generate" => saved[Wanted] = {} \/ Torn(Wanted),
             rd'.pc = "put" => UpToDate(rd'.val, Wanted) \/ Torn(Wanted)
      PROVE  ReaderFresh'
  BY <1>2 DEF ReaderFresh, Wanted, UpToDate, Supersedes, Torn
<1>3. CASE ReadHit
  <2>1. Wanted \in Chunk /\ contains(cache, Wanted) /\ \A w \in Writer : wr[w].pc = "idle"
    BY <1>3, WantedType DEF ReadHit, Alone
  <2>2. cache.blob[Wanted] \in Packet /\ (UpToDate(cache.blob[Wanted].nbt, Wanted) \/ Torn(Wanted))
    BY <2>1 DEF CacheFresh, contains, TypeInv, TypeOK
  <2> QED BY <1>3, <2>2, AnsweredFresh DEF ReadHit, histVars
<1>4. CASE ReadPut
  <2> DEFINE b == compress_and_wrap_chunk(rd.val)
  <2>1. b \in Packet /\ b.nbt = rd.val
    BY <1>4, PayloadTypes DEF ReadPut, ReaderOK, TypeInv, compress_and_wrap_chunk
  <2>2. /\ rd' = Answered(b) /\ UNCHANGED <<db, saved, before>>
        /\ UpToDate(rd.val, Wanted) \/ Torn(Wanted)
    BY <1>4 DEF ReadPut, ReaderFresh, histVars
  <2> HIDE DEF b
  <2> QED BY <1>4, <2>1, <2>2, AnsweredFresh DEF ReadPut
<1>5. CASE ReadMiss
  <2>1. PICK q \in {"load", "generate"} : rd' = [rd EXCEPT !.pc = q] /\ (q = "generate" => ~ Persistent)
    BY <1>5 DEF ReadMiss
  <2>2. Wanted \in Chunk /\ UNCHANGED <<db, saved, before>>
    BY <1>5, WantedType DEF ReadMiss, dataVars, histVars
  <2>3. rd'.pc = q /\ rd'.req = rd.req /\ rd'.got = rd.got
    BY <1>0, <2>1
  <2> QED BY <1>2, <2>1, <2>2, <2>3 DEF Savable
<1>6. CASE ReadLoad
  <2>1. Wanted \in Chunk /\ UNCHANGED <<db, saved, before>> /\ rd.pc = "load"
    BY <1>6, WantedType DEF ReadLoad, dataVars, histVars
  <2>2. PICK res \in load_chunk(db[Wanted]) :
          rd' = IF res.found # None /\ verify_chunk_coords(res.found, Wanted)
                  THEN [rd EXCEPT !.pc = "put", !.val = res.found]
                  ELSE [rd EXCEPT !.pc = "generate"]
    BY <1>6 DEF ReadLoad
  <2>3. res.found = db[Wanted]
    BY LoadIsExact
  <2>4. db[Wanted] # None => verify_chunk_coords(db[Wanted], Wanted) \/ Torn(Wanted)
    BY <2>1 DEF IsolationInv, TableIsolated, Isolated, verify_chunk_coords, Torn
  <2>5. CASE db[Wanted] = None \/ ~ verify_chunk_coords(db[Wanted], Wanted)
    <3>1. rd' = [rd EXCEPT !.pc = "generate"]
      BY <2>2, <2>3, <2>5
    <3>2. rd'.pc = "generate" /\ rd'.req = rd.req /\ rd'.got = rd.got
      BY <1>0, <3>1
    <3> QED BY <1>2, <2>1, <2>4, <2>5, <3>2, RowUpToDate
  <2>6. CASE db[Wanted] # None /\ verify_chunk_coords(db[Wanted], Wanted)
    <3>1. rd' = [rd EXCEPT !.pc = "put", !.val = db[Wanted]]
      BY <2>2, <2>3, <2>4, <2>6
    <3>2. rd'.pc = "put" /\ rd'.req = rd.req /\ rd'.got = rd.got /\ rd'.val = db[Wanted]
      BY <1>0, <3>1
    <3> QED BY <1>2, <2>1, <3>2, RowUpToDate
  <2> QED BY <2>5, <2>6
<1>7. CASE ReadGenerate
  <2>1. (saved[Wanted] = {} \/ Torn(Wanted)) /\ UNCHANGED <<db, saved, before>>
    BY <1>7 DEF ReadGenerate, ReaderFresh, dataVars, histVars
  <2>2. rd'.req = rd.req /\ rd'.got = rd.got /\ rd'.pc \in {"put", "reply"}
    BY <1>0, <1>7 DEF ReadGenerate, Broken
  <2> QED BY <1>2, <2>1, <2>2 DEF UpToDate
<1>8. CASE ReadReply \/ Crash
  BY <1>1, <1>8 DEF ReadReply, Crash, IdleRead
<1>9. ASSUME NEW r \in Requests, DispatchRead(r) PROVE ReaderFresh'
  BY <1>1, <1>9 DEF DispatchRead, IdleRead
<1>10. ASSUME NEW w \in Writer, WriteStep(w) PROVE ReaderFresh'
  <2>1. rd' = rd /\ wr[w].pc # "idle"
    BY <1>10 DEF WriteStep, WriteSave, WritePut, WriteReply
  <2> QED BY <1>1, <2>1 DEF Alone, IdleRead
<1>11. ASSUME NEW w \in Writer, NEW c \in Chunk, NEW slot \in Chunk \cup {NoPos},
              DispatchWrite(w, c, slot)
       PROVE  ReaderFresh'
  BY <1>1, <1>11 DEF DispatchWrite, SessionFree, Alone, IdleRead
<1>12. CASE UNCHANGED vars
  BY <1>12 DEF vars, dataVars, histVars, ReaderFresh, Wanted, UpToDate, Supersedes, Torn
<1> QED
  BY <1>0, <1>3, <1>4, <1>5, <1>6, <1>7, <1>8, <1>9, <1>10, <1>11, <1>12, NoTaskRuns
  DEF Next, ReadStep

\* A client that waits for its answers reads its own writes: a read answers no
\* chunk that is older than an edit of it that was saved before, in every
\* mode, however small the cache is, whatever save fails or only seems to
\* fail, and wherever the process is restarted; until a piece is stored in
\* the place of the edit, and again once a whole chunk is.
THEOREM AlwaysFresh ==
  ASSUME OneByOne, MendsAreConfirmed
  PROVE  Spec => []ReadFresh
<1>1. FreshInv => ReadFresh
  BY DEF FreshInv, ReaderFresh, UpToDate, ReadFresh
<1>2. FreshInv /\ [Next]_vars => FreshInv'
  <2> SUFFICES ASSUME FreshInv, [Next]_vars PROVE FreshInv'
    OBVIOUS
  <2>1. IsolationInv'
    BY NextIsolated DEF FreshInv, OneByOne, TasksTrusted
  <2>2. DurableInv'
    BY NextDurable DEF FreshInv, OneByOne
  <2>3. Alone'
    BY NextAlone DEF FreshInv, OneByOne, DurableInv
  <2> QED BY <2>1, <2>2, <2>3, NextCacheFresh, NextReaderFresh DEF FreshInv
<1> QED BY <1>1, <1>2, InitFresh, PTL DEF Spec

-----------------------------------------------------------------------------
(* The refinement. *)

\* The chunks of the answer so far are a sequence of what may be seen.
LEMMA ServedType ==
  ASSUME NEW got \in Seq(Packet), NEW req
  PROVE  /\ [m \in 1 .. Len(got) |-> Seen(req[m], got[m].nbt)] \in Seq(Row)
         /\ Len([m \in 1 .. Len(got) |-> Seen(req[m], got[m].nbt)]) = Len(got)
<1>1. ASSUME NEW m \in 1 .. Len(got) PROVE Seen(req[m], got[m].nbt) \in Row
  <2>1. got[m] \in Packet
    BY ElementOfSeq
  <2> QED BY <2>1, ContentType DEF Packet, Seen, Row
<1>2. Len(got) \in Nat
  BY LenProperties
<1> QED BY <1>1, <1>2

\* One more packet is one more chunk.
LEMMA ServedAppend ==
  ASSUME NEW got \in Seq(Packet), NEW b \in Packet, NEW req
  PROVE  [m \in 1 .. Len(Append(got, b)) |-> Seen(req[m], Append(got, b)[m].nbt)]
           = Append([m \in 1 .. Len(got) |-> Seen(req[m], got[m].nbt)],
                    Seen(req[Len(got) + 1], b.nbt))
<1> DEFINE s == [m \in 1 .. Len(got) |-> Seen(req[m], got[m].nbt)]
           more == Append(got, b)
           t == [m \in 1 .. Len(more) |-> Seen(req[m], more[m].nbt)]
           n == Seen(req[Len(got) + 1], b.nbt)
<1>1. s \in Seq(Row) /\ Len(s) = Len(got) /\ n \in Row /\ Len(got) \in Nat
  BY ServedType, LenProperties, ContentType DEF Packet, Seen, Row
<1>2. /\ more \in Seq(Packet) /\ Len(more) = Len(got) + 1
      /\ \A m \in 1 .. Len(got) : more[m] = got[m]
      /\ more[Len(got) + 1] = b
  BY AppendProperties
<1> HIDE DEF more
<1>3. t \in Seq(Row) /\ Len(t) = Len(got) + 1
  BY <1>2, ServedType
<1>4. /\ Append(s, n) \in Seq(Row) /\ Len(Append(s, n)) = Len(got) + 1
      /\ \A m \in 1 .. Len(got) : Append(s, n)[m] = s[m]
      /\ Append(s, n)[Len(got) + 1] = n
  <2> HIDE DEF s, n
  <2> QED BY <1>1, AppendProperties
<1>5. ASSUME NEW m \in 1 .. Len(t) PROVE t[m] = Append(s, n)[m]
  <2>1. t[m] = Seen(req[m], more[m].nbt)
    BY <1>2, <1>3
  <2>2. CASE m \in 1 .. Len(got)
    BY <1>2, <1>4, <2>1, <2>2
  <2>3. CASE m = Len(got) + 1
    BY <1>2, <1>4, <2>1, <2>3
  <2> QED BY <1>1, <1>3, <2>2, <2>3
<1> HIDE DEF s, t, n
<1>6. t = Append(s, n)
  BY <1>3, <1>4, <1>5, SeqEqual
<1> QED BY <1>6 DEF s, t, n, more

\* At the start nothing is asked and every chunk is the generated one.
LEMMA InitIsStore == Init => Store!Init
<1> SUFFICES ASSUME Init PROVE Store!Init
  OBVIOUS
<1>1. World = [c \in Chunk |-> Generated(c)]
  <2>1. \A c \in Chunk : Content(Generated(c)) = Generated(c)
    BY DEF Content, Generated
  <2>2. \A c \in Chunk : ~ Torn(c)
    BY DEF Init, Torn
  <2> QED BY <2>1, <2>2 DEF Init, World, Seen
<1>2. rd.req = <<>> /\ rd.got = <<>>
  BY DEF Init, IdleRead
<1>3. Served = <<>>
  BY <1>2 DEF Served
<1> QED BY <1>1, <1>2, <1>3 DEF Store!Init, Generated, Store!Generated

\* Whatever leaves the table and the read's question and answer alone is no
\* step of the store.
LEMMA Stutters ==
  ASSUME db' = db, rd'.req = rd.req, rd'.got = rd.got
  PROVE  UNCHANGED Store!vars
BY WorldStays DEF Store!vars, Served

\* A pass that answers a chunk is an Answer.
LEMMA PassAnswers ==
  ASSUME StoreInv, ReadHit \/ ReadPut
  PROVE  Store!Answer
<1>1. PICK b \in Packet :
        /\ Seen(Wanted, b.nbt) = World[Wanted]
        /\ db' = db
        /\ rd'.req = rd.req /\ rd'.got = Append(rd.got, b)
  BY AnswerStep
<1>2. rd.got \in Seq(Packet) /\ Len(rd.got) < Len(rd.req)
  BY DEF StoreInv, TypeInv, TypeOK, ReaderOK, ReadHit, ReadPut
<1>3. Served' = Append(Served, Seen(Wanted, b.nbt))
  <2>1. Served' = [m \in 1 .. Len(Append(rd.got, b)) |-> Seen(rd.req[m], Append(rd.got, b)[m].nbt)]
    BY <1>1, WorldStays DEF Served
  <2> QED BY <1>2, <2>1, ServedAppend DEF Served, Wanted
<1>4. Len(Served) = Len(rd.got)
  BY <1>2, ServedType DEF Served
<1>5. World' = World
  BY <1>1, WorldStays
<1> QED BY <1>1, <1>2, <1>3, <1>4, <1>5 DEF Store!Answer, Wanted

\* The end of a read, answered or broken off or cut by a restart, forgets it.
LEMMA EndAbandons ==
  ASSUME rd' = IdleRead, db' = db
  PROVE  Store!Abandon
<1>1. rd'.req = <<>> /\ rd'.got = <<>>
  BY DEF IdleRead
<1>2. Served' = <<>>
  BY <1>1 DEF Served
<1> QED BY <1>1, <1>2, WorldStays DEF Store!Abandon

\* A save that is confirmed stores the edit at the place it belongs to, or
\* loses the chunk in whose slot it stores a piece.
LEMMA SaveStores ==
  ASSUME OneAtATime, StoreInv, NEW w \in Writer, WriteSave(w)
  PROVE  \/ UNCHANGED Store!vars
         \/ \E c \in Chunk : World'[c] \in Nbt /\ Store!Store(World'[c])
         \/ \E c \in Chunk : Store!Tear(c)
<1>1. PICK k \in Chunk :
        /\ rd' = rd /\ rd = IdleRead
        /\ db' = db \/ \E row \in Nbt : Isolated(row, k) /\ db' = [db EXCEPT ![k] = row]
  BY SaveStep
<1>2. CASE db' = db
  BY <1>1, <1>2, Stutters
<1>3. ASSUME NEW row \in Nbt, Isolated(row, k), db' = [db EXCEPT ![k] = row]
      PROVE  \/ \E c \in Chunk : World'[c] \in Nbt /\ Store!Store(World'[c])
             \/ \E c \in Chunk : Store!Tear(c)
  <2>1. db \in [Chunk -> Row] /\ row # None
    BY PayloadTypes DEF StoreInv, TypeInv, TypeOK
  <2>2. rd.req = <<>> /\ rd.got = <<>> /\ Served' = Served
    BY <1>1 DEF IdleRead, Served
  <2>3. World' = [World EXCEPT ![k] = IF row.pos = NoPos THEN None ELSE Content(row)]
    <3>1. World'[k] = IF row.pos = NoPos THEN None ELSE Content(row)
      BY <1>3, <2>1 DEF World, Seen, Torn, Content
    <3>2. \A c \in Chunk \ {k} : World'[c] = World[c]
      BY <1>3, <2>1 DEF World, Seen, Torn, Content
    <3>3. World = [c \in Chunk |-> World[c]] /\ World' = [c \in Chunk |-> World'[c]]
      BY DEF World
    <3> QED BY <3>1, <3>2, <3>3
  <2>4. CASE row.pos = NoPos
    <3>1. Store!Tear(k)
      BY <1>1, <2>2, <2>3, <2>4 DEF Store!Tear
    <3> QED BY <3>1
  <2>5. CASE row.pos = k
    <3> DEFINE n == Content(row)
    <3>1. n \in Nbt /\ n.pos = k
      BY <2>5, ContentType
    <3>2. k # NoPos
      BY ChunkAssumption
    <3> HIDE DEF n
    <3>3. World' = [World EXCEPT ![k] = n]
      BY <2>3, <2>5, <3>2 DEF n
    <3>4. World'[k] = n
      BY <3>3 DEF World
    <3>5. Store!Store(n)
      BY <1>1, <2>2, <3>1, <3>3 DEF Store!Store
    <3> QED BY <3>1, <3>4, <3>5
  <2> QED BY <1>3, <2>4, <2>5 DEF Isolated
<1> QED BY <1>1, <1>2, <1>3

\* Every step is a step of the store or leaves it alone.
LEMMA StepIsStore ==
  ASSUME OneAtATime, StoreInv, [Next]_vars
  PROVE  [Store!Next]_(Store!vars)
<1>0. rd \in ReadState
  BY DEF StoreInv, TypeInv, TypeOK
<1>1. ASSUME NEW r \in Requests, DispatchRead(r) PROVE Store!Next
  <2>1. rd = IdleRead /\ rd'.req = r /\ rd'.got = <<>> /\ db' = db
    BY <1>1 DEF DispatchRead, SessionFree, IdleRead, StoreInv, Alone, dataVars
  <2>2. rd.req = <<>> /\ Served' = Served /\ World' = World
    BY <2>1, WorldStays DEF IdleRead, Served
  <2>3. Store!Ask(r)
    BY <2>1, <2>2 DEF Store!Ask
  <2> QED BY <2>3 DEF Store!Next
<1>2. CASE ReadHit \/ ReadPut
  BY <1>2, PassAnswers DEF Store!Next
<1>3. CASE ReadMiss
  <2>1. PICK q \in {"load", "generate"} : rd' = [rd EXCEPT !.pc = q]
    BY <1>3 DEF ReadMiss
  <2>2. rd'.req = rd.req /\ rd'.got = rd.got /\ db' = db
    BY <1>0, <1>3, <2>1 DEF ReadMiss, dataVars
  <2> QED BY <2>2, Stutters
<1>4. CASE ReadLoad
  <2>1. rd'.req = rd.req /\ rd'.got = rd.got /\ db' = db
    BY <1>0, <1>4 DEF ReadLoad, dataVars
  <2> QED BY <2>1, Stutters
<1>5. CASE ReadGenerate
  <2>1. rd'.req = rd.req /\ rd'.got = rd.got /\ db' = db
    BY <1>0, <1>5 DEF ReadGenerate, Broken, dataVars
  <2> QED BY <2>1, Stutters
<1>6. CASE ReadReply
  BY <1>6, EndAbandons DEF ReadReply, dataVars, Store!Next
<1>7. CASE Crash
  BY <1>7, EndAbandons DEF Crash, Store!Next
<1>8. ASSUME NEW w \in Writer, WriteSave(w) PROVE [Store!Next]_(Store!vars)
  BY <1>8, SaveStores DEF Store!Next, Nbt, Store!Nbt
<1>9. ASSUME NEW w \in Writer, WritePut(w) \/ WriteReply(w) PROVE UNCHANGED Store!vars
  BY <1>9, Stutters DEF WritePut, WriteReply, dataVars
<1>10. ASSUME NEW w \in Writer, NEW c \in Chunk, NEW slot \in Chunk \cup {NoPos},
             DispatchWrite(w, c, slot)
       PROVE  UNCHANGED Store!vars
  BY <1>10, Stutters DEF DispatchWrite, dataVars
<1>11. CASE UNCHANGED vars
  BY <1>11, Stutters DEF vars, dataVars
<1> QED
  BY <1>1, <1>2, <1>3, <1>4, <1>5, <1>6, <1>7, <1>8, <1>9, <1>10, <1>11, NoTaskRuns
  DEF Next, ReadStep, WriteStep, StoreInv

\* For a client that waits for its answers the region files are a store of
\* chunks without a cache, a table or threads: an edit takes effect when it is
\* saved, and a read answers the chunks of the world it was taken up in.  In
\* the jsonb mode, that is but for the widths of numbers.  A piece that is
\* stored takes away the chunk of its slot, and nothing else, until a whole
\* chunk is saved there.
THEOREM RefinesChunkStore ==
  ASSUME OneAtATime
  PROVE  Spec => IsChunkStore
<1>1. StoreInv /\ [Next]_vars => [Store!Next]_(Store!vars)
  BY StepIsStore
<1> QED BY <1>1, InitIsStore, InitStoreInv, NextStoreInv, PTL DEF Spec, IsChunkStore, Store!Spec
=============================================================================
