------------------------ MODULE AutoBenchmarkProofs ------------------------
(***************************************************************************)
(* The suite reports every configuration that it could open, each with its *)
(* own numbers, and no report overcounts: for any generators and           *)
(* storages, any reads, any size of the caches, any rows in the table and  *)
(* any number of threads that are left over.                               *)
(***************************************************************************)
EXTENDS AutoBenchmark, LruProofs, FiniteSetTheorems

Counts == [generated : Nat, loaded : Nat, hits : Nat, misses : Nat]

ThreadState ==
  [pc : {"none", "next", "lookup", "load", "generate", "put", "ended"},
   next : Nat \ {0}, rest : Seq(Chunk), who : Maker \cup {"nobody"}]

FileState ==
  [cache : [blob : [Chunk -> Blob \cup {NoBlob}], order : Seq(Chunk)],
   counts : Counts, lookups : Nat]

-----------------------------------------------------------------------------
(* The inductive invariant. *)

\* What a thread has in hand at each of its program counters.
ThreadOK(t, k) ==
  /\ t.pc \in {"lookup", "load", "generate", "put"} => t.rest # <<>>
  /\ t.pc = "load" => Storage(k) # "nostorage"
  /\ t.pc = "put" => t.who = Gen(k) \/ (Storage(k) # "nostorage" /\ t.who = "table")

\* A cache in order, with blobs that this cycle can have made.
CacheOK(cache, k) ==
  /\ Bounded(cache, Chunk)
  /\ \A c \in Chunk :
       contains(cache, c) =>
         \/ cache.blob[c] = <<Gen(k), c>>
         \/ Storage(k) # "nostorage" /\ cache.blob[c] = <<"table", c>>

\* Each lookup hit or missed.  Each generation followed a miss, and a load
\* where there is a table; the thread may have one of the two ahead of it.
CountsOK(f, pc, k) ==
  LET n == f.counts
  IN /\ n.hits + n.misses = f.lookups
     /\ Storage(k) = "nostorage" => n.loaded = 0
     /\ n.generated <= n.misses
     /\ pc \in {"load", "generate"} => n.generated < n.misses
     /\ Storage(k) # "nostorage" => /\ n.generated <= n.loaded
                                    /\ pc = "generate" => n.generated < n.loaded

CycleOK(t, f, k) ==
  /\ t \in ThreadState
  /\ f \in FileState
  /\ ThreadOK(t, k)
  /\ CacheOK(f.cache, k)
  /\ CountsOK(f, t.pc, k)

CyclesOK ==
  /\ thread \in [Cycles -> ThreadState]
  /\ file \in [Cycles -> FileState]
  /\ \A k \in Cycles : CycleOK(thread[k], file[k], k)

\* The cycles before this one are reported if they were opened; this one is
\* open from its connection to its report.
SuiteOK ==
  /\ main \in {"connect", "measure", "report", "done"}
  /\ cycle \in Nat \ {0}
  /\ main # "done" => cycle \in Cycles
  /\ connected \subseteq 1 .. cycle /\ connected \subseteq Cycles
  /\ cycle \in connected <=> main \in {"measure", "report"}
  /\ full \in Seq(Nat)
  /\ AllReported

\* Each counter of m is at most that of n.
AtMost(m, n) ==
  /\ m.generated <= n.generated /\ m.loaded <= n.loaded
  /\ m.hits <= n.hits /\ m.misses <= n.misses

\* Counters only grow while they are reported, and what is read of them can
\* only be behind.
ReportOK ==
  /\ report \in Counts
  /\ fields \in 0 .. Len(Fields)
  /\ main # "report" => fields = 0 /\ report = NoCounts
  /\ main = "report" => AtMost(report, file[cycle].counts)

BenchmarkInv == CyclesOK /\ SuiteOK /\ ReportOK

-----------------------------------------------------------------------------
(* What the suite is made of. *)

\* The cycles are numbered, and each has a generator.
LEMMA SuiteSize ==
  /\ Cardinality(Cycles) \in Nat \ {0}
  /\ Cycles = 1 .. Cardinality(Cycles)
  /\ \A k \in Cycles : Gen(k) \in Maker
<1> DEFINE g == Len(generators)
           s == Storages
<1>1. g \in Nat \ {0} /\ s \in Nat \ {0}
  BY BenchmarkAssumption, EmptySeq, LenProperties DEF Storages
<1>2. \A n \in 1 .. g : generators[n] \in Maker
  BY DEF Maker
<1>3. Cycles = 1 .. g * s
  BY DEF Cycles
<1>4. ASSUME NEW k \in Cycles PROVE Gen(k) \in Maker
  <2> DEFINE d == (k - 1) \div s
             r == (k - 1) % s
  <2> HIDE DEF g, s
  <2>1. k - 1 \in Nat /\ k - 1 < g * s
    BY <1>1, <1>3, <1>4
  <2>2. d \in Nat /\ r \in 0 .. s - 1 /\ k - 1 = d * s + r
    BY <1>1, <2>1
  <2>3. d < g
    <3>1. SUFFICES ASSUME d >= g PROVE FALSE
      BY <1>1, <2>2
    <3> HIDE DEF d, r
    <3>2. PICK e \in Nat : d = g + e
      <4>1. d - g \in Nat /\ d = g + (d - g)
        BY <1>1, <2>2, <3>1
      <4> QED BY <4>1
    <3>3. d * s = g * s + e * s /\ e * s \in Nat /\ g * s \in Nat
      BY <1>1, <3>2
    <3> QED BY <2>1, <2>2, <3>3
  <2>4. d + 1 \in 1 .. g
    BY <1>1, <2>2, <2>3
  <2> QED BY <1>2, <2>4 DEF Gen, s
<1> HIDE DEF g, s
<1>5. g * s \in Nat \ {0}
  BY <1>1
<1>6. Cardinality(Cycles) = g * s
  BY <1>3, <1>5, FS_Interval
<1> QED BY <1>3, <1>4, <1>5, <1>6

\* An empty cache is in order.
LEMMA NewCache ==
  ASSUME NEW k \in Cycles
  PROVE  /\ NewFile \in FileState
         /\ CacheOK(NewFile.cache, k)
         /\ \A pc \in {"none", "next", "ended"} : CountsOK(NewFile, pc, k)
<1> DEFINE empty == EmptyCache(Chunk)
<1>1. empty \in [blob : [Chunk -> Blob \cup {NoBlob}], order : Seq(Chunk)]
  BY DEF EmptyCache
<1>2. /\ empty.order = <<>> /\ Len(empty.order) = 0
      /\ \A c \in Chunk : empty.blob[c] = NoBlob
  BY DEF EmptyCache
<1> HIDE DEF empty
<1>3. CacheOK(empty, k)
  BY <1>2, CacheAssumption DEF CacheOK, Bounded, contains
<1>4. /\ NewFile.cache = empty /\ NewFile.counts = NoCounts /\ NewFile.lookups = 0
      /\ NewFile = [cache |-> empty, counts |-> NoCounts, lookups |-> 0]
  BY DEF NewFile, empty
<1>5. NoCounts \in Counts
  BY DEF NoCounts, Counts
<1>6. NewFile \in FileState
  BY <1>1, <1>4, <1>5 DEF FileState
<1>7. \A pc \in {"none", "next", "ended"} : CountsOK(NewFile, pc, k)
  BY <1>4 DEF CountsOK, NoCounts
<1> QED BY <1>3, <1>4, <1>6, <1>7

-----------------------------------------------------------------------------
(* The threads. *)

\* A step of a thread: what it does to its own record and file.
LEMMA ThreadStep ==
  ASSUME BenchmarkInv, NEW k \in Cycles, UNCHANGED mainVars,
         NEW t, thread' = [thread EXCEPT ![k] = t],
         NEW f, file' = [file EXCEPT ![k] = f],
         CycleOK(t, f, k),
         k = cycle => AtMost(file[k].counts, f.counts)
  PROVE  BenchmarkInv'
<1>1. CyclesOK'
  <2>1. t \in ThreadState /\ f \in FileState
    BY DEF CycleOK
  <2>2. thread' \in [Cycles -> ThreadState] /\ file' \in [Cycles -> FileState]
    BY <2>1 DEF BenchmarkInv, CyclesOK
  <2>3. ASSUME NEW j \in Cycles PROVE CycleOK(thread'[j], file'[j], j)
    <3>1. CASE j = k
      <4>1. thread'[j] = t /\ file'[j] = f
        BY <3>1 DEF BenchmarkInv, CyclesOK
      <4> QED BY <3>1, <4>1
    <3>2. CASE j # k
      <4>1. thread'[j] = thread[j] /\ file'[j] = file[j]
        BY <3>2 DEF BenchmarkInv, CyclesOK
      <4>2. CycleOK(thread[j], file[j], j)
        BY DEF BenchmarkInv, CyclesOK
      <4> QED BY <4>1, <4>2
    <3> QED BY <3>1, <3>2
  <2> QED BY <2>2, <2>3 DEF CyclesOK
<1>2. SuiteOK'
  BY DEF BenchmarkInv, SuiteOK, AllReported, mainVars
<1>3. ReportOK'
  <2>1. main' = main /\ report' = report /\ fields' = fields /\ cycle' = cycle
    BY DEF mainVars
  <2>2. SUFFICES ASSUME main = "report" PROVE AtMost(report, file'[cycle].counts)
    BY <2>1 DEF BenchmarkInv, ReportOK, AtMost
  <2>3. cycle \in Cycles /\ DOMAIN file = Cycles
    BY <2>2 DEF BenchmarkInv, SuiteOK, CyclesOK
  <2>4. CASE k = cycle
    <3>1. file'[cycle] = f /\ f \in FileState /\ file[cycle] \in FileState
      BY <2>3, <2>4 DEF CycleOK, BenchmarkInv, CyclesOK
    <3>2. f.counts \in Counts /\ file[cycle].counts \in Counts /\ report \in Counts
      BY <3>1 DEF FileState, BenchmarkInv, ReportOK
    <3>3. AtMost(report, file[cycle].counts) /\ AtMost(file[cycle].counts, f.counts)
      BY <2>2, <2>4 DEF BenchmarkInv, ReportOK
    <3>4. AtMost(report, f.counts)
      BY <3>2, <3>3 DEF AtMost, Counts
    <3> QED BY <3>1, <3>4
  <2>5. CASE k # cycle
    <3>1. file'[cycle] = file[cycle]
      BY <2>3, <2>5
    <3> QED BY <2>2, <3>1 DEF BenchmarkInv, ReportOK
  <2> QED BY <2>4, <2>5
<1> QED BY <1>1, <1>2, <1>3 DEF BenchmarkInv

\* The state of one cycle, taken out of the invariant.
LEMMA CycleState ==
  ASSUME BenchmarkInv, NEW k \in Cycles
  PROVE  /\ CycleOK(thread[k], file[k], k)
         /\ thread[k] \in ThreadState /\ file[k] \in FileState
         /\ file[k].counts \in Counts /\ file[k].lookups \in Nat
         /\ LruType(file[k].cache, Chunk, Blob)
         /\ thread \in [Cycles -> ThreadState] /\ file \in [Cycles -> FileState]
BY DEF BenchmarkInv, CyclesOK, CycleOK, FileState, LruType

\* After a pass the thread looks up the next chunk, or reads on.
LEMMA PassedOK ==
  ASSUME NEW t \in ThreadState, t.rest # <<>>, NEW k \in Cycles
  PROVE  LET u == [t EXCEPT !.pc = IF Len(t.rest) = 1 THEN "next" ELSE "lookup",
                            !.rest = Tail(@), !.who = "nobody"]
         IN u \in ThreadState /\ ThreadOK(u, k) /\ u.pc \in {"next", "lookup"}
<1> DEFINE q == IF Len(t.rest) = 1 THEN "next" ELSE "lookup"
           r == Tail(t.rest)
           u == [t EXCEPT !.pc = q, !.rest = r, !.who = "nobody"]
<1>1. t.rest \in Seq(Chunk) /\ Len(t.rest) \in Nat \ {0}
  BY EmptySeq, LenProperties DEF ThreadState
<1>2. r \in Seq(Chunk) /\ Len(r) = Len(t.rest) - 1
  BY <1>1
<1>3. q \in {"next", "lookup"} /\ (q = "lookup" => r # <<>>)
  <2>1. q = "lookup" => Len(r) # 0
    BY <1>1, <1>2
  <2>2. Len(<<>>) = 0
    OBVIOUS
  <2> HIDE DEF r
  <2> QED BY <2>1, <2>2
<1> HIDE DEF q, r
<1>4. u \in ThreadState /\ u.pc = q /\ u.rest = r
  BY <1>2, <1>3 DEF ThreadState
<1> HIDE DEF u
<1>5. ThreadOK(u, k)
  BY <1>3, <1>4 DEF ThreadOK
<1> QED BY <1>3, <1>4, <1>5 DEF u, q, r

\* The chunk that a thread looks up is one.
LEMMA WantedIsChunk ==
  ASSUME NEW k \in Cycles, thread[k] \in ThreadState, thread[k].rest # <<>>
  PROVE  Wanted(k) \in Chunk
BY DEF ThreadState, Wanted

\* A thread begins a read, or ends and drops its file.
LEMMA NextReadKeeps == ASSUME BenchmarkInv, NEW k \in Cycles, NextRead(k) PROVE BenchmarkInv'
<1>1. /\ thread[k].pc = "next" /\ UNCHANGED mainVars
      /\ CycleOK(thread[k], file[k], k) /\ thread[k] \in ThreadState /\ file[k] \in FileState
      /\ thread \in [Cycles -> ThreadState] /\ file \in [Cycles -> FileState]
  BY CycleState DEF NextRead
<1>2. CASE /\ thread' = [thread EXCEPT ![k] = [Idle EXCEPT !.pc = "ended"]]
           /\ file' = [file EXCEPT ![k] = IF k # cycle THEN NewFile ELSE @]
  <2> DEFINE t == [Idle EXCEPT !.pc = "ended"]
             f == IF k # cycle THEN NewFile ELSE file[k]
  <2>1. thread' = [thread EXCEPT ![k] = t] /\ file' = [file EXCEPT ![k] = f]
    BY <1>2
  <2>2. t \in ThreadState /\ ThreadOK(t, k) /\ t.pc = "ended"
    <3>1. t = [pc |-> "ended", next |-> 1, rest |-> <<>>, who |-> "nobody"]
      BY DEF Idle
    <3>2. <<>> \in Seq(Chunk) /\ 1 \in Nat \ {0}
      OBVIOUS
    <3> HIDE DEF t
    <3> QED BY <3>1, <3>2 DEF ThreadState, ThreadOK
  <2> HIDE DEF t
  <2>3. f \in FileState /\ CacheOK(f.cache, k) /\ CountsOK(f, "ended", k)
    <3>1. CountsOK(file[k], "ended", k)
      BY <1>1 DEF CycleOK, CountsOK
    <3> QED BY <1>1, <3>1, NewCache DEF CycleOK
  <2>4. k = cycle => AtMost(file[k].counts, f.counts)
    BY <1>1 DEF FileState, Counts, AtMost
  <2> HIDE DEF f
  <2>5. CycleOK(t, f, k)
    BY <2>2, <2>3 DEF CycleOK
  <2> QED BY <1>1, <2>1, <2>4, <2>5, ThreadStep
<1>3. CASE /\ thread[k].next <= Len(Spiral)
           /\ thread' = [thread EXCEPT ![k].pc = "lookup", ![k].next = @ + 1,
                                       ![k].rest = Spiral[thread[k].next]]
           /\ file' = file
  <2> DEFINE t == [thread[k] EXCEPT !.pc = "lookup", !.next = @ + 1, !.rest = Spiral[thread[k].next]]
             f == file[k]
  <2>1. thread' = [thread EXCEPT ![k] = t] /\ file' = [file EXCEPT ![k] = f]
    BY <1>1, <1>3
  <2>2. Spiral[thread[k].next] \in Seq(Chunk) \ {<<>>}
    <3>1. thread[k].next \in 1 .. Len(Spiral)
      BY <1>1, <1>3, BenchmarkAssumption, LenProperties DEF ThreadState
    <3> QED BY <3>1, BenchmarkAssumption, ElementOfSeq
  <2>3. t \in ThreadState /\ t.pc = "lookup" /\ t.rest # <<>>
    <3>1. thread[k].next + 1 \in Nat \ {0}
      BY <1>1 DEF ThreadState
    <3> QED BY <1>1, <2>2, <3>1 DEF ThreadState
  <2> HIDE DEF t
  <2>4. ThreadOK(t, k)
    BY <2>3 DEF ThreadOK
  <2>5. CountsOK(f, t.pc, k)
    BY <1>1, <2>3 DEF CycleOK, CountsOK
  <2>6. CycleOK(t, f, k)
    BY <1>1, <2>3, <2>4, <2>5 DEF CycleOK
  <2>7. AtMost(file[k].counts, f.counts)
    BY <1>1 DEF AtMost, FileState, Counts
  <2> HIDE DEF f
  <2> QED BY <1>1, <2>1, <2>6, <2>7, ThreadStep
<1> QED BY <1>2, <1>3 DEF NextRead

\* A lookup is counted, as a hit or as a miss.
LEMMA LookupKeeps == ASSUME BenchmarkInv, NEW k \in Cycles, Lookup(k) PROVE BenchmarkInv'
<1> DEFINE old == file[k]
           w == Wanted(k)
<1>1. /\ thread[k].pc = "lookup" /\ UNCHANGED mainVars
      /\ CycleOK(thread[k], old, k) /\ thread[k] \in ThreadState /\ old \in FileState
      /\ old.counts \in Counts /\ old.lookups \in Nat /\ LruType(old.cache, Chunk, Blob)
      /\ thread \in [Cycles -> ThreadState] /\ file \in [Cycles -> FileState]
  BY CycleState DEF Lookup
<1>2. thread[k].rest # <<>> /\ w \in Chunk
  <2>1. thread[k].rest # <<>>
    BY <1>1 DEF CycleOK, ThreadOK
  <2> QED BY <1>1, <2>1, WantedIsChunk
<1>3. CASE contains(old.cache, w)
  <2> DEFINE t == [thread[k] EXCEPT !.pc = IF Len(thread[k].rest) = 1 THEN "next" ELSE "lookup",
                                    !.rest = Tail(@), !.who = "nobody"]
             n == [old.counts EXCEPT !.hits = @ + 1]
             h == Touched(old.cache, w)
             f == [cache |-> h, counts |-> n, lookups |-> old.lookups + 1]
  <2>1. thread' = [thread EXCEPT ![k] = t]
    BY <1>1, <1>3 DEF Lookup, Cache, File, Passed
  <2>2. file' = [file EXCEPT ![k] = f]
    BY <1>1, <1>3 DEF Lookup, Cache, File, Counted, Metrics, FileState
  <2>3. t \in ThreadState /\ ThreadOK(t, k) /\ t.pc \in {"next", "lookup"}
    BY <1>1, <1>2, PassedOK
  <2>4. LruType(h, Chunk, Blob) /\ Bounded(h, Chunk) /\ h.blob = old.cache.blob
    <3>1. Bounded(old.cache, Chunk)
      BY <1>1 DEF CycleOK, CacheOK
    <3> DEFINE c == old.cache
    <3>2. LruType(c, Chunk, Blob) /\ Bounded(c, Chunk) /\ contains(c, w)
      BY <1>1, <1>3, <3>1
    <3> HIDE DEF c, w
    <3>3. /\ LruType(Touched(c, w), Chunk, Blob) /\ Bounded(Touched(c, w), Chunk)
          /\ Touched(c, w).blob = c.blob
      BY <1>2, <3>2, TouchedOK
    <3> QED BY <3>3 DEF c
  <2>5. /\ n \in Counts /\ n.hits = old.counts.hits + 1 /\ n.misses = old.counts.misses
        /\ n.generated = old.counts.generated /\ n.loaded = old.counts.loaded
    BY <1>1 DEF Counts
  <2> HIDE DEF t, n, h
  <2>6. /\ f \in FileState /\ f.cache = h /\ f.counts = n /\ f.lookups = old.lookups + 1
    BY <1>1, <2>4, <2>5 DEF FileState, LruType
  <2> HIDE DEF f
  <2>7. CacheOK(f.cache, k)
    BY <1>1, <2>4, <2>6 DEF CycleOK, CacheOK, contains
  <2>8. CountsOK(f, t.pc, k)
    BY <1>1, <2>3, <2>5, <2>6 DEF CycleOK, CountsOK, Counts
  <2>9. CycleOK(t, f, k)
    BY <2>3, <2>6, <2>7, <2>8 DEF CycleOK
  <2>10. AtMost(file[k].counts, f.counts)
    BY <1>1, <2>5, <2>6 DEF AtMost, Counts
  <2> QED BY <1>1, <2>1, <2>2, <2>9, <2>10, ThreadStep
<1>4. CASE ~ contains(old.cache, w)
  <2> DEFINE q == IF Storage(k) = "nostorage" THEN "generate" ELSE "load"
             t == [thread[k] EXCEPT !.pc = q]
             n == [old.counts EXCEPT !.misses = @ + 1]
             f == [cache |-> old.cache, counts |-> n, lookups |-> old.lookups + 1]
  <2>1. thread' = [thread EXCEPT ![k] = t]
    BY <1>1, <1>4 DEF Lookup, Cache, File
  <2>2. file' = [file EXCEPT ![k] = f]
    BY <1>1, <1>4 DEF Lookup, Cache, File, Counted, Metrics, FileState
  <2>3. q \in {"generate", "load"} /\ (q = "generate" <=> Storage(k) = "nostorage")
    OBVIOUS
  <2> HIDE DEF q
  <2>4. t \in ThreadState /\ t.pc = q /\ t.rest = thread[k].rest
    BY <1>1, <2>3 DEF ThreadState
  <2>5. /\ n \in Counts /\ n.hits = old.counts.hits /\ n.misses = old.counts.misses + 1
        /\ n.generated = old.counts.generated /\ n.loaded = old.counts.loaded
    BY <1>1 DEF Counts
  <2> HIDE DEF t, n
  <2>6. /\ f \in FileState /\ f.cache = old.cache /\ f.counts = n /\ f.lookups = old.lookups + 1
    BY <1>1, <2>5 DEF FileState
  <2> HIDE DEF f
  <2>7. ThreadOK(t, k)
    BY <1>2, <2>3, <2>4 DEF ThreadOK
  <2>8. CountsOK(f, t.pc, k)
    BY <1>1, <2>3, <2>4, <2>5, <2>6 DEF CycleOK, CountsOK, Counts
  <2>9. CycleOK(t, f, k)
    BY <1>1, <2>4, <2>6, <2>7, <2>8 DEF CycleOK
  <2>10. AtMost(file[k].counts, f.counts)
    BY <1>1, <2>5, <2>6 DEF AtMost, Counts
  <2> QED BY <1>1, <2>1, <2>2, <2>9, <2>10, ThreadStep
<1> QED BY <1>3, <1>4

\* A load is counted, and a generation may follow it.
LEMMA LoadKeeps == ASSUME BenchmarkInv, NEW k \in Cycles, Load(k) PROVE BenchmarkInv'
<1> DEFINE old == file[k]
           n == [old.counts EXCEPT !.loaded = @ + 1]
           f == [old EXCEPT !.counts = n]
<1>1. /\ thread[k].pc = "load" /\ UNCHANGED mainVars
      /\ CycleOK(thread[k], old, k) /\ thread[k] \in ThreadState /\ old \in FileState
      /\ old.counts \in Counts /\ old.lookups \in Nat
      /\ thread \in [Cycles -> ThreadState] /\ file \in [Cycles -> FileState]
  BY CycleState DEF Load
<1>2. thread[k].rest # <<>> /\ Storage(k) # "nostorage"
  BY <1>1 DEF CycleOK, ThreadOK
<1>3. PICK q \in {"put", "generate"}, o \in {"table", thread[k].who} :
        /\ thread' = [thread EXCEPT ![k] = [thread[k] EXCEPT !.pc = q, !.who = o]]
        /\ q = "put" => o = "table"
  <2>1. CASE thread' = [thread EXCEPT ![k].pc = "put", ![k].who = "table"]
    BY <1>1, <2>1
  <2>2. CASE thread' = [thread EXCEPT ![k].pc = "generate"]
    <3>1. [thread[k] EXCEPT !.pc = "generate"]
            = [thread[k] EXCEPT !.pc = "generate", !.who = thread[k].who]
      BY <1>1 DEF ThreadState
    <3>2. thread' = [thread EXCEPT ![k] = [thread[k] EXCEPT !.pc = "generate"]]
      BY <1>1, <2>2
    <3> QED BY <3>1, <3>2
  <2> QED BY <2>1, <2>2 DEF Load
<1> DEFINE t == [thread[k] EXCEPT !.pc = q, !.who = o]
<1>4. file' = [file EXCEPT ![k] = f]
  BY <1>1 DEF Load, Counted, Metrics, FileState
<1>5. thread' = [thread EXCEPT ![k] = t]
  BY <1>3
<1>6. t \in ThreadState /\ t.pc = q /\ t.who = o /\ t.rest = thread[k].rest
  <2>1. o \in Maker \cup {"nobody"}
    BY <1>1, <1>3 DEF ThreadState, Maker
  <2> QED BY <1>1, <1>3, <2>1 DEF ThreadState
<1>7. /\ n \in Counts /\ n.hits = old.counts.hits /\ n.misses = old.counts.misses
      /\ n.generated = old.counts.generated /\ n.loaded = old.counts.loaded + 1
  BY <1>1 DEF Counts
<1> HIDE DEF t, n
<1>8. f \in FileState /\ f.cache = old.cache /\ f.counts = n /\ f.lookups = old.lookups
  BY <1>1, <1>7 DEF FileState
<1> HIDE DEF f
<1>9. ThreadOK(t, k)
  BY <1>2, <1>3, <1>6 DEF ThreadOK
<1>10. CountsOK(f, t.pc, k)
  BY <1>1, <1>2, <1>3, <1>6, <1>7, <1>8 DEF CycleOK, CountsOK, Counts
<1>11. CycleOK(t, f, k)
  BY <1>1, <1>6, <1>8, <1>9, <1>10 DEF CycleOK
<1>12. AtMost(file[k].counts, f.counts)
  BY <1>1, <1>7, <1>8 DEF AtMost, Counts
<1> QED BY <1>1, <1>4, <1>5, <1>11, <1>12, ThreadStep

\* A generation is counted whether it succeeds or not; the miss and the load
\* that it follows have been.
LEMMA GenerateKeeps == ASSUME BenchmarkInv, NEW k \in Cycles, Generate(k) PROVE BenchmarkInv'
<1> DEFINE old == file[k]
           n == [old.counts EXCEPT !.generated = @ + 1]
           f == [old EXCEPT !.counts = n]
<1>1. /\ thread[k].pc = "generate" /\ UNCHANGED mainVars
      /\ CycleOK(thread[k], old, k) /\ thread[k] \in ThreadState /\ old \in FileState
      /\ old.counts \in Counts /\ old.lookups \in Nat
      /\ thread \in [Cycles -> ThreadState] /\ file \in [Cycles -> FileState]
  BY CycleState DEF Generate
<1>2. thread[k].rest # <<>>
  BY <1>1 DEF CycleOK, ThreadOK
<1>3. PICK t : /\ thread' = [thread EXCEPT ![k] = t]
               /\ t \in ThreadState /\ ThreadOK(t, k) /\ t.pc \in {"put", "next"}
  <2> DEFINE a == [thread[k] EXCEPT !.pc = "put", !.who = Gen(k)]
             b == [thread[k] EXCEPT !.pc = "next", !.rest = <<>>]
  <2>1. a \in ThreadState /\ ThreadOK(a, k) /\ a.pc = "put"
    <3>1. Gen(k) \in Maker
      BY SuiteSize
    <3>2. a \in ThreadState /\ a.pc = "put" /\ a.who = Gen(k) /\ a.rest = thread[k].rest
      BY <1>1, <3>1 DEF ThreadState
    <3> HIDE DEF a
    <3> QED BY <1>2, <3>2 DEF ThreadOK
  <2>2. b \in ThreadState /\ ThreadOK(b, k) /\ b.pc = "next"
    <3>1. <<>> \in Seq(Chunk)
      OBVIOUS
    <3>2. b \in ThreadState /\ b.pc = "next"
      BY <1>1, <3>1 DEF ThreadState
    <3> HIDE DEF b
    <3> QED BY <3>2 DEF ThreadOK
  <2>3. thread' = [thread EXCEPT ![k] = a] \/ thread' = [thread EXCEPT ![k] = b]
    BY <1>1 DEF Generate
  <2> HIDE DEF a, b
  <2> QED BY <2>1, <2>2, <2>3
<1>4. file' = [file EXCEPT ![k] = f]
  BY <1>1 DEF Generate, Counted, Metrics, FileState
<1>5. /\ n \in Counts /\ n.hits = old.counts.hits /\ n.misses = old.counts.misses
      /\ n.generated = old.counts.generated + 1 /\ n.loaded = old.counts.loaded
  BY <1>1 DEF Counts
<1> HIDE DEF n
<1>6. f \in FileState /\ f.cache = old.cache /\ f.counts = n /\ f.lookups = old.lookups
  BY <1>1, <1>5 DEF FileState
<1> HIDE DEF f
<1>7. CountsOK(f, t.pc, k)
  BY <1>1, <1>3, <1>5, <1>6 DEF CycleOK, CountsOK, Counts
<1>8. CycleOK(t, f, k)
  BY <1>1, <1>3, <1>6, <1>7 DEF CycleOK
<1>9. AtMost(file[k].counts, f.counts)
  BY <1>1, <1>5, <1>6 DEF AtMost, Counts
<1> QED BY <1>1, <1>3, <1>4, <1>8, <1>9, ThreadStep

\* What a thread puts in its cache is of its own generator, or of the table.
LEMMA PutKeeps == ASSUME BenchmarkInv, NEW k \in Cycles, PutChunk(k) PROVE BenchmarkInv'
<1> DEFINE old == file[k]
           w == Wanted(k)
           b == <<thread[k].who, w>>
           h == Put(old.cache, w, b)
           f == [old EXCEPT !.cache = h]
           t == [thread[k] EXCEPT !.pc = IF Len(thread[k].rest) = 1 THEN "next" ELSE "lookup",
                                  !.rest = Tail(@), !.who = "nobody"]
<1>1. /\ thread[k].pc = "put" /\ UNCHANGED mainVars
      /\ CycleOK(thread[k], old, k) /\ thread[k] \in ThreadState /\ old \in FileState
      /\ old.counts \in Counts /\ LruType(old.cache, Chunk, Blob)
      /\ thread \in [Cycles -> ThreadState] /\ file \in [Cycles -> FileState]
  BY CycleState DEF PutChunk
<1>2. /\ thread[k].rest # <<>> /\ w \in Chunk
      /\ thread[k].who = Gen(k) \/ (Storage(k) # "nostorage" /\ thread[k].who = "table")
  <2>1. /\ thread[k].rest # <<>>
        /\ thread[k].who = Gen(k) \/ (Storage(k) # "nostorage" /\ thread[k].who = "table")
    BY <1>1 DEF CycleOK, ThreadOK
  <2> QED BY <1>1, <2>1, WantedIsChunk
<1>3. thread' = [thread EXCEPT ![k] = t] /\ file' = [file EXCEPT ![k] = f]
  BY <1>1 DEF PutChunk, Passed, File
<1>4. t \in ThreadState /\ ThreadOK(t, k) /\ t.pc \in {"next", "lookup"}
  BY <1>1, <1>2, PassedOK
<1>5. b \in Blob
  BY <1>2, SuiteSize DEF Blob, Maker
<1>6. /\ LruType(h, Chunk, Blob) /\ Bounded(h, Chunk) /\ h.blob[w] = b
      /\ \A c \in Chunk \ {w} : h.blob[c] \in {old.cache.blob[c], NoBlob}
  <2> DEFINE o == old.cache
  <2>1. LruType(o, Chunk, Blob) /\ Bounded(o, Chunk) /\ NoBlob \notin Blob
    BY <1>1, BenchmarkAssumption DEF CycleOK, CacheOK
  <2> HIDE DEF o, w, b
  <2>2. /\ LruType(Put(o, w, b), Chunk, Blob) /\ Bounded(Put(o, w, b), Chunk)
        /\ Put(o, w, b).blob[w] = b
        /\ \A c \in Chunk \ {w} : Put(o, w, b).blob[c] \in {o.blob[c], NoBlob}
    BY <1>2, <1>5, <2>1, PutOK
  <2> QED BY <2>2 DEF o
<1> HIDE DEF t, h
<1>7. f \in FileState /\ f.cache = h /\ f.counts = old.counts /\ f.lookups = old.lookups
  BY <1>1, <1>6 DEF FileState, LruType
<1> HIDE DEF f
<1>8. CacheOK(f.cache, k)
  <2>1. ASSUME NEW c \in Chunk, contains(h, c)
        PROVE  h.blob[c] = <<Gen(k), c>> \/ (Storage(k) # "nostorage" /\ h.blob[c] = <<"table", c>>)
    <3>1. CASE c = w
      BY <1>2, <1>6, <3>1
    <3>2. CASE c # w
      <4>1. h.blob[c] = old.cache.blob[c] /\ contains(old.cache, c)
        BY <1>6, <2>1, <3>2 DEF contains
      <4> QED BY <1>1, <4>1 DEF CycleOK, CacheOK
    <3> QED BY <3>1, <3>2
  <2> QED BY <1>6, <1>7, <2>1 DEF CacheOK
<1>9. CountsOK(f, t.pc, k)
  BY <1>1, <1>4, <1>7 DEF CycleOK, CountsOK
<1>10. CycleOK(t, f, k)
  BY <1>4, <1>7, <1>8, <1>9 DEF CycleOK
<1>11. AtMost(file[k].counts, f.counts)
  BY <1>1, <1>7 DEF AtMost, Counts
<1> QED BY <1>1, <1>3, <1>10, <1>11, ThreadStep

-----------------------------------------------------------------------------
(* The suite. *)

\* Nothing has run and nothing is reported at the start.
LEMMA InitBenchmark == Init => BenchmarkInv
<1> SUFFICES ASSUME Init PROVE BenchmarkInv
  OBVIOUS
<1>1. CyclesOK
  <2>1. <<>> \in Seq(Chunk) /\ 1 \in Nat \ {0}
    OBVIOUS
  <2>2. Idle \in ThreadState /\ Idle.pc = "none"
    BY <2>1 DEF Idle, ThreadState
  <2>3. ASSUME NEW k \in Cycles PROVE CycleOK(Idle, NewFile, k)
    <3>1. ThreadOK(Idle, k)
      BY <2>2 DEF ThreadOK
    <3> QED BY <2>2, <3>1, NewCache DEF CycleOK
  <2>4. ASSUME NEW k \in Cycles PROVE NewFile \in FileState
    BY NewCache
  <2> QED BY <2>2, <2>3, <2>4 DEF Init, CyclesOK
<1>2. SuiteOK
  <2>1. cycle = 1 /\ main = "connect" /\ connected = {} /\ full = <<>>
    BY DEF Init
  <2>2. cycle \in Cycles
    BY <2>1, SuiteSize
  <2>3. full \in Seq(Nat) /\ Len(full) = 0
    BY <2>1
  <2>4. AllReported
    BY <2>1, <2>3 DEF AllReported
  <2> QED BY <2>1, <2>2, <2>3, <2>4 DEF SuiteOK
<1>3. ReportOK
  <2>1. NoCounts \in Counts /\ Len(Fields) = 4
    BY DEF NoCounts, Counts, Fields
  <2> QED BY <2>1 DEF Init, ReportOK
<1> QED BY <1>1, <1>2, <1>3 DEF BenchmarkInv

\* The next cycle is one, or the suite is at its end.
LEMMA AfterCycle ==
  ASSUME cycle \in Cycles
  PROVE  /\ cycle + 1 \in Nat \ {0}
         /\ After \in {"connect", "done"}
         /\ After # "done" => cycle + 1 \in Cycles
<1> DEFINE n == Cardinality(Cycles)
<1>1. n \in Nat \ {0} /\ cycle \in 1 .. n /\ Cycles = 1 .. n
  BY SuiteSize
<1>2. After = IF cycle = n THEN "done" ELSE "connect"
  BY DEF After
<1> HIDE DEF n
<1> QED BY <1>1, <1>2

\* A configuration is opened, or skipped.
LEMMA ConnectKeeps == ASSUME BenchmarkInv, Connect PROVE BenchmarkInv'
<1>1. /\ main = "connect" /\ UNCHANGED <<fields, report, full, stop_flag, file>>
      /\ cycle \in Cycles /\ cycle \in Nat \ {0} /\ connected \subseteq 1 .. cycle
      /\ connected \subseteq Cycles
      /\ cycle \notin connected /\ full \in Seq(Nat) /\ AllReported
      /\ CycleOK(thread[cycle], file[cycle], cycle)
      /\ thread \in [Cycles -> ThreadState] /\ file \in [Cycles -> FileState]
  BY CycleState DEF BenchmarkInv, SuiteOK, Connect
<1>2. CASE Opened
  <2> DEFINE t == [thread[cycle] EXCEPT !.pc = "next"]
  <2>1. /\ thread' = [thread EXCEPT ![cycle] = t] /\ cycle' = cycle
        /\ main' = "measure" /\ connected' = connected \cup {cycle}
    BY <1>1, <1>2 DEF Opened
  <2>2. t \in ThreadState /\ t.pc = "next"
    BY <1>1 DEF ThreadState
  <2> HIDE DEF t
  <2>3. CycleOK(t, file[cycle], cycle)
    <3>1. ThreadOK(t, cycle)
      BY <2>2 DEF ThreadOK
    <3>2. CountsOK(file[cycle], t.pc, cycle)
      BY <1>1, <2>2 DEF CycleOK, CountsOK
    <3> QED BY <1>1, <2>2, <3>1, <3>2 DEF CycleOK
  <2>4. CyclesOK'
    <3>1. thread' \in [Cycles -> ThreadState] /\ file' \in [Cycles -> FileState]
      BY <1>1, <2>1, <2>2
    <3>2. ASSUME NEW j \in Cycles PROVE CycleOK(thread'[j], file'[j], j)
      BY <1>1, <2>1, <2>3 DEF BenchmarkInv, CyclesOK
    <3> QED BY <3>1, <3>2 DEF CyclesOK
  <2>5. SuiteOK'
    <3>1. {k \in connected' : k < cycle'} = {k \in connected : k < cycle}
      BY <1>1, <2>1
    <3>2. AllReported'
      BY <1>1, <3>1 DEF AllReported
    <3> QED BY <1>1, <2>1, <3>2 DEF SuiteOK
  <2>6. ReportOK'
    BY <1>1, <2>1 DEF BenchmarkInv, ReportOK
  <2> QED BY <2>4, <2>5, <2>6 DEF BenchmarkInv
<1>3. CASE cycle' = cycle + 1 /\ main' = After /\ UNCHANGED <<connected, thread>>
  <2>1. CyclesOK'
    BY <1>1, <1>3 DEF BenchmarkInv, CyclesOK
  <2>2. SuiteOK'
    <3>1. {k \in connected' : k < cycle'} = {k \in connected : k < cycle}
      <4>1. \A k \in connected : k < cycle + 1 <=> k < cycle
        <5>1. \A k \in connected : k \in Int /\ k # cycle /\ k <= cycle
          BY <1>1
        <5> QED BY <1>1, <5>1
      <4> QED BY <1>3, <4>1
    <3>2. AllReported'
      BY <1>1, <3>1 DEF AllReported
    <3>3. connected' \subseteq 1 .. cycle' /\ cycle' \notin connected'
      BY <1>1, <1>3
    <3> QED BY <1>1, <1>3, <3>2, <3>3, AfterCycle DEF SuiteOK
  <2>3. ReportOK'
    BY <1>1, <1>3, AfterCycle DEF BenchmarkInv, ReportOK
  <2> QED BY <2>1, <2>2, <2>3 DEF BenchmarkInv
<1> QED BY <1>2, <1>3 DEF Connect

\* The time is over: nothing of the report has been read.
LEMMA StopKeeps == ASSUME BenchmarkInv, Stop PROVE BenchmarkInv'
<1>1. CyclesOK'
  BY DEF BenchmarkInv, CyclesOK, Stop
<1>2. SuiteOK'
  BY DEF BenchmarkInv, SuiteOK, AllReported, Stop
<1>3. ReportOK'
  <2>1. /\ report = NoCounts /\ report \in Counts /\ fields \in 0 .. Len(Fields) /\ main = "measure"
        /\ cycle \in Cycles
    BY DEF BenchmarkInv, SuiteOK, ReportOK, Stop
  <2>2. file[cycle].counts \in Counts
    BY <2>1, CycleState
  <2>3. AtMost(NoCounts, file[cycle].counts)
    BY <2>2 DEF NoCounts, Counts, AtMost
  <2> QED BY <2>1, <2>3 DEF ReportOK, Stop
<1> QED BY <1>1, <1>2, <1>3 DEF BenchmarkInv

\* The counter that is read is behind, or as it is.
LEMMA ReadCounterKeeps == ASSUME BenchmarkInv, ReadCounter PROVE BenchmarkInv'
<1> DEFINE now == file[cycle].counts
<1>1. /\ main = "report" /\ fields < Len(Fields) /\ fields' = fields + 1
      /\ UNCHANGED <<cycle, main, full, stop_flag, connected, thread, file>>
  BY DEF ReadCounter
<1>2. PICK seen \in 0 .. now[Fields[fields + 1]] :
        report' = [report EXCEPT ![Fields[fields + 1]] = seen]
  BY DEF ReadCounter, Metrics
<1>3. cycle \in Cycles /\ report \in Counts /\ fields \in 0 .. 3 /\ Len(Fields) = 4
  BY <1>1 DEF BenchmarkInv, SuiteOK, ReportOK, Fields
<1>4. now \in Counts /\ AtMost(report, now)
  BY <1>1, <1>3, CycleState DEF BenchmarkInv, ReportOK
<1>5. CyclesOK' /\ SuiteOK'
  BY <1>1 DEF BenchmarkInv, CyclesOK, SuiteOK, AllReported
<1>6. now' = now
  BY <1>1
<1> HIDE DEF now
<1>7. report' \in Counts /\ AtMost(report', now)
  <2>1. Fields[fields + 1] \in {"generated", "hits", "misses", "loaded"}
    BY <1>3 DEF Fields
  <2>2. CASE Fields[fields + 1] = "generated"
    BY <1>2, <1>3, <1>4, <2>2 DEF Counts, AtMost
  <2>3. CASE Fields[fields + 1] = "hits"
    BY <1>2, <1>3, <1>4, <2>3 DEF Counts, AtMost
  <2>4. CASE Fields[fields + 1] = "misses"
    BY <1>2, <1>3, <1>4, <2>4 DEF Counts, AtMost
  <2>5. CASE Fields[fields + 1] = "loaded"
    BY <1>2, <1>3, <1>4, <2>5 DEF Counts, AtMost
  <2> QED BY <2>1, <2>2, <2>3, <2>4, <2>5
<1>8. ReportOK'
  <2>1. AtMost(report', now')
    BY <1>6, <1>7
  <2> QED BY <1>1, <1>3, <1>7, <2>1 DEF ReportOK, AtMost, now
<1> QED BY <1>5, <1>8 DEF BenchmarkInv

\* The report of this cycle comes behind those of the cycles before.
LEMMA ReportKeeps == ASSUME BenchmarkInv, Report PROVE BenchmarkInv'
<1>1. /\ main = "report" /\ full' = Append(full, cycle) /\ cycle' = cycle + 1 /\ main' = After
      /\ fields' = 0 /\ report' = NoCounts /\ UNCHANGED <<stop_flag, connected, thread>>
      /\ cycle \in Cycles /\ cycle \in Nat \ {0} /\ connected \subseteq 1 .. cycle
      /\ connected \subseteq Cycles
      /\ cycle \in connected /\ full \in Seq(Nat) /\ AllReported
      /\ CycleOK(thread[cycle], file[cycle], cycle)
      /\ thread \in [Cycles -> ThreadState] /\ file \in [Cycles -> FileState]
  BY CycleState DEF BenchmarkInv, SuiteOK, Report
<1>2. CyclesOK'
  <2> DEFINE f == IF thread[cycle].pc = "ended" THEN NewFile ELSE file[cycle]
  <2>1. file' = [file EXCEPT ![cycle] = f]
    BY <1>1 DEF Report
  <2>2. CycleOK(thread[cycle], f, cycle) /\ f \in FileState
    BY <1>1, NewCache DEF CycleOK
  <2> HIDE DEF f
  <2>3. file' \in [Cycles -> FileState]
    BY <1>1, <2>1, <2>2
  <2>4. ASSUME NEW j \in Cycles PROVE CycleOK(thread'[j], file'[j], j)
    BY <1>1, <2>1, <2>2 DEF BenchmarkInv, CyclesOK
  <2> QED BY <1>1, <2>3, <2>4 DEF CyclesOK
<1>3. /\ full' \in Seq(Nat) /\ Len(full') = Len(full) + 1 /\ Len(full) \in Nat
      /\ \A n \in 1 .. Len(full) : full'[n] = full[n] /\ full[n] < cycle
      /\ full'[Len(full) + 1] = cycle
  <2>1. /\ Append(full, cycle) \in Seq(Nat) /\ Len(Append(full, cycle)) = Len(full) + 1
        /\ Len(full) \in Nat
        /\ \A n \in 1 .. Len(full) : Append(full, cycle)[n] = full[n]
        /\ Append(full, cycle)[Len(full) + 1] = cycle
    BY <1>1, AppendProperties, LenProperties
  <2>2. \A n \in 1 .. Len(full) : full[n] \in {k \in connected : k < cycle}
    BY <1>1 DEF AllReported
  <2> QED BY <1>1, <2>1, <2>2
<1>4. AllReported'
  <2>1. ASSUME NEW m \in 1 .. Len(full'), NEW n \in 1 .. Len(full'), m < n
        PROVE  full'[m] < full'[n]
    <3>1. m \in 1 .. Len(full)
      BY <1>3, <2>1
    <3>2. CASE n \in 1 .. Len(full)
      BY <1>1, <1>3, <2>1, <3>1, <3>2 DEF AllReported
    <3>3. CASE n \notin 1 .. Len(full)
      <4>1. n = Len(full) + 1
        BY <1>3, <3>3
      <4> QED BY <1>3, <3>1, <4>1
    <3> QED BY <3>2, <3>3
  <2>2. {full'[n] : n \in 1 .. Len(full')} = {full[n] : n \in 1 .. Len(full)} \cup {cycle}
    <3>1. 1 .. Len(full') = 1 .. Len(full) \cup {Len(full) + 1}
      BY <1>3
    <3> QED BY <1>3, <3>1
  <2>3. {k \in connected' : k < cycle'} = {k \in connected : k < cycle} \cup {cycle}
    <3>1. \A k \in connected : k < cycle + 1 <=> (k < cycle \/ k = cycle)
      <4>1. \A k \in connected : k \in Int
        BY <1>1
      <4> QED BY <1>1, <4>1
    <3> QED BY <1>1, <3>1
  <2> QED BY <1>1, <2>1, <2>2, <2>3 DEF AllReported
<1>5. SuiteOK'
  <2>1. connected' \subseteq 1 .. cycle' /\ cycle' \notin connected'
    BY <1>1
  <2> QED BY <1>1, <1>3, <1>4, <2>1, AfterCycle DEF SuiteOK
<1>6. ReportOK'
  <2>1. NoCounts \in Counts /\ Len(Fields) = 4
    BY DEF NoCounts, Counts, Fields
  <2> QED BY <1>1, <2>1, AfterCycle DEF ReportOK
<1> QED BY <1>2, <1>5, <1>6 DEF BenchmarkInv

\* Every step keeps the invariant.
LEMMA NextBenchmark == BenchmarkInv /\ [Next]_vars => BenchmarkInv'
<1> SUFFICES ASSUME BenchmarkInv, [Next]_vars PROVE BenchmarkInv'
  OBVIOUS
<1>1. CASE Suite
  BY <1>1, ConnectKeeps, StopKeeps, ReadCounterKeeps, ReportKeeps DEF Suite
<1>2. CASE \E k \in Cycles : main # "done" /\ Thread(k)
  BY <1>2, NextReadKeeps, LookupKeeps, LoadKeeps, GenerateKeeps, PutKeeps DEF Thread
<1>3. CASE UNCHANGED vars
  <2>1. UNCHANGED <<thread, file, cycle, main, fields, report, full, connected>>
    BY <1>3 DEF vars, mainVars
  <2> QED BY <2>1 DEF BenchmarkInv, CyclesOK, SuiteOK, AllReported, ReportOK
<1> QED BY <1>1, <1>2, <1>3 DEF Next

-----------------------------------------------------------------------------
(* The properties. *)

\* The report reads its counters while a thread changes them, each as late as
\* a relaxed load may be, and shows nothing all the same that did not happen.
THEOREM NoOvercount == Spec => []NeverOvercounts
<1>1. ASSUME BenchmarkInv, main = "report"
      PROVE  LET counts == file[Metrics(cycle)].counts
             IN /\ report.hits + report.misses <= file[cycle].lookups
                /\ report.generated <= counts.misses
                /\ Storage(cycle) # "nostorage" => report.generated <= counts.loaded
  <2> DEFINE n == file[cycle].counts
  <2>1. cycle \in Cycles /\ report \in Counts /\ AtMost(report, n)
    BY <1>1 DEF BenchmarkInv, SuiteOK, ReportOK
  <2>2. n \in Counts /\ file[cycle].lookups \in Nat /\ CycleOK(thread[cycle], file[cycle], cycle)
    BY <1>1, <2>1, CycleState
  <2>3. /\ n.hits + n.misses = file[cycle].lookups /\ n.generated <= n.misses
        /\ Storage(cycle) # "nostorage" => n.generated <= n.loaded
    BY <2>2 DEF CycleOK, CountsOK
  <2> HIDE DEF n
  <2>4. /\ report.hits + report.misses <= file[cycle].lookups
        /\ report.generated <= n.misses
        /\ Storage(cycle) # "nostorage" => report.generated <= n.loaded
    BY <2>1, <2>2, <2>3 DEF Counts, AtMost
  <2> QED BY <2>4 DEF n, Metrics
<1>2. BenchmarkInv => NeverOvercounts
  BY <1>1 DEF NeverOvercounts
<1> QED BY <1>2, InitBenchmark, NextBenchmark, PTL DEF Spec

\* The threads that nobody waits for do not spoil the numbers of the cycles
\* that follow, and no cache holds a chunk of another generator.
THEOREM OnlyItsOwn == Spec => []OwnNumbers
<1>1. ASSUME BenchmarkInv PROVE OwnNumbers
  <2>1. ASSUME NEW k \in Cycles
        PROVE  /\ file[Metrics(k)].counts.hits + file[Metrics(k)].counts.misses = file[k].lookups
               /\ Storage(k) = "nostorage" => file[Metrics(k)].counts.loaded = 0
    BY <1>1, CycleState DEF CycleOK, CountsOK, Metrics
  <2>2. connected \subseteq Cycles
    BY <1>1 DEF BenchmarkInv, SuiteOK
  <2>3. ASSUME NEW k \in connected, NEW c \in Chunk, contains(Cache(k), c)
        PROVE  \/ Cache(k).blob[c] = <<Gen(k), c>>
               \/ Storage(k) # "nostorage" /\ Cache(k).blob[c] = <<"table", c>>
    BY <1>1, <2>2, <2>3, CycleState DEF CycleOK, CacheOK, Cache, File
  <2> QED BY <2>1, <2>3 DEF OwnNumbers
<1> QED BY <1>1, InitBenchmark, NextBenchmark, PTL DEF Spec

\* Whatever is skipped, the full report has every other configuration once
\* and in the order of the suite.
THEOREM NothingForgotten == Spec => []AllReported
<1>1. BenchmarkInv => AllReported
  BY DEF BenchmarkInv, SuiteOK
<1> QED BY <1>1, InitBenchmark, NextBenchmark, PTL DEF Spec
=============================================================================
