--------------------------- MODULE AutoBenchmark ---------------------------
(***************************************************************************)
(* run_auto_benchmark (hoppermc/src/main.rs) and the metrics it reports    *)
(* (hoppermc-benchmark): one cycle for each generator and storage.  A      *)
(* cycle has a VirtualFile, metrics and a stress thread of its own; nobody *)
(* waits for the thread, which may go on in the cycles that follow, and    *)
(* the report reads one counter after the other while it counts.  Every    *)
(* counter and flag is an atomic of its own, used with Ordering::Relaxed:  *)
(* an increment is never lost, but another thread may see any value that   *)
(* the counter has had, of each counter for itself.  Prefetching is off,   *)
(* as it is by default: no row is written.                                 *)
(***************************************************************************)
EXTENDS Lru, FiniteSets

CONSTANTS
  Chunk,
  generators,       \* the generators, in the order of the suite
  storage_configs,  \* the storages, in the order of the suite
  Spiral,           \* what a thread reads: of each read the chunk that each
                    \* pass of its loop looks up
  Stored,           \* chunks with a row in the tables of the database
  Lingering         \* bound on the threads of earlier cycles that still run

\* Who a blob in a cache is from: a generator, or the table.
Maker == {"table"} \cup {generators[n] : n \in 1 .. Len(generators)}

Blob == Maker \X Chunk

ASSUME BenchmarkAssumption ==
  /\ generators \in Seq(STRING) \ {<<>>}
  /\ storage_configs \in Seq({"nostorage", "pg_raw", "pg_jsonb"}) \ {<<>>}
  /\ Spiral \in Seq(Seq(Chunk) \ {<<>>})
  /\ Stored \subseteq Chunk
  /\ Lingering \in Nat
  /\ NoBlob \notin Blob

VARIABLES
  cycle,      \* the configuration that is tested, or one past the last
  main,       \* where main is in it
  fields,     \* counters that its report has read
  report,     \* the counters that it has read
  full,       \* cycles in the full report
  stop_flag,  \* of each cycle
  thread,     \* the stress thread of each cycle
  file,       \* the VirtualFile of each cycle: its cache and its metrics
  connected   \* history: cycles that were not skipped

mainVars == <<cycle, main, fields, report, full, stop_flag, connected>>
vars == <<mainVars, thread, file>>

Storages == Len(storage_configs)
Cycles == 1 .. Len(generators) * Storages

Gen(k) == generators[(k - 1) \div Storages + 1]
Storage(k) == storage_configs[((k - 1) % Storages) + 1]

\* Counts of time and of bytes are left out.
NoCounts == [generated |-> 0, loaded |-> 0, hits |-> 0, misses |-> 0]

\* The order in which generate_report reads them.
Fields == <<"generated", "hits", "misses", "loaded">>

Idle == [pc |-> "none", next |-> 1, rest |-> <<>>, who |-> "nobody"]

\* lookups is history: the chunks that the thread has looked up.
NewFile == [cache |-> EmptyCache(Chunk), counts |-> NoCounts, lookups |-> 0]

Init ==
  /\ cycle = 1
  /\ main = "connect"
  /\ fields = 0
  /\ report = NoCounts
  /\ full = <<>>
  /\ stop_flag = [k \in Cycles |-> FALSE]
  /\ thread = [k \in Cycles |-> Idle]
  /\ file = [k \in Cycles |-> NewFile]
  /\ connected = {}

\* The VirtualFile that the thread of cycle k reads.
File(k) == k

\* Mutant: one BenchmarkMetrics for all cycles.
SharedMetrics(k) == 1

\* The metrics that this VirtualFile counts in, and the report shows.
Metrics(k) == k

-----------------------------------------------------------------------------
(* The suite. *)

Late == {k \in Cycles : k < cycle /\ thread[k].pc \notin {"none", "ended"}}

After == IF cycle = Cardinality(Cycles) THEN "done" ELSE "connect"

Opened ==
  /\ connected' = connected \cup {cycle}
  /\ thread' = [thread EXCEPT ![cycle].pc = "next"]
  /\ main' = "measure"
  /\ cycle' = cycle

\* Mutant: after an error the other mode of the database is tried.
OtherConnect ==
  /\ main = "connect"
  /\ Cardinality(Late) <= Lingering
  /\ \/ Opened
     \/ /\ Storage(cycle) # "nostorage"
        /\ cycle' = IF Storage(cycle) = "pg_raw" THEN cycle + 1 ELSE cycle - 1
        /\ UNCHANGED <<connected, thread, main>>
  /\ UNCHANGED <<fields, report, full, stop_flag, file>>

\* A storage that cannot be opened is skipped; there are no retries.
Connect ==
  /\ main = "connect"
  /\ Cardinality(Late) <= Lingering
  /\ \/ Opened
     \/ /\ Storage(cycle) # "nostorage"
        /\ cycle' = cycle + 1
        /\ main' = After
        /\ UNCHANGED <<connected, thread>>
  /\ UNCHANGED <<fields, report, full, stop_flag, file>>

\* The time of the cycle is over.  The size of the table is asked for next,
\* and does not matter to the rest.
Stop ==
  /\ main = "measure"
  /\ stop_flag' = [stop_flag EXCEPT ![cycle] = TRUE]
  /\ main' = "report"
  /\ UNCHANGED <<cycle, fields, report, full, connected, thread, file>>

\* generate_report, one counter at a time: each as it is, or as it has been
\* at any time before.
ReadCounter ==
  /\ main = "report"
  /\ fields < Len(Fields)
  /\ LET f == Fields[fields + 1]
     IN \E seen \in 0 .. file[Metrics(cycle)].counts[f] : report' = [report EXCEPT ![f] = seen]
  /\ fields' = fields + 1
  /\ UNCHANGED <<cycle, main, full, stop_flag, connected, thread, file>>

\* Mutant: a report is pushed for the skipped cycles too.
EagerReport ==
  /\ main = "report"
  /\ fields = Len(Fields)
  /\ full' = full \o [n \in 1 .. cycle - Len(full) |-> Len(full) + n]
  /\ cycle' = cycle + 1
  /\ main' = After
  /\ fields' = 0
  /\ report' = NoCounts
  /\ file' = [file EXCEPT ![cycle] = IF thread[cycle].pc = "ended" THEN NewFile ELSE @]
  /\ UNCHANGED <<stop_flag, connected, thread>>

\* The next cycle drops its handle on the file; the thread may have one.
Report ==
  /\ main = "report"
  /\ fields = Len(Fields)
  /\ full' = Append(full, cycle)
  /\ cycle' = cycle + 1
  /\ main' = After
  /\ fields' = 0
  /\ report' = NoCounts
  /\ file' = [file EXCEPT ![cycle] = IF thread[cycle].pc = "ended" THEN NewFile ELSE @]
  /\ UNCHANGED <<stop_flag, connected, thread>>

-----------------------------------------------------------------------------
(* A stress thread, through read_at. *)

Cache(k) == file[File(k)].cache

Counted(k, f) == [file EXCEPT ![Metrics(k)].counts[f] = @ + 1]

\* The thread looks at the flag, which it may not see yet when it is set,
\* reads the header, which no counter here sees, and goes on to a chunk.  At
\* its end it drops its file.
NextRead(k) ==
  /\ thread[k].pc = "next"
  /\ \/ /\ stop_flag[k] \/ thread[k].next > Len(Spiral)
        /\ thread' = [thread EXCEPT ![k] = [Idle EXCEPT !.pc = "ended"]]
        /\ file' = [file EXCEPT ![k] = IF k # cycle THEN NewFile ELSE @]
     \/ /\ thread[k].next <= Len(Spiral)
        /\ thread' = [thread EXCEPT ![k].pc = "lookup", ![k].next = @ + 1,
                                    ![k].rest = Spiral[thread[k].next]]
        /\ file' = file
  /\ UNCHANGED mainVars

Wanted(k) == Head(thread[k].rest)

\* The chunk is answered, and the next pass begins.
Passed(k) ==
  [thread EXCEPT ![k].pc = IF Len(thread[k].rest) = 1 THEN "next" ELSE "lookup",
                 ![k].rest = Tail(@), ![k].who = "nobody"]

Lookup(k) ==
  /\ thread[k].pc = "lookup"
  /\ IF contains(Cache(k), Wanted(k))
       THEN /\ file' = [Counted(k, "hits") EXCEPT ![k].lookups = @ + 1,
                          ![File(k)].cache = Touched(@, Wanted(k))]
            /\ thread' = Passed(k)
       ELSE /\ file' = [Counted(k, "misses") EXCEPT ![k].lookups = @ + 1]
            /\ thread' = [thread EXCEPT ![k].pc =
                            IF Storage(k) = "nostorage" THEN "generate" ELSE "load"]
  /\ UNCHANGED mainVars

\* A load counts, whatever it finds.
Load(k) ==
  /\ thread[k].pc = "load"
  /\ file' = Counted(k, "loaded")
  /\ \/ /\ Wanted(k) \in Stored
        /\ thread' = [thread EXCEPT ![k].pc = "put", ![k].who = "table"]
     \/ thread' = [thread EXCEPT ![k].pc = "generate"]
  /\ UNCHANGED mainVars

\* Mutant: the generator counts what it generates, and its caller does too.
TwiceGenerate(k) ==
  /\ thread[k].pc = "generate"
  /\ file' = [file EXCEPT ![Metrics(k)].counts.generated = @ + 2]
  /\ thread' \in {[thread EXCEPT ![k].pc = "put", ![k].who = Gen(k)],
                  [thread EXCEPT ![k].pc = "next", ![k].rest = <<>>]}
  /\ UNCHANGED mainVars

\* An error ends the read.
Generate(k) ==
  /\ thread[k].pc = "generate"
  /\ file' = Counted(k, "generated")
  /\ thread' \in {[thread EXCEPT ![k].pc = "put", ![k].who = Gen(k)],
                  [thread EXCEPT ![k].pc = "next", ![k].rest = <<>>]}
  /\ UNCHANGED mainVars

PutChunk(k) ==
  /\ thread[k].pc = "put"
  /\ file' = [file EXCEPT ![File(k)].cache =
                 Put(@, Wanted(k), <<thread[k].who, Wanted(k)>>)]
  /\ thread' = Passed(k)
  /\ UNCHANGED mainVars

-----------------------------------------------------------------------------
Suite == Connect \/ Stop \/ ReadCounter \/ Report

Thread(k) == NextRead(k) \/ Lookup(k) \/ Load(k) \/ Generate(k) \/ PutChunk(k)

\* The process ends with main, and every thread with it.
Next == Suite \/ \E k \in Cycles : main # "done" /\ Thread(k)

\* Main sleeps for a finite time, and the system runs every thread.
Spec ==
  /\ Init /\ [][Next]_vars
  /\ WF_vars(Suite)
  /\ \A k \in Cycles : WF_vars(main # "done" /\ Thread(k))

-----------------------------------------------------------------------------
\* A report that was read while its thread went on shows nothing that did
\* not happen: no more lookups than the thread made, and no more generations
\* than there were misses in the cache, or loads from the table, by then.
\* It may show fewer: and more generations than misses, as it reads one after
\* the other and may be late with each.
NeverOvercounts ==
  main = "report" /\ fields = Len(Fields) =>
    LET counts == file[Metrics(cycle)].counts
    IN /\ report.hits + report.misses <= file[cycle].lookups
       /\ report.generated <= counts.misses
       /\ Storage(cycle) # "nostorage" => report.generated <= counts.loaded

\* A cycle measures itself, however many threads of earlier cycles still run:
\* it counts what its own thread did, and its cache holds chunks of its own
\* generator or, with a storage, of the table.
OwnNumbers ==
  /\ \A k \in Cycles :
       LET counts == file[Metrics(k)].counts
       IN /\ counts.hits + counts.misses = file[k].lookups
          /\ Storage(k) = "nostorage" => counts.loaded = 0
  /\ \A k \in connected, c \in Chunk :
       contains(Cache(k), c) =>
         \/ Cache(k).blob[c] = <<Gen(k), c>>
         \/ Storage(k) # "nostorage" /\ Cache(k).blob[c] = <<"table", c>>

\* The full report has every configuration that could be opened, once, and in
\* the order of the suite.
AllReported ==
  /\ \A m, n \in 1 .. Len(full) : m < n => full[m] < full[n]
  /\ {full[n] : n \in 1 .. Len(full)} = {k \in connected : k < cycle}

\* The suite ends, with or without a database.
SuiteEnds == <>(main = "done")
=============================================================================
