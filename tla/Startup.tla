------------------------------ MODULE Startup ------------------------------
(***************************************************************************)
(* The life of the program in its container (hoppermc/src/main.rs,         *)
(* entrypoint.sh, compose.yml): it connects to the database with retries,  *)
(* builds the location table, mounts, and serves until it is told to stop. *)
(* The shell script that started it passes the signal on and unmounts what *)
(* is left; docker starts the container again whenever it ends by itself.  *)
(***************************************************************************)
EXTENDS RegionHeader

CONSTANT RETRIES  \* attempts to connect: 30

ASSUME StartupAssumption == RETRIES \in Nat \ {0}

VARIABLES
  args,      \* how the program is called: it does not change
  table,     \* the chunk table is in the database
  main,      \* where main() is; "gone" when there is no process
  attempts,  \* failed attempts to connect
  script,    \* where entrypoint.sh is; "off" when there is no container
  mount,     \* what is mounted at the mountpoint; "dead" when its process is gone
  down,      \* the operator has stopped the container
  abrupt,    \* history: a process died, docker killed it, or its mount could
             \* not be removed, since the script last unmounted
  report     \* the benchmark report of this process

headerVars == <<i, header>>
runVars == <<main, attempts, report>>
startVars == <<args, table, runVars, script, mount, down, abrupt, headerVars>>

Running == {"connecting", "measuring", "building", "mounted", "serving", "reporting"}

StartInit ==
  /\ Init
  /\ args \in [storage : BOOLEAN, benchmark : BOOLEAN, auto_benchmark : BOOLEAN]
  /\ table = FALSE
  /\ main = "gone"
  /\ attempts = 0
  /\ script = "off"
  /\ mount = "none"
  /\ down = FALSE
  /\ abrupt = FALSE
  /\ report = "none"

-----------------------------------------------------------------------------
(* main. *)

Prepared == IF args.auto_benchmark THEN "measuring" ELSE "building"

\* Mutant: after the last attempt the program goes on without the database.
GivingUp ==
  /\ main = "connecting"
  /\ \/ /\ table' = TRUE
        /\ main' = Prepared
        /\ attempts' = 0
     \/ /\ table' \in {table, TRUE}
        /\ attempts' = IF attempts + 1 = RETRIES THEN 0 ELSE attempts + 1
        /\ main' = IF attempts + 1 = RETRIES THEN Prepared ELSE main
  /\ UNCHANGED <<args, script, mount, down, abrupt, report, headerVars>>

\* Mutant: after the last attempt the program starts over.
EndlessConnect ==
  /\ main = "connecting"
  /\ \/ /\ table' = TRUE
        /\ main' = Prepared
        /\ attempts' = 0
     \/ /\ table' \in {table, TRUE}
        /\ attempts' = IF attempts + 1 = RETRIES THEN 0 ELSE attempts + 1
        /\ main' = main
  /\ UNCHANGED <<args, script, mount, down, abrupt, report, headerVars>>

\* One attempt opens a pool and creates the table, in one transaction.  It
\* fails when either does, and then the table may still be there.  After the
\* last attempt the program panics.
Connect ==
  /\ main = "connecting"
  /\ \/ /\ table' = TRUE
        /\ main' = Prepared
        /\ attempts' = 0
     \/ /\ table' \in {table, TRUE}
        /\ attempts' = IF attempts + 1 = RETRIES THEN 0 ELSE attempts + 1
        /\ main' = IF attempts + 1 = RETRIES THEN "gone" ELSE main
  /\ UNCHANGED <<args, script, mount, down, abrupt, report, headerVars>>

\* The auto-benchmark (see AutoBenchmark) mounts nothing, and ends by itself.
Measure ==
  /\ main = "measuring"
  /\ main' = "gone"
  /\ UNCHANGED <<args, table, attempts, script, mount, down, abrupt, report, headerVars>>

Build ==
  /\ main = "building"
  /\ WriteEntry
  /\ UNCHANGED <<args, table, runVars, script, mount, down, abrupt>>

\* A mount that fails is a panic; it fails where a dead one is left.
Mount ==
  /\ main = "building"
  /\ i = Slots
  /\ \/ /\ mount = "none"
        /\ mount' = "live"
        /\ main' = "mounted"
     \/ /\ mount' = mount
        /\ main' = "gone"
  /\ UNCHANGED <<args, table, attempts, script, down, abrupt, report, headerVars>>

\* Files are served from the mount on; until this step a signal ends the
\* process as it always did.
HandleSignals ==
  /\ main = "mounted"
  /\ main' = "serving"
  /\ UNCHANGED <<args, table, attempts, script, mount, down, abrupt, report, headerVars>>

\* Mutant: a size query that fails ends main.
QueryFirst ==
  /\ main = "reporting"
  /\ report' \in {report, IF report = "due" THEN "written" ELSE report}
  /\ main' = "gone"
  /\ mount' = "none"
  /\ UNCHANGED <<args, table, attempts, script, down, abrupt, headerVars>>

\* The report is written whether the database tells its size or fails to,
\* but it waits for either; an error of the file system is logged.  The end
\* of main drops the session, which unmounts.
Finish ==
  /\ main = "reporting"
  /\ report' = IF report = "due" THEN "written" ELSE report
  /\ main' = "gone"
  /\ mount' = "none"
  /\ UNCHANGED <<args, table, attempts, script, down, abrupt, headerVars>>

\* What is left when the process ends without the end of main.
Left == IF mount = "live" THEN "dead" ELSE mount

Unwritten == IF report = "due" THEN "lost" ELSE report

\* An abort, or a lack of memory.
Die ==
  /\ main \in Running
  /\ main' = "gone"
  /\ mount' = Left
  /\ report' = Unwritten
  /\ abrupt' = TRUE
  /\ UNCHANGED <<args, table, attempts, script, down, headerVars>>

-----------------------------------------------------------------------------
(* entrypoint.sh. *)

\* The container starts with its script, which starts the program.
Boot ==
  /\ script = "off"
  /\ ~ down
  /\ script' = "waiting"
  /\ main' = IF args.storage THEN "connecting" ELSE Prepared
  /\ attempts' = 0
  /\ report' = "none"
  /\ i' = 0
  /\ header' = <<>>
  /\ UNCHANGED <<args, table, mount, down, abrupt>>

\* The program has ended by itself, and the script does.
End ==
  /\ script = "waiting"
  /\ main = "gone"
  /\ script' = "off"
  /\ UNCHANGED <<args, table, runVars, mount, down, abrupt, headerVars>>

\* Mutant: the handlers are there from the start, but the signals that come
\* before main waits for them are lost.
LostKill ==
  /\ script = "killing"
  /\ script' = "reaping"
  /\ main' = IF main = "serving" THEN "reporting" ELSE main
  /\ report' = IF main = "serving" /\ args.benchmark THEN "due" ELSE report
  /\ UNCHANGED <<args, table, attempts, mount, down, abrupt, headerVars>>

\* cleanup() sends the signal on.  main only handles it once it serves.
Kill ==
  /\ script = "killing"
  /\ script' = "reaping"
  /\ main' = IF main = "serving" THEN "reporting" ELSE "gone"
  /\ mount' = IF main = "serving" THEN mount ELSE Left
  /\ report' = IF main = "serving" /\ args.benchmark THEN "due" ELSE report
  /\ UNCHANGED <<args, table, attempts, down, abrupt, headerVars>>

\* Mutant: the script does not wait for the program.
HastyReap ==
  /\ script = "reaping"
  /\ script' = "unmounting"
  /\ UNCHANGED <<args, table, runVars, mount, down, abrupt, headerVars>>

Reap ==
  /\ script = "reaping"
  /\ main = "gone"
  /\ script' = "unmounting"
  /\ UNCHANGED <<args, table, runVars, mount, down, abrupt, headerVars>>

\* Mutant: the script leaves the unmounting to the program.
TrustingUnmount ==
  /\ script = "unmounting"
  /\ script' = "off"
  /\ abrupt' = FALSE
  /\ UNCHANGED <<args, table, runVars, mount, down, headerVars>>

\* fusermount may fail, and the script ends all the same.
Unmount ==
  /\ script = "unmounting"
  /\ \/ mount' = "none" /\ abrupt' = FALSE
     \/ mount' = mount /\ abrupt' = TRUE
  /\ script' = "off"
  /\ UNCHANGED <<args, table, runVars, down, headerVars>>

-----------------------------------------------------------------------------
(* The operator and docker. *)

\* docker stop, while the script waits or is at its end.
Stop ==
  /\ ~ down
  /\ down' = TRUE
  /\ script' = IF script = "waiting" THEN "killing" ELSE script
  /\ UNCHANGED <<args, table, runVars, mount, abrupt, headerVars>>

\* The time docker gives a container to stop is over: the database need not
\* have answered the last question for the report.
Expire ==
  /\ down
  /\ script # "off"
  /\ script' = "off"
  /\ main' = "gone"
  /\ mount' = Left
  /\ report' = Unwritten
  /\ abrupt' = TRUE
  /\ UNCHANGED <<args, table, attempts, down, headerVars>>

Start ==
  /\ down
  /\ script = "off"
  /\ down' = FALSE
  /\ UNCHANGED <<args, table, runVars, script, mount, abrupt, headerVars>>

Main == Connect \/ Measure \/ Build \/ Mount \/ HandleSignals \/ Finish

Script == End \/ Kill \/ Reap \/ Unmount

StartNext == Main \/ Die \/ Boot \/ Script \/ Stop \/ Expire \/ Start

\* The program and the script run, and docker restarts what ends; nobody has
\* to start or to stop anything, and nothing has to fail.  That main goes on
\* assumes that the database answers each question in the end, if only with
\* an error.
StartSpec ==
  /\ StartInit /\ [][StartNext]_startVars
  /\ WF_startVars(Main) /\ WF_startVars(Script) /\ WF_startVars(Boot)

-----------------------------------------------------------------------------
\* The header is what was built so far, and nothing runs without a script.
StartTypeOK ==
  /\ TypeOK
  /\ main \in Running \cup {"gone"}
  /\ attempts \in 0 .. RETRIES - 1
  /\ script \in {"off", "waiting", "killing", "reaping", "unmounting"}
  /\ mount \in {"none", "live", "dead"}
  /\ report \in {"none", "due", "written", "lost"}
  /\ script = "off" => main = "gone"

\* No file is served before the table it is saved to exists and the header it
\* is read by is complete, whatever failed on the way and however often the
\* container was started.
ServesCompletely ==
  mount = "live" => i = Slots /\ (args.storage => table)

\* As long as the program serves, or writes its report, its mount is there:
\* nobody unmounts it under a program that still runs.
MountedWhileServing ==
  main \in {"mounted", "serving", "reporting"} <=> mount = "live"

\* Unless its process dies by itself, docker kills it or fusermount fails, a
\* container leaves no mount behind: not of a program that was told to stop
\* before it could handle signals either.  What is left then is gone after the
\* next stop whose fusermount succeeds.
StoppedClean == script = "off" /\ ~ abrupt => mount = "none"

\* The script does not unmount, and the container does not end, before the
\* report that is due is written, whether or not the database gave its size.
\* It is lost only when the process dies while it writes it, or when docker
\* kills the container, as it does when the answer takes too long: main waits
\* for it without a timeout.
ReportedInTime ==
  /\ script \in {"unmounting", "off"} => report # "due"
  /\ report = "lost" /\ script # "off" => abrupt

\* The attempts to connect come to an end.
ConnectingEnds == main = "connecting" ~> main # "connecting"

\* A container that is told to stop does.
StopEnds == down ~> (script = "off" \/ ~ down)
=============================================================================
