----------------------------- MODULE Lifecycle -----------------------------
(***************************************************************************)
(* The life of the TSX Core process (forwarder.ts): process lock and crash *)
(* guard, the startup gates and the authority they grant, starting and     *)
(* stopping the Telegram routing, backup restore and factory reset, and    *)
(* shutdown.  A signal may start the shutdown while the startup, a routing *)
(* start or a restore is still awaiting, and the process may die anywhere. *)
(***************************************************************************)
EXTENDS Naturals, FiniteSets, TLAPS

CONSTANTS Instance,        \* processes that may be started on this directory
          MaximumCrashes,  \* crash starts before the crash block, 3 in the code
          MaxDeaths,       \* bound on process deaths
          MaxJobs          \* bound on operator jobs (stops, restores, resets)

Nobody == "nobody"

VARIABLES lockFile,      \* .process_active: the instance it names
          activeMarker,  \* .routing_active exists
          counter,       \* .crash_counter
          recent,        \* the last counted crash lies within the window
          blockFile,     \* .crash_blocked exists
          sharedMarker,  \* a shared maintenance marker exists
          streak,        \* deaths of an active routing since an orderly stop
          me,            \* the memory of each running instance
          died, jobs     \* bounds

lifecycle == <<lockFile, activeMarker, counter, recent, blockFile, sharedMarker,
               streak, me, died, jobs>>

STARTUP_GATES == {"configuration", "crash", "database", "protection_scan",
                  "retention", "dashboard", "monitoring", "backup"}

Services == {"mcp", "trading", "retention", "web", "metrics", "backup"}
(* What a restore stops and a failed restore starts again. *)
Stoppable == {"mcp", "trading", "retention", "backup"}

Down == [at |-> "down", phase |-> "initial", gates |-> {}, hold |-> FALSE,
         db |-> FALSE, services |-> {}, routing |-> "off", start |-> "none", owns |-> FALSE,
         latch |-> FALSE, enabling |-> FALSE,
         job |-> "none", maint |-> "none", end |-> "no", drained |-> FALSE]

Init ==
    /\ lockFile = Nobody /\ activeMarker = FALSE /\ counter = 0 /\ recent = FALSE
    /\ blockFile = FALSE /\ sharedMarker = FALSE /\ streak = 0
    /\ me = [i \in Instance |-> Down]
    /\ died = 0 /\ jobs = 0

files == <<lockFile, activeMarker, counter, recent, blockFile, sharedMarker, streak>>
bounds == <<died, jobs>>

Alive(i) == me[i].at /= "down"
(* process.exit follows the shutdown: no later step of the process runs.    *)
Running(i) == Alive(i) /\ me[i].end /= "exit"

canMutate(r) == r.phase = "ready" /\ ~r.hold
canEnter(r) == canMutate(r) /\ "routing" \in r.gates

Becomes(i, r) == me' = [me EXCEPT ![i] = r]

block(r) == [r EXCEPT !.phase = "blocked"]
completeGate(r, gate) ==
    IF r.phase = "recovery-only" \/ (r.phase = "ready" /\ gate = "routing")
    THEN [r EXCEPT !.gates = @ \cup {gate}] ELSE r

(***************************************************************************)
(* Starting.                                                               *)
(***************************************************************************)
(* acquireProcessLock creates the lock file exclusively; it never takes a   *)
(* lock over, whether its owner lives or not.  A refused start ends.        *)
acquireProcessLock(i) ==
    /\ ~Alive(i)
    /\ lockFile = Nobody
    /\ lockFile' = i
    /\ Becomes(i, [Down EXCEPT !.at = "crash", !.phase = "recovery-only"])
    /\ UNCHANGED <<activeMarker, counter, recent, blockFile, sharedMarker, streak, bounds>>

(* An operator removes the lock of an absent process after a review, and    *)
(* with it the maintenance marker; a crash block stays.                     *)
reviewedRecovery ==
    /\ lockFile /= Nobody /\ ~Alive(lockFile)
    /\ lockFile' = Nobody
    /\ sharedMarker' = FALSE
    /\ UNCHANGED <<activeMarker, counter, recent, blockFile, streak, me, bounds>>

(* checkCrashLoopState: a marker of an earlier routing counts as a crash.   *)
checkCrashLoopState(i) ==
    LET crashed == IF recent THEN counter + 1 ELSE 1
        refused == blockFile \/ (activeMarker /\ crashed >= MaximumCrashes) IN
    /\ Running(i) /\ me[i].at = "crash"
    /\ counter' = IF blockFile THEN counter ELSE IF activeMarker THEN crashed ELSE 0
    /\ recent' = IF blockFile THEN recent ELSE activeMarker
    /\ blockFile' = (blockFile \/ refused)
    /\ Becomes(i, IF refused \/ sharedMarker
                  THEN [block(me[i]) EXCEPT !.at = "failed"]
                  ELSE [completeGate(me[i], "crash") EXCEPT !.at = "configuration"])
    /\ UNCHANGED <<lockFile, activeMarker, sharedMarker, streak, bounds>>

(* The block file follows the counter: the process may die in between.      *)
diesCounted(i) ==
    /\ Running(i) /\ me[i].at = "crash" /\ activeMarker /\ ~blockFile
    /\ died < MaxDeaths /\ died' = died + 1
    /\ counter' = (IF recent THEN counter + 1 ELSE 1) /\ recent' = TRUE
    /\ Becomes(i, Down)
    /\ UNCHANGED <<lockFile, activeMarker, blockFile, sharedMarker, streak, jobs>>

(* The crash window elapses between two starts. *)
windowElapses ==
    /\ recent
    /\ recent' = FALSE /\ streak' = 0
    /\ UNCHANGED <<lockFile, activeMarker, counter, blockFile, sharedMarker, me, bounds>>

(* run(): valid settings go on; invalid ones leave a dashboard and the      *)
(* protection of existing exposure, with the authority blocked.             *)
run(i) ==
    /\ Running(i) /\ me[i].at = "configuration"
    /\ \/ Becomes(i, [completeGate(me[i], "configuration") EXCEPT !.at = "database"])
       \/ Becomes(i, [block(me[i]) EXCEPT !.at = "recovery", !.db = TRUE,
                        !.services = {"trading", "web"}])
    /\ UNCHANGED <<files, bounds>>

After == [database |-> "protection_scan", protection_scan |-> "retention",
          retention |-> "dashboard", dashboard |-> "monitoring",
          monitoring |-> "backup", backup |-> "release"]

Started == [database |-> {}, protection_scan |-> {"mcp", "trading"},
            retention |-> {"retention"}, dashboard |-> {"web"},
            monitoring |-> {"metrics"}, backup |-> {"backup"}]

(* runStartupGate: a gate that completes after the authority was blocked    *)
(* counts for nothing; a failed one blocks it for good.  Only a failed      *)
(* monitoring or backup start leaves the process running.                   *)
runStartupGate(i) ==
    /\ Running(i) /\ me[i].at \in DOMAIN After
    /\ LET gate == me[i].at
           up == [me[i] EXCEPT !.at = After[gate], !.db = TRUE,
                               !.services = @ \cup Started[gate]] IN
       \/ Becomes(i, completeGate(up, gate))
       \/ /\ gate \in {"monitoring", "backup"}
          /\ Becomes(i, block([me[i] EXCEPT !.at = After[gate]]))
       \/ /\ gate \notin {"monitoring", "backup"}
          /\ Becomes(i, block([me[i] EXCEPT !.at = "failed"]))
    /\ UNCHANGED <<files, bounds>>

(* startInfrastructureGates ends with the release of a startup not blocked. *)
release(i) ==
    /\ Running(i) /\ me[i].at = "release"
    /\ Becomes(i, [me[i] EXCEPT !.at = "up",
                     !.phase = IF @ = "recovery-only" /\ STARTUP_GATES \subseteq me[i].gates
                               THEN "ready" ELSE @])
    /\ UNCHANGED <<files, bounds>>

(***************************************************************************)
(* Routing.                                                                *)
(***************************************************************************)
(* startForwardingNonInteractive up to the Telegram login, from the start   *)
(* of the service or from the dashboard.                                    *)
startForwardingNonInteractive(i) ==
    /\ Running(i) /\ me[i].at = "up" /\ me[i].routing = "off" /\ me[i].start = "none"
    /\ me[i].maint = "none"
    /\ Becomes(i, [me[i] EXCEPT !.routing = "login", !.start = "login"])
    /\ UNCHANGED <<files, bounds>>

(* connectAndActivateRouting after the login and the chat lookups.  A stop  *)
(* asked for meanwhile closes the client, which fails the start unless it   *)
(* has come this far: the start does not ask again.                         *)
connectAndActivateRouting(i) ==
    /\ Running(i) /\ me[i].start = "login"
    /\ Becomes(i, [me[i] EXCEPT !.routing = "on", !.start = "mark"])
    /\ UNCHANGED <<files, bounds>>

(* From here the start runs on to its end even when a stop overtakes it:    *)
(* the marker is written under the process lock ...                         *)
writeRoutingActiveMarker(i) ==
    /\ Running(i) /\ me[i].start = "mark" /\ lockFile = i
    /\ activeMarker' = TRUE
    /\ Becomes(i, [me[i] EXCEPT !.start = "resume", !.owns = TRUE])
    /\ UNCHANGED <<lockFile, counter, recent, blockFile, sharedMarker, streak, bounds>>

(* ... the durable tasks are resumed, the routing gate is completed unless  *)
(* the authority is blocked, and the entries are to be enabled.             *)
enableConfiguredEntries(i) ==
    /\ Running(i) /\ me[i].start = "resume"
    /\ Becomes(i, [completeGate(me[i], "routing") EXCEPT !.start = "none", !.enabling = TRUE])
    /\ UNCHANGED <<files, bounds>>

(* A failed or cancelled start: the queue is stopped and an owned marker is *)
(* removed once the queue has drained.                                      *)
cleanupFailedRoutingStart(i) ==
    /\ Running(i) /\ me[i].start /= "none"
    /\ \E drained \in BOOLEAN :
         /\ activeMarker' = (activeMarker /\ ~(drained /\ me[i].owns))
         /\ streak' = IF drained /\ me[i].owns THEN 0 ELSE streak
         /\ Becomes(i, [me[i] EXCEPT !.routing = "off", !.start = "none",
                                     !.owns = @ /\ ~drained])
    /\ UNCHANGED <<lockFile, counter, recent, blockFile, sharedMarker, bounds>>

(* enableEntries reads the clock and the database before it checks the      *)
(* authority a second time and opens the latch.                             *)
enableEntriesUnchecked(i) ==
    /\ Running(i) /\ me[i].enabling
    /\ Becomes(i, [me[i] EXCEPT !.enabling = FALSE, !.latch = TRUE])
    /\ UNCHANGED <<files, bounds>>

enableEntries(i) ==
    /\ Running(i) /\ me[i].enabling
    /\ Becomes(i, [me[i] EXCEPT !.enabling = FALSE,
                                !.latch = @ \/ (canEnter(me[i]) /\ "trading" \in me[i].services)])
    /\ UNCHANGED <<files, bounds>>

(* removeOwnedRoutingMarker asserts the process lock first. *)
removeOwnedRoutingMarker(i) ==
    /\ me[i].owns => lockFile = i
    /\ activeMarker' = (activeMarker /\ ~me[i].owns)
    /\ streak' = IF me[i].owns THEN 0 ELSE streak

(* stopForwarding from the dashboard.  A queue that does not drain keeps    *)
(* the marker and fails the call.                                           *)
stopForwarding(i) ==
    /\ Running(i) /\ me[i].at = "up" /\ me[i].routing /= "off"
    /\ me[i].maint = "none" /\ jobs < MaxJobs /\ jobs' = jobs + 1
    /\ \E drained \in BOOLEAN :
         LET off == [me[i] EXCEPT !.routing = "off", !.owns = @ /\ ~drained] IN
         /\ Becomes(i, off)
         /\ IF drained THEN removeOwnedRoutingMarker(i)
            ELSE UNCHANGED <<activeMarker, streak>>
    /\ UNCHANGED <<lockFile, counter, recent, blockFile, sharedMarker, died>>

(***************************************************************************)
(* Restore and factory reset.                                              *)
(***************************************************************************)
beginApplicationMaintenance(i) ==
    /\ Running(i) /\ me[i].at = "up" /\ me[i].maint = "none" /\ ~me[i].hold
    /\ jobs < MaxJobs /\ jobs' = jobs + 1
    /\ \E job \in {"restore", "reset"} :
         Becomes(i, [me[i] EXCEPT !.hold = TRUE, !.latch = FALSE, !.job = job,
                                  !.maint = "begun"])
    /\ UNCHANGED <<files, died>>

(* restoreNamedBackup and performCompleteFactoryReset stop the routing and  *)
(* the services, check that trading is safe, and publish the shared         *)
(* maintenance; any of it may fail.                                         *)
stopForMaintenance(i) ==
    /\ Running(i) /\ me[i].maint = "begun"
    /\ me[i].services \cap Stoppable /= {}
    /\ \E drained, safe \in BOOLEAN :
         LET ok == drained /\ safe /\ ~sharedMarker IN
         /\ IF drained THEN removeOwnedRoutingMarker(i)
            ELSE UNCHANGED <<activeMarker, streak>>
         /\ sharedMarker' = (sharedMarker \/ ok)
         /\ Becomes(i, [me[i] EXCEPT
                !.services = @ \ Stoppable, !.routing = "off",
                !.owns = @ /\ ~drained,
                !.maint = IF ok THEN "leased" ELSE "failed"])
    /\ UNCHANGED <<lockFile, counter, recent, blockFile, bounds>>

(* closeDb and the wait for quiescence; then the files are replaced.        *)
replaceDatabase(i) ==
    /\ Running(i) /\ me[i].maint = "leased"
    /\ \E closed, quiescent \in BOOLEAN :
         Becomes(i, [me[i] EXCEPT !.db = @ /\ ~closed,
                      !.maint = IF closed /\ quiescent THEN "done" ELSE "failed"])
    /\ UNCHANGED <<files, bounds>>

(* After the replacement the lease is released and the hold stays until the *)
(* restart that both jobs ask for.                                          *)
finishMaintenance(i) ==
    /\ Running(i) /\ me[i].maint = "done" /\ sharedMarker
    /\ sharedMarker' = FALSE
    /\ Becomes(i, [me[i] EXCEPT !.maint = "over"])
    /\ UNCHANGED <<lockFile, activeMarker, counter, recent, blockFile, streak, bounds>>

(* restoreNamedBackup's finally block: the lease is released, the database  *)
(* opened again, the services started again, and only then is the hold      *)
(* released; a protection scan that does not complete blocks the authority. *)
restoreFailed(i) ==
    /\ Running(i) /\ me[i].maint = "failed" /\ me[i].job = "restore"
    /\ sharedMarker' = FALSE
    /\ \E reopened, scanned \in BOOLEAN :
         LET up == [me[i] EXCEPT !.db = TRUE, !.services = @ \cup Stoppable] IN
         Becomes(i, IF ~reopened THEN [me[i] EXCEPT !.maint = "over"]
                    ELSE IF scanned THEN [up EXCEPT !.maint = "none", !.hold = FALSE]
                    ELSE [block(up) EXCEPT !.maint = "over"])
    /\ UNCHANGED <<lockFile, activeMarker, counter, recent, blockFile, streak, bounds>>

(* A factory reset that fails leaves the marker and blocks the authority.   *)
resetFailed(i) ==
    /\ Running(i) /\ me[i].maint = "failed" /\ me[i].job = "reset"
    /\ Becomes(i, [block(me[i]) EXCEPT !.maint = "over"])
    /\ UNCHANGED <<files, bounds>>

(***************************************************************************)
(* Shutdown: a signal, an operator restart, or a failed startup.           *)
(***************************************************************************)
performShutdown(i) ==
    /\ Running(i) /\ me[i].end = "no"
    /\ me[i].at = "failed" \/ jobs < MaxJobs
    /\ jobs' = IF me[i].at = "failed" THEN jobs ELSE jobs + 1
    /\ Becomes(i, [block(me[i]) EXCEPT !.latch = FALSE, !.end = "drain"])
    /\ UNCHANGED <<files, died>>

stopRuntimeServices(i) ==
    /\ Running(i) /\ me[i].end = "drain"
    /\ \E drained \in BOOLEAN :
         Becomes(i, [me[i] EXCEPT !.services = {}, !.drained = drained, !.end = "close",
                                  !.routing = "off"])
    /\ UNCHANGED <<files, bounds>>

(* The database is closed only after a drain. *)
closeDatabaseAfterDrain(i) ==
    /\ Running(i) /\ me[i].end = "close"
    /\ \E closed \in BOOLEAN :
         Becomes(i, [me[i] EXCEPT !.end = IF me[i].drained /\ closed THEN "release" ELSE "keep",
                                  !.db = @ /\ ~(me[i].drained /\ closed)])
    /\ UNCHANGED <<files, bounds>>

(* The owned routing marker goes after a drain, the process lock after the  *)
(* database was closed; the process exits at once.                          *)
releaseProcessLock(i) ==
    /\ Running(i) /\ me[i].end \in {"release", "keep"}
    /\ IF me[i].drained THEN removeOwnedRoutingMarker(i)
       ELSE UNCHANGED <<activeMarker, streak>>
    /\ lockFile' = IF me[i].end = "release" /\ lockFile = i THEN Nobody ELSE lockFile
    /\ Becomes(i, Down)
    /\ UNCHANGED <<counter, recent, blockFile, sharedMarker, bounds>>

die(i) ==
    /\ Alive(i) /\ died < MaxDeaths /\ died' = died + 1
    /\ streak' = IF me[i].routing = "on" /\ me[i].owns THEN streak + 1 ELSE streak
    /\ Becomes(i, Down)
    /\ UNCHANGED <<lockFile, activeMarker, counter, recent, blockFile, sharedMarker, jobs>>

Next ==
    \/ \E i \in Instance :
          \/ acquireProcessLock(i) \/ checkCrashLoopState(i) \/ diesCounted(i) \/ run(i)
          \/ runStartupGate(i) \/ release(i)
          \/ startForwardingNonInteractive(i) \/ writeRoutingActiveMarker(i)
          \/ connectAndActivateRouting(i) \/ enableConfiguredEntries(i)
          \/ cleanupFailedRoutingStart(i)
          \/ enableEntries(i) \/ stopForwarding(i)
          \/ beginApplicationMaintenance(i) \/ stopForMaintenance(i)
          \/ replaceDatabase(i) \/ finishMaintenance(i)
          \/ restoreFailed(i) \/ resetFailed(i)
          \/ performShutdown(i) \/ stopRuntimeServices(i)
          \/ closeDatabaseAfterDrain(i) \/ releaseProcessLock(i) \/ die(i)
    \/ reviewedRecovery \/ windowElapses

Spec == Init /\ [][Next]_lifecycle

(***************************************************************************)
(* Properties.                                                             *)
(***************************************************************************)
(* Every file and every instance's memory has its type. *)
TypeOK ==
    /\ lockFile \in Instance \cup {Nobody}
    /\ counter \in 0..MaximumCrashes + MaxDeaths + 1
    /\ \A i \in Instance :
         /\ me[i].phase \in {"initial", "recovery-only", "ready", "blocked"}
         /\ me[i].gates \subseteq STARTUP_GATES \cup {"routing"}
         /\ me[i].services \subseteq Services

(* One process owns the data directory: whoever has the database open, a    *)
(* service running or the routing active holds the process lock, whatever   *)
(* crashed, restarted or shut down before.                                  *)
OneProcessOwns ==
    \A i \in Instance :
        me[i].db \/ me[i].services /= {} \/ me[i].routing = "on" => lockFile = i

(* Entries are admitted only while every startup gate and the routing gate  *)
(* are passed, no maintenance holds the authority and no shutdown began.    *)
EntriesNeedAuthority ==
    \A i \in Instance :
        me[i].latch => canEnter(me[i]) /\ STARTUP_GATES \subseteq me[i].gates

(* Authority to mutate implies a working system: the database is open and   *)
(* trading protection, retention and backups run.  A failed restore gives   *)
(* the authority back only after it has restarted what it stopped.          *)
AuthorityMeansServing ==
    \A i \in Instance :
        canMutate(me[i]) => me[i].db /\ {"trading", "retention", "backup"} \subseteq me[i].services

(* A crash loop stops: once MaximumCrashes active routings in a row died    *)
(* within the window, no process gets past the crash gate.                  *)
CrashLoopsStop ==
    streak >= MaximumCrashes => \A i \in Instance : "crash" \notin me[i].gates

(***************************************************************************)
(* The inductive invariant behind these properties.                        *)
(***************************************************************************)
Places == {"down", "crash", "configuration", "database", "protection_scan", "retention",
           "dashboard", "monitoring", "backup", "release", "up", "recovery", "failed"}
Phases == {"initial", "recovery-only", "ready", "blocked"}
Maintenances == {"none", "begun", "leased", "done", "failed", "over"}
Ends == {"no", "drain", "close", "release", "keep"}

Memory ==
    [at : Places, phase : Phases, gates : SUBSET (STARTUP_GATES \cup {"routing"}),
     hold : BOOLEAN, db : BOOLEAN, services : SUBSET Services, routing : {"off", "login", "on"},
     start : {"none", "login", "mark", "resume"}, owns : BOOLEAN,
     latch : BOOLEAN, enabling : BOOLEAN,
     job : {"none", "restore", "reset"}, maint : Maintenances, end : Ends, drained : BOOLEAN]

(* What a process remembers agrees: where it stands, which gates it passed, *)
(* what it started for them, and what authority it derives from that.       *)
Agrees(r) ==
    /\ r.at = "down" => r = Down
    /\ r.routing /= "off" \/ r.start /= "none" => r.at = "up"
    /\ r.maint /= "none" => r.hold /\ r.at = "up"
    /\ r.end /= "no" => r.phase = "blocked"
    /\ r.phase = "ready" => r.at = "up" /\ STARTUP_GATES \subseteq r.gates
    /\ r.latch => canEnter(r)
    /\ canMutate(r) => r.db /\ {"trading", "retention", "backup"} \subseteq r.services
    /\ r.at /= "up" /\ r.phase = "recovery-only" =>
         /\ "database" \in r.gates => r.db
         /\ "protection_scan" \in r.gates => "trading" \in r.services
         /\ "retention" \in r.gates => "retention" \in r.services
         /\ "backup" \in r.gates => "backup" \in r.services

(* The one process that is alive holds the lock, and a marker it owns is    *)
(* there.                                                                   *)
LockAgrees ==
    \A i \in Instance : /\ Alive(i) => lockFile = i
                        /\ me[i].owns => activeMarker

(* What the next start will count of the crashes of active routings.        *)
Counted == IF recent THEN counter ELSE 0

(* The process is past the crash gate. *)
Passed(i) == "crash" \in me[i].gates \/ me[i].at \notin {"down", "crash", "failed"}

CrashAgrees ==
    /\ ~activeMarker => streak = 0
    /\ streak <= Counted + 1
    /\ \A i \in Instance : Passed(i) => streak <= Counted /\ streak < MaximumCrashes

LifecycleInv ==
    /\ lockFile \in Instance \cup {Nobody}
    /\ activeMarker \in BOOLEAN /\ recent \in BOOLEAN /\ blockFile \in BOOLEAN
    /\ sharedMarker \in BOOLEAN /\ counter \in Nat /\ streak \in Nat
    /\ me \in [Instance -> Memory] /\ \A i \in Instance : Agrees(me[i])
    /\ LockAgrees /\ CrashAgrees

(***************************************************************************)
(* Proofs.                                                                 *)
(***************************************************************************)
\* The places, phases, maintenances and ends that the steps name.
LEMMA Names ==
  /\ {"down", "crash", "configuration", "database", "protection_scan", "retention", "dashboard",
      "monitoring", "backup", "release", "up", "recovery", "failed"} \subseteq Places
  /\ {"initial", "recovery-only", "ready", "blocked"} \subseteq Phases
  /\ {"none", "begun", "leased", "done", "failed", "over"} \subseteq Maintenances
  /\ {"no", "drain", "close", "release", "keep"} \subseteq Ends
  BY DEF Places, Phases, Maintenances, Ends

\* A process that is down remembers nothing.
LEMMA DownAgrees == Down \in Memory /\ Agrees(Down) /\ Down.at = "down" /\ Down.gates = {} /\ ~Down.owns
  BY Names DEF Down, Memory, Agrees, canEnter, canMutate

\* While one process lives the others are down: it alone holds the lock.
LEMMA OneLives ==
  ASSUME LifecycleInv, NEW i \in Instance, Alive(i), NEW j \in Instance, j /= i
  PROVE  me[j] = Down
  BY DEF LifecycleInv, LockAgrees, Alive, Agrees

\* A step of the living process that leaves lock and crash counting alone
\* keeps the agreement when its memory still agrees.
LEMMA LivingKeeps ==
  ASSUME LifecycleInv, MaximumCrashes \in Nat, NEW i \in Instance, Alive(i), NEW r \in Memory, Agrees(r), Becomes(i, r),
         "crash" \in r.gates \/ r.at \notin {"down", "crash", "failed"} => Passed(i),
         UNCHANGED <<lockFile, counter, recent, blockFile>>, sharedMarker' \in BOOLEAN,
         \/ UNCHANGED <<activeMarker, streak>> /\ (r.owns => me[i].owns)
         \/ activeMarker' = TRUE /\ UNCHANGED streak
         \/ /\ activeMarker' = (activeMarker /\ ~me[i].owns) /\ ~r.owns
            /\ streak' = IF me[i].owns THEN 0 ELSE streak
  PROVE  LifecycleInv'
<1>1. /\ me' \in [Instance -> Memory] /\ me'[i] = r /\ \A j \in Instance \ {i} : me'[j] = me[j]
  BY DEF LifecycleInv, Becomes
<1>2. \A j \in Instance \ {i} : me'[j] = Down
  BY <1>1, OneLives
<1>3. \A j \in Instance : Agrees(me'[j])
  BY <1>1, <1>2, DownAgrees
<1>4. lockFile' = i
  BY DEF LifecycleInv, LockAgrees
<1>5. streak' \in Nat /\ activeMarker' \in BOOLEAN /\ (r.owns => activeMarker')
  <2>1. CASE UNCHANGED <<activeMarker, streak>> /\ (r.owns => me[i].owns)
    BY <2>1 DEF LifecycleInv, LockAgrees
  <2>2. CASE activeMarker' = TRUE /\ UNCHANGED streak
    BY <2>2 DEF LifecycleInv
  <2>3. CASE /\ activeMarker' = (activeMarker /\ ~me[i].owns) /\ ~r.owns
             /\ streak' = IF me[i].owns THEN 0 ELSE streak
    <3>1. streak' \in Nat
      BY <2>3 DEF LifecycleInv
    <3>2. activeMarker' \in BOOLEAN
      BY <2>3
    <3> QED
      BY <2>3, <3>1, <3>2
  <2> QED
    BY <2>1, <2>2, <2>3
<1>6. LockAgrees'
  BY <1>1, <1>2, <1>4, <1>5, DownAgrees DEF LockAgrees, Alive
<1>7. streak' <= streak /\ (~activeMarker' => streak' = 0) /\ Counted' = Counted
  BY DEF LifecycleInv, CrashAgrees, Counted
<1>8. \A j \in Instance : Passed(j)' => Passed(i)
  BY <1>1, <1>2, DownAgrees DEF Passed
<1>9. CrashAgrees'
  <2>1. Counted \in Nat
    BY DEF LifecycleInv, Counted
  <2>2. streak \in Nat /\ streak <= Counted + 1 /\ (Passed(i) => streak <= Counted /\ streak < MaximumCrashes)
    BY DEF LifecycleInv, CrashAgrees
  <2>3. streak' <= Counted' + 1
    BY <1>5, <1>7, <2>1, <2>2
  <2>4. Passed(i) => streak' <= Counted' /\ streak' < MaximumCrashes
    BY <1>5, <1>7, <2>1, <2>2
  <2> HIDE DEF Counted, Passed
  <2> QED
    BY <1>7, <1>8, <2>3, <2>4 DEF CrashAgrees
<1> QED
  BY <1>1, <1>3, <1>5, <1>6, <1>9 DEF LifecycleInv

\* Blocking and completing a gate change nothing but the phase and the gates.
LEMMA BlockAndGate ==
  ASSUME NEW r \in Memory, NEW gate \in STARTUP_GATES \cup {"routing"}
  PROVE  /\ block(r) \in Memory /\ block(r).owns = r.owns
         /\ completeGate(r, gate) \in Memory /\ completeGate(r, gate).owns = r.owns
  BY Names DEF block, completeGate, Memory

\* The startup of the living process (run, runStartupGate, release): gates are
\* counted only together with what they started, and the release asks for all.
LEMMA StartupKeeps ==
  ASSUME LifecycleInv, MaximumCrashes \in Nat, NEW i \in Instance,
         run(i) \/ runStartupGate(i) \/ release(i)
  PROVE  LifecycleInv'
<1> DEFINE r == me[i]
<1>1. r \in Memory /\ Agrees(r) /\ sharedMarker \in BOOLEAN
  BY DEF LifecycleInv
<1>2. Running(i) /\ Alive(i) /\ UNCHANGED <<lockFile, activeMarker, counter, recent, blockFile, sharedMarker, streak>>
  BY DEF run, runStartupGate, release, Running, files
<1>3. ASSUME NEW s \in Memory, Agrees(s), Becomes(i, s), s.owns = r.owns, r.at \notin {"down", "crash", "failed"}
      PROVE  LifecycleInv'
  BY <1>1, <1>2, <1>3, LivingKeeps DEF Passed
<1>4. CASE run(i)
  <2>1. r.at = "configuration"
    BY <1>4 DEF run
  <2>2. CASE Becomes(i, [completeGate(r, "configuration") EXCEPT !.at = "database"])
    <3> DEFINE s == [completeGate(r, "configuration") EXCEPT !.at = "database"]
    <3>1. s \in Memory /\ s.owns = r.owns
      BY <1>1, <2>1, Names DEF completeGate, Memory, STARTUP_GATES
    <3>2. Agrees(s)
      BY <1>1, <2>1, Names DEF completeGate, Memory, STARTUP_GATES, Agrees, canEnter, canMutate
    <3> QED
      BY <1>3, <2>1, <2>2, <3>1, <3>2
  <2>3. CASE Becomes(i, [block(r) EXCEPT !.at = "recovery", !.db = TRUE, !.services = {"trading", "web"}])
    <3> DEFINE s == [block(r) EXCEPT !.at = "recovery", !.db = TRUE, !.services = {"trading", "web"}]
    <3>1. s \in Memory /\ s.owns = r.owns
      BY <1>1, <2>1, Names DEF block, Memory, Services
    <3>2. Agrees(s)
      BY <1>1, <2>1, Names DEF block, Memory, Agrees, canEnter, canMutate
    <3> QED
      BY <1>3, <2>1, <2>3, <3>1, <3>2
  <2> QED
    BY <1>4, <2>2, <2>3 DEF run
<1>5. CASE runStartupGate(i)
  <2> DEFINE gate == r.at
             up == [r EXCEPT !.at = After[gate], !.db = TRUE, !.services = @ \cup Started[gate]]
  <2>1. gate \in {"database", "protection_scan", "retention", "dashboard", "monitoring", "backup"}
    BY <1>5 DEF runStartupGate, After
  <2>2. /\ After[gate] \in {"protection_scan", "retention", "dashboard", "monitoring", "backup", "release"}
        /\ Started[gate] \subseteq Services
        /\ gate = "protection_scan" => "trading" \in Started[gate]
        /\ gate = "retention" => "retention" \in Started[gate]
        /\ gate = "backup" => "backup" \in Started[gate]
    BY <2>1 DEF After, Started, Services
  <2>3. CASE Becomes(i, completeGate(up, gate))
    <3> DEFINE s == completeGate(up, gate)
    <3>1. up \in Memory /\ up.owns = r.owns
      BY ZenonT(20), <1>1, <2>1, <2>2, Names DEF Memory
    <3>2. s \in Memory /\ s.owns = r.owns
      <4>1. gate \in STARTUP_GATES
        BY <2>1 DEF STARTUP_GATES
      <4> HIDE DEF up, gate
      <4> QED
        BY <3>1, <4>1, BlockAndGate
    <3>3. Agrees(s)
      <4> HIDE DEF gate
      <4>1. /\ s.at = After[gate] /\ s.phase = r.phase /\ s.db = TRUE /\ s.hold = r.hold
            /\ s.services = r.services \cup Started[gate] /\ s.routing = r.routing /\ s.start = r.start
            /\ s.maint = r.maint /\ s.end = r.end /\ s.latch = r.latch
            /\ s.gates = IF r.phase = "recovery-only" THEN r.gates \cup {gate} ELSE r.gates
        BY <1>1, <2>1, Names DEF completeGate, Memory
      <4>2. r.at /= "up" /\ r.at /= "down" /\ r.phase /= "ready"
        BY <1>1, <2>1 DEF Agrees, gate
      <4> HIDE DEF s
      <4> QED
        BY <1>1, <2>1, <2>2, <4>1, <4>2 DEF Agrees, canEnter, canMutate
    <3> QED
      BY <1>3, <2>1, <2>3, <3>2, <3>3
  <2>4. CASE Becomes(i, block([r EXCEPT !.at = After[gate]]))
    <3> DEFINE s == block([r EXCEPT !.at = After[gate]])
    <3>1. s \in Memory /\ s.owns = r.owns
      <4> DEFINE x == [r EXCEPT !.at = After[gate]]
      <4>1. x \in Memory /\ x.owns = r.owns
        BY <1>1, <2>2, Names DEF Memory
      <4> HIDE DEF x
      <4>2. block(x) \in Memory /\ block(x).owns = x.owns
        BY <4>1, BlockAndGate
      <4> QED
        BY <4>1, <4>2 DEF x
    <3>2. Agrees(s)
      BY <1>1, <2>1, <2>2, Names DEF block, Memory, Agrees, canEnter, canMutate
    <3> QED
      BY <1>3, <2>1, <2>4, <3>1, <3>2
  <2>5. CASE Becomes(i, block([r EXCEPT !.at = "failed"]))
    <3> DEFINE s == block([r EXCEPT !.at = "failed"])
    <3>1. s \in Memory /\ s.owns = r.owns
      BY <1>1, Names DEF block, Memory
    <3>2. Agrees(s)
      BY <1>1, <2>1, Names DEF block, Memory, Agrees, canEnter, canMutate
    <3> QED
      BY <1>3, <2>1, <2>5, <3>1, <3>2
  <2> QED
    BY <1>5, <2>3, <2>4, <2>5 DEF runStartupGate
<1>6. CASE release(i)
  <2> DEFINE phase == IF r.phase = "recovery-only" /\ STARTUP_GATES \subseteq r.gates
                      THEN "ready" ELSE r.phase
             s == [r EXCEPT !.at = "up", !.phase = phase]
  <2>1. r.at = "release" /\ Becomes(i, s)
    BY <1>6 DEF release
  <2>2. s \in Memory /\ s.owns = r.owns
    BY ZenonT(20), <1>1, Names DEF Memory
  <2>3. Agrees(s)
    <3>1. /\ s.at = "up" /\ s.phase = phase /\ s.db = r.db /\ s.hold = r.hold /\ s.gates = r.gates
          /\ s.services = r.services /\ s.maint = r.maint /\ s.end = r.end /\ s.latch = r.latch
      BY <1>1, Names DEF Memory
    <3>2. r.phase /= "ready" /\ ~r.latch
      BY <1>1, <2>1 DEF Agrees, canEnter, canMutate
    <3>3. phase = "ready" =>
            /\ STARTUP_GATES \subseteq r.gates /\ r.db /\ r.end = "no"
            /\ {"trading", "retention", "backup"} \subseteq r.services
      BY <1>1, <2>1, <3>2 DEF Agrees, STARTUP_GATES
    <3>4. phase \in {r.phase, "ready"}
      OBVIOUS
    <3> HIDE DEF s, phase
    <3> QED
      BY <1>1, <3>1, <3>2, <3>3, <3>4 DEF Agrees, canEnter, canMutate
  <2> QED
    BY <1>3, <2>1, <2>2, <2>3
<1> QED
  BY <1>4, <1>5, <1>6

\* The routing of the living process: it starts only when the process is up,
\* and entries are admitted only under the authority read at that moment
\* (startForwardingNonInteractive, connectAndActivateRouting, enableEntries).
LEMMA RoutingKeeps ==
  ASSUME LifecycleInv, MaximumCrashes \in Nat, NEW i \in Instance,
         \/ startForwardingNonInteractive(i) \/ connectAndActivateRouting(i)
         \/ writeRoutingActiveMarker(i) \/ enableConfiguredEntries(i) \/ enableEntries(i)
  PROVE  LifecycleInv'
<1> DEFINE r == me[i]
<1>1. r \in Memory /\ Agrees(r) /\ sharedMarker \in BOOLEAN
  BY DEF LifecycleInv
<1>2. Alive(i)
  BY DEF startForwardingNonInteractive, connectAndActivateRouting, writeRoutingActiveMarker,
         enableConfiguredEntries, enableEntries, Running
<1>3. CASE startForwardingNonInteractive(i)
  <2> DEFINE s == [r EXCEPT !.routing = "login", !.start = "login"]
  <2>1. /\ Becomes(i, s) /\ r.at = "up"
        /\ UNCHANGED <<lockFile, activeMarker, counter, recent, blockFile, sharedMarker, streak>>
    BY <1>3 DEF startForwardingNonInteractive, files
  <2>2. s \in Memory /\ s.owns = r.owns /\ s.at = r.at /\ s.gates = r.gates
    BY <1>1, Names DEF Memory
  <2>3. Agrees(s)
    BY <1>1, <2>1, Names DEF Memory, Agrees, canEnter, canMutate
  <2> HIDE DEF s
  <2> QED
    BY <1>1, <1>2, <2>1, <2>2, <2>3, LivingKeeps DEF Passed
<1>4. CASE connectAndActivateRouting(i)
  <2> DEFINE s == [r EXCEPT !.routing = "on", !.start = "mark"]
  <2>1. /\ Becomes(i, s) /\ r.start = "login"
        /\ UNCHANGED <<lockFile, activeMarker, counter, recent, blockFile, sharedMarker, streak>>
    BY <1>4 DEF connectAndActivateRouting, files
  <2>2. s \in Memory /\ s.owns = r.owns /\ s.at = r.at /\ s.gates = r.gates
    BY <1>1, Names DEF Memory
  <2>3. Agrees(s)
    BY <1>1, <2>1, Names DEF Memory, Agrees, canEnter, canMutate
  <2> HIDE DEF s
  <2> QED
    BY <1>1, <1>2, <2>1, <2>2, <2>3, LivingKeeps DEF Passed
<1>5. CASE writeRoutingActiveMarker(i)
  <2> DEFINE s == [r EXCEPT !.start = "resume", !.owns = TRUE]
  <2>1. /\ Becomes(i, s) /\ r.start = "mark" /\ activeMarker' = TRUE
        /\ UNCHANGED <<lockFile, counter, recent, blockFile, sharedMarker, streak>>
    BY <1>5 DEF writeRoutingActiveMarker
  <2>2. s \in Memory /\ s.at = r.at /\ s.gates = r.gates
    BY <1>1, Names DEF Memory
  <2>3. Agrees(s)
    BY <1>1, <2>1, Names DEF Memory, Agrees, canEnter, canMutate
  <2> HIDE DEF s
  <2> QED
    BY <1>1, <1>2, <2>1, <2>2, <2>3, LivingKeeps DEF Passed
<1>6. CASE enableConfiguredEntries(i)
  <2> DEFINE s == [completeGate(r, "routing") EXCEPT !.start = "none", !.enabling = TRUE]
  <2>1. /\ Becomes(i, s) /\ r.start = "resume"
        /\ UNCHANGED <<lockFile, activeMarker, counter, recent, blockFile, sharedMarker, streak>>
    BY <1>6 DEF enableConfiguredEntries, files
  <2>2. /\ s \in Memory /\ s.owns = r.owns /\ s.at = r.at /\ s.phase = r.phase /\ s.hold = r.hold
        /\ s.db = r.db /\ s.services = r.services /\ s.routing = r.routing /\ s.start = "none"
        /\ s.maint = r.maint /\ s.end = r.end /\ s.latch = r.latch
        /\ r.gates \subseteq s.gates /\ s.gates \subseteq r.gates \cup {"routing"}
    <3> DEFINE x == completeGate(r, "routing")
    <3>1. /\ x \in Memory /\ x.owns = r.owns /\ x.at = r.at /\ x.phase = r.phase /\ x.hold = r.hold
          /\ x.db = r.db /\ x.services = r.services /\ x.routing = r.routing
          /\ x.maint = r.maint /\ x.end = r.end /\ x.latch = r.latch
          /\ r.gates \subseteq x.gates /\ x.gates \subseteq r.gates \cup {"routing"}
      <4>1. CASE x = [r EXCEPT !.gates = @ \cup {"routing"}]
        BY <1>1, <4>1, Names DEF Memory
      <4>2. CASE x = r
        BY <1>1, <4>2, Names DEF Memory
      <4> QED
        BY <4>1, <4>2 DEF completeGate
    <3> HIDE DEF x
    <3>2. s = [x EXCEPT !.start = "none", !.enabling = TRUE]
      BY DEF x
    <3> HIDE DEF s
    <3> QED
      BY <3>1, <3>2, Names DEF Memory
  <2>3. r.at = "up"
    BY <1>1, <2>1 DEF Agrees
  <2> HIDE DEF s
  <2>4. Agrees(s)
    BY <1>1, <2>2, <2>3 DEF Agrees, canEnter, canMutate
  <2> QED
    BY <1>1, <1>2, <2>1, <2>2, <2>3, <2>4, LivingKeeps DEF Passed
<1>7. CASE enableEntries(i)
  <2> DEFINE open == r.latch \/ (canEnter(r) /\ "trading" \in r.services)
             s == [r EXCEPT !.enabling = FALSE, !.latch = open]
  <2>1. /\ Becomes(i, s)
        /\ UNCHANGED <<lockFile, activeMarker, counter, recent, blockFile, sharedMarker, streak>>
    BY <1>7 DEF enableEntries, files
  <2>2. open \in BOOLEAN
    OBVIOUS
  <2>3. open => canEnter(r) /\ r.at = "up"
    BY <1>1 DEF Agrees, canEnter, canMutate
  <2> HIDE DEF open
  <2>4. /\ s \in Memory /\ s.owns = r.owns /\ s.at = r.at /\ s.phase = r.phase /\ s.hold = r.hold
        /\ s.db = r.db /\ s.services = r.services /\ s.routing = r.routing /\ s.start = r.start
        /\ s.maint = r.maint /\ s.end = r.end /\ s.latch = open /\ s.gates = r.gates
    BY <1>1, <2>2, Names DEF Memory
  <2>5. r.at /= "down"
    BY <1>2 DEF Alive
  <2> HIDE DEF s
  <2>6. Agrees(s)
    BY <1>1, <2>3, <2>4, <2>5 DEF Agrees, canEnter, canMutate
  <2> QED
    BY <1>1, <1>2, <2>1, <2>4, <2>6, LivingKeeps DEF Passed
<1> QED
  BY <1>3, <1>4, <1>5, <1>6, <1>7

\* Stopping the routing and cleaning up after a failed start: the marker goes
\* only with the memory of owning it (stopForwarding,
\* cleanupFailedRoutingStart).
LEMMA StopKeeps ==
  ASSUME LifecycleInv, MaximumCrashes \in Nat, NEW i \in Instance,
         cleanupFailedRoutingStart(i) \/ stopForwarding(i)
  PROVE  LifecycleInv'
<1> DEFINE r == me[i]
<1>1. r \in Memory /\ Agrees(r) /\ sharedMarker \in BOOLEAN /\ (r.owns => activeMarker)
  BY DEF LifecycleInv, LockAgrees
<1>2. Alive(i)
  BY DEF cleanupFailedRoutingStart, stopForwarding, Running
<1>3. r.owns \in BOOLEAN /\ r.at /= "down"
  BY <1>1, <1>2, Names DEF Memory, Alive
<1>4. CASE cleanupFailedRoutingStart(i)
  <2>1. PICK drained \in BOOLEAN :
          /\ activeMarker' = (activeMarker /\ ~(drained /\ r.owns))
          /\ streak' = IF drained /\ r.owns THEN 0 ELSE streak
          /\ Becomes(i, [r EXCEPT !.routing = "off", !.start = "none", !.owns = @ /\ ~drained])
    BY <1>4 DEF cleanupFailedRoutingStart
  <2>2. UNCHANGED <<lockFile, counter, recent, blockFile, sharedMarker>>
    BY <1>4 DEF cleanupFailedRoutingStart
  <2> DEFINE owns == r.owns /\ ~drained
             s == [r EXCEPT !.routing = "off", !.start = "none", !.owns = owns]
  <2>3. owns \in BOOLEAN
    OBVIOUS
  <2> HIDE DEF owns
  <2>4. s \in Memory /\ s.owns = owns /\ s.at = r.at /\ s.gates = r.gates
    BY <1>1, <2>3, Names DEF Memory
  <2>5. Agrees(s)
    BY <1>1, <1>3, Names DEF Memory, Agrees, canEnter, canMutate
  <2>6. Becomes(i, s)
    BY <2>1 DEF owns
  <2> HIDE DEF s
  <2>7. CASE drained
    <3>1. activeMarker' = (activeMarker /\ ~r.owns) /\ streak' = IF r.owns THEN 0 ELSE streak
      BY <2>1, <2>7
    <3>2. ~s.owns
      BY <2>4, <2>7 DEF owns
    <3> QED
      BY <1>1, <1>2, <2>2, <2>4, <2>5, <2>6, <3>1, <3>2, LivingKeeps DEF Passed
  <2>8. CASE ~drained
    <3>1. UNCHANGED <<activeMarker, streak>>
      <4>1. activeMarker \in BOOLEAN
        BY DEF LifecycleInv
      <4> QED
        BY <2>1, <2>8, <4>1
    <3>2. s.owns => r.owns
      BY <2>4 DEF owns
    <3> QED
      BY <1>1, <1>2, <2>2, <2>4, <2>5, <2>6, <3>1, <3>2, LivingKeeps DEF Passed
  <2> QED
    BY <2>7, <2>8
<1>5. CASE stopForwarding(i)
  <2>1. PICK drained \in BOOLEAN :
          /\ Becomes(i, [r EXCEPT !.routing = "off", !.owns = @ /\ ~drained])
          /\ IF drained THEN removeOwnedRoutingMarker(i) ELSE UNCHANGED <<activeMarker, streak>>
    BY <1>5 DEF stopForwarding
  <2>2. UNCHANGED <<lockFile, counter, recent, blockFile, sharedMarker>> /\ r.at = "up"
    BY <1>5 DEF stopForwarding
  <2> DEFINE owns == r.owns /\ ~drained
             s == [r EXCEPT !.routing = "off", !.owns = owns]
  <2>3. owns \in BOOLEAN
    OBVIOUS
  <2> HIDE DEF owns
  <2>4. s \in Memory /\ s.owns = owns /\ s.at = r.at /\ s.gates = r.gates
    BY <1>1, <2>3, Names DEF Memory
  <2>5. Agrees(s)
    BY <1>1, <2>2, Names DEF Memory, Agrees, canEnter, canMutate
  <2>6. Becomes(i, s)
    BY <2>1 DEF owns
  <2> HIDE DEF s
  <2>7. CASE drained
    <3>1. activeMarker' = (activeMarker /\ ~r.owns) /\ streak' = IF r.owns THEN 0 ELSE streak
      BY <2>1, <2>7 DEF removeOwnedRoutingMarker
    <3>2. ~s.owns
      BY <2>4, <2>7 DEF owns
    <3> QED
      BY <1>1, <1>2, <2>2, <2>4, <2>5, <2>6, <3>1, <3>2, LivingKeeps DEF Passed
  <2>8. CASE ~drained
    <3>1. UNCHANGED <<activeMarker, streak>>
      BY <2>1, <2>8
    <3>2. s.owns => r.owns
      BY <2>4 DEF owns
    <3> QED
      BY <1>1, <1>2, <2>2, <2>4, <2>5, <2>6, <3>1, <3>2, LivingKeeps DEF Passed
  <2> QED
    BY <2>7, <2>8
<1> QED
  BY <1>4, <1>5

\* A restore or reset takes the authority before it stops anything, and gives
\* it back only with everything running again (beginApplicationMaintenance,
\* restoreNamedBackup, performCompleteFactoryReset).
LEMMA MaintenanceKeeps ==
  ASSUME LifecycleInv, MaximumCrashes \in Nat, NEW i \in Instance,
         \/ beginApplicationMaintenance(i) \/ replaceDatabase(i) \/ finishMaintenance(i)
         \/ restoreFailed(i) \/ resetFailed(i)
  PROVE  LifecycleInv'
<1> DEFINE r == me[i]
<1>1. r \in Memory /\ Agrees(r) /\ sharedMarker \in BOOLEAN
  BY DEF LifecycleInv
<1>2. Alive(i) /\ r.at /= "down"
  BY DEF beginApplicationMaintenance, replaceDatabase, finishMaintenance, restoreFailed,
     resetFailed,
         Running, Alive
<1>3. ASSUME NEW s \in Memory, Agrees(s), Becomes(i, s), s.owns = r.owns, s.at = r.at, s.gates = r.gates,
             sharedMarker' \in BOOLEAN,
             UNCHANGED <<lockFile, activeMarker, counter, recent, blockFile, streak>>
      PROVE  LifecycleInv'
  BY <1>1, <1>2, <1>3, LivingKeeps DEF Passed
<1>4. CASE beginApplicationMaintenance(i)
  <2>1. PICK job \in {"restore", "reset"} :
          Becomes(i, [r EXCEPT !.hold = TRUE, !.latch = FALSE, !.job = job, !.maint = "begun"])
    BY <1>4 DEF beginApplicationMaintenance
  <2> DEFINE s == [r EXCEPT !.hold = TRUE, !.latch = FALSE, !.job = job, !.maint = "begun"]
  <2>2. /\ r.at = "up"
        /\ UNCHANGED <<lockFile, activeMarker, counter, recent, blockFile, sharedMarker, streak>>
    BY <1>4 DEF beginApplicationMaintenance, files
  <2>3. s \in Memory
    <3>1. job \in {"none", "restore", "reset"}
      OBVIOUS
    <3> QED
      BY <1>1, <3>1, Names DEF Memory
  <2>4. s.owns = r.owns /\ s.at = r.at /\ s.gates = r.gates
    BY <1>1, Names DEF Memory
  <2>5. Agrees(s)
    BY <1>1, <2>2, Names DEF Memory, Agrees, canEnter, canMutate
  <2> QED
    BY <1>1, <1>3, <2>1, <2>2, <2>3, <2>4, <2>5
<1>5. CASE replaceDatabase(i)
  <2>1. PICK closed \in BOOLEAN, quiescent \in BOOLEAN :
          Becomes(i, [r EXCEPT !.db = @ /\ ~closed,
                               !.maint = IF closed /\ quiescent THEN "done" ELSE "failed"])
    BY <1>5 DEF replaceDatabase
  <2> DEFINE db == r.db /\ ~closed
             maint == IF closed /\ quiescent THEN "done" ELSE "failed"
             s == [r EXCEPT !.db = db, !.maint = maint]
  <2>2. db \in BOOLEAN /\ maint \in Maintenances
    BY Names
  <2>3. /\ r.hold /\ r.at = "up"
        /\ UNCHANGED <<lockFile, activeMarker, counter, recent, blockFile, sharedMarker, streak>>
    BY <1>1, <1>5 DEF Agrees, replaceDatabase, files
  <2>4. Becomes(i, s)
    BY <2>1
  <2> HIDE DEF db, maint
  <2>5. s \in Memory
    BY <1>1, <2>2, Names DEF Memory
  <2>6. s.owns = r.owns /\ s.at = r.at /\ s.gates = r.gates
    BY <1>1, Names DEF Memory
  <2>7. Agrees(s)
    BY <1>1, <2>3, Names DEF Memory, Agrees, canEnter, canMutate
  <2> QED
    BY <1>1, <1>3, <2>3, <2>4, <2>5, <2>6, <2>7
<1>6. CASE finishMaintenance(i)
  <2> DEFINE s == [r EXCEPT !.maint = "over"]
  <2>1. /\ r.maint = "done" /\ Becomes(i, s) /\ sharedMarker' = FALSE
        /\ UNCHANGED <<lockFile, activeMarker, counter, recent, blockFile, streak>>
    BY <1>6 DEF finishMaintenance
  <2>2. s \in Memory /\ s.owns = r.owns /\ s.at = r.at /\ s.gates = r.gates
    BY <1>1, Names DEF Memory
  <2>3. Agrees(s)
    BY <1>1, <2>1, Names DEF Memory, Agrees, canEnter, canMutate
  <2> QED
    BY <1>3, <2>1, <2>2, <2>3
<1>7. CASE restoreFailed(i)
  <2>1. /\ r.maint = "failed" /\ r.hold /\ r.at = "up" /\ ~r.latch /\ sharedMarker' = FALSE
        /\ UNCHANGED <<lockFile, activeMarker, counter, recent, blockFile, streak>>
    BY <1>1, <1>7 DEF restoreFailed, Agrees, canEnter, canMutate
  <2> DEFINE up == [r EXCEPT !.db = TRUE, !.services = @ \cup Stoppable]
  <2>2. /\ up \in Memory /\ up.owns = r.owns /\ up.at = r.at /\ up.gates = r.gates
        /\ up.db = TRUE /\ {"trading", "retention", "backup"} \subseteq up.services
        /\ up.phase = r.phase /\ up.hold = r.hold /\ up.latch = r.latch /\ up.end = r.end
        /\ up.routing = r.routing /\ up.start = r.start
    BY <1>1, Names DEF Memory, Stoppable, Services
  <2>3. CASE Becomes(i, [r EXCEPT !.maint = "over"])
    <3> DEFINE s == [r EXCEPT !.maint = "over"]
    <3>1. s \in Memory /\ s.owns = r.owns /\ s.at = r.at /\ s.gates = r.gates
      BY <1>1, Names DEF Memory
    <3>2. Agrees(s)
      BY <1>1, <2>1, Names DEF Memory, Agrees, canEnter, canMutate
    <3> QED
      BY <1>3, <2>1, <2>3, <3>1, <3>2
  <2>4. CASE Becomes(i, [up EXCEPT !.maint = "none", !.hold = FALSE])
    <3> HIDE DEF up
    <3> DEFINE s == [up EXCEPT !.maint = "none", !.hold = FALSE]
    <3>1. s \in Memory /\ s.owns = r.owns /\ s.at = r.at /\ s.gates = r.gates
      BY <2>2, Names DEF Memory
    <3>2. Agrees(s)
      BY <1>1, <2>1, <2>2, Names DEF Memory, Agrees, canEnter, canMutate
    <3> QED
      BY <1>3, <2>1, <2>4, <3>1, <3>2
  <2>5. CASE Becomes(i, [block(up) EXCEPT !.maint = "over"])
    <3> HIDE DEF up
    <3> DEFINE s == [block(up) EXCEPT !.maint = "over"]
    <3>1. s \in Memory /\ s.owns = r.owns /\ s.at = r.at /\ s.gates = r.gates
      BY <2>2, Names DEF Memory, block
    <3>2. Agrees(s)
      BY <1>1, <2>1, <2>2, Names DEF Memory, Agrees, canEnter, canMutate, block
    <3> QED
      BY <1>3, <2>1, <2>5, <3>1, <3>2
  <2> QED
    BY <1>7, <2>3, <2>4, <2>5 DEF restoreFailed
<1>8. CASE resetFailed(i)
  <2> DEFINE s == [block(r) EXCEPT !.maint = "over"]
  <2>1. /\ r.maint = "failed" /\ r.hold /\ r.at = "up" /\ ~r.latch /\ Becomes(i, s)
        /\ UNCHANGED <<lockFile, activeMarker, counter, recent, blockFile, sharedMarker, streak>>
    BY <1>1, <1>8 DEF resetFailed, files, Agrees, canEnter, canMutate
  <2>2. s \in Memory /\ s.owns = r.owns /\ s.at = r.at /\ s.gates = r.gates
    BY <1>1, Names DEF Memory, block
  <2>3. Agrees(s)
    BY <1>1, <2>1, Names DEF Memory, Agrees, canEnter, canMutate, block
  <2> QED
    BY <1>1, <1>3, <2>1, <2>2, <2>3
<1> QED
  BY <1>4, <1>5, <1>6, <1>7, <1>8

\* The stop before a restore or reset: it ends the routing and the services
\* under the hold taken before (restoreNamedBackup,
\* performCompleteFactoryReset).
LEMMA StopForMaintenanceKeeps ==
  ASSUME LifecycleInv, MaximumCrashes \in Nat, NEW i \in Instance, stopForMaintenance(i)
  PROVE  LifecycleInv'
<1> DEFINE r == me[i]
<1>1. r \in Memory /\ Agrees(r) /\ sharedMarker \in BOOLEAN
  BY DEF LifecycleInv
<1>2. Alive(i) /\ r.maint = "begun" /\ UNCHANGED <<lockFile, counter, recent, blockFile>>
  BY DEF stopForMaintenance, Running
<1>3. PICK drained \in BOOLEAN, safe \in BOOLEAN :
        LET ok == drained /\ safe /\ ~sharedMarker IN
        /\ IF drained THEN removeOwnedRoutingMarker(i) ELSE UNCHANGED <<activeMarker, streak>>
        /\ sharedMarker' = (sharedMarker \/ ok)
        /\ Becomes(i, [r EXCEPT
               !.services = @ \ Stoppable, !.routing = "off",
               !.owns = @ /\ ~drained, !.maint = IF ok THEN "leased" ELSE "failed"])
  BY DEF stopForMaintenance
<1> DEFINE ok == drained /\ safe /\ ~sharedMarker
           owns == r.owns /\ ~drained
           maint == IF ok THEN "leased" ELSE "failed"
           s == [r EXCEPT !.services = @ \ Stoppable, !.routing = "off",
                          !.owns = owns, !.maint = maint]
<1>4. owns \in BOOLEAN /\ maint \in Maintenances /\ sharedMarker' \in BOOLEAN
  BY <1>3, Names
<1>5. Becomes(i, s)
  BY <1>3
<1>6. r.hold /\ r.at = "up" /\ ~r.latch
  BY <1>1, <1>2 DEF Agrees, canEnter, canMutate
<1> HIDE DEF owns, maint
<1>7. s \in Memory
  BY <1>1, <1>4 DEF Memory
<1>8. s.owns = owns /\ s.at = r.at /\ s.gates = r.gates
  BY <1>1 DEF Memory
<1>9. Agrees(s)
  BY <1>1, <1>6 DEF Memory, Agrees, canEnter, canMutate
<1> HIDE DEF s
<1>10. CASE drained
  <2>1. activeMarker' = (activeMarker /\ ~r.owns) /\ streak' = IF r.owns THEN 0 ELSE streak
    BY <1>3, <1>10 DEF removeOwnedRoutingMarker
  <2>2. ~s.owns
    BY <1>8, <1>10 DEF owns
  <2> QED
    BY <1>2, <1>4, <1>5, <1>7, <1>8, <1>9, <2>1, <2>2, LivingKeeps DEF Passed
<1>11. CASE ~drained
  <2>1. UNCHANGED <<activeMarker, streak>>
    BY <1>3, <1>11
  <2>2. s.owns => r.owns
    BY <1>8 DEF owns
  <2> QED
    BY <1>2, <1>4, <1>5, <1>7, <1>8, <1>9, <2>1, <2>2, LivingKeeps DEF Passed
<1> QED
  BY <1>10, <1>11

\* The shutdown blocks the authority before it stops the services and closes
\* the database (performShutdown, stopRuntimeServices,
\* closeDatabaseAfterDrain).
LEMMA ShutdownKeeps ==
  ASSUME LifecycleInv, MaximumCrashes \in Nat, NEW i \in Instance,
         performShutdown(i) \/ stopRuntimeServices(i) \/ closeDatabaseAfterDrain(i)
  PROVE  LifecycleInv'
<1> DEFINE r == me[i]
<1>1. r \in Memory /\ Agrees(r) /\ sharedMarker \in BOOLEAN
  BY DEF LifecycleInv
<1>2. /\ Alive(i) /\ r.at /= "down"
      /\ UNCHANGED <<lockFile, activeMarker, counter, recent, blockFile, sharedMarker, streak>>
  BY DEF performShutdown, stopRuntimeServices, closeDatabaseAfterDrain, Running, Alive, files
<1>3. ASSUME NEW s \in Memory, Agrees(s), Becomes(i, s), s.owns = r.owns, s.at = r.at, s.gates = r.gates
      PROVE  LifecycleInv'
  BY <1>1, <1>2, <1>3, LivingKeeps DEF Passed
<1>4. CASE performShutdown(i)
  <2> DEFINE s == [block(r) EXCEPT !.latch = FALSE, !.end = "drain"]
  <2>1. Becomes(i, s)
    BY <1>4 DEF performShutdown
  <2>2. s \in Memory /\ s.owns = r.owns /\ s.at = r.at /\ s.gates = r.gates
    BY <1>1, Names DEF Memory, block
  <2>3. Agrees(s)
    BY <1>1, <1>2 DEF Memory, Agrees, canEnter, canMutate, block
  <2> QED
    BY <1>3, <2>1, <2>2, <2>3
<1>5. CASE stopRuntimeServices(i)
  <2>1. PICK drained \in BOOLEAN :
          Becomes(i, [r EXCEPT !.services = {}, !.drained = drained, !.end = "close", !.routing = "off"])
    BY <1>5 DEF stopRuntimeServices
  <2> DEFINE s == [r EXCEPT !.services = {}, !.drained = drained, !.end = "close", !.routing = "off"]
  <2>2. s \in Memory /\ s.owns = r.owns /\ s.at = r.at /\ s.gates = r.gates
    BY <1>1, Names DEF Memory
  <2>3. r.phase = "blocked" /\ ~r.latch
    BY <1>1, <1>5 DEF stopRuntimeServices, Agrees, canEnter, canMutate
  <2>4. Agrees(s)
    BY <1>1, <1>2, <2>3 DEF Memory, Agrees, canEnter, canMutate
  <2> QED
    BY <1>3, <2>1, <2>2, <2>4
<1>6. CASE closeDatabaseAfterDrain(i)
  <2>1. PICK closed \in BOOLEAN :
          Becomes(i, [r EXCEPT !.end = IF r.drained /\ closed THEN "release" ELSE "keep",
                               !.db = @ /\ ~(r.drained /\ closed)])
    BY <1>6 DEF closeDatabaseAfterDrain
  <2> DEFINE end == IF r.drained /\ closed THEN "release" ELSE "keep"
             db == r.db /\ ~(r.drained /\ closed)
             s == [r EXCEPT !.end = end, !.db = db]
  <2>2. end \in Ends /\ db \in BOOLEAN
    BY Names
  <2>3. Becomes(i, s)
    BY <2>1
  <2>4. r.phase = "blocked" /\ ~r.latch
    BY <1>1, <1>6 DEF closeDatabaseAfterDrain, Agrees, canEnter, canMutate
  <2> HIDE DEF end, db
  <2>5. s \in Memory /\ s.owns = r.owns /\ s.at = r.at /\ s.gates = r.gates
    BY <1>1, <2>2 DEF Memory
  <2>6. Agrees(s)
    BY <1>1, <1>2, <2>4 DEF Memory, Agrees, canEnter, canMutate
  <2> QED
    BY <1>3, <2>3, <2>5, <2>6
<1> QED
  BY <1>4, <1>5, <1>6

\* The agreement with every process down: only the files are left.
LEMMA NobodyLives ==
  ASSUME LifecycleInv, MaximumCrashes \in Nat, NEW i \in Instance, Alive(i), Becomes(i, Down),
         lockFile' \in Instance \cup {Nobody}, activeMarker' \in BOOLEAN, streak' \in Nat,
         UNCHANGED <<counter, recent, blockFile, sharedMarker>>,
         ~activeMarker' => streak' = 0, streak' <= Counted + 1
  PROVE  LifecycleInv'
<1>1. me' \in [Instance -> Memory] /\ \A j \in Instance : me'[j] = Down
  BY OneLives, DownAgrees DEF LifecycleInv, Becomes
<1>2. LockAgrees'
  BY <1>1, DownAgrees DEF LockAgrees, Alive
<1>3. \A j \in Instance : ~Passed(j)'
  BY <1>1, DownAgrees DEF Passed
<1>4. Counted' = Counted
  BY DEF Counted
<1>5. CrashAgrees'
  BY <1>3, <1>4 DEF CrashAgrees
<1> QED
  BY <1>1, <1>2, <1>5, DownAgrees DEF LifecycleInv

\* A process ends, by its own shutdown or by dying.  Only a death of an active
\* routing lengthens the streak, and such a process was past the crash gate.
LEMMA EndKeeps ==
  ASSUME LifecycleInv, MaximumCrashes \in Nat, NEW i \in Instance, releaseProcessLock(i) \/ die(i)
  PROVE  LifecycleInv'
<1> DEFINE r == me[i]
<1>1. /\ r \in Memory /\ Agrees(r) /\ (r.owns => activeMarker) /\ lockFile \in Instance \cup {Nobody}
      /\ activeMarker \in BOOLEAN /\ streak \in Nat /\ Counted \in Nat
  BY DEF LifecycleInv, LockAgrees, Counted
<1>2. (~activeMarker => streak = 0) /\ streak <= Counted + 1 /\ (Passed(i) => streak <= Counted)
  BY DEF LifecycleInv, CrashAgrees
<1>3. CASE releaseProcessLock(i)
  <2>1. /\ Alive(i) /\ Becomes(i, Down) /\ lockFile' \in Instance \cup {Nobody}
        /\ UNCHANGED <<counter, recent, blockFile, sharedMarker>>
    BY <1>1, <1>3 DEF releaseProcessLock, Running
  <2>2. CASE UNCHANGED <<activeMarker, streak>>
    BY <1>1, <1>2, <2>1, <2>2, NobodyLives
  <2>3. CASE removeOwnedRoutingMarker(i)
    <3>1. activeMarker' \in BOOLEAN
      BY <2>3 DEF removeOwnedRoutingMarker
    <3>2. streak' \in Nat /\ streak' <= streak /\ (~activeMarker' => streak' = 0)
      BY <1>1, <1>2, <2>3 DEF removeOwnedRoutingMarker
    <3>3. streak' <= Counted + 1
      BY <1>1, <1>2, <3>2
    <3> QED
      BY <2>1, <3>1, <3>2, <3>3, NobodyLives
  <2> QED
    BY <1>3, <2>2, <2>3 DEF releaseProcessLock
<1>4. CASE die(i)
  <2>1. /\ Alive(i) /\ Becomes(i, Down)
        /\ UNCHANGED <<lockFile, activeMarker, counter, recent, blockFile, sharedMarker>>
        /\ streak' = IF r.routing = "on" /\ r.owns THEN streak + 1 ELSE streak
    BY <1>4 DEF die
  <2>2. CASE r.routing = "on" /\ r.owns
    <3>1. Passed(i)
      BY <1>1, <2>2 DEF Agrees, Passed
    <3> QED
      BY <1>1, <1>2, <2>1, <2>2, <3>1, NobodyLives
  <2>3. CASE ~(r.routing = "on" /\ r.owns)
    BY <1>1, <1>2, <2>1, <2>3, NobodyLives
  <2> QED
    BY <2>2, <2>3
<1> QED
  BY <1>3, <1>4

\* The lock is created only where there is none and removed only where its
\* owner is gone (acquireProcessLock and the reviewed recovery); a window that
\* elapses forgets the streak.
LEMMA LockKeeps ==
  ASSUME LifecycleInv, MaximumCrashes \in Nat \ {0}, Nobody \notin Instance,
         (\E i \in Instance : acquireProcessLock(i)) \/ reviewedRecovery \/ windowElapses
  PROVE  LifecycleInv'
<1>1. /\ me \in [Instance -> Memory] /\ (\A j \in Instance : Agrees(me[j]))
      /\ LockAgrees /\ CrashAgrees /\ streak \in Nat /\ Counted \in Nat
  BY DEF LifecycleInv, Counted
<1>2. ASSUME NEW i \in Instance, acquireProcessLock(i) PROVE LifecycleInv'
  <2> DEFINE s == [Down EXCEPT !.at = "crash", !.phase = "recovery-only"]
  <2>1. s \in Memory /\ Agrees(s) /\ ~s.owns /\ s.at = "crash" /\ s.gates = {}
    BY Names DEF Down, Memory, Agrees, canEnter, canMutate
  <2>2. \A j \in Instance : me[j] = Down
    BY <1>1, <1>2 DEF acquireProcessLock, LockAgrees, Agrees, Alive
  <2>3. /\ me' \in [Instance -> Memory] /\ me'[i] = s /\ \A j \in Instance \ {i} : me'[j] = Down
    BY <1>1, <1>2, <2>1, <2>2 DEF acquireProcessLock, Becomes
  <2> HIDE DEF s
  <2>4. LockAgrees'
    BY <1>2, <2>1, <2>3, DownAgrees DEF acquireProcessLock, LockAgrees, Alive
  <2>5. \A j \in Instance : ~Passed(j)'
    BY <2>1, <2>3, DownAgrees DEF Passed
  <2>6. Counted' = Counted /\ UNCHANGED <<activeMarker, streak>>
    BY <1>2 DEF acquireProcessLock, Counted
  <2>7. CrashAgrees'
    BY <1>1, <2>5, <2>6 DEF CrashAgrees
  <2> QED
    BY <1>2, <2>1, <2>3, <2>4, <2>7, DownAgrees DEF LifecycleInv, acquireProcessLock
<1>3. CASE reviewedRecovery
  <2>1. \A j \in Instance : ~Alive(j)
    BY <1>1, <1>3 DEF reviewedRecovery, LockAgrees
  <2>2. LockAgrees'
    BY <1>1, <1>3, <2>1 DEF reviewedRecovery, LockAgrees, Alive
  <2>3. CrashAgrees'
    BY <1>1, <1>3 DEF reviewedRecovery, CrashAgrees, Counted, Passed
  <2> QED
    BY <1>3, <2>2, <2>3 DEF reviewedRecovery, LifecycleInv
<1>4. CASE windowElapses
  <2>1. LockAgrees'
    BY <1>1, <1>4 DEF windowElapses, LockAgrees, Alive
  <2>2. streak' = 0 /\ Counted' = 0
    BY <1>4 DEF windowElapses, Counted
  <2>3. CrashAgrees'
    BY <2>2 DEF CrashAgrees
  <2>4. UNCHANGED <<lockFile, activeMarker, counter, blockFile, sharedMarker, me>>
    BY <1>4 DEF windowElapses
  <2>6. recent' \in BOOLEAN
    BY <1>4 DEF windowElapses
  <2>5. (\A j \in Instance : Agrees(me[j]))' /\ (me \in [Instance -> Memory])'
    BY <1>1, <2>4
  <2> QED
    BY <2>1, <2>2, <2>3, <2>4, <2>5, <2>6 DEF LifecycleInv
<1> QED
  BY <1>2, <1>3, <1>4

\* The crash gate: what is counted covers the streak, so that a start that
\* passes knows the streak to be shorter than the limit (checkCrashLoopState).
LEMMA CrashGateKeeps ==
  ASSUME LifecycleInv, MaximumCrashes \in Nat \ {0}, NEW i \in Instance, checkCrashLoopState(i)
  PROVE  LifecycleInv'
<1> DEFINE r == me[i]
           crashed == IF recent THEN counter + 1 ELSE 1
           refused == blockFile \/ (activeMarker /\ crashed >= MaximumCrashes)
<1>1. /\ r \in Memory /\ Agrees(r) /\ counter \in Nat /\ streak \in Nat /\ activeMarker \in BOOLEAN
      /\ recent \in BOOLEAN /\ blockFile \in BOOLEAN /\ CrashAgrees
  BY DEF LifecycleInv
<1>2. /\ Alive(i) /\ r.at = "crash" /\ UNCHANGED <<lockFile, activeMarker, sharedMarker, streak>>
      /\ counter' = IF blockFile THEN counter ELSE IF activeMarker THEN crashed ELSE 0
      /\ recent' = IF blockFile THEN recent ELSE activeMarker
      /\ blockFile' = (blockFile \/ refused)
  BY DEF checkCrashLoopState, Running
<1>3. crashed = Counted + 1 /\ crashed \in Nat /\ Counted \in Nat
  BY <1>1 DEF Counted
<1>4. counter' \in Nat /\ recent' \in BOOLEAN /\ blockFile' \in BOOLEAN
  <2>1. counter' \in Nat
    BY <1>1, <1>2, <1>3
  <2>2. recent' \in BOOLEAN
    BY <1>1, <1>2
  <2>3. blockFile' \in BOOLEAN
    BY <1>1, <1>2
  <2> QED
    BY <2>1, <2>2, <2>3
<1> HIDE DEF crashed
<1>5. Counted' = IF blockFile THEN Counted ELSE IF activeMarker THEN crashed ELSE 0
  BY <1>1, <1>2 DEF Counted
<1>6. streak <= Counted + 1 /\ (~activeMarker => streak = 0)
  BY <1>1 DEF CrashAgrees
<1>7. /\ streak <= Counted' + 1
      /\ ~blockFile => streak <= Counted'
      /\ Passed(i) => streak <= Counted' /\ streak < MaximumCrashes
      /\ ~refused => streak < MaximumCrashes
  <2>1. Passed(i) => streak <= Counted /\ streak < MaximumCrashes
    BY <1>1 DEF CrashAgrees
  <2> HIDE DEF Counted, Passed
  <2>2. CASE blockFile
    BY <1>1, <1>3, <1>5, <1>6, <2>1, <2>2
  <2>3. CASE ~blockFile /\ activeMarker
    BY <1>1, <1>3, <1>5, <1>6, <2>1, <2>3
  <2>4. CASE ~blockFile /\ ~activeMarker
    BY <1>1, <1>3, <1>5, <1>6, <2>1, <2>4
  <2> QED
    BY <1>1, <2>2, <2>3, <2>4
<1>8. ASSUME NEW s \in Memory, Agrees(s), Becomes(i, s), s.owns = r.owns,
             ("crash" \in s.gates \/ s.at \notin {"down", "crash", "failed"}) => Passed(i) \/ ~refused
      PROVE  LifecycleInv'
  <2>1. me' \in [Instance -> Memory] /\ me'[i] = s /\ \A j \in Instance \ {i} : me'[j] = Down
    BY <1>2, <1>8, OneLives, DownAgrees DEF LifecycleInv, Becomes
  <2>2. \A j \in Instance : Agrees(me'[j])
    BY <1>8, <2>1, DownAgrees
  <2>3. LockAgrees'
    BY <1>2, <1>8, <2>1, DownAgrees DEF LifecycleInv, LockAgrees, Alive
  <2>4. \A j \in Instance : Passed(j)' => Passed(i) \/ ~refused
    BY <1>8, <2>1, DownAgrees DEF Passed
  <2>5. ~refused => ~blockFile
    OBVIOUS
  <2> HIDE DEF Passed, Counted, refused
  <2>6. CrashAgrees'
    BY <1>2, <1>6, <1>7, <2>4, <2>5 DEF CrashAgrees
  <2> QED
    BY <1>2, <1>4, <2>1, <2>2, <2>3, <2>6 DEF LifecycleInv
<1>9. CASE refused \/ sharedMarker
  <2> DEFINE s == [block(r) EXCEPT !.at = "failed"]
  <2>1. Becomes(i, s)
    BY <1>9 DEF checkCrashLoopState, crashed
  <2>2. s \in Memory /\ s.owns = r.owns /\ s.gates = r.gates /\ s.at = "failed"
    BY <1>1, Names DEF Memory, block
  <2>3. Agrees(s)
    BY <1>1, <1>2 DEF Memory, Agrees, canEnter, canMutate, block
  <2>4. "crash" \in r.gates => Passed(i)
    BY DEF Passed
  <2> HIDE DEF s, refused
  <2> QED
    BY <1>8, <2>1, <2>2, <2>3, <2>4
<1>10. CASE ~(refused \/ sharedMarker)
  <2> DEFINE s == [completeGate(r, "crash") EXCEPT !.at = "configuration"]
  <2>1. Becomes(i, s)
    BY <1>10 DEF checkCrashLoopState, crashed
  <2>2. s \in Memory /\ s.owns = r.owns
    BY <1>1, Names DEF Memory, completeGate, STARTUP_GATES
  <2>3. Agrees(s)
    BY <1>1, <1>2 DEF Memory, Agrees, canEnter, canMutate, completeGate, STARTUP_GATES
  <2> HIDE DEF s, refused
  <2> QED
    BY <1>8, <1>10, <2>1, <2>2, <2>3
<1> QED
  BY <1>9, <1>10

\* A process that dies once the crash is counted leaves a count that covers
\* the streak all the same (checkCrashLoopState).
LEMMA CountedDeathKeeps ==
  ASSUME LifecycleInv, NEW i \in Instance, diesCounted(i)
  PROVE  LifecycleInv'
<1>1. /\ Alive(i) /\ Becomes(i, Down) /\ activeMarker /\ recent' = TRUE
      /\ counter' = IF recent THEN counter + 1 ELSE 1
      /\ UNCHANGED <<lockFile, activeMarker, blockFile, sharedMarker, streak>>
  BY DEF diesCounted, Running
<1>2. /\ counter \in Nat /\ recent \in BOOLEAN /\ streak \in Nat /\ streak <= Counted + 1
  BY DEF LifecycleInv, CrashAgrees
<1>3. counter' \in Nat /\ recent' \in BOOLEAN /\ streak <= counter'
  BY <1>1, <1>2 DEF Counted
<1>4. me' \in [Instance -> Memory] /\ \A j \in Instance : me'[j] = Down
  BY <1>1, OneLives, DownAgrees DEF LifecycleInv, Becomes
<1>5. LockAgrees'
  BY <1>1, <1>4, DownAgrees DEF LockAgrees, Alive
<1>6. \A j \in Instance : ~Passed(j)'
  BY <1>4, DownAgrees DEF Passed
<1>7. CrashAgrees'
  <2>1. Counted' = counter'
    BY <1>1 DEF Counted
  <2> HIDE DEF Counted, Passed
  <2> QED
    BY <1>1, <1>2, <1>3, <1>6, <2>1 DEF CrashAgrees
<1> QED
  BY <1>1, <1>3, <1>4, <1>5, <1>7, DownAgrees DEF LifecycleInv

\* Every step keeps the agreement, one lemma per group of steps.
LEMMA LifecycleStep ==
  ASSUME LifecycleInv, [Next]_lifecycle, MaximumCrashes \in Nat \ {0}, Nobody \notin Instance
  PROVE  LifecycleInv'
<1>1. CASE UNCHANGED lifecycle
  BY <1>1 DEF lifecycle, LifecycleInv, LockAgrees, CrashAgrees, Counted, Passed, Alive
<1>2. CASE reviewedRecovery \/ windowElapses
  BY <1>2, LockKeeps
<1>3. ASSUME NEW i \in Instance, acquireProcessLock(i) PROVE LifecycleInv'
  BY <1>3, LockKeeps
<1>4. ASSUME NEW i \in Instance, checkCrashLoopState(i) \/ diesCounted(i) PROVE LifecycleInv'
  BY <1>4, CrashGateKeeps, CountedDeathKeeps
<1>5. ASSUME NEW i \in Instance, run(i) \/ runStartupGate(i) \/ release(i) PROVE LifecycleInv'
  BY <1>5, StartupKeeps
<1>6. ASSUME NEW i \in Instance,
             \/ startForwardingNonInteractive(i) \/ connectAndActivateRouting(i)
             \/ writeRoutingActiveMarker(i) \/ enableConfiguredEntries(i) \/ enableEntries(i)
      PROVE LifecycleInv'
  BY <1>6, RoutingKeeps
<1>7. ASSUME NEW i \in Instance, cleanupFailedRoutingStart(i) \/ stopForwarding(i) PROVE LifecycleInv'
  BY <1>7, StopKeeps
<1>8. ASSUME NEW i \in Instance,
             \/ beginApplicationMaintenance(i) \/ replaceDatabase(i) \/ finishMaintenance(i)
             \/ restoreFailed(i) \/ resetFailed(i)
      PROVE LifecycleInv'
  BY <1>8, MaintenanceKeeps
<1>9. ASSUME NEW i \in Instance, stopForMaintenance(i) PROVE LifecycleInv'
  BY <1>9, StopForMaintenanceKeeps
<1>10. ASSUME NEW i \in Instance,
              performShutdown(i) \/ stopRuntimeServices(i) \/ closeDatabaseAfterDrain(i)
       PROVE LifecycleInv'
  BY <1>10, ShutdownKeeps
<1>11. ASSUME NEW i \in Instance, releaseProcessLock(i) \/ die(i) PROVE LifecycleInv'
  BY <1>11, EndKeeps
<1> QED
  BY <1>1, <1>2, <1>3, <1>4, <1>5, <1>6, <1>7, <1>8, <1>9, <1>10, <1>11 DEF Next

\* The agreement holds in every reachable state, for any set of processes and
\* any positive crash limit: the processes of forwarder.ts that start, serve,
\* restore, shut down and die on one data directory.
THEOREM LifecycleAgreement ==
  ASSUME MaximumCrashes \in Nat \ {0}, Nobody \notin Instance
  PROVE  Spec => []LifecycleInv
<1>1. Init => LifecycleInv
  <2> SUFFICES ASSUME Init PROVE LifecycleInv
    OBVIOUS
  <2>1. me \in [Instance -> Memory] /\ \A i \in Instance : me[i] = Down
    BY DownAgrees DEF Init
  <2>2. /\ activeMarker \in BOOLEAN /\ recent \in BOOLEAN /\ blockFile \in BOOLEAN
        /\ sharedMarker \in BOOLEAN
    BY DEF Init
  <2>3. lockFile = Nobody /\ counter = 0 /\ streak = 0 /\ Counted = 0
    BY DEF Init, Counted
  <2>4. LockAgrees
    BY <2>1, DownAgrees DEF LockAgrees, Alive
  <2>5. CrashAgrees
    BY <2>3 DEF CrashAgrees
  <2> QED
    BY <2>1, <2>2, <2>3, <2>4, <2>5, DownAgrees DEF LifecycleInv
<1>2. LifecycleInv /\ [Next]_lifecycle => LifecycleInv'
  BY LifecycleStep
<1> QED
  BY <1>1, <1>2, PTL DEF Spec

\* One process owns the data directory: acquireProcessLock's exclusive lock
\* file covers every open database, running service and active routing.
THEOREM OneProcessAtATime ==
  ASSUME MaximumCrashes \in Nat \ {0}, Nobody \notin Instance
  PROVE  Spec => []OneProcessOwns
<1>1. LifecycleInv => OneProcessOwns
  BY DEF LifecycleInv, LockAgrees, Alive, Agrees, Down, OneProcessOwns
<1> QED
  BY <1>1, LifecycleAgreement, PTL

\* Entries are admitted only with every startup gate and the routing gate
\* passed, and neither a maintenance nor a shutdown begun (the startup
\* authority and enableEntries).
THEOREM EntriesOnlyWithAuthority ==
  ASSUME MaximumCrashes \in Nat \ {0}, Nobody \notin Instance
  PROVE  Spec => []EntriesNeedAuthority
<1>1. LifecycleInv => EntriesNeedAuthority
  BY DEF LifecycleInv, Agrees, EntriesNeedAuthority, canEnter, canMutate
<1> QED
  BY <1>1, LifecycleAgreement, PTL

\* Authority to mutate means an open database and running protection,
\* retention and backups, across restores that fail and give it back.
THEOREM AuthorityIsServed ==
  ASSUME MaximumCrashes \in Nat \ {0}, Nobody \notin Instance
  PROVE  Spec => []AuthorityMeansServing
<1>1. LifecycleInv => AuthorityMeansServing
  BY DEF LifecycleInv, Agrees, AuthorityMeansServing
<1> QED
  BY <1>1, LifecycleAgreement, PTL

\* After MaximumCrashes deaths of an active routing within the window no
\* process is past the crash gate (checkCrashLoopState).
THEOREM CrashLoopIsStopped ==
  ASSUME MaximumCrashes \in Nat \ {0}, Nobody \notin Instance
  PROVE  Spec => []CrashLoopsStop
<1>1. LifecycleInv => CrashLoopsStop
  BY DEF LifecycleInv, CrashAgrees, Passed, CrashLoopsStop
<1> QED
  BY <1>1, LifecycleAgreement, PTL

=============================================================================
