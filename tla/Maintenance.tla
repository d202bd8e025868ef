---------------------------- MODULE Maintenance ----------------------------
(***************************************************************************)
(* Shared database maintenance between the TSX Core process and the MCP    *)
(* server (db.ts, mcp_maintenance.ts, mcp_server.ts).  The two processes   *)
(* open the same SQLite file and coordinate only through files beside it:  *)
(* a marker published by the lease owner, one participant record for every *)
(* database handle, and one acknowledgement per handle and request.  The   *)
(* owner may replace the database once every handle is provably closed.    *)
(*                                                                         *)
(* Every filesystem call is one step: another process may run between any  *)
(* two of them, and either process may die between any two of them.        *)
(***************************************************************************)
EXTENDS Naturals, FiniteSets, TLAPS

CONSTANTS MaxHandles,      \* participant records ever registered
          MaxLeases,       \* maintenance requests ever published
          MaxDeaths        \* process deaths and failing closes or acks

Procs == {"main", "mcp"}
Handle == 1..MaxHandles
None == 0

VARIABLES marker,      \* the published request, or the record NoRequest
          expired,     \* the request's deadline has passed
          generation,  \* .mcp-maintenance-generation
          recs,        \* .mcp-participants: one record per handle
          acks,        \* .mcp-maintenance-acks
          file,        \* identity of the database file, 0 when absent
          alive,       \* the process exists
          handle,      \* the process's databaseParticipant
          native,      \* the process holds an open SQLite handle
          serving,     \* guardedDb is published: work is admitted
          work,        \* the process has database work in flight
          seen,        \* the file identity the MCP server started with
          step,        \* where each process stands
          lease,       \* the owner's lease
          deaths

vars == <<marker, expired, generation, recs, acks, file, alive, handle, native,
          serving, work, seen, step, lease, deaths>>

NoRequest == [nonce |-> None, state |-> "absent", identity |-> None]
NoRecord == [proc |-> "main", identity |-> None, state |-> "none"]
NoLease == [request |-> NoRequest, targets |-> {}, quiescent |-> FALSE,
            phase |-> "none"]

Active == marker /= NoRequest

Init ==
    /\ marker = NoRequest /\ expired = FALSE /\ generation = 0
    /\ recs = [h \in Handle |-> NoRecord] /\ acks = {}
    /\ file \in {0, 1}
    /\ alive = [p \in Procs |-> TRUE]
    /\ handle = [p \in Procs |-> None] /\ native = [p \in Procs |-> FALSE]
    /\ serving = [p \in Procs |-> FALSE] /\ work = [p \in Procs |-> FALSE]
    /\ seen = 0
    /\ step = [p \in Procs |-> "idle"]
    /\ lease = NoLease /\ deaths = 0

owner == <<marker, expired, generation, lease>>
disk == <<marker, expired, generation, recs, acks, file>>

Go(p, where) == step' = [step EXCEPT ![p] = where]

writeState(h, state) == recs' = [recs EXCEPT ![h].state = state]

(***************************************************************************)
(* Opening the database: initializeDatabase.                               *)
(***************************************************************************)
Unused == {h \in Handle : recs[h].state = "none"}

(* registerDatabaseMaintenanceParticipant up to the first marker check.  A *)
(* handle closed earlier whose acknowledgement failed is acknowledged      *)
(* first.  The MCP server refuses to start without a database file and     *)
(* remembers the identity it saw.                                          *)
initializeDatabase(p) ==
    /\ alive[p] /\ step[p] = "idle" /\ ~native[p]
    /\ p = "main" => lease.phase = "none"
    /\ handle[p] = None /\ Unused /= {}
    /\ ~Active
    /\ p = "mcp" => file /= 0
    /\ seen' = IF p = "mcp" THEN file ELSE seen
    /\ Go(p, "register")
    /\ UNCHANGED <<disk, alive, handle, native, serving, work, lease, deaths>>

(* A start that the marker or the missing file refuses: the MCP server      *)
(* exits and is started again later.                                        *)
refuseInitialization ==
    /\ alive["mcp"] /\ step["mcp"] = "idle" /\ ~native["mcp"]
    /\ Active \/ file = 0
    /\ alive' = [alive EXCEPT !["mcp"] = FALSE]
    /\ handle' = [handle EXCEPT !["mcp"] = None]
    /\ UNCHANGED <<disk, native, serving, work, seen, step, lease, deaths>>

exclusiveJson(p) ==
    /\ alive[p] /\ step[p] = "register"
    /\ \E h \in Unused :
         /\ \A g \in Unused : h <= g
         /\ recs' = [recs EXCEPT ![h] =
                        [proc |-> p, identity |-> None, state |-> "opening"]]
         /\ handle' = [handle EXCEPT ![p] = h]
    /\ Go(p, "recheck")
    /\ UNCHANGED <<owner, acks, file, alive, native, serving, work, seen, deaths>>

(* The second marker check.  With a marker present no SQLite handle was     *)
(* opened: the record is closed and acknowledged, and the open is refused.  *)
registerDatabaseMaintenanceParticipant(p) ==
    /\ alive[p] /\ step[p] = "recheck"
    /\ IF Active
       THEN writeState(handle[p], "closed") /\ Go(p, "acknowledge")
       ELSE Go(p, "open") /\ UNCHANGED recs
    /\ UNCHANGED <<owner, acks, file, alive, handle, native, serving, work, seen,
                   deaths>>

(* sqlite open() creates a missing file. *)
openHandle(p) ==
    /\ alive[p] /\ step[p] = "open"
    /\ native' = [native EXCEPT ![p] = TRUE]
    /\ file' = IF file = 0 THEN 1 ELSE file
    /\ Go(p, "opened")
    /\ UNCHANGED <<owner, recs, acks, alive, handle, serving, work, seen, deaths>>

afterOpen(p) ==
    /\ alive[p] /\ step[p] = "opened"
    /\ recs' = [recs EXCEPT ![handle[p]].identity = file,
                            ![handle[p]].state = "open"]
    /\ Go(p, "migrate")
    /\ UNCHANGED <<owner, acks, file, alive, handle, native, serving, work, seen,
                   deaths>>

(* The rest of initializeDatabase: afterOpen's own marker check, the        *)
(* migrations (which may fail) and the last marker check decide whether     *)
(* guardedDb is published or the handle is closed again.                    *)
publishDatabase(p) ==
    /\ alive[p] /\ step[p] = "migrate"
    /\ \/ /\ ~Active
          /\ p = "mcp" => file = seen
          /\ serving' = [serving EXCEPT ![p] = TRUE]
          /\ Go(p, "idle")
       \/ Go(p, "closing") /\ UNCHANGED serving
    /\ UNCHANGED <<disk, alive, handle, native, work, seen, lease, deaths>>

(***************************************************************************)
(* Closing the database: closeDb and closeFailedInitialization.            *)
(***************************************************************************)
closeStarted(p) ==
    /\ serving' = [serving EXCEPT ![p] = FALSE]
    /\ writeState(handle[p], "closing")
    /\ Go(p, "closing")

(* database.close(): only its success may be recorded as closed.  A failing *)
(* close keeps the handle; the MCP process then exits, the main process     *)
(* keeps the database object and gives up its maintenance.                  *)
GiveUp(p) ==
    lease' = IF p = "main" /\ lease.phase = "wait"
             THEN [lease EXCEPT !.phase = "release"] ELSE lease

closeDb(p) ==
    /\ alive[p] /\ step[p] = "closing"
    /\ \/ /\ native' = [native EXCEPT ![p] = FALSE]
          /\ Go(p, "closed") /\ UNCHANGED <<recs, alive, handle, lease, deaths>>
       \/ /\ GiveUp(p)
          /\ deaths < MaxDeaths /\ deaths' = deaths + 1
          /\ writeState(handle[p], "close_failed")
          /\ IF p = "mcp"
             THEN /\ alive' = [alive EXCEPT ![p] = FALSE]
                  /\ native' = [native EXCEPT ![p] = FALSE]
                  /\ handle' = [handle EXCEPT ![p] = None]
             ELSE UNCHANGED <<alive, native, handle>>
          /\ Go(p, "idle")
    /\ UNCHANGED <<marker, expired, generation, acks, file, serving, work, seen>>

closeSucceeded(p) ==
    /\ alive[p] /\ step[p] = "closed"
    /\ writeState(handle[p], "closed")
    /\ Go(p, "acknowledge")
    /\ UNCHANGED <<owner, acks, file, alive, handle, native, serving, work, seen,
                   deaths>>

(* acknowledgeClosedParticipant: read the current request and write an      *)
(* acknowledgement bound to its nonce.  A write that fails, or a handle     *)
(* that saw another file, leaves the participant for a later call.  The     *)
(* MCP server exits once its shutdown is over.                              *)
acknowledgeClosedParticipant(p) ==
    LET h == handle[p]
        sameFile == recs[h].identity \in {None, marker.identity} IN
    /\ alive[p] /\ step[p] = "acknowledge"
    /\ \/ /\ Active => sameFile
          /\ acks' = IF Active THEN acks \cup {[nonce |-> marker.nonce, id |-> h]} ELSE acks
          /\ handle' = [handle EXCEPT ![p] = None]
          /\ UNCHANGED <<lease, deaths>>
       \/ /\ Active /\ GiveUp(p)
          /\ \/ ~sameFile /\ UNCHANGED deaths
             \/ deaths < MaxDeaths /\ deaths' = deaths + 1
          /\ handle' = IF p = "mcp" THEN [handle EXCEPT ![p] = None] ELSE handle
          /\ UNCHANGED acks
    /\ Go(p, "idle")
    /\ alive' = IF p = "mcp" THEN [alive EXCEPT ![p] = FALSE] ELSE alive
    /\ UNCHANGED <<marker, expired, generation, recs, file, native, serving, work,
                   seen>>

(* closeDb or initDb of a process whose handle is closed but whose          *)
(* acknowledgement failed: closeSucceeded is called again.                  *)
retryAcknowledgement(p) ==
    /\ alive[p] /\ step[p] = "idle" /\ handle[p] /= None /\ ~native[p]
    /\ Go(p, "closed")
    /\ UNCHANGED <<disk, alive, handle, native, serving, work, seen, lease, deaths>>

(***************************************************************************)
(* Database work and the MCP server's maintenance monitor.                 *)
(***************************************************************************)
startWork(p) ==
    /\ alive[p] /\ serving[p] /\ step[p] = "idle" /\ ~work[p]
    /\ p = "main" => lease.phase = "none"
    /\ work' = [work EXCEPT ![p] = TRUE]
    /\ UNCHANGED <<disk, alive, handle, native, serving, seen, step, lease, deaths>>

finishWork(p) ==
    /\ alive[p] /\ work[p]
    /\ work' = [work EXCEPT ![p] = FALSE]
    /\ UNCHANGED <<disk, alive, handle, native, serving, seen, step, lease, deaths>>

(* startMaintenanceMonitor sees a request, or another file than the one it  *)
(* opened, and drains: no new work is admitted.                             *)
startMaintenanceMonitor ==
    /\ alive["mcp"] /\ step["mcp"] = "idle" /\ serving["mcp"]
    /\ Active \/ file /= seen
    /\ Go("mcp", "draining")
    /\ UNCHANGED <<disk, alive, handle, native, serving, work, seen, lease, deaths>>

drainAndCloseBusy ==
    /\ alive["mcp"] /\ step["mcp"] = "draining"
    /\ closeStarted("mcp")
    /\ UNCHANGED <<owner, acks, file, alive, handle, native, work, seen, deaths>>

drainAndClose ==
    /\ alive["mcp"] /\ step["mcp"] = "draining" /\ ~work["mcp"]
    /\ closeStarted("mcp")
    /\ UNCHANGED <<owner, acks, file, alive, handle, native, work, seen, deaths>>

(* The drain deadline, a crash, a kill: the process ends with its handle.   *)
die(p) ==
    /\ alive[p] /\ deaths < MaxDeaths /\ deaths' = deaths + 1
    /\ alive' = [alive EXCEPT ![p] = FALSE]
    /\ native' = [native EXCEPT ![p] = FALSE]
    /\ serving' = [serving EXCEPT ![p] = FALSE]
    /\ work' = [work EXCEPT ![p] = FALSE]
    /\ handle' = [handle EXCEPT ![p] = None]
    /\ Go(p, "idle")
    /\ lease' = IF p = "main" THEN NoLease ELSE lease
    /\ UNCHANGED <<disk, seen>>

(* Only the MCP server is started again: a marker left by a dead owner      *)
(* blocks the main process until an operator has reviewed it.               *)
restart ==
    /\ ~alive["mcp"]
    /\ alive' = [alive EXCEPT !["mcp"] = TRUE]
    /\ Go("mcp", "idle")
    /\ UNCHANGED <<disk, handle, native, serving, work, seen, lease, deaths>>

(***************************************************************************)
(* The owner's lease.                                                      *)
(***************************************************************************)
(* beginMaintenance: the shared form needs the file, the offline form may   *)
(* prove that it is absent.                                                 *)
beginMaintenance ==
    /\ alive["main"] /\ step["main"] = "idle" /\ lease.phase = "none"
    /\ ~Active /\ generation < MaxLeases
    /\ generation' = generation + 1
    /\ marker' = [nonce |-> generation + 1, identity |-> file,
                  state |-> IF file = 0 THEN "absent" ELSE "present"]
    /\ expired' = FALSE
    /\ lease' = [NoLease EXCEPT !.request = marker', !.phase = "published"]
    /\ UNCHANGED <<recs, acks, file, alive, handle, native, serving, work, seen,
                   step, deaths>>

Registered == {h \in Handle : recs[h].state /= "none"}
Unclosed == {h \in Registered : recs[h].state /= "closed"}

createLease ==
    /\ alive["main"] /\ lease.phase = "published"
    /\ lease' = [lease EXCEPT !.targets = Unclosed, !.phase = "close"]
    /\ UNCHANGED <<disk, alive, handle, native, serving, work, seen, step, deaths>>

(* The owner drains its own work (beginDatabaseMaintenance) and closes its  *)
(* handle before it waits.                                                  *)
beginDatabaseMaintenance ==
    /\ alive["main"] /\ lease.phase = "close" /\ step["main"] = "idle"
    /\ ~work["main"]
    /\ lease' = [lease EXCEPT !.phase = "wait"]
    /\ IF native["main"]
       THEN closeStarted("main")
       ELSE UNCHANGED <<recs, serving, step>>
    /\ UNCHANGED <<marker, expired, generation, acks, file, alive, handle, native,
                   work, seen, deaths>>

(* The process that registered handle h is gone.  A restarted MCP server has *)
(* another pid and no longer owns the record.                               *)
processDefinitelyEnded(h) == \A p \in Procs : ~(alive[p] /\ handle[p] = h)

matchingAcknowledgement(h) ==
    /\ recs[h].state = "closed"
    /\ [nonce |-> lease.request.nonce, id |-> h] \in acks

(* assertOwnedRequest, the deadline and assertDatabaseTargetEvidence.       *)
EvidenceHolds ==
    /\ marker = lease.request /\ ~expired /\ file = lease.request.identity

(* The first half of check(): the registry is listed again. *)
listParticipants ==
    /\ alive["main"] /\ step["main"] = "idle"
    /\ lease.phase \in {"wait", "assert"} /\ EvidenceHolds
    /\ lease' = [lease EXCEPT !.targets = @ \cup Unclosed,
                              !.phase = IF @ = "wait" THEN "listed" ELSE "relisted"]
    /\ UNCHANGED <<disk, alive, handle, native, serving, work, seen, step, deaths>>

(* The second half: every target's process ended or acknowledged. *)
checkTargets ==
    /\ alive["main"] /\ lease.phase \in {"listed", "relisted"}
    /\ LET done == \A h \in lease.targets :
                      processDefinitelyEnded(h) \/ matchingAcknowledgement(h) IN
       lease' = [lease EXCEPT !.quiescent = done,
                   !.phase = IF ~done THEN "wait"
                             ELSE IF @ = "listed" THEN "assert" ELSE "replace"]
    /\ UNCHANGED <<disk, alive, handle, native, serving, work, seen, step, deaths>>

deadlinePasses ==
    /\ Active /\ ~expired
    /\ expired' = TRUE
    /\ UNCHANGED <<marker, generation, recs, acks, file, alive, handle, native,
                   serving, work, seen, step, lease, deaths>>

(* restoreBackupArtifact under the lease: the file becomes another one.     *)
restoreDatabase ==
    /\ alive["main"] /\ lease.phase = "replace"
    /\ file' = file + 1
    /\ lease' = [lease EXCEPT !.phase = "release"]
    /\ UNCHANGED <<marker, expired, generation, recs, acks, alive, handle, native,
                   serving, work, seen, step, deaths>>

(* A check that throws abandons the maintenance: nothing was replaced.      *)
abandonMaintenance ==
    /\ alive["main"] /\ step["main"] = "idle"
    /\ lease.phase \in {"wait", "assert"} /\ ~EvidenceHolds
    /\ lease' = [lease EXCEPT !.phase = "release"]
    /\ UNCHANGED <<disk, alive, handle, native, serving, work, seen, step, deaths>>

releaseMaintenance ==
    /\ alive["main"] /\ lease.phase = "release" /\ marker = lease.request
    /\ marker' = NoRequest
    /\ lease' = NoLease
    /\ UNCHANGED <<expired, generation, recs, acks, file, alive, handle, native,
                   serving, work, seen, step, deaths>>

Next ==
    \/ \E p \in Procs :
          \/ initializeDatabase(p) \/ exclusiveJson(p)
          \/ registerDatabaseMaintenanceParticipant(p)
          \/ openHandle(p) \/ afterOpen(p) \/ publishDatabase(p)
          \/ closeDb(p) \/ closeSucceeded(p) \/ acknowledgeClosedParticipant(p)
          \/ retryAcknowledgement(p)
          \/ startWork(p) \/ finishWork(p) \/ die(p)
    \/ refuseInitialization \/ startMaintenanceMonitor \/ drainAndClose \/ restart
    \/ beginMaintenance \/ createLease \/ beginDatabaseMaintenance
    \/ listParticipants \/ checkTargets \/ deadlinePasses
    \/ restoreDatabase \/ abandonMaintenance \/ releaseMaintenance

(* The owner's own steps and the clock: what the liveness needs.            *)
OwnerStep ==
    \/ \E p \in {"main"} :
          \/ exclusiveJson(p) \/ registerDatabaseMaintenanceParticipant(p)
          \/ openHandle(p) \/ afterOpen(p) \/ publishDatabase(p)
          \/ closeDb(p) \/ closeSucceeded(p) \/ acknowledgeClosedParticipant(p)
          \/ finishWork(p)
    \/ createLease \/ beginDatabaseMaintenance \/ listParticipants \/ checkTargets
    \/ restoreDatabase \/ abandonMaintenance \/ releaseMaintenance

Spec == Init /\ [][Next]_vars /\ WF_vars(OwnerStep) /\ WF_vars(deadlinePasses)

(***************************************************************************)
(* Properties.                                                             *)
(***************************************************************************)
Request == [nonce : 0..MaxLeases, state : {"absent", "present"}, identity : 0..MaxLeases + 1]

TypeOK ==
    /\ marker \in Request /\ expired \in BOOLEAN /\ generation \in 0..MaxLeases
    /\ recs \in [Handle -> [proc : Procs, identity : 0..MaxLeases + 1,
                  state : {"none", "opening", "open", "closing", "closed", "close_failed"}]]
    /\ acks \subseteq [nonce : 1..MaxLeases, id : Handle]
    /\ handle \in [Procs -> 0..MaxHandles]
    /\ native \in [Procs -> BOOLEAN] /\ serving \in [Procs -> BOOLEAN]

(* The database file is replaced (restoreBackupArtifact, factory reset)     *)
(* only while no live process holds it open, and no process ever works on   *)
(* a file that has been replaced under it.                                  *)
ReplacedOnlyWhenClosed ==
    /\ lease.phase = "replace" => \A p \in Procs : ~native[p]
    /\ \A p \in Procs : native[p] => recs[handle[p]].identity \in {None, file}

(* Accepted database work keeps its handle until it is finished: a process  *)
(* drains before it closes.                                                 *)
WorkKeepsItsHandle == \A p \in Procs : work[p] => native[p]

(***************************************************************************)
(* The inductive invariant behind these properties.                        *)
(***************************************************************************)
Shape ==
    /\ generation \in Nat /\ file \in Nat
    /\ recs \in [Handle -> [proc : Procs, identity : Nat,
                  state : {"none", "opening", "open", "closing", "closed", "close_failed"}]]
    /\ alive \in [Procs -> BOOLEAN] /\ handle \in [Procs -> Handle \cup {None}]
    /\ native \in [Procs -> BOOLEAN] /\ serving \in [Procs -> BOOLEAN]
    /\ work \in [Procs -> BOOLEAN]
    /\ step \in [Procs -> {"idle", "register", "recheck", "open", "opened", "migrate",
                           "draining", "closing", "closed", "acknowledge"}]
    /\ marker \in [nonce : Nat, state : {"absent", "present"}, identity : Nat]
    /\ lease \in [request : [nonce : Nat, state : {"absent", "present"}, identity : Nat],
                  targets : SUBSET Handle, quiescent : BOOLEAN,
                  phase : {"none", "published", "close", "wait", "listed", "assert", "relisted",
                           "replace", "release"}]

(* Where a process stands, what it holds and what its record says of it.    *)
ProcessAgrees(p) ==
    /\ handle[p] /= None => recs[handle[p]].proc = p /\ recs[handle[p]].state /= "none"
    /\ ~alive[p] => step[p] = "idle" /\ handle[p] = None
    /\ native[p] => /\ handle[p] /= None /\ recs[handle[p]].state /= "closed"
                    /\ recs[handle[p]].identity \in {None, file}
    /\ step[p] = "register" => handle[p] = None
    /\ step[p] \in {"recheck", "open"} =>
         /\ handle[p] /= None /\ ~native[p]
         /\ recs[handle[p]].identity = None /\ recs[handle[p]].state /= "closed"
    /\ step[p] \in {"closed", "acknowledge"} => handle[p] /= None /\ ~native[p]
    /\ step[p] \in {"opened", "migrate", "closing", "draining"} => native[p]
    /\ serving[p] => native[p] /\ step[p] \in {"idle", "draining"}
    /\ work[p] => serving[p]

(* A process that has the file open, or passed its last look at the marker  *)
(* before opening it.                                                       *)
Holds(p) == native[p] \/ step[p] = "open"

(* Every such process is a target from the first listing on, and none is    *)
(* left when the file may be replaced.                                      *)
LeaseAgrees ==
    /\ lease.phase /= "none" => Active
    /\ lease.phase \notin {"none", "published"} =>
         \A p \in Procs : Holds(p) => handle[p] \in lease.targets
    /\ lease.phase = "replace" => \A p \in Procs : ~Holds(p)

MaintenanceInv == Shape /\ (\A p \in Procs : ProcessAgrees(p)) /\ LeaseAgrees

(***************************************************************************)
(* Proofs.                                                                 *)
(***************************************************************************)
\* What a participant record may hold.
Record == [proc : Procs, identity : Nat,
           state : {"none", "opening", "open", "closing", "closed", "close_failed"}]

\* Writing the state of one record keeps the registry (writeState).
LEMMA StateWritten ==
  ASSUME Shape, NEW h \in Handle,
         NEW state \in {"opening", "open", "closing", "closed", "close_failed"}, writeState(h, state)
  PROVE  /\ recs' \in [Handle -> Record]
         /\ recs'[h].state = state /\ recs'[h].proc = recs[h].proc
         /\ recs'[h].identity = recs[h].identity
         /\ \A g \in Handle \ {h} : recs'[g] = recs[g]
  BY DEF Shape, writeState, Record

\* Each process has its own record.
LEMMA OwnRecords ==
  ASSUME MaintenanceInv, NEW p \in Procs, NEW q \in Procs, handle[p] /= None, handle[p] = handle[q]
  PROVE  p = q
  BY DEF MaintenanceInv, ProcessAgrees

\* What a process agrees to survives the steps of others.
LEMMA OthersKeep ==
  ASSUME MaintenanceInv, NEW q \in Procs,
         alive'[q] = alive[q], handle'[q] = handle[q], native'[q] = native[q],
         serving'[q] = serving[q], work'[q] = work[q], step'[q] = step[q],
         handle[q] /= None => recs'[handle[q]] = recs[handle[q]],
         native[q] => file' = file \/ file = None
  PROVE  ProcessAgrees(q)'
  BY DEF MaintenanceInv, ProcessAgrees

\* An owner that gives up keeps its targets and replaces nothing (GiveUp).
LEMMA GiveUpKeeps ==
  ASSUME Shape, NEW p \in Procs, GiveUp(p)
  PROVE  /\ lease' \in [request : [nonce : Nat, state : {"absent", "present"}, identity : Nat],
                        targets : SUBSET Handle, quiescent : BOOLEAN,
                        phase : {"none", "published", "close", "wait", "listed", "assert", "relisted",
                                 "replace", "release"}]
         /\ lease'.targets = lease.targets
         /\ lease'.phase = lease.phase \/ (lease.phase = "wait" /\ lease'.phase = "release")
<1>1. CASE lease' = [lease EXCEPT !.phase = "release"] /\ lease.phase = "wait"
  BY <1>1 DEF Shape
<1>2. CASE lease' = lease
  BY <1>2 DEF Shape
<1> QED
  BY <1>1, <1>2 DEF GiveUp

\* A process that starts to close keeps its handle until it is closed
\* (closeStarted).
LEMMA CloseStartedAgrees ==
  ASSUME MaintenanceInv, NEW p \in Procs, alive[p], handle[p] \in Handle, handle[p] /= None, native[p],
         ~work[p], closeStarted(p), UNCHANGED <<file, alive, handle, native, work>>
  PROVE  \A q \in Procs : ProcessAgrees(q)'
<1>1. /\ step' = [step EXCEPT ![p] = "closing"] /\ serving' = [serving EXCEPT ![p] = FALSE]
      /\ writeState(handle[p], "closing")
  BY DEF closeStarted, Go
<1>2. /\ recs'[handle[p]].proc = recs[handle[p]].proc
      /\ recs'[handle[p]].identity = recs[handle[p]].identity
      /\ recs'[handle[p]].state = "closing"
      /\ \A g \in Handle \ {handle[p]} : recs'[g] = recs[g]
  BY <1>1, StateWritten DEF MaintenanceInv
<1>3. ASSUME NEW q \in Procs PROVE ProcessAgrees(q)'
  <2>1. CASE q = p
    BY <1>1, <1>2, <2>1 DEF MaintenanceInv, Shape, ProcessAgrees
  <2>2. CASE q /= p
    BY ZenonT(20), <1>1, <1>2, <2>2, OthersKeep, OwnRecords DEF MaintenanceInv, Shape
  <2> QED
    BY <2>1, <2>2
<1> QED
  BY <1>3

\* ... and the lease is not touched by it.
LEMMA CloseStartedKeeps ==
  ASSUME MaintenanceInv, NEW p \in Procs, alive[p], handle[p] \in Handle, handle[p] /= None, native[p],
         ~work[p], closeStarted(p),
         UNCHANGED <<marker, generation, lease, file, alive, handle, native, work>>
  PROVE  MaintenanceInv'
<1>1. /\ step' = [step EXCEPT ![p] = "closing"] /\ serving' = [serving EXCEPT ![p] = FALSE]
      /\ writeState(handle[p], "closing")
  BY DEF closeStarted, Go
<1>2. Shape'
  BY <1>1, StateWritten DEF MaintenanceInv, Shape, Record
<1>3. \A q \in Procs : ProcessAgrees(q)'
  BY CloseStartedAgrees
<1>4. LeaseAgrees'
  BY <1>1 DEF MaintenanceInv, Shape, LeaseAgrees, Holds, Active
<1> QED
  BY <1>2, <1>3, <1>4 DEF MaintenanceInv

\* Starting to open decides nothing yet (initializeDatabase).
LEMMA InitializeDatabaseKeeps ==
  ASSUME MaintenanceInv, NEW p \in Procs, initializeDatabase(p)
  PROVE  MaintenanceInv'
<1>1. Shape'
  BY DEF MaintenanceInv, Shape, Procs, initializeDatabase, Go, writeState, owner, disk
<1>2. ASSUME NEW q \in Procs PROVE ProcessAgrees(q)'
  BY DEF MaintenanceInv, Shape, ProcessAgrees, Procs, initializeDatabase, Go, writeState, owner,
     disk
<1>3. LeaseAgrees'
  BY DEF MaintenanceInv, Shape, ProcessAgrees, LeaseAgrees, Holds, Active, Procs,
     initializeDatabase, Go, writeState, owner, disk
<1> QED
  BY <1>1, <1>2, <1>3 DEF MaintenanceInv

\* A record is written before the second look at the marker (registerDatabaseMaintenanceParticipant).
LEMMA ExclusiveJsonKeeps ==
  ASSUME MaintenanceInv, NEW p \in Procs, exclusiveJson(p)
  PROVE  MaintenanceInv'
<1>1. PICK h \in Unused :
        /\ recs' = [recs EXCEPT ![h] = [proc |-> p, identity |-> None, state |-> "opening"]]
        /\ handle' = [handle EXCEPT ![p] = h]
  BY DEF exclusiveJson
<1>2. /\ h \in Handle /\ recs[h].state = "none" /\ step[p] = "register" /\ alive[p] /\ handle[p] = None
      /\ step' = [step EXCEPT ![p] = "recheck"]
      /\ UNCHANGED <<marker, expired, generation, lease, acks, file, alive, native, serving, work>>
  BY DEF exclusiveJson, Unused, Go, owner, MaintenanceInv, ProcessAgrees
<1>3. /\ recs' \in [Handle -> Record] /\ recs'[h] = [proc |-> p, identity |-> None, state |-> "opening"]
      /\ \A g \in Handle \ {h} : recs'[g] = recs[g]
  BY <1>1, <1>2 DEF MaintenanceInv, Shape, Record, None
<1>4. Shape'
  BY <1>1, <1>2, <1>3 DEF MaintenanceInv, Shape, Record
<1>5. ~native[p] /\ ~serving[p] /\ ~work[p]
  BY <1>2 DEF MaintenanceInv, ProcessAgrees
<1>6. ASSUME NEW q \in Procs PROVE ProcessAgrees(q)'
  <2>1. CASE q = p
    BY <1>1, <1>2, <1>3, <1>5, <2>1 DEF ProcessAgrees, MaintenanceInv, Shape, Handle, None
  <2>2. CASE q /= p
    <3>1. handle[q] /= None => recs'[handle[q]] = recs[handle[q]]
      BY <1>2, <1>3 DEF MaintenanceInv, Shape, ProcessAgrees
    <3> QED
      BY <1>1, <1>2, <2>2, <3>1, OthersKeep DEF MaintenanceInv, Shape
  <2> QED
    BY <2>1, <2>2
<1>7. LeaseAgrees'
  BY <1>1, <1>2, <1>5 DEF MaintenanceInv, Shape, LeaseAgrees, Holds, Active
<1> QED
  BY <1>4, <1>6, <1>7 DEF MaintenanceInv

\* Only a process that saw no marker after writing its record goes on to open the file.
LEMMA RegisterDatabaseMaintenanceParticipantKeeps ==
  ASSUME MaintenanceInv, NEW p \in Procs, registerDatabaseMaintenanceParticipant(p)
  PROVE  MaintenanceInv'
<1>1. /\ alive[p] /\ step[p] = "recheck" /\ handle[p] \in Handle /\ handle[p] /= None
      /\ ~native[p] /\ ~serving[p] /\ ~work[p]
      /\ UNCHANGED <<marker, generation, lease, file, alive, handle, native, serving, work>>
  BY DEF registerDatabaseMaintenanceParticipant, owner, MaintenanceInv, Shape, ProcessAgrees
<1>2. CASE Active
  <2>1. writeState(handle[p], "closed") /\ step' = [step EXCEPT ![p] = "acknowledge"]
    BY <1>2 DEF registerDatabaseMaintenanceParticipant, Go
  <2>2. /\ recs' \in [Handle -> Record] /\ recs'[handle[p]].proc = p
        /\ recs'[handle[p]].state = "closed"
        /\ \A g \in Handle \ {handle[p]} : recs'[g] = recs[g]
    BY <1>1, <2>1, StateWritten DEF MaintenanceInv, ProcessAgrees
  <2>3. Shape'
    BY <1>1, <2>1, <2>2 DEF MaintenanceInv, Shape, Record
  <2>4. ASSUME NEW q \in Procs PROVE ProcessAgrees(q)'
    <3>1. CASE q = p
      BY <1>1, <2>1, <2>2, <3>1 DEF ProcessAgrees, MaintenanceInv, Shape
    <3>2. CASE q /= p
      BY <1>1, <2>1, <2>2, <3>2, OthersKeep, OwnRecords DEF MaintenanceInv, Shape
    <3> QED
      BY <3>1, <3>2
  <2>5. LeaseAgrees'
    BY <1>1, <2>1 DEF MaintenanceInv, Shape, LeaseAgrees, Holds, Active
  <2> QED
    BY <2>3, <2>4, <2>5 DEF MaintenanceInv
<1>3. CASE ~Active
  <2>1. UNCHANGED recs /\ step' = [step EXCEPT ![p] = "open"]
    BY <1>3 DEF registerDatabaseMaintenanceParticipant, Go
  <2>2. Shape'
    BY <1>1, <2>1 DEF MaintenanceInv, Shape
  <2>3. ASSUME NEW q \in Procs PROVE ProcessAgrees(q)'
    BY <1>1, <2>1 DEF ProcessAgrees, MaintenanceInv, Shape
  <2>4. LeaseAgrees'
    BY <1>1, <1>3, <2>1 DEF MaintenanceInv, LeaseAgrees, Active
  <2> QED
    BY <2>2, <2>3, <2>4 DEF MaintenanceInv
<1> QED
  BY <1>2, <1>3

\* The file is opened only by a process whose record every owner has listed.
LEMMA OpenHandleKeeps ==
  ASSUME MaintenanceInv, NEW p \in Procs, openHandle(p)
  PROVE  MaintenanceInv'
<1>1. /\ alive[p] /\ step[p] = "open" /\ handle[p] \in Handle /\ handle[p] /= None
      /\ recs[handle[p]].identity = None /\ recs[handle[p]].state /= "closed"
      /\ ~serving[p] /\ ~work[p]
      /\ native' = [native EXCEPT ![p] = TRUE] /\ step' = [step EXCEPT ![p] = "opened"]
      /\ file' = IF file = 0 THEN 1 ELSE file
      /\ UNCHANGED <<marker, generation, lease, recs, alive, handle, serving, work>>
  BY DEF openHandle, Go, owner, MaintenanceInv, Shape, ProcessAgrees
<1>2. Shape'
  BY <1>1 DEF MaintenanceInv, Shape
<1>3. ASSUME NEW q \in Procs PROVE ProcessAgrees(q)'
  <2>1. CASE q = p
    BY <1>1, <2>1 DEF ProcessAgrees, MaintenanceInv, Shape, None
  <2>2. CASE q /= p
    BY <1>1, <2>2, OthersKeep DEF MaintenanceInv, Shape, None
  <2> QED
    BY <2>1, <2>2
<1>4. LeaseAgrees'
  BY <1>1 DEF MaintenanceInv, Shape, LeaseAgrees, Holds, Active
<1> QED
  BY <1>2, <1>3, <1>4 DEF MaintenanceInv

\* The record takes the identity of the file that is open.
LEMMA AfterOpenKeeps ==
  ASSUME MaintenanceInv, NEW p \in Procs, afterOpen(p)
  PROVE  MaintenanceInv'
<1>1. /\ alive[p] /\ step[p] = "opened" /\ handle[p] \in Handle /\ handle[p] /= None /\ native[p]
      /\ ~serving[p] /\ ~work[p] /\ step' = [step EXCEPT ![p] = "migrate"]
      /\ recs' = [recs EXCEPT ![handle[p]].identity = file, ![handle[p]].state = "open"]
      /\ UNCHANGED <<marker, generation, lease, file, alive, handle, native, serving, work>>
  BY DEF afterOpen, Go, owner, MaintenanceInv, Shape, ProcessAgrees
<1>2. /\ recs' \in [Handle -> Record] /\ recs'[handle[p]].proc = recs[handle[p]].proc
      /\ recs'[handle[p]].identity = file /\ recs'[handle[p]].state = "open"
      /\ \A g \in Handle \ {handle[p]} : recs'[g] = recs[g]
  BY <1>1 DEF MaintenanceInv, Shape, Record
<1>3. Shape'
  BY <1>1, <1>2 DEF MaintenanceInv, Shape, Record
<1>4. ASSUME NEW q \in Procs PROVE ProcessAgrees(q)'
  <2>1. CASE q = p
    BY <1>1, <1>2, <2>1 DEF ProcessAgrees, MaintenanceInv, Shape
  <2>2. CASE q /= p
    BY <1>1, <1>2, <2>2, OthersKeep, OwnRecords DEF MaintenanceInv, Shape
  <2> QED
    BY <2>1, <2>2
<1>5. LeaseAgrees'
  BY <1>1 DEF MaintenanceInv, Shape, LeaseAgrees, Holds, Active
<1> QED
  BY <1>3, <1>4, <1>5 DEF MaintenanceInv

\* Work is admitted only with the file open.
LEMMA PublishDatabaseKeeps ==
  ASSUME MaintenanceInv, NEW p \in Procs, publishDatabase(p)
  PROVE  MaintenanceInv'
<1>1. /\ alive[p] /\ step[p] = "migrate" /\ native[p]
      /\ \/ serving' = [serving EXCEPT ![p] = TRUE] /\ step' = [step EXCEPT ![p] = "idle"]
         \/ UNCHANGED serving /\ step' = [step EXCEPT ![p] = "closing"]
      /\ UNCHANGED <<marker, generation, lease, recs, file, alive, handle, native, work>>
  BY DEF publishDatabase, Go, disk, MaintenanceInv, ProcessAgrees
<1>2. Shape'
  <2>1. CASE serving' = [serving EXCEPT ![p] = TRUE] /\ step' = [step EXCEPT ![p] = "idle"]
    BY <1>1, <2>1 DEF MaintenanceInv, Shape
  <2>2. CASE UNCHANGED serving /\ step' = [step EXCEPT ![p] = "closing"]
    BY <1>1, <2>2 DEF MaintenanceInv, Shape
  <2> QED
    BY <1>1, <2>1, <2>2
<1>3. ASSUME NEW q \in Procs PROVE ProcessAgrees(q)'
  BY <1>1 DEF MaintenanceInv, Shape, ProcessAgrees
<1>4. LeaseAgrees'
  BY <1>1 DEF MaintenanceInv, Shape, LeaseAgrees, Holds, Active
<1> QED
  BY <1>2, <1>3, <1>4 DEF MaintenanceInv

\* A handle is forgotten only when SQLite closed it or the process ended.
LEMMA CloseDbKeeps ==
  ASSUME MaintenanceInv, NEW p \in Procs, closeDb(p)
  PROVE  MaintenanceInv'
<1>1. /\ alive[p] /\ step[p] = "closing" /\ handle[p] \in Handle /\ handle[p] /= None /\ native[p]
      /\ ~serving[p] /\ ~work[p]
      /\ UNCHANGED <<marker, generation, file, serving, work>>
  BY DEF closeDb, MaintenanceInv, Shape, ProcessAgrees
<1>2. CASE /\ native' = [native EXCEPT ![p] = FALSE] /\ step' = [step EXCEPT ![p] = "closed"]
           /\ UNCHANGED <<recs, alive, handle, lease>>
  <2>1. Shape'
    BY <1>1, <1>2 DEF MaintenanceInv, Shape
  <2>2. ASSUME NEW q \in Procs PROVE ProcessAgrees(q)'
    BY <1>1, <1>2 DEF MaintenanceInv, Shape, ProcessAgrees
  <2>3. LeaseAgrees'
    BY <1>1, <1>2 DEF MaintenanceInv, Shape, LeaseAgrees, Holds, Active
  <2> QED
    BY <2>1, <2>2, <2>3 DEF MaintenanceInv
<1>3. CASE /\ GiveUp(p) /\ writeState(handle[p], "close_failed") /\ step' = [step EXCEPT ![p] = "idle"]
           /\ \/ /\ alive' = [alive EXCEPT ![p] = FALSE] /\ native' = [native EXCEPT ![p] = FALSE]
                 /\ handle' = [handle EXCEPT ![p] = None]
              \/ UNCHANGED <<alive, native, handle>>
  <2>1. /\ recs' \in [Handle -> Record] /\ recs'[handle[p]].proc = recs[handle[p]].proc
        /\ recs'[handle[p]].identity = recs[handle[p]].identity
        /\ recs'[handle[p]].state = "close_failed"
        /\ \A g \in Handle \ {handle[p]} : recs'[g] = recs[g]
    BY <1>1, <1>3, StateWritten DEF MaintenanceInv
  <2>2. Shape'
    BY ZenonT(20), <1>1, <1>3, <2>1, GiveUpKeeps DEF MaintenanceInv, Shape, Record
  <2>3. ASSUME NEW q \in Procs PROVE ProcessAgrees(q)'
    <3>1. CASE q = p
      BY <1>1, <1>3, <2>1, <3>1 DEF MaintenanceInv, Shape, ProcessAgrees
    <3>2. CASE q /= p
      BY <1>1, <1>3, <2>1, <3>2, OthersKeep, OwnRecords DEF MaintenanceInv, Shape
    <3> QED
      BY <3>1, <3>2
  <2>4. LeaseAgrees'
    <3>1. \A q \in Procs : Holds(q)' => Holds(q) /\ handle'[q] = handle[q]
      BY <1>1, <1>3 DEF MaintenanceInv, Shape, Holds
    <3> QED
      BY <1>1, <1>3, <3>1, GiveUpKeeps DEF MaintenanceInv, LeaseAgrees, Active
  <2> QED
    BY <2>2, <2>3, <2>4 DEF MaintenanceInv
<1> QED
  BY <1>2, <1>3 DEF closeDb, Go

\* Only a closed handle is recorded as closed.
LEMMA CloseSucceededKeeps ==
  ASSUME MaintenanceInv, NEW p \in Procs, closeSucceeded(p)
  PROVE  MaintenanceInv'
<1>1. /\ alive[p] /\ step[p] = "closed" /\ handle[p] \in Handle /\ handle[p] /= None /\ ~native[p]
      /\ ~serving[p] /\ ~work[p] /\ step' = [step EXCEPT ![p] = "acknowledge"]
      /\ writeState(handle[p], "closed")
      /\ UNCHANGED <<marker, generation, lease, file, alive, handle, native, serving, work>>
  BY DEF closeSucceeded, Go, owner, MaintenanceInv, Shape, ProcessAgrees
<1>2. /\ recs' \in [Handle -> Record] /\ recs'[handle[p]].proc = recs[handle[p]].proc
      /\ recs'[handle[p]].state = "closed"
      /\ \A g \in Handle \ {handle[p]} : recs'[g] = recs[g]
  BY <1>1, StateWritten DEF MaintenanceInv
<1>3. Shape'
  BY <1>1, <1>2 DEF MaintenanceInv, Shape, Record
<1>4. ASSUME NEW q \in Procs PROVE ProcessAgrees(q)'
  <2>1. CASE q = p
    BY <1>1, <1>2, <2>1 DEF ProcessAgrees, MaintenanceInv, Shape
  <2>2. CASE q /= p
    BY <1>1, <1>2, <2>2, OthersKeep, OwnRecords DEF MaintenanceInv, Shape
  <2> QED
    BY <2>1, <2>2
<1>5. LeaseAgrees'
  BY <1>1 DEF MaintenanceInv, Shape, LeaseAgrees, Holds, Active
<1> QED
  BY <1>3, <1>4, <1>5 DEF MaintenanceInv

\* An acknowledgement opens nothing.
LEMMA AcknowledgeClosedParticipantKeeps ==
  ASSUME MaintenanceInv, NEW p \in Procs, acknowledgeClosedParticipant(p)
  PROVE  MaintenanceInv'
<1>1. Shape'
  BY DEF MaintenanceInv, Shape, Procs, acknowledgeClosedParticipant, Go, writeState, owner, disk,
     GiveUp, Active
<1>2. ASSUME NEW q \in Procs PROVE ProcessAgrees(q)'
  BY DEF MaintenanceInv, Shape, ProcessAgrees, Procs, acknowledgeClosedParticipant, Go,
     writeState, owner, disk, GiveUp, Active
<1>3. LeaseAgrees'
  BY DEF MaintenanceInv, Shape, ProcessAgrees, LeaseAgrees, Holds, Active, Procs,
     acknowledgeClosedParticipant, Go, writeState, owner, disk, GiveUp, Active
<1> QED
  BY <1>1, <1>2, <1>3 DEF MaintenanceInv

\* A repeated acknowledgement opens nothing.
LEMMA RetryAcknowledgementKeeps ==
  ASSUME MaintenanceInv, NEW p \in Procs, retryAcknowledgement(p)
  PROVE  MaintenanceInv'
<1>1. Shape'
  BY DEF MaintenanceInv, Shape, Procs, retryAcknowledgement, Go, writeState, owner, disk
<1>2. ASSUME NEW q \in Procs PROVE ProcessAgrees(q)'
  BY DEF MaintenanceInv, Shape, ProcessAgrees, Procs, retryAcknowledgement, Go, writeState, owner,
     disk
<1>3. LeaseAgrees'
  BY DEF MaintenanceInv, Shape, ProcessAgrees, LeaseAgrees, Holds, Active, Procs,
     retryAcknowledgement, Go, writeState, owner, disk
<1> QED
  BY <1>1, <1>2, <1>3 DEF MaintenanceInv

\* Work starts on an open handle.
LEMMA StartWorkKeeps ==
  ASSUME MaintenanceInv, NEW p \in Procs, startWork(p)
  PROVE  MaintenanceInv'
<1>1. Shape'
  BY DEF MaintenanceInv, Shape, Procs, startWork, Go, writeState, owner, disk
<1>2. ASSUME NEW q \in Procs PROVE ProcessAgrees(q)'
  BY DEF MaintenanceInv, Shape, ProcessAgrees, Procs, startWork, Go, writeState, owner, disk
<1>3. LeaseAgrees'
  BY DEF MaintenanceInv, Shape, ProcessAgrees, LeaseAgrees, Holds, Active, Procs, startWork, Go,
     writeState, owner, disk
<1> QED
  BY <1>1, <1>2, <1>3 DEF MaintenanceInv

\* Work ends.
LEMMA FinishWorkKeeps ==
  ASSUME MaintenanceInv, NEW p \in Procs, finishWork(p)
  PROVE  MaintenanceInv'
<1>1. Shape'
  BY DEF MaintenanceInv, Shape, Procs, finishWork, Go, writeState, owner, disk
<1>2. ASSUME NEW q \in Procs PROVE ProcessAgrees(q)'
  BY DEF MaintenanceInv, Shape, ProcessAgrees, Procs, finishWork, Go, writeState, owner, disk
<1>3. LeaseAgrees'
  BY DEF MaintenanceInv, Shape, ProcessAgrees, LeaseAgrees, Holds, Active, Procs, finishWork, Go,
     writeState, owner, disk
<1> QED
  BY <1>1, <1>2, <1>3 DEF MaintenanceInv

\* A process that ends takes its handle with it, and its lease.
LEMMA DieKeeps ==
  ASSUME MaintenanceInv, NEW p \in Procs, die(p)
  PROVE  MaintenanceInv'
<1>1. /\ alive' = [alive EXCEPT ![p] = FALSE] /\ native' = [native EXCEPT ![p] = FALSE]
      /\ serving' = [serving EXCEPT ![p] = FALSE] /\ work' = [work EXCEPT ![p] = FALSE]
      /\ handle' = [handle EXCEPT ![p] = None] /\ step' = [step EXCEPT ![p] = "idle"]
      /\ lease' = IF p = "main" THEN NoLease ELSE lease
      /\ UNCHANGED <<marker, generation, recs, file>>
  BY DEF die, Go, disk
<1>2. Shape'
  <2>1. lease' = NoLease \/ lease' = lease
    BY <1>1
  <2> QED
    BY <1>1, <2>1 DEF MaintenanceInv, Shape, NoLease, NoRequest, None
<1>3. ASSUME NEW q \in Procs PROVE ProcessAgrees(q)'
  BY <1>1 DEF MaintenanceInv, Shape, ProcessAgrees
<1>4. LeaseAgrees'
  <2>1. CASE lease' = NoLease
    BY <2>1 DEF LeaseAgrees, NoLease
  <2>2. CASE lease' = lease
    BY <1>1, <2>2 DEF MaintenanceInv, Shape, LeaseAgrees, Holds, Active
  <2> QED
    BY <1>1, <2>1, <2>2
<1> QED
  BY <1>2, <1>3, <1>4 DEF MaintenanceInv

\* A refused MCP server exits.
LEMMA RefuseInitializationKeeps ==
  ASSUME MaintenanceInv, refuseInitialization
  PROVE  MaintenanceInv'
<1>1. Shape'
  BY DEF MaintenanceInv, Shape, Procs, refuseInitialization, Go, writeState, owner, disk
<1>2. ASSUME NEW q \in Procs PROVE ProcessAgrees(q)'
  BY DEF MaintenanceInv, Shape, ProcessAgrees, Procs, refuseInitialization, Go, writeState, owner,
     disk
<1>3. LeaseAgrees'
  BY DEF MaintenanceInv, Shape, ProcessAgrees, LeaseAgrees, Holds, Active, Procs,
     refuseInitialization, Go, writeState, owner, disk
<1> QED
  BY <1>1, <1>2, <1>3 DEF MaintenanceInv

\* The monitor drains.
LEMMA StartMaintenanceMonitorKeeps ==
  ASSUME MaintenanceInv, startMaintenanceMonitor
  PROVE  MaintenanceInv'
<1>1. Shape'
  BY DEF MaintenanceInv, Shape, Procs, startMaintenanceMonitor, Go, writeState, owner, disk
<1>2. ASSUME NEW q \in Procs PROVE ProcessAgrees(q)'
  BY DEF MaintenanceInv, Shape, ProcessAgrees, Procs, startMaintenanceMonitor, Go, writeState,
     owner, disk
<1>3. LeaseAgrees'
  BY DEF MaintenanceInv, Shape, ProcessAgrees, LeaseAgrees, Holds, Active, Procs,
     startMaintenanceMonitor, Go, writeState, owner, disk
<1> QED
  BY <1>1, <1>2, <1>3 DEF MaintenanceInv

\* The drained MCP server starts to close.
LEMMA DrainAndCloseKeeps ==
  ASSUME MaintenanceInv, drainAndClose
  PROVE  MaintenanceInv'
<1> DEFINE p == "mcp"
<1>1. /\ alive[p] /\ step[p] = "draining" /\ handle[p] \in Handle /\ handle[p] /= None /\ native[p]
      /\ ~work[p]
  BY DEF drainAndClose, Procs, MaintenanceInv, Shape, ProcessAgrees
<1>2. p \in Procs /\ closeStarted(p) /\ UNCHANGED <<marker, generation, lease, file, alive, handle, native, work>>
  BY DEF drainAndClose, owner, Procs
<1> HIDE DEF p
<1> QED
  BY <1>1, <1>2, CloseStartedKeeps

\* A restarted MCP server holds nothing.
LEMMA RestartKeeps ==
  ASSUME MaintenanceInv, restart
  PROVE  MaintenanceInv'
<1>1. Shape'
  BY DEF MaintenanceInv, Shape, Procs, restart, Go, writeState, owner, disk
<1>2. ASSUME NEW q \in Procs PROVE ProcessAgrees(q)'
  BY DEF MaintenanceInv, Shape, ProcessAgrees, Procs, restart, Go, writeState, owner, disk
<1>3. LeaseAgrees'
  BY DEF MaintenanceInv, Shape, ProcessAgrees, LeaseAgrees, Holds, Active, Procs, restart, Go,
     writeState, owner, disk
<1> QED
  BY <1>1, <1>2, <1>3 DEF MaintenanceInv

\* A published request is active.
LEMMA BeginMaintenanceKeeps ==
  ASSUME MaintenanceInv, beginMaintenance
  PROVE  MaintenanceInv'
<1>1. /\ ~Active /\ lease.phase = "none"
      /\ generation' = generation + 1
      /\ marker' = [nonce |-> generation + 1, identity |-> file,
                    state |-> IF file = 0 THEN "absent" ELSE "present"]
      /\ lease' = [NoLease EXCEPT !.request = marker', !.phase = "published"]
      /\ UNCHANGED <<recs, file, alive, handle, native, serving, work, step>>
  BY DEF beginMaintenance
<1>2. /\ generation' \in Nat /\ marker' \in [nonce : Nat, state : {"absent", "present"}, identity : Nat]
      /\ marker'.nonce /= 0
  BY <1>1 DEF MaintenanceInv, Shape
<1>3. lease' = [request |-> marker', targets |-> {}, quiescent |-> FALSE, phase |-> "published"]
  BY <1>1 DEF NoLease
<1>4. Shape'
  <2>1. lease' \in [request : [nonce : Nat, state : {"absent", "present"}, identity : Nat],
                    targets : SUBSET Handle, quiescent : BOOLEAN, phase : {"published"}]
    BY <1>2, <1>3
  <2> QED
    BY <1>1, <1>2, <2>1 DEF MaintenanceInv, Shape
<1>5. ASSUME NEW q \in Procs PROVE ProcessAgrees(q)'
  BY <1>1 DEF MaintenanceInv, ProcessAgrees
<1>6. LeaseAgrees'
  BY <1>2, <1>3 DEF LeaseAgrees, Active, NoRequest, None
<1> QED
  BY <1>4, <1>5, <1>6 DEF MaintenanceInv

\* The first listing finds every process that holds the file.
LEMMA CreateLeaseKeeps ==
  ASSUME MaintenanceInv, createLease
  PROVE  MaintenanceInv'
<1>1. Shape'
  BY DEF MaintenanceInv, Shape, Procs, createLease, Go, writeState, owner, disk, Unclosed,
     Registered
<1>2. ASSUME NEW q \in Procs PROVE ProcessAgrees(q)'
  BY DEF MaintenanceInv, Shape, ProcessAgrees, Procs, createLease, Go, writeState, owner, disk,
     Unclosed, Registered
<1>3. LeaseAgrees'
  BY DEF MaintenanceInv, Shape, ProcessAgrees, LeaseAgrees, Holds, Active, Procs, createLease, Go,
     writeState, owner, disk, Unclosed, Registered
<1> QED
  BY <1>1, <1>2, <1>3 DEF MaintenanceInv

\* The owner closes its own handle.
LEMMA BeginDatabaseMaintenanceKeeps ==
  ASSUME MaintenanceInv, beginDatabaseMaintenance
  PROVE  MaintenanceInv'
<1> DEFINE p == "main"
<1>1. /\ p \in Procs /\ alive[p] /\ step[p] = "idle" /\ ~work[p] /\ lease.phase = "close"
      /\ lease' = [lease EXCEPT !.phase = "wait"]
      /\ UNCHANGED <<marker, generation, file, alive, handle, native, work>>
  BY DEF beginDatabaseMaintenance, Procs
<1>2. /\ lease' \in [request : [nonce : Nat, state : {"absent", "present"}, identity : Nat],
                  targets : SUBSET Handle, quiescent : BOOLEAN,
                  phase : {"none", "published", "close", "wait", "listed", "assert", "relisted",
                           "replace", "release"}]
      /\ lease'.phase = "wait" /\ lease'.targets = lease.targets
  BY <1>1 DEF MaintenanceInv, Shape
<1>3. CASE native[p]
  <2>1. handle[p] \in Handle /\ handle[p] /= None
    BY <1>1, <1>3 DEF MaintenanceInv, Shape, ProcessAgrees
  <2>2. /\ closeStarted(p) /\ step' = [step EXCEPT ![p] = "closing"]
        /\ serving' = [serving EXCEPT ![p] = FALSE] /\ writeState(handle[p], "closing")
    BY <1>3 DEF beginDatabaseMaintenance, closeStarted, Go
  <2> HIDE DEF p
  <2>3. Shape'
    BY <1>1, <1>2, <2>1, <2>2, StateWritten DEF MaintenanceInv, Shape, Record
  <2>4. \A q \in Procs : ProcessAgrees(q)'
    BY <1>1, <1>3, <2>1, <2>2, CloseStartedAgrees
  <2>5. LeaseAgrees'
    BY <1>1, <1>2, <2>2 DEF MaintenanceInv, Shape, LeaseAgrees, Holds, Active
  <2> QED
    BY <2>3, <2>4, <2>5 DEF MaintenanceInv
<1>4. CASE ~native[p]
  <2>1. UNCHANGED <<recs, serving, step>>
    BY <1>4 DEF beginDatabaseMaintenance
  <2>2. Shape'
    BY <1>1, <1>2, <2>1 DEF MaintenanceInv, Shape
  <2>3. ASSUME NEW q \in Procs PROVE ProcessAgrees(q)'
    BY <1>1, <2>1 DEF MaintenanceInv, ProcessAgrees
  <2>4. LeaseAgrees'
    BY <1>1, <1>2, <2>1 DEF MaintenanceInv, LeaseAgrees, Holds, Active
  <2> QED
    BY <2>2, <2>3, <2>4 DEF MaintenanceInv
<1> QED
  BY <1>3, <1>4

\* A later listing only adds targets.
LEMMA ListParticipantsKeeps ==
  ASSUME MaintenanceInv, listParticipants
  PROVE  MaintenanceInv'
<1>1. Shape'
  BY DEF MaintenanceInv, Shape, Procs, listParticipants, Go, writeState, owner, disk, Unclosed,
     Registered
<1>2. ASSUME NEW q \in Procs PROVE ProcessAgrees(q)'
  BY DEF MaintenanceInv, Shape, ProcessAgrees, Procs, listParticipants, Go, writeState, owner,
     disk, Unclosed, Registered
<1>3. LeaseAgrees'
  BY DEF MaintenanceInv, Shape, ProcessAgrees, LeaseAgrees, Holds, Active, Procs,
     listParticipants, Go, writeState, owner, disk, Unclosed, Registered
<1> QED
  BY <1>1, <1>2, <1>3 DEF MaintenanceInv

\* A target that ended or acknowledged does not hold the file.
LEMMA CheckTargetsKeeps ==
  ASSUME MaintenanceInv, checkTargets
  PROVE  MaintenanceInv'
<1>1. Shape'
  BY DEF MaintenanceInv, Shape, Procs, checkTargets, Go, writeState, owner, disk,
     processDefinitelyEnded, matchingAcknowledgement
<1>2. ASSUME NEW q \in Procs PROVE ProcessAgrees(q)'
  BY DEF MaintenanceInv, Shape, ProcessAgrees, Procs, checkTargets, Go, writeState, owner, disk,
     processDefinitelyEnded, matchingAcknowledgement
<1>3. LeaseAgrees'
  BY ZenonT(20) DEF MaintenanceInv, Shape, ProcessAgrees, LeaseAgrees, Holds, Active, Procs, checkTargets,
     Go, writeState, owner, disk, processDefinitelyEnded, matchingAcknowledgement
<1> QED
  BY <1>1, <1>2, <1>3 DEF MaintenanceInv

\* The deadline changes nothing that is held.
LEMMA DeadlinePassesKeeps ==
  ASSUME MaintenanceInv, deadlinePasses
  PROVE  MaintenanceInv'
<1>1. Shape'
  BY DEF MaintenanceInv, Shape, Procs, deadlinePasses, Go, writeState, owner, disk
<1>2. ASSUME NEW q \in Procs PROVE ProcessAgrees(q)'
  BY DEF MaintenanceInv, Shape, ProcessAgrees, Procs, deadlinePasses, Go, writeState, owner, disk
<1>3. LeaseAgrees'
  BY DEF MaintenanceInv, Shape, ProcessAgrees, LeaseAgrees, Holds, Active, Procs, deadlinePasses,
     Go, writeState, owner, disk
<1> QED
  BY <1>1, <1>2, <1>3 DEF MaintenanceInv

\* The file is replaced while nobody holds it.
LEMMA RestoreDatabaseKeeps ==
  ASSUME MaintenanceInv, restoreDatabase
  PROVE  MaintenanceInv'
<1>1. /\ lease.phase = "replace" /\ file' = file + 1
      /\ lease' = [lease EXCEPT !.phase = "release"]
      /\ UNCHANGED <<marker, generation, recs, alive, handle, native, serving, work, step>>
  BY DEF restoreDatabase
<1>2. \A q \in Procs : ~native[q] /\ step[q] /= "open"
  BY <1>1 DEF MaintenanceInv, LeaseAgrees, Holds
<1>3. Shape'
  BY <1>1 DEF MaintenanceInv, Shape
<1>4. ASSUME NEW q \in Procs PROVE ProcessAgrees(q)'
  BY <1>1, <1>2, OthersKeep
<1>5. LeaseAgrees'
  BY <1>1, <1>2 DEF MaintenanceInv, Shape, LeaseAgrees, Holds, Active
<1> QED
  BY <1>3, <1>4, <1>5 DEF MaintenanceInv

\* Giving up replaces nothing.
LEMMA AbandonMaintenanceKeeps ==
  ASSUME MaintenanceInv, abandonMaintenance
  PROVE  MaintenanceInv'
<1>1. Shape'
  BY DEF MaintenanceInv, Shape, Procs, abandonMaintenance, Go, writeState, owner, disk
<1>2. ASSUME NEW q \in Procs PROVE ProcessAgrees(q)'
  BY DEF MaintenanceInv, Shape, ProcessAgrees, Procs, abandonMaintenance, Go, writeState, owner,
     disk
<1>3. LeaseAgrees'
  BY DEF MaintenanceInv, Shape, ProcessAgrees, LeaseAgrees, Holds, Active, Procs,
     abandonMaintenance, Go, writeState, owner, disk
<1> QED
  BY <1>1, <1>2, <1>3 DEF MaintenanceInv

\* The released request leaves no lease.
LEMMA ReleaseMaintenanceKeeps ==
  ASSUME MaintenanceInv, releaseMaintenance
  PROVE  MaintenanceInv'
<1>1. /\ marker' = NoRequest /\ lease' = NoLease
      /\ UNCHANGED <<generation, recs, file, alive, handle, native, serving, work, step>>
  BY DEF releaseMaintenance
<1>2. Shape'
  BY <1>1 DEF MaintenanceInv, Shape, NoLease, NoRequest, None
<1>3. ASSUME NEW q \in Procs PROVE ProcessAgrees(q)'
  BY <1>1 DEF MaintenanceInv, ProcessAgrees
<1>4. LeaseAgrees'
  BY <1>1 DEF LeaseAgrees, NoLease
<1> QED
  BY <1>2, <1>3, <1>4 DEF MaintenanceInv

\* The first start: no request, no record, no handle.
LEMMA MaintenanceStarts == Init => MaintenanceInv
<1> SUFFICES ASSUME Init PROVE MaintenanceInv
  OBVIOUS
<1>1. Shape
  BY DEF Init, Shape, NoRequest, NoRecord, NoLease, None, Procs
<1>2. ASSUME NEW p \in Procs PROVE ProcessAgrees(p)
  BY DEF Init, ProcessAgrees
<1>3. LeaseAgrees
  BY DEF Init, LeaseAgrees, NoLease
<1> QED
  BY <1>1, <1>2, <1>3 DEF MaintenanceInv

\* Every step of either process keeps the agreement.
LEMMA MaintenanceSteps == MaintenanceInv /\ [Next]_vars => MaintenanceInv'
<1> SUFFICES ASSUME MaintenanceInv, [Next]_vars PROVE MaintenanceInv'
  OBVIOUS
<1>1. ASSUME NEW p \in Procs,
             \/ initializeDatabase(p) \/ exclusiveJson(p)
             \/ registerDatabaseMaintenanceParticipant(p)
             \/ openHandle(p) \/ afterOpen(p) \/ publishDatabase(p)
      PROVE  MaintenanceInv'
  BY <1>1, InitializeDatabaseKeeps, ExclusiveJsonKeeps, RegisterDatabaseMaintenanceParticipantKeeps,
     OpenHandleKeeps, AfterOpenKeeps, PublishDatabaseKeeps
<1>2. ASSUME NEW p \in Procs,
             \/ closeDb(p) \/ closeSucceeded(p) \/ acknowledgeClosedParticipant(p)
             \/ retryAcknowledgement(p) \/ startWork(p) \/ finishWork(p) \/ die(p)
      PROVE  MaintenanceInv'
  BY <1>2, CloseDbKeeps, CloseSucceededKeeps, AcknowledgeClosedParticipantKeeps,
     RetryAcknowledgementKeeps, StartWorkKeeps, FinishWorkKeeps, DieKeeps
<1>3. CASE refuseInitialization \/ startMaintenanceMonitor \/ drainAndClose \/ restart
  BY <1>3, RefuseInitializationKeeps, StartMaintenanceMonitorKeeps, DrainAndCloseKeeps, RestartKeeps
<1>4. CASE beginMaintenance \/ createLease \/ beginDatabaseMaintenance \/ listParticipants
  BY <1>4, BeginMaintenanceKeeps, CreateLeaseKeeps, BeginDatabaseMaintenanceKeeps,
     ListParticipantsKeeps
<1>5. CASE checkTargets \/ deadlinePasses \/ restoreDatabase \/ abandonMaintenance \/ releaseMaintenance
  BY <1>5, CheckTargetsKeeps, DeadlinePassesKeeps, RestoreDatabaseKeeps, AbandonMaintenanceKeeps,
     ReleaseMaintenanceKeeps
<1>6. CASE UNCHANGED vars
  BY <1>6 DEF vars, MaintenanceInv, Shape, ProcessAgrees, LeaseAgrees, Holds, Active
<1> QED
  BY <1>1, <1>2, <1>3, <1>4, <1>5, <1>6 DEF Next

\* The inductive invariant: every process that has the file open, or is about
\* to, is a target of the owner's lease, and none is when it may be replaced.
THEOREM MaintenanceAgreement == Spec => []MaintenanceInv
<1> QED
  BY MaintenanceStarts, MaintenanceSteps, PTL DEF Spec

\* For any number of database handles, maintenance requests and deaths: the
\* file is replaced only while no live process holds it open, and no process
\* works on a file that was replaced under it (restoreBackupArtifact under
\* createLease of mcp_maintenance.ts).
THEOREM NoReplacementUnderAnOpenHandle == Spec => []ReplacedOnlyWhenClosed
<1>1. MaintenanceInv => ReplacedOnlyWhenClosed
  BY DEF MaintenanceInv, ProcessAgrees, LeaseAgrees, Holds, ReplacedOnlyWhenClosed
<1> QED
  BY <1>1, MaintenanceAgreement, PTL

\* Accepted database work keeps its handle until it is finished (closeDb).
THEOREM AcceptedWorkKeepsItsHandle == Spec => []WorkKeepsItsHandle
<1>1. MaintenanceInv => WorkKeepsItsHandle
  BY DEF MaintenanceInv, ProcessAgrees, WorkKeepsItsHandle
<1> QED
  BY <1>1, MaintenanceAgreement, PTL

=============================================================================
