------------------------------- MODULE Backup -------------------------------
(***************************************************************************)
(* Configuration generations and backups: the barrier under which managed  *)
(* writers commit configuration and a backup copies the database           *)
(* (backup_generation.ts), the scheduled backup run with its evidence and  *)
(* retention (backup.ts), the encrypted off-site copy and its recovery     *)
(* (backup_replication.ts, services/b2-backup-gateway) and the Drive       *)
(* mirror (google_drive_backup_mirror.ts).  Files are edited behind the    *)
(* barrier's back, uploads are damaged or unanswered, the clock that names *)
(* artifacts steps back, and the process dies holding the barrier.         *)
(*                                                                         *)
(* Bytes are a version number per member; an artifact's hash is the        *)
(* artifact.  A defect is what a verification step looks for.              *)
(***************************************************************************)
EXTENDS Naturals, FiniteSets

CONSTANTS Writers,      \* concurrent managed writers
          MaxVersions,  \* versions written, by writers or by hand
          MaxNames,     \* artifact timestamps
          Retain,       \* retainCount
          MaxStores,    \* generation stores, one per factory reset
          MaxMishaps    \* deaths, edits by hand, damage, resets

VARIABLES source,       \* the configuration files, member -> version
          head,         \* head.json of the generation store
          barrier,      \* the lock file: who holds it
          writer,       \* withManagedConfigurationWrite per writer
          running,      \* the service is up
          run,          \* the backup run
          artifacts,    \* the backup directory
          used,         \* artifact names ever given out
          offsite,      \* objects behind the gateway
          drive,        \* objects of the Drive folder
          status,       \* BackupScheduler.status
          commits,      \* history: every generation committed
          versions, mishaps

backupVars == <<source, head, barrier, writer, running, run, artifacts, used, offsite,
                drive, status, commits, versions, mishaps>>

Members == {"config", "settings"}
Defects == {"member", "compatibility", "secret", "database"}
NoHead == [store |-> 0, gen |-> 0, files |-> [m \in Members |-> 0]]
NoArtifact == [name |-> 0, head |-> NoHead, during |-> NoHead, bad |-> {}]
IdleRun == [at |-> "idle", artifact |-> NoArtifact, verified |-> FALSE, error |-> FALSE,
            receipt |-> NoArtifact, mirror |-> NoArtifact]

IdleWriter == [at |-> "idle", member |-> "config", head |-> NoHead, bytes |-> 0]

Init ==
  /\ source = [m \in Members |-> 0]
  /\ head = [NoHead EXCEPT !.store = 1, !.gen = 1] /\ commits = {head}
  /\ barrier = "free" /\ writer = [w \in Writers |-> IdleWriter] /\ running = TRUE
  /\ run = IdleRun /\ artifacts = {} /\ used = {} /\ offsite = {} /\ drive = {}
  /\ status = [last |-> NoArtifact, error |-> FALSE, offsite |-> NoArtifact,
               mirror |-> NoArtifact, mirrorError |-> FALSE, fresh |-> FALSE, drill |-> NoArtifact]
  /\ versions = 0 /\ mishaps = 0

Mishap == mishaps < MaxMishaps /\ mishaps' = mishaps + 1

-----------------------------------------------------------------------------
(* The generation store. *)

\* acquireBarrier: the exclusive creation of the lock file.  No takeover.
acquireBarrier(who) == barrier = "free" /\ barrier' = who

\* release: only the lock this holder wrote is unlinked.
release(who) == barrier' = IF barrier = who THEN "free" ELSE barrier

\* assertSourceCoherence: the files on disk are the committed ones.
assertSourceCoherence(h) == source = h.files

\* commitGeneration: immutable objects, then the new head by rename.
commitGeneration(h) == head' = h /\ commits' = commits \cup {h}

\* initializeConfigurationGeneration, at start-up under the process lock: a
\* first enrolment, or the proof that nothing changed behind its back.
initializeConfigurationGeneration ==
  /\ ~running /\ barrier = "free"
  /\ head.gen > 0 => assertSourceCoherence(head)
  /\ IF head.gen = 0 THEN commitGeneration([store |-> head.store, gen |-> 1, files |-> source])
                     ELSE UNCHANGED <<head, commits>>
  /\ running' = TRUE
  /\ UNCHANGED <<source, barrier, writer, run, artifacts, used, offsite, drive, status,
                 versions, mishaps>>

\* reenrollConfigurationGeneration: restored or repaired files are adopted
\* as the next generation, under maintenance.
reenrollConfigurationGeneration ==
  /\ ~running /\ barrier = "free" /\ ~assertSourceCoherence(head)
  /\ commitGeneration([head EXCEPT !.gen = @ + 1, !.files = source])
  /\ UNCHANGED <<source, barrier, writer, running, run, artifacts, used, offsite, drive,
                 status, versions, mishaps>>

\* retireConfigurationGeneration: a factory reset moves the store away.
retireConfigurationGeneration ==
  /\ ~running /\ barrier = "free" /\ head.gen > 0 /\ head.store < MaxStores
  /\ head' = [NoHead EXCEPT !.store = head.store + 1]
  /\ UNCHANGED <<source, barrier, writer, running, run, artifacts, used, offsite, drive,
                 status, commits, versions, mishaps>>

\* The lock of a dead process is removed by hand, offline.
offlineRecovery ==
  /\ ~running /\ barrier # "free" /\ barrier' = "free"
  /\ UNCHANGED <<source, head, writer, running, run, artifacts, used, offsite, drive, status,
                 commits, versions, mishaps>>

\* prepareWriter: the barrier, then scope and coherence of the current head.
prepareWriter(w, m) ==
  /\ running /\ writer[w].at = "idle" /\ versions < MaxVersions
  /\ acquireBarrier(w) /\ assertSourceCoherence(head)
  /\ versions' = versions + 1
  /\ writer' = [writer EXCEPT ![w] = [at |-> "write", member |-> m, head |-> head,
                                      bytes |-> versions + 1]]
  /\ UNCHANGED <<source, head, running, run, artifacts, used, offsite, drive, status, commits,
                 mishaps>>

writeFile(w) ==
  /\ writer[w].at = "write"
  /\ source' = [source EXCEPT ![writer[w].member] = writer[w].bytes]
  /\ writer' = [writer EXCEPT ![w].at = "commit"]
  /\ UNCHANGED <<head, barrier, running, run, artifacts, used, offsite, drive, status, commits,
                 versions, mishaps>>

\* assertOnlyAuthorizedFileChanged, against the head read when preparing.
assertOnlyAuthorizedFileChanged(w) ==
  source = [writer[w].head.files EXCEPT ![writer[w].member] = writer[w].bytes]

\* withManagedConfigurationWrite: the requested bytes are there and nothing
\* else changed; whatever happens the barrier is released.
withManagedConfigurationWrite(w) ==
  /\ writer[w].at = "commit"
  /\ IF assertOnlyAuthorizedFileChanged(w)
       THEN commitGeneration([writer[w].head EXCEPT !.gen = @ + 1, !.files = source])
       ELSE UNCHANGED <<head, commits>>
  /\ release(w) /\ writer' = [writer EXCEPT ![w] = IdleWriter]
  /\ UNCHANGED <<source, running, run, artifacts, used, offsite, drive, status, versions, mishaps>>

\* Somebody edits a file by hand.
editByHand(m) ==
  /\ Mishap /\ versions < MaxVersions /\ versions' = versions + 1
  /\ source' = [source EXCEPT ![m] = versions + 1]
  /\ UNCHANGED <<head, barrier, writer, running, run, artifacts, used, offsite, drive, status, commits>>

-----------------------------------------------------------------------------
(* Verification of an artifact: readBackupManifest and its compatibility,   *)
(* every member's checksum, the configuration evidence, no secret in the    *)
(* configuration, and the database itself.                                  *)

assertManifestCompatibility(a) == "compatibility" \notin a.bad
verifyManifestFile(a) == "member" \notin a.bad
verifyBackupConfig(a) == "secret" \notin a.bad
verifySqliteDatabase(a) == "database" \notin a.bad

verifyBackupArtifact(a) ==
  /\ assertManifestCompatibility(a) /\ verifyManifestFile(a)
  /\ verifyBackupConfig(a) /\ verifySqliteDatabase(a)

-----------------------------------------------------------------------------
(* One backup run. *)

Failed(r) == [r EXCEPT !.at = "failed", !.error = TRUE]

\* runNow, createBackupArtifact and the first half of
\* withPinnedConfigurationGeneration: the name comes from the clock.  It also
\* fails when the provider's configuration is not the committed one.
runNow(n) ==
  /\ running /\ run.at = "idle" /\ n \notin used
  /\ used' = used \cup {n}
  /\ \/ /\ barrier = "free" /\ head.gen > 0 /\ assertSourceCoherence(head)
        /\ acquireBarrier("backup")
        /\ run' = [IdleRun EXCEPT !.at = "pinned", !.artifact.name = n, !.artifact.head = head]
     \/ run' = Failed(IdleRun) /\ UNCHANGED barrier
  /\ UNCHANGED <<source, head, writer, running, artifacts, offsite, drive, status, commits,
                 versions, mishaps>>

\* backupDatabase: a copy of the database, perhaps of a damaged one.
backupDatabase ==
  /\ run.at = "pinned"
  /\ \E bad \in {{}} \cup {{d} : d \in Defects \ {"member"}} :
       /\ IF bad = {} THEN UNCHANGED mishaps ELSE Mishap
       /\ run' = [run EXCEPT !.at = "copied", !.artifact.during = head, !.artifact.bad = bad]
  /\ UNCHANGED <<source, head, barrier, writer, running, artifacts, used, offsite, drive, status,
                 commits, versions>>

\* The second half of withPinnedConfigurationGeneration.
snapshotPinnedDatabase ==
  /\ run.at = "copied" /\ release("backup")
  /\ run' = IF head = run.artifact.head /\ assertSourceCoherence(head)
              THEN [run EXCEPT !.at = "staged"] ELSE Failed(run)
  /\ UNCHANGED <<source, head, writer, running, artifacts, used, offsite, drive, status, commits,
                 versions, mishaps>>

\* createBackupArtifact verifies in the temporary directory and publishes by
\* rename; inspectBackupArtifact and recordLocalEvidence follow.
createBackupArtifact ==
  /\ run.at = "staged"
  /\ IF verifyBackupArtifact(run.artifact)
       THEN /\ artifacts' = artifacts \cup {run.artifact}
            /\ status' = [status EXCEPT !.last = run.artifact, !.error = FALSE, !.fresh = TRUE]
            /\ run' = [run EXCEPT !.at = "upload", !.verified = TRUE]
       ELSE run' = Failed(run) /\ UNCHANGED <<artifacts, status>>
  /\ UNCHANGED <<source, head, barrier, writer, running, used, offsite, drive, commits, versions,
                 mishaps>>

\* What a transfer may do to an object.
Damaged(a) == [a EXCEPT !.bad = @ \cup {"member"}]

\* storeObject: a conditional, locked put; the object's head and retention are
\* verified before the receipt.  The bytes may be damaged on their way to the
\* bucket, and the answer may be lost after the object is stored.
storeObject ==
  /\ run.at = "upload"
  /\ \/ offsite' = offsite \cup {run.artifact} /\ UNCHANGED mishaps
        /\ run' = [run EXCEPT !.at = "download"]
     \/ offsite' = offsite \cup {Damaged(run.artifact)} /\ Mishap
        /\ run' = [run EXCEPT !.at = "download"]
     \/ offsite' \in {offsite, offsite \cup {run.artifact}} /\ Mishap /\ run' = Failed(run)
  /\ UNCHANGED <<source, head, barrier, writer, running, artifacts, used, drive, status, commits,
                 versions>>

\* replicate: the object is downloaded again, must be the uploaded bytes,
\* decrypt and verify; recordOffsiteEvidence binds what was read back to the
\* local artifact.
replicate ==
  /\ run.at = "download"
  /\ IF run.artifact \in offsite /\ verifyBackupArtifact(run.artifact)
       THEN /\ run' = [run EXCEPT !.at = "mirror", !.receipt = run.artifact]
            /\ status' = [status EXCEPT !.offsite = run.artifact]
       ELSE run' = Failed(run) /\ UNCHANGED status
  /\ UNCHANGED <<source, head, barrier, writer, running, artifacts, used, offsite, drive, commits,
                 versions, mishaps>>

\* createFile: the resumable upload to the folder.
createFile ==
  /\ run.at = "mirror"
  /\ \/ drive' = drive \cup {run.artifact} /\ UNCHANGED mishaps
        /\ run' = [run EXCEPT !.at = "mirrored"]
     \/ drive' \in {drive, drive \cup {Damaged(run.artifact)}} /\ Mishap
        /\ run' = [run EXCEPT !.at = "mirrored"]
  /\ UNCHANGED <<source, head, barrier, writer, running, artifacts, used, offsite, status, commits,
                 versions>>

\* verifyFile reads the file back; an error becomes a missing receipt, which
\* recordDriveMirrorEvidence records without touching the primary proof.
recordDriveMirrorEvidence ==
  /\ run.at = "mirrored"
  /\ status' = IF run.artifact \in drive
                 THEN [status EXCEPT !.mirror = run.artifact, !.mirrorError = FALSE]
                 ELSE [status EXCEPT !.mirrorError = TRUE]
  /\ run' = [run EXCEPT !.at = "prune"]
  /\ UNCHANGED <<source, head, barrier, writer, running, artifacts, used, offsite, drive, commits,
                 versions, mishaps>>

\* The newest n names among S.
Newest(S, n) == {a \in S : Cardinality({b \in S : b.name > a.name}) < n}

\* pruneBackupArtifacts: the protected artifact first, then by name.
pruneBackupArtifacts(keep) ==
  {a \in artifacts : a = keep} \cup
  Newest({a \in artifacts : a # keep}, Retain - Cardinality({a \in artifacts : a = keep}))

\* The end of a successful run: retention, then the required mirror.
finishRun ==
  /\ run.at = "prune" /\ run' = IdleRun
  /\ artifacts' = pruneBackupArtifacts(run.artifact)
  /\ status' = [status EXCEPT !.error = status.mirrorError]
  /\ UNCHANGED <<source, head, barrier, writer, running, used, offsite, drive, commits, versions,
                 mishaps>>

\* The end of a failed run: retention still runs once an artifact was
\* verified.
failRun ==
  /\ run.at = "failed" /\ run' = IdleRun
  /\ artifacts' = IF run.verified THEN pruneBackupArtifacts(run.artifact) ELSE artifacts
  /\ status' = [status EXCEPT !.error = TRUE]
  /\ UNCHANGED <<source, head, barrier, writer, running, used, offsite, drive, commits, versions,
                 mishaps>>

\* runRestoreDrill: an explicit rehearsal in a child process; its receipt
\* names the artifact it rehearsed.
runRestoreDrill ==
  /\ running /\ status.last \in artifacts /\ status.drill # status.last
  /\ status' = [status EXCEPT !.drill = status.last]
  /\ UNCHANGED <<source, head, barrier, writer, running, run, artifacts, used, offsite, drive,
                 commits, versions, mishaps>>

\* recover, from the command line: an off-site object whose local artifact is
\* gone is downloaded, verified and published by rename.
recover(a) ==
  /\ a \in offsite /\ \A b \in artifacts : b.name # a.name
  /\ verifyBackupArtifact(a) /\ artifacts' = artifacts \cup {a}
  /\ UNCHANGED <<source, head, barrier, writer, running, run, used, offsite, drive, status,
                 commits, versions, mishaps>>

\* Two intervals pass without a new proof.
proofsAge ==
  /\ status.fresh /\ run.at = "idle" /\ status' = [status EXCEPT !.fresh = FALSE]
  /\ UNCHANGED <<source, head, barrier, writer, running, run, artifacts, used, offsite, drive,
                 commits, versions, mishaps>>

\* The process dies: its lock file, half-written artifacts and uploads stay
\* where they are, its status is gone.
dies ==
  /\ running /\ Mishap /\ running' = FALSE
  /\ writer' = [w \in Writers |-> IdleWriter] /\ run' = IdleRun
  /\ status' = [last |-> NoArtifact, error |-> FALSE, offsite |-> NoArtifact, drill |-> NoArtifact,
                mirror |-> NoArtifact, mirrorError |-> FALSE, fresh |-> FALSE]
  /\ UNCHANGED <<source, head, barrier, artifacts, used, offsite, drive, commits, versions>>

\* hasFreshOffsiteProof, hasFreshDriveMirrorProof and getStatus, with both
\* copies required.
hasFreshOffsiteProof ==
  status.offsite.name > 0 /\ status.offsite = status.last /\ status.fresh
  /\ (~status.error \/ status.mirrorError)

hasFreshDriveMirrorProof ==
  status.mirror.name > 0 /\ ~status.mirrorError /\ status.mirror = status.last /\ status.fresh

getStatus ==
  status.last.name > 0 /\ ~status.error /\ status.fresh /\ hasFreshOffsiteProof
  /\ hasFreshDriveMirrorProof

Next ==
  \/ initializeConfigurationGeneration \/ reenrollConfigurationGeneration
  \/ retireConfigurationGeneration \/ offlineRecovery
  \/ \E w \in Writers : (\E m \in Members : prepareWriter(w, m)) \/ writeFile(w)
                        \/ withManagedConfigurationWrite(w)
  \/ \E m \in Members : editByHand(m)
  \/ \E n \in 1..MaxNames : runNow(n)
  \/ backupDatabase \/ snapshotPinnedDatabase \/ createBackupArtifact \/ storeObject
  \/ replicate \/ createFile \/ recordDriveMirrorEvidence \/ finishRun \/ failRun
  \/ runRestoreDrill \/ (\E a \in offsite : recover(a)) \/ proofsAge \/ dies

Spec == Init /\ [][Next]_backupVars

-----------------------------------------------------------------------------
\* Every store is where the code can put it: a lock held by a writer or a run
\* that is busy or dead, at most one artifact per name.
TypeOK ==
  /\ source \in [Members -> 0..MaxVersions] /\ barrier \in {"free", "backup"} \cup Writers
  /\ \A a, b \in artifacts : a.name = b.name => a = b
  /\ running /\ barrier \in Writers => writer[barrier].at # "idle"

\* A generation number of a store names one configuration, and a published
\* artifact holds the configuration of the generation that was the committed
\* one while its database was copied: no managed write slips between the two
\* halves of a backup (withPinnedConfigurationGeneration, commitGeneration).
ArtifactsAreCoherent ==
  /\ \A g, h \in commits : g.store = h.store /\ g.gen = h.gen => g = h
  /\ \A a \in artifacts : a.head = a.during /\ a.head \in commits

\* When the dashboard calls backups healthy, the newest backup is on disk and
\* free of defects, and both remote copies are that very artifact: neither
\* retention under a clock that stepped back nor a transfer that lost bytes
\* leaves a proof of something that is not there (getStatus,
\* pruneBackupArtifacts, replicate).
HealthyIsRecoverable ==
  getStatus /\ run.at = "idle" =>
    /\ status.last \in artifacts \cap offsite \cap drive
    /\ verifyBackupArtifact(status.last)
=============================================================================
