----------------------------- MODULE MCPlatform -----------------------------
(***************************************************************************)
(* What keeps the process and its data in order, one component after the   *)
(* other: the process itself, schema upgrades, the audit trail, backup,    *)
(* restore, settings and secrets, retention, the dashboard and the agents. *)
(* part says which component a behaviour is about.                         *)
(***************************************************************************)
EXTENDS SchemaMigration

CONSTANTS Parts, Instance, MaximumCrashes, MaxDeaths, MaxJobs, MaxRecords,
    MaxDiskFaults, MaxTrailDeaths, MaxTimeouts, MaxResets, Writers, MaxVersions,
    MaxNames, Retain, MaxStores, MaxMishaps, MaxFailures, Updates, Immutable, Removable,
    Required, MayBeOutside, Patches, MaxUpdates, MaxSettingsMishaps, MaxStarts, Signals,
    Batch, MaxBatches, MaxLoose, Slots, MaxRequests, MaxOutside, MaxPreviews, Item,
    Calls, Permissions, MaxAdmin, MaxWorkFailures, MaxWorkDeaths

VARIABLES
    part,
    lockFile, activeMarker, counter, recent, blockFile, sharedMarker, streak, me, died,
    jobs,
    file, sequence, previousHash, step, replay, serving, late, puts, archive, acked,
    ids, trouble,
    source, head, barrier, writer, backingUp, run, artifacts, used, offsite, drive,
    status, commits, versions, mishaps,
    target, preserved, temporary, original, member, progress, at, todo, outcome, lease,
    failures,
    secretFile, journal, secretOf, secretSource, up, writing, settingsFile, settings,
    running, updateCount, settingsMishaps, starts, abandoned,
    signal, intent, evidence, events, fallback, signalRun, task, loose, oldSignals, log, cut,
    pruning, latest, report,
    req, mutationInProgress, transaction, world, previews, authority, recovery, sent,
    outside, imported,
    mode, agent, call, proposals, order, review, bridge, recovered, blocked, executed,
    spent

Process == INSTANCE Lifecycle
Trail == INSTANCE AuditTrail WITH MaxDeaths <- MaxTrailDeaths
Saved == INSTANCE Backup WITH running <- backingUp
Restored == INSTANCE Restore
Stored == INSTANCE Settings WITH source <- secretSource, mishaps <- settingsMishaps,
    MaxMishaps <- MaxSettingsMishaps

Pruned == INSTANCE Retention WITH running <- pruning
Web == INSTANCE Dashboard WITH applied <- imported
Agents == INSTANCE McpWork WITH work <- proposals, MaxDeaths <- MaxWorkDeaths,
    MaxFailures <- MaxWorkFailures

(* Settings a request may carry and the secrets two of them need.          *)
MCPatches ==
    {[drive |-> "required"], [offsite |-> TRUE], [offsite |-> FALSE], [localTrust |-> TRUE],
     [drive |-> "off"], [auth |-> "tailscale", proxy |-> TRUE, localTrust |-> FALSE],
     [enterprise |-> TRUE, auth |-> "oidc", oidc |-> TRUE, localTrust |-> FALSE,
      audit |-> TRUE, offsite |-> TRUE]}

MCRequired == [enterprise |-> {"e"}, drive |-> {"t"}]

-----------------------------------------------------------------------------
\* The variables of a component that is not explored.
Unused == "unused"

lifecycleVars == <<lockFile, activeMarker, counter, recent, blockFile, sharedMarker,
    streak, me, died, jobs>>

auditVars == <<file, sequence, previousHash, step, replay, serving, late, puts, archive,
    acked, ids, trouble>>

backupVars == <<source, head, barrier, writer, backingUp, run, artifacts, used, offsite,
    drive, status, commits, versions, mishaps>>

restoreVars == <<target, preserved, temporary, original, member, progress, at, todo,
    outcome, lease, failures>>

settingsVars == <<secretFile, journal, secretOf, secretSource, up, writing,
    settingsFile, settings, running, updateCount, settingsMishaps, starts, abandoned>>

retentionVars == <<signal, intent, evidence, events, fallback, signalRun, task, loose,
    oldSignals, log, cut, pruning, latest, report>>

dashboardVars == <<req, mutationInProgress, transaction, world, previews, authority,
    recovery, sent, outside, imported>>

agentsVars == <<mode, agent, call, proposals, order, review, bridge, recovered, blocked,
    executed, spent>>

PlatformInit ==
    /\ part \in Parts
    /\ IF part = "schema" THEN Init
       ELSE schema = Unused /\ applied = Unused /\ work = Unused /\
            foreignKeys = Unused /\ process = Unused /\ existed = Unused /\
            snapshot = Unused /\ duplicates = Unused /\ opens = Unused
    /\ IF part = "lifecycle" THEN Process!Init
       ELSE lockFile = Unused /\ activeMarker = Unused /\ counter = Unused /\
            recent = Unused /\ blockFile = Unused /\ sharedMarker = Unused /\
            streak = Unused /\ me = Unused /\ died = Unused /\ jobs = Unused
    /\ IF part = "audit" THEN Trail!Init
       ELSE file = Unused /\ sequence = Unused /\ previousHash = Unused /\
            step = Unused /\ replay = Unused /\ serving = Unused /\ late = Unused /\
            puts = Unused /\ archive = Unused /\ acked = Unused /\ ids = Unused /\
            trouble = Unused
    /\ IF part = "backup" THEN Saved!Init
       ELSE source = Unused /\ head = Unused /\ barrier = Unused /\ writer = Unused /\
            backingUp = Unused /\ run = Unused /\ artifacts = Unused /\ used = Unused /\
            offsite = Unused /\ drive = Unused /\ status = Unused /\ commits = Unused /\
            versions = Unused /\ mishaps = Unused
    /\ IF part = "restore" THEN Restored!Init
       ELSE target = Unused /\ preserved = Unused /\ temporary = Unused /\
            original = Unused /\ member = Unused /\ progress = Unused /\ at = Unused /\
            todo = Unused /\ outcome = Unused /\ lease = Unused /\ failures = Unused
    /\ IF part = "settings" THEN Stored!Init
       ELSE secretFile = Unused /\ journal = Unused /\ secretOf = Unused /\
            secretSource = Unused /\ up = Unused /\ writing = Unused /\
            settingsFile = Unused /\ settings = Unused /\ running = Unused /\
            updateCount = Unused /\ settingsMishaps = Unused /\ starts = Unused /\
            abandoned = Unused
    /\ IF part = "retention" THEN Pruned!InitRetention
       ELSE signal = Unused /\ intent = Unused /\ evidence = Unused /\ events = Unused /\
            fallback = Unused /\ signalRun = Unused /\ task = Unused /\ loose = Unused /\
            oldSignals = Unused /\ log = Unused /\ cut = Unused /\ pruning = Unused /\
            latest = Unused /\ report = Unused
    /\ IF part = "dashboard" THEN Web!Init
       ELSE req = Unused /\ mutationInProgress = Unused /\ transaction = Unused /\
            world = Unused /\ previews = Unused /\ authority = Unused /\
            recovery = Unused /\ sent = Unused /\ outside = Unused /\ imported = Unused
    /\ IF part = "agents" THEN Agents!Init
       ELSE mode = Unused /\ agent = Unused /\ call = Unused /\ proposals = Unused /\
            order = Unused /\ review = Unused /\ bridge = Unused /\ recovered = Unused /\
            blocked = Unused /\ executed = Unused /\ spent = Unused

(* Of the mode changes, failures and deaths around the agents' work, at    *)
(* most two happen in one behaviour.                                       *)
EventsBounded == spent'.admin + spent'.failures + spent'.deaths <= 2

(* The tables without references are cleaned before the first signal       *)
(* arrives: their rows only ever add to a batch.                           *)
LooseRowsComeFirst ==
    /\ loose' > loose => signal[1] = "absent"
    /\ signal'[1] # signal[1] => loose = 0

PlatformNext ==
    \/ /\ part = "schema" /\ Next
       /\ UNCHANGED <<part, lifecycleVars, auditVars, backupVars, restoreVars,
                      settingsVars, retentionVars, dashboardVars, agentsVars>>
    \/ /\ part = "lifecycle" /\ Process!Next
       /\ UNCHANGED <<part, schemaVars, auditVars, backupVars, restoreVars,
                      settingsVars, retentionVars, dashboardVars, agentsVars>>
    \/ /\ part = "audit" /\ Trail!Next
       /\ UNCHANGED <<part, schemaVars, lifecycleVars, backupVars, restoreVars,
                      settingsVars, retentionVars, dashboardVars, agentsVars>>
    \/ /\ part = "backup" /\ Saved!Next
       /\ UNCHANGED <<part, schemaVars, lifecycleVars, auditVars, restoreVars,
                      settingsVars, retentionVars, dashboardVars, agentsVars>>
    \/ /\ part = "restore" /\ Restored!Next
       /\ UNCHANGED <<part, schemaVars, lifecycleVars, auditVars, backupVars,
                      settingsVars, retentionVars, dashboardVars, agentsVars>>
    \/ /\ part = "settings" /\ Stored!Next
       /\ UNCHANGED <<part, schemaVars, lifecycleVars, auditVars, backupVars,
                      restoreVars, retentionVars, dashboardVars, agentsVars>>
    \/ /\ part = "retention" /\ Pruned!RetentionNext /\ LooseRowsComeFirst
       /\ UNCHANGED <<part, schemaVars, lifecycleVars, auditVars, backupVars,
                      restoreVars, settingsVars, dashboardVars, agentsVars>>
    \/ /\ part = "dashboard" /\ Web!Next
       /\ UNCHANGED <<part, schemaVars, lifecycleVars, auditVars, backupVars,
                      restoreVars, settingsVars, retentionVars, agentsVars>>
    \/ /\ part = "agents" /\ Agents!Next /\ EventsBounded
       /\ UNCHANGED <<part, schemaVars, lifecycleVars, auditVars, backupVars,
                      restoreVars, settingsVars, retentionVars, dashboardVars>>

platformVars == <<part, schemaVars, lifecycleVars, auditVars, backupVars, restoreVars,
    settingsVars, retentionVars, dashboardVars, agentsVars>>

PlatformSpec == PlatformInit /\ [][PlatformNext]_platformVars

-----------------------------------------------------------------------------
(* One process owns the database, entries are open only with the authority *)
(* to trade and while serving, and a crash loop stops the process          *)
(* (process_lock.ts, crash_guard.ts, trading_runtime.ts).                  *)
ProcessHoldsAuthority ==
    part = "lifecycle" => /\ Process!TypeOK
                          /\ Process!OneProcessOwns
                          /\ Process!EntriesNeedAuthority
                          /\ Process!AuthorityMeansServing
                          /\ Process!CrashLoopsStop

(* The recorded migrations are the ones the tables went through, whatever  *)
(* interrupts them; an interrupted upgrade can be taken up again; nothing  *)
(* is changed before the safety copy is made (db.ts).                      *)
UpgradesAreSafe ==
    /\ [](part = "schema" => TypeOK /\ HistoryTellsTheSchema /\ UpgradeNeverStuck)
    /\ [][part = "schema" => SnapshotPrecedesChange]_platformVars

(* What was acknowledged as archived is in the archive, the archive is one *)
(* chain, and the local file verifies (audit_trail.ts,                     *)
(* services/b2-audit-receiver/b2-store.mjs).                               *)
AuditIsAChain ==
    part = "audit" => /\ Trail!TypeOK
                      /\ Trail!ArchiveIsAChain
                      /\ Trail!AcknowledgedIsArchived
                      /\ Trail!LocalChainVerifies

(* A backup is one state of all its members and a healthy backup can be    *)
(* restored; a restore happens as a whole or not at all and destroys       *)
(* nothing; an interrupted update of the secrets is completed, and a       *)
(* recovery start opens nothing (backup.ts, backup_generation.ts,          *)
(* secret_store.ts, runtime_settings.ts).                                  *)
RecoveryIsWhole ==
    /\ part = "backup" => /\ Saved!TypeOK
                          /\ Saved!ArtifactsAreCoherent
                          /\ Saved!HealthyIsRecoverable
    /\ part = "restore" => /\ Restored!TypeOK
                           /\ Restored!RestoreIsAllOrNothing
                           /\ Restored!NothingIsDestroyed
    /\ part = "settings" => /\ Stored!TypeOK
                            /\ Stored!UpdatesAreWhole
                            /\ Stored!RecoveryStaysClosed

(* A retention batch never deletes a row that a trade, a delivery or a     *)
(* fallback still needs, and never half of what belongs together: only an  *)
(* execution event of an intent makes a foreign key roll it back (db.ts,   *)
(* retention.ts).                                                          *)
PruningIsSafe ==
    part = "retention" => /\ Pruned!TypeOK
                          /\ Pruned!OnlyEventsRefuse
                          /\ Pruned!OwedRowsStay

(* A change the dashboard acknowledged is in the audit trail, the setup    *)
(* that is replaced is the one that was reviewed and is replaced whole     *)
(* unless the process dies or the rollback fails, a mirror has its token,  *)
(* and a session of an older administrator token authorises nothing        *)
(* (web_server.ts, dashboard_auth.ts, setup_bundle.ts).                    *)
ChangesAreAccountable ==
    /\ [](part = "dashboard" => /\ Web!TypeOK
                                /\ Web!AcknowledgedChangesAreAudited
                                /\ Web!SetupReplacedAsReviewed
                                /\ Web!MirrorHasItsToken)
    /\ [][part = "dashboard" => Web!OldSessionsAuthoriseNothing]_platformVars

(* An agent's action runs once, with the permission and the approval it    *)
(* needs at that moment, and an agent switched off has nothing left to run *)
(* (mcp_repository.ts, mcp_control_bridge.ts).                             *)
AgentsActAsAllowed ==
    part = "agents" => /\ Agents!TypeOK
                       /\ Agents!ActionsAreAuthorised
                       /\ Agents!DisabledIsDrained
=============================================================================
