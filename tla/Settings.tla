------------------------------ MODULE Settings ------------------------------
(***************************************************************************)
(* The settings a process starts from: the managed secret files with their *)
(* transaction journal (secret_store.ts), the managed runtime settings     *)
(* (runtime_settings.ts), and the recovery mode that a damaged file leads  *)
(* to (forwarder.ts, run).  Every file is replaced by renaming a synced    *)
(* temporary file, so a write has three outcomes: it succeeded, it failed  *)
(* and changed nothing, or it failed after the rename.  The process may    *)
(* die between any two file operations; files may be damaged while it is   *)
(* down; and the environment decides at every start which secrets are      *)
(* supplied from outside.                                                  *)
(*                                                                         *)
(* The value of a secret is the number of the update it came from, 0 when  *)
(* there is none and Bad when the file is damaged.                         *)
(***************************************************************************)
EXTENDS Naturals, FiniteSets

CONSTANTS Updates,      \* the sets of secrets the dashboard writes together
          Immutable,    \* backupEncryptionKey
          Removable,    \* the dashboard tokens that can be removed
          Required,     \* the secrets enterprise mode and the Drive mirror need
          MayBeOutside, \* secrets the environment may supply
          Patches,      \* partial runtime settings the dashboard sends
          MaxUpdates, MaxMishaps, MaxStarts

VARIABLES secretFile,  \* the secret files
          journal,     \* .managed-secret-transaction.json
          secretOf,    \* the values in the environment of the process
          source,      \* missing, managed or external
          up,          \* down, serving or recovery
          writing,     \* the update or reset under way
          settingsFile, settings, running,  \* stored, in memory, applied at startup
          updateCount, mishaps, starts,
          abandoned    \* updates whose journal was damaged or replaced by a later update's

settingsVars == <<secretFile, journal, secretOf, source, up, writing, settingsFile, settings,
                  running, updateCount, mishaps, starts, abandoned>>

Name == UNION Updates \cup Immutable \cup Removable \cup MayBeOutside
Bad == 100
NoJournal == [update |-> 0, names |-> {}]
Nothing == [kind |-> "none", names |-> {}, left |-> {}]
DEFAULT_RUNTIME_SETTINGS ==
    [valid |-> TRUE, enterprise |-> FALSE, auth |-> "token", localTrust |-> TRUE, proxy |-> FALSE,
     oidc |-> FALSE, audit |-> FALSE, offsite |-> FALSE, drive |-> "off"]

SAFE_RECOVERY_RUNTIME_SETTINGS == [DEFAULT_RUNTIME_SETTINGS EXCEPT !.localTrust = FALSE]

secretVars == <<secretFile, journal, secretOf, source>>
storedVars == <<settingsFile, settings, running>>
Mishap == mishaps < MaxMishaps /\ mishaps' = mishaps + 1
Idle == writing = Nothing

-----------------------------------------------------------------------------
(* Writing secrets.                                                        *)

(* A write is identified by its number.  Submitting an immutable secret    *)
(* again with its very value is allowed and writes the same bytes: no step.*)
setAtomically(names) ==
    /\ up # "down" /\ Idle
    /\ updateCount < MaxUpdates
    /\ \A n \in names : source[n] # "external" /\ ~ (n \in Immutable /\ source[n] = "managed")
    /\ updateCount' = updateCount + 1
    /\ writing' = [kind |-> "journal", names |-> names, left |-> names]
    /\ UNCHANGED <<secretVars, storedVars, up, mishaps, starts, abandoned>>

writeJournal ==
    /\ writing.kind = "journal"
    /\ \/ writing' = [writing EXCEPT !.kind = "members"] /\ UNCHANGED mishaps
       \/ writing' = Nothing /\ Mishap
    /\ \/ journal' = [update |-> updateCount, names |-> writing.names]
       \/ UNCHANGED journal /\ writing' = Nothing
    /\ abandoned' = IF journal' # journal /\ journal # NoJournal THEN abandoned \cup {journal.update} ELSE abandoned
    /\ UNCHANGED <<secretFile, secretOf, source, storedVars, up, updateCount, starts>>

writeSecretFile(n) ==
    /\ writing.kind = "members" /\ n \in writing.left
    /\ \/ /\ writing' = [writing EXCEPT !.left = @ \ {n}]
          /\ secretFile' = [secretFile EXCEPT ![n] = updateCount]
          /\ UNCHANGED mishaps
       \/ /\ Mishap
          /\ writing' = Nothing
          /\ secretFile' \in {secretFile, [secretFile EXCEPT ![n] = updateCount]}
    /\ UNCHANGED <<journal, secretOf, source, storedVars, up, updateCount, starts, abandoned>>

(* The journal is unlinked, and only then do the values take effect.       *)
finishTransaction ==
    /\ writing.kind = "members" /\ writing.left = {}
    /\ writing' = Nothing
    /\ \/ /\ journal' = NoJournal
          /\ secretOf' = [n \in Name |-> IF n \in writing.names THEN updateCount ELSE secretOf[n]]
          /\ source' = [n \in Name |-> IF n \in writing.names THEN "managed" ELSE source[n]]
          /\ UNCHANGED mishaps
       \/ /\ Mishap
          /\ journal' \in {journal, NoJournal}
          /\ UNCHANGED <<secretOf, source>>
    /\ UNCHANGED <<secretFile, storedVars, up, updateCount, starts, abandoned>>

Removed(n) ==
    /\ secretFile' = [secretFile EXCEPT ![n] = 0]
    /\ secretOf' = [secretOf EXCEPT ![n] = 0]
    /\ source' = [source EXCEPT ![n] = "missing"]

remove(n) ==
    /\ up # "down" /\ Idle
    /\ source[n] # "external" /\ secretFile[n] # 0
    /\ Removed(n)
    /\ UNCHANGED <<journal, writing, storedVars, up, updateCount, mishaps, starts, abandoned>>

(* The factory reset removes each secret, then the runtime settings are    *)
(* reset and the secret directory is emptied, the journal with it.         *)
clear ==
    /\ up # "down" /\ Idle
    /\ \A n \in Name : source[n] # "external"
    /\ writing' = [kind |-> "clear", names |-> {}, left |-> {n \in Name : secretFile[n] # 0}]
    /\ UNCHANGED <<secretVars, storedVars, up, updateCount, mishaps, starts, abandoned>>

clearNext ==
    /\ writing.kind = "clear"
    /\ IF writing.left # {}
       THEN /\ \E n \in writing.left : Removed(n) /\ writing' = [writing EXCEPT !.left = @ \ {n}]
            /\ UNCHANGED <<journal, settingsFile, settings>>
       ELSE /\ settingsFile' = DEFAULT_RUNTIME_SETTINGS /\ settings' = DEFAULT_RUNTIME_SETTINGS
            /\ journal' = NoJournal
            /\ writing' = Nothing
            /\ UNCHANGED <<secretFile, secretOf, source>>
    /\ UNCHANGED <<running, up, updateCount, mishaps, starts, abandoned>>

-----------------------------------------------------------------------------
(* Runtime settings: a partial payload is merged into the settings in      *)
(* memory, the whole is validated and written, and memory follows the file.*)

(* Enterprise mode comes only with everything it relies on.                *)
validateEnterpriseProfile(c) ==
    c.enterprise => c.auth = "oidc" /\ ~ c.localTrust /\ c.audit /\ c.offsite

validateTailscaleProfile(c) == c.auth = "tailscale" => c.proxy /\ ~ c.localTrust

(* `oidc': issuer, audience and keys are given.                            *)
validatedOidcSettings(c) == c.enterprise \/ c.auth = "oidc" => c.oidc

validatedDriveFolderId(c) == c.drive = "required" => c.enterprise \/ c.offsite

validateRuntimeSettings(c) ==
    /\ validateEnterpriseProfile(c) /\ validateTailscaleProfile(c)
    /\ validatedOidcSettings(c) /\ validatedDriveFolderId(c)

Merged(patch) == [k \in DOMAIN settings |-> IF k \in DOMAIN patch THEN patch[k] ELSE settings[k]]

writeSettings(candidate) ==
    \/ settingsFile' = candidate /\ settings' = candidate /\ UNCHANGED mishaps
    \/ Mishap /\ settingsFile' \in {settingsFile, candidate} /\ UNCHANGED settings

assertRuntimeIntegrationSecrets(patch) ==
    /\ "enterprise" \in DOMAIN patch /\ patch.enterprise => \A n \in Required.enterprise : source[n] # "missing"
    /\ "drive" \in DOMAIN patch /\ patch.drive # "off" => \A n \in Required.drive : source[n] # "missing"

setRuntimeSettings(patch) ==
    /\ up # "down" /\ Idle
    /\ updateCount < MaxUpdates
    /\ updateCount' = updateCount + 1
    /\ assertRuntimeIntegrationSecrets(patch)
    /\ validateRuntimeSettings(Merged(patch))
    /\ writeSettings(Merged(patch))
    /\ UNCHANGED <<secretVars, running, up, writing, starts, abandoned>>

-----------------------------------------------------------------------------
(* A start.                                                                *)

(* Each member of the journal is written again and the journal unlinked;   *)
(* a damaged journal, or one with a secret that now comes from outside,    *)
(* stays where it is.                                                      *)
recoverPendingTransaction(outside) ==
    LET replayed == [n \in Name |-> IF n \in journal.names THEN journal.update ELSE secretFile[n]]
    IN  IF journal.update = Bad \/ journal.names \cap outside # {}
        THEN /\ journal' = journal
             /\ \E some \in SUBSET (journal.names \ outside) :
                   secretFile' = [n \in Name |-> IF n \in some THEN journal.update ELSE secretFile[n]]
        ELSE journal' = NoJournal /\ secretFile' = replayed

LoadedSource(n, outside) ==
    IF n \in outside THEN "external" ELSE IF secretFile'[n] \in {0, Bad} THEN "missing" ELSE "managed"

initializeRuntimeSettings ==
    settings' = IF ~ settingsFile.valid THEN SAFE_RECOVERY_RUNTIME_SETTINGS ELSE settingsFile

applyToEnvironment == running' = settings'

startupReads(outside) ==
    /\ up = "down"
    /\ starts < MaxStarts /\ starts' = starts + 1
    /\ initializeRuntimeSettings /\ applyToEnvironment
    /\ recoverPendingTransaction(outside)
    /\ source' = [n \in Name |-> LoadedSource(n, outside)]
    /\ secretOf' = [n \in Name |-> IF source'[n] = "managed" THEN secretFile'[n] ELSE 0]
    /\ up' = IF \/ ~ settingsFile.valid
                \/ journal' # NoJournal
                \/ \E n \in Name \ outside : secretFile'[n] = Bad
             THEN "recovery" ELSE "serving"
    /\ UNCHANGED <<writing, settingsFile, updateCount, mishaps, abandoned>>

stops ==
    /\ up # "down"
    /\ up' = "down" /\ writing' = Nothing
    /\ secretOf' = [n \in Name |-> 0]
    /\ source' = [n \in Name |-> "missing"]
    /\ UNCHANGED <<secretFile, journal, storedVars, updateCount, mishaps, starts, abandoned>>

damage ==
    /\ up = "down"
    /\ Mishap
    /\ \/ /\ \E n \in Name : secretFile[n] # 0 /\ secretFile' = [secretFile EXCEPT ![n] = Bad]
          /\ UNCHANGED <<journal, settingsFile, abandoned>>
       \/ /\ journal # NoJournal /\ journal' = [update |-> Bad, names |-> {}]
          /\ abandoned' = abandoned \cup {journal.update}
          /\ UNCHANGED <<secretFile, settingsFile>>
       \/ /\ settingsFile' = [settingsFile EXCEPT !.valid = FALSE]
          /\ UNCHANGED <<secretFile, journal, abandoned>>
    /\ UNCHANGED <<secretOf, source, settings, running, up, writing, updateCount, starts>>

-----------------------------------------------------------------------------
Init ==
    /\ secretFile = [n \in Name |-> 0]
    /\ journal = NoJournal
    /\ secretOf = [n \in Name |-> 0]
    /\ source = [n \in Name |-> "missing"]
    /\ up = "down" /\ writing = Nothing
    /\ settingsFile = DEFAULT_RUNTIME_SETTINGS
    /\ settings = DEFAULT_RUNTIME_SETTINGS
    /\ running = DEFAULT_RUNTIME_SETTINGS
    /\ updateCount = 0 /\ mishaps = 0 /\ starts = 0
    /\ abandoned = {}

Next ==
    \/ \E names \in Updates : setAtomically(names)
    \/ writeJournal \/ finishTransaction
    \/ \E n \in Name : writeSecretFile(n)
    \/ \E n \in Removable : remove(n)
    \/ clear \/ clearNext
    \/ \E patch \in Patches : setRuntimeSettings(patch)
    \/ \E outside \in SUBSET MayBeOutside : startupReads(outside)
    \/ stops \/ damage

Spec == Init /\ [][Next]_settingsVars

-----------------------------------------------------------------------------
TypeOK ==
    /\ secretFile \in [Name -> 0 .. MaxUpdates \cup {Bad}]
    /\ secretOf \in [Name -> 0 .. MaxUpdates \cup {Bad}]
    /\ source \in [Name -> {"missing", "managed", "external"}]
    /\ up \in {"down", "serving", "recovery"}

(* An update of several secrets is whole: while the service runs and       *)
(* writes none, two secrets that are only ever written together hold       *)
(* values of the same update, in the files and in the environment, unless  *)
(* one was removed or damaged, a journal still waits for the next start,   *)
(* or the journal was damaged or replaced by a later one (`abandoned').    *)
Together(n, m) == \A u \in Updates : n \in u <=> m \in u
UpdatesAreWhole ==
    up # "down" /\ Idle /\ journal = NoJournal =>
        \A n, m \in Name : Together(n, m) =>
            /\ {secretFile[n], secretFile[m]} \cap ({0, Bad} \cup abandoned) = {} => secretFile[n] = secretFile[m]
            /\ {secretOf[n], secretOf[m]} \cap ({0, Bad} \cup abandoned) = {} => secretOf[n] = secretOf[m]

(* Recovery stays closed: a process that started on a damaged file does    *)
(* not serve, whatever is repaired meanwhile, and a damaged settings file  *)
(* never brings back the local trust an operator may have switched off.    *)
(* And no sequence of partial changes, failed writes, resets and restarts  *)
(* puts the process into a profile without what the profile relies on.     *)
RecoveryStaysClosed ==
    /\ up = "serving" => \A n \in Name : source[n] = "managed" => secretOf[n] # Bad
    /\ up # "down" /\ ~ settingsFile.valid => up = "recovery" /\ ~ running.localTrust
    /\ \A c \in {running, settings} : c.enterprise => c.auth = "oidc" /\ c.oidc /\ ~ c.localTrust /\ c.audit /\ c.offsite
    /\ running.auth = "tailscale" => ~ running.localTrust
    /\ running.drive = "required" => running.offsite
=============================================================================
