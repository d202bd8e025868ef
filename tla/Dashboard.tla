----------------------------- MODULE Dashboard -----------------------------
(***************************************************************************)
(* The HTTP control plane of the dashboard (web_server.ts,                 *)
(* dashboard_auth.ts): every mutation passes the same pipeline -           *)
(* authentication, the durable "authorized" audit record, the recovery and *)
(* startup gates, the one-mutation lock, its handler, and the durable      *)
(* "completed" record that holds back the answer.  A handler is the        *)
(* sequence of its awaited steps, so other requests, the audit trail and   *)
(* the rest of the service run between any two of them.                    *)
(*                                                                         *)
(* Routes whose handlers make the same steps are the same route here: a    *)
(* request carries the steps it still has to make, not its URL.            *)
(***************************************************************************)
EXTENDS Naturals, Sequences, FiniteSets

CONSTANTS Slots,         \* connections the dashboard serves at once
          MaxRequests,   \* requests sent over a behaviour
          MaxOutside,    \* changes made by others: agents, timers, holds
          MaxPreviews    \* setupBundlePreviews capacity (20 in the code)

VARIABLES req,           \* what each connection is doing
          mutationInProgress, \* the slot whose handler holds the lock
          transaction,   \* the slot whose database transaction is open
          world,         \* the state the handlers change
          previews,      \* setupBundlePreviews
          authority,     \* StartupAuthority.canMutate()
          recovery,      \* appState.recovery.active, for the whole process
          sent, outside, \* requests sent, outside changes made
          applied        \* what the last setup replacement replaced

web == <<req, mutationInProgress, transaction, world, previews, authority,
         recovery, sent, outside, applied>>

Nobody == 0

Slot == 1..Slots

-----------------------------------------------------------------------------
(* Handlers: the awaited steps each makes, in order. *)

Handler(steps) == [steps |-> steps, confirm |-> FALSE, repair |-> FALSE, lookup |-> FALSE, restart |-> FALSE]
Confirmed(steps) == [Handler(steps) EXCEPT !.confirm = TRUE]

postSecretsHandler == [Handler(<<"body", "secrets">>) EXCEPT !.repair = TRUE]
deleteBackupDriveAccessTokenHandler == Confirmed(<<"disableMirror", "removeDriveToken">>)
retryOutboxHandler == Confirmed(<<"body", "change">>)
acknowledgeOutboxHandler == Confirmed(<<"body", "change">>)
deleteIncomingHandler == Confirmed(<<"change">>)
deleteSignalHandler == Confirmed(<<"change">>)
controlHandler == Handler(<<"body", "control">>)
postTelegramLoginHandler == Handler(<<"body", "change">>)
postConfigHandler == [Handler(<<"body", "compareConfig">>) EXCEPT !.repair = TRUE]
importHandler == Handler(<<"body", "config">>)
previewSetupBundleHandler == Handler(<<"capacity", "body", "preview">>)
applySetupBundleHandler ==
  Handler(<<"body", "consume", "assertPreviewCurrent", "backup", "import", "commit">>)

factoryResetHandler == [Confirmed(<<"body", "restartCommand">>) EXCEPT !.lookup = TRUE]
accessTokenHandler == Handler(<<"body", "rotate", "revoke">>)
disableViewerTokenHandler == Confirmed(<<"change">>)
runBackupHandler == Handler(<<"backup">>)
replayAuditHandler == Confirmed(<<"change">>)
postRuntimeSettingsHandler == [Handler(<<"body", "settings", "revokeUntrusted">>) EXCEPT !.repair = TRUE]
restartHandler == [Confirmed(<<"restartCommand">>) EXCEPT !.restart = TRUE]
recoverOffsiteBackupHandler == Confirmed(<<"body", "change">>)
restoreBackupHandler == [Confirmed(<<"body", "restartCommand">>) EXCEPT !.lookup = TRUE]
clearDatabaseHandler == Confirmed(<<"body", "stopRouting", "clearDb">>)
tradingMutation == Handler(<<"body", "library">>)
confirmedTradingMutation == Confirmed(<<"body", "library">>)
uiWorkflowModelsHandler == Confirmed(<<"body", "library">>)
saveWorkflowHandler == Handler(<<"body", "library">>)
applyWorkflowHistoryHandler == Handler(<<"body", "library">>)
resetWorkflowHistoryHandler == Confirmed(<<"body", "change">>)
createWorkflowResourceHandler == Handler(<<"body", "library">>)
updateWorkflowResourceHandler == Handler(<<"body", "library">>)
publishWorkflowResourceHandler == Handler(<<"body", "library">>)
deleteWorkflowResourceHandler == Confirmed(<<"body", "library">>)
uiWorkflowDraftHandler == Handler(<<"body", "change">>)
uiAdaptiveRiskHandler == Confirmed(<<"body", "library">>)
uiParserLabHandler == Confirmed(<<"body", "change">>)
uiBackupDrillHandler == Confirmed(<<"body", "change">>)
updateMcpRuntimeHandler == Confirmed(<<"body", "change">>)
createMcpAgentHandler == Handler(<<"body", "change">>)
updateMcpAgentHandler == Handler(<<"body", "change">>)
rotateMcpAgentTokenHandler == Confirmed(<<"body", "change">>)
deleteMcpAgentHandler == Confirmed(<<"body", "change">>)
approveMcpProposalHandler == Confirmed(<<"body", "library">>)
rejectMcpProposalHandler == Handler(<<"body", "change">>)
updateTelegramViewerSettingsHandler == Handler(<<"body", "change">>)
updateTelegramViewerTokenHandler == Handler(<<"body", "change">>)
deleteTelegramViewerTokenHandler == Handler(<<"change">>)
rotateTelegramViewerServiceTokenHandler == Handler(<<"change">>)
createTelegramViewerTestHandler == Handler(<<"body", "change">>)

API_ROUTES ==
  { postSecretsHandler, deleteBackupDriveAccessTokenHandler, retryOutboxHandler,
    acknowledgeOutboxHandler, deleteIncomingHandler, deleteSignalHandler, controlHandler,
    postTelegramLoginHandler, postConfigHandler, importHandler, previewSetupBundleHandler,
    applySetupBundleHandler, factoryResetHandler, accessTokenHandler,
    disableViewerTokenHandler, runBackupHandler, replayAuditHandler,
    postRuntimeSettingsHandler, restartHandler, recoverOffsiteBackupHandler,
    restoreBackupHandler, clearDatabaseHandler, tradingMutation, confirmedTradingMutation,
    uiWorkflowModelsHandler, saveWorkflowHandler, applyWorkflowHistoryHandler,
    resetWorkflowHistoryHandler, createWorkflowResourceHandler, updateWorkflowResourceHandler,
    publishWorkflowResourceHandler, deleteWorkflowResourceHandler, uiWorkflowDraftHandler,
    uiAdaptiveRiskHandler, uiParserLabHandler, uiBackupDrillHandler, updateMcpRuntimeHandler,
    createMcpAgentHandler, updateMcpAgentHandler, rotateMcpAgentTokenHandler,
    deleteMcpAgentHandler, approveMcpProposalHandler, rejectMcpProposalHandler,
    updateTelegramViewerSettingsHandler, updateTelegramViewerTokenHandler,
    deleteTelegramViewerTokenHandler, rotateTelegramViewerServiceTokenHandler,
    createTelegramViewerTestHandler }

\* In recovery mode the configuration, secret and settings repairs, the factory
\* reset and history reset, and the restart are served; the others answer 503.
recoveryAllowsRoute(h) ==
  h.repair \/ h \in {factoryResetHandler, resetWorkflowHistoryHandler, restartHandler}

-----------------------------------------------------------------------------
(* State. *)

Idle == [at |-> "idle", h |-> restartHandler, n |-> 0, by |-> <<"nobody", 0>>, seen |-> 0,
         base |-> <<0, 0>>, authorised |-> FALSE, status |-> "none"]

\* excuse: what kept the configuration and the library apart, if anything did.
NoImport == [reviewed |-> <<0, 0>>, replaced |-> <<0, 0>>, torn |-> FALSE, excuse |-> "none"]

\* admin counts the administrator tokens created; 0: none is configured.
Init ==
  /\ req = [s \in Slot |-> Idle]
  /\ mutationInProgress = Nobody /\ transaction = Nobody
  /\ recovery \in BOOLEAN
  /\ \E admin \in {0, 1} :
       world = [config |-> 1, library |-> 1, mirror |-> FALSE, driveToken |-> TRUE,
                trust |-> TRUE, admin |-> admin, sessions |-> {}, routing |-> TRUE,
                backup |-> FALSE]
  /\ previews = {} /\ authority = TRUE
  /\ sent = 0 /\ outside = 0 /\ applied = NoImport

\* uiSetupCurrentState: what a setup preview is bound to.
uiSetupCurrentState == <<world.config, world.library>>

\* The recovery process runs without an audit trail; its repairs are served
\* unaudited.
hasAuditTrail == ~recovery

-----------------------------------------------------------------------------
(* Arrival: public endpoints, authentication, authorisation record. *)

\* Connections are interchangeable: a request takes the first free one.
FirstIdle(s) == req[s].at = "idle" /\ \A t \in Slot : t < s => req[t].at # "idle"
Arrives(s) == FirstIdle(s) /\ sent < MaxRequests /\ sent' = sent + 1

\* POST /api/bootstrap: the first administrator token.  The check that none is
\* configured is made before the proof is read and again by the secret store.
bootstrapHandler(s) ==
  /\ Arrives(s) /\ world.admin = 0
  /\ req' = [req EXCEPT ![s] = [Idle EXCEPT !.at = IF hasAuditTrail THEN "authorise" ELSE "handle",
               !.h = Handler(<<"createAdmin">>), !.by = <<"bootstrap", 0>>]]
  /\ UNCHANGED <<mutationInProgress, transaction, world, previews, authority, recovery, outside, applied>>

\* POST /api/local-session: a bearer of the administrator token gets an
\* ephemeral session bound to the digest of that token.  Without a token only
\* the recovery process serves it, and creates the token.
localSessionHandler(s) ==
  /\ FirstIdle(s) /\ UNCHANGED sent
  /\ \/ /\ world.admin > 0 /\ world.trust
        /\ world' = [world EXCEPT !.sessions = @ \cup {world.admin}]
        /\ UNCHANGED req
     \/ /\ world.admin = 0 /\ recovery
        /\ req' = [req EXCEPT ![s] = [Idle EXCEPT !.at = "handle", !.h = Handler(<<"createAdmin">>),
                                                 !.by = <<"bootstrap", 0>>]]
        /\ UNCHANGED world
  /\ UNCHANGED <<mutationInProgress, transaction, previews, authority, recovery, outside, applied>>

\* A stored local session stands for the administrator while local trust is
\* on and the token it was issued under is still the administrator token.
\* Presenting one that does not revokes them all.
authenticateLocalSession(gen) == world.trust /\ gen = world.admin

handleAuthenticatedApiRequest(s) ==
  /\ Arrives(s) /\ world.admin > 0
  /\ \E h \in API_ROUTES, by \in {"token", "session"} :
       /\ recovery => recoveryAllowsRoute(h)
       /\ by = "session" => \E gen \in world.sessions : authenticateLocalSession(gen)
       /\ req' = [req EXCEPT ![s] = [Idle EXCEPT !.at = IF hasAuditTrail THEN "authorise" ELSE "gate",
                    !.h = h, !.by = <<by, world.admin>>, !.seen = world.config]]
  /\ UNCHANGED <<mutationInProgress, transaction, world, previews, authority, recovery, outside, applied>>

presentsStaleSession(s) ==
  /\ FirstIdle(s) /\ UNCHANGED sent
  /\ \E gen \in world.sessions : ~authenticateLocalSession(gen)
  /\ world' = [world EXCEPT !.sessions = {}]
  /\ UNCHANGED <<req, mutationInProgress, transaction, previews, authority, recovery, outside, applied>>

Answered(s) == [req EXCEPT ![s] = Idle]
Answering(s, status) ==
  IF hasAuditTrail
    THEN [req EXCEPT ![s] = [Idle EXCEPT !.at = "complete", !.status = status,
                                         !.authorised = req[s].authorised]]
    ELSE Answered(s)

\* The authorized record is durable, or the mutation is blocked (503).
authorizeMutationAudit(s) ==
  /\ req[s].at = "authorise"
  /\ \/ req' = [req EXCEPT ![s].at = IF req[s].by[1] = "bootstrap" THEN "handle" ELSE "gate",
                           ![s].authorised = TRUE]
     \/ req' = Answered(s)
  /\ UNCHANGED <<mutationInProgress, transaction, world, previews, authority, recovery, sent, outside, applied>>

-----------------------------------------------------------------------------
(* The gates and the one-mutation lock. *)

assertStartupMutationAllowed(h) == authority \/ h.restart \/ (recovery /\ h.repair)

\* The destructive handlers refuse at once without their confirmation (412).
requireConfirmation(h) == h.confirm

invokeApiHandler(s) ==
  /\ req[s].at = "gate"
  /\ IF ~req[s].h.lookup /\ ~assertStartupMutationAllowed(req[s].h)
       THEN req' = Answering(s, "failed") /\ UNCHANGED mutationInProgress
     ELSE IF mutationInProgress # Nobody
       THEN req' = Answering(s, "rejected") /\ UNCHANGED mutationInProgress
     ELSE \/ req' = [req EXCEPT ![s].at = "handle"] /\ mutationInProgress' = s
          \/ requireConfirmation(req[s].h) /\ req' = Answering(s, "rejected") /\ UNCHANGED mutationInProgress
  /\ UNCHANGED <<transaction, world, previews, authority, recovery, sent, outside, applied>>

-----------------------------------------------------------------------------
(* Handler steps. Proceed makes the next await; Refuse answers an error.    *)
(* The handler's finally clause releases the lock as soon as the answer is  *)
(* handed over, before its completed record is durable.                     *)

Todo(s) == req[s].h.steps[req[s].n + 1]
Doing(s, step) == req[s].at = "handle" /\ Todo(s) = step
IsLast(s) == req[s].n + 1 = Len(req[s].h.steps)

Release(s) == mutationInProgress' = IF mutationInProgress = s THEN Nobody ELSE mutationInProgress

Proceed(s, r) ==
  IF IsLast(s)
    THEN req' = Answering(s, "succeeded") /\ Release(s)
    ELSE /\ req' = [req EXCEPT ![s] = [r EXCEPT !.n = @ + 1]]
         /\ UNCHANGED mutationInProgress

Refuse(s, status) == req' = Answering(s, status) /\ Release(s)

Same == UNCHANGED <<authority, recovery, sent, outside>>

\* The startup gate is asked again once the body has arrived.
readJsonBody(s) ==
  /\ Doing(s, "body")
  /\ IF req[s].h.lookup \/ assertStartupMutationAllowed(req[s].h)
       THEN Proceed(s, req[s]) \/ Refuse(s, "rejected")
       ELSE Refuse(s, "failed")
  /\ UNCHANGED <<transaction, world, previews, applied>> /\ Same

\* Database writes wait for an open transaction.
DatabaseFree(s) == transaction \in {Nobody, s}

\* A call into another component: its own state, or the library, accounts and
\* workflow that a setup preview is bound to.
changeElsewhere(s) ==
  /\ Doing(s, "change") /\ DatabaseFree(s)
  /\ Proceed(s, req[s]) \/ Refuse(s, "rejected")
  /\ UNCHANGED <<transaction, world, previews, applied>> /\ Same

changeLibrary(s) ==
  /\ Doing(s, "library") /\ DatabaseFree(s)
  /\ \/ Proceed(s, req[s]) /\ world' = [world EXCEPT !.library = @ + 1]
     \/ Refuse(s, "rejected") /\ UNCHANGED world
  /\ UNCHANGED <<transaction, previews, applied>> /\ Same

Control(s) ==
  /\ Doing(s, "control")
  /\ \/ Proceed(s, req[s]) /\ world' = [world EXCEPT !.routing = ~@]
     \/ Refuse(s, "rejected") /\ UNCHANGED world
  /\ UNCHANGED <<transaction, previews, applied>> /\ Same

\* Validate, persist and activate in one turn; If-Match must still name the
\* configuration (409 otherwise).
compareConfiguration(s) ==
  /\ Doing(s, "compareConfig")
  /\ IF req[s].seen = world.config
       THEN \/ Proceed(s, req[s]) /\ world' = [world EXCEPT !.config = @ + 1]
            \/ Refuse(s, "rejected") /\ UNCHANGED world
       ELSE Refuse(s, "rejected") /\ UNCHANGED world
  /\ UNCHANGED <<transaction, previews, applied>> /\ Same

applyConfiguration(s) ==
  /\ Doing(s, "config")
  /\ \/ Proceed(s, req[s]) /\ world' = [world EXCEPT !.config = @ + 1]
     \/ Refuse(s, "rejected") /\ UNCHANGED world
  /\ UNCHANGED <<transaction, previews, applied>> /\ Same

setSecrets(s) ==
  /\ Doing(s, "secrets")
  /\ \/ Proceed(s, req[s]) /\ world' = [world EXCEPT !.driveToken = TRUE]
     \/ Refuse(s, "rejected") /\ UNCHANGED world
  /\ UNCHANGED <<transaction, previews, applied>> /\ Same

\* assertRuntimeIntegrationSecrets: a Drive mirror needs its access token.
assertRuntimeIntegrationSecrets(mirror) == mirror => world.driveToken

setRuntimeSettings(s) ==
  /\ Doing(s, "settings")
  /\ \/ \E mirror, trust \in BOOLEAN :
          /\ assertRuntimeIntegrationSecrets(mirror)
          /\ Proceed(s, req[s])
          /\ world' = [world EXCEPT !.mirror = mirror, !.trust = trust]
     \/ Refuse(s, "rejected") /\ UNCHANGED world
  /\ UNCHANGED <<transaction, previews, applied>> /\ Same

revokeLocalAdminSessions(s) ==
  /\ \/ Doing(s, "revoke") /\ world' = [world EXCEPT !.sessions = {}]
     \/ /\ Doing(s, "revokeUntrusted")
        /\ world' = [world EXCEPT !.sessions = IF world.trust THEN @ ELSE {}]
  /\ Proceed(s, req[s])
  /\ UNCHANGED <<transaction, previews, applied>> /\ Same

\* The mirror is disabled before its token is removed; either may fail.
disableBackupDriveMirror(s) ==
  /\ Doing(s, "disableMirror")
  /\ \/ Proceed(s, req[s]) /\ world' = [world EXCEPT !.mirror = FALSE]
     \/ Refuse(s, "failed") /\ UNCHANGED world
  /\ UNCHANGED <<transaction, previews, applied>> /\ Same

removeBackupDriveAccessToken(s) ==
  /\ Doing(s, "removeDriveToken")
  /\ \/ Proceed(s, req[s]) /\ world' = [world EXCEPT !.driveToken = FALSE]
     \/ Refuse(s, "failed") /\ UNCHANGED world
  /\ UNCHANGED <<transaction, previews, applied>> /\ Same

rotateDashboardToken(s) ==
  /\ Doing(s, "rotate")
  /\ \/ Proceed(s, req[s]) /\ world' = [world EXCEPT !.admin = @ + 1]
     \/ Proceed(s, req[s]) /\ UNCHANGED world
     \/ Refuse(s, "rejected") /\ UNCHANGED world
  /\ UNCHANGED <<transaction, previews, applied>> /\ Same

createDashboardAdminToken(s) ==
  /\ Doing(s, "createAdmin")
  /\ IF world.admin = 0
       THEN Proceed(s, req[s]) /\ world' = [world EXCEPT !.admin = 1]
       ELSE Refuse(s, "rejected") /\ UNCHANGED world
  /\ UNCHANGED <<transaction, previews, applied>> /\ Same

\* A verified backup; its age is checked by requireCurrentVerifiedBackup.
runBackupNow(s) ==
  /\ Doing(s, "backup") /\ DatabaseFree(s)
  /\ \/ Proceed(s, req[s]) /\ world' = [world EXCEPT !.backup = TRUE]
     \/ Refuse(s, "failed") /\ UNCHANGED world
  /\ UNCHANGED <<transaction, previews, applied>> /\ Same

requireCurrentVerifiedBackup == world.backup

\* Clearing needs a current verified backup and stopped routing.
stopForwarding(s) ==
  /\ Doing(s, "stopRouting")
  /\ IF requireCurrentVerifiedBackup
       THEN \/ Proceed(s, req[s]) /\ world' = [world EXCEPT !.routing = FALSE]
            \/ Refuse(s, "rejected") /\ UNCHANGED world
       ELSE Refuse(s, "rejected") /\ UNCHANGED world
  /\ UNCHANGED <<transaction, previews, applied>> /\ Same

clearDb(s) ==
  /\ Doing(s, "clearDb") /\ DatabaseFree(s)
  /\ Proceed(s, req[s]) \/ Refuse(s, "failed")
  /\ UNCHANGED <<transaction, world, previews, applied>> /\ Same

\* A known job is replayed; a new destructive command asks the gate itself.
runRestartCommand(s) ==
  /\ Doing(s, "restartCommand")
  /\ \/ Proceed(s, req[s])
     \/ Refuse(s, "rejected")
     \/ ~assertStartupMutationAllowed(req[s].h) /\ Refuse(s, "failed")
  /\ UNCHANGED <<transaction, world, previews, applied>> /\ Same

-----------------------------------------------------------------------------
(* Setup bundles: reviewed preview, then replacement in one transaction.    *)

previewCapacity(s) ==
  /\ Doing(s, "capacity")
  /\ IF Cardinality(previews) < MaxPreviews THEN Proceed(s, req[s]) ELSE Refuse(s, "rejected")
  /\ UNCHANGED <<transaction, world, previews, applied>> /\ Same

previewSetupBundle(s) ==
  /\ Doing(s, "preview") /\ DatabaseFree(s)
  /\ \/ /\ Proceed(s, req[s])
        /\ previews' = previews \cup {[by |-> req[s].by, base |-> uiSetupCurrentState]}
     \/ Refuse(s, "rejected") /\ UNCHANGED previews
  /\ UNCHANGED <<transaction, world, applied>> /\ Same

\* The preview is removed before its owner is compared: it serves once.
consumeSetupBundlePreview(s) ==
  /\ Doing(s, "consume")
  /\ \/ \E p \in previews :
          /\ previews' = previews \ {p}
          /\ IF p.by = req[s].by THEN Proceed(s, [req[s] EXCEPT !.base = p.base])
                                 ELSE Refuse(s, "rejected")
     \/ Refuse(s, "rejected") /\ UNCHANGED previews
  /\ UNCHANGED <<transaction, world, applied>> /\ Same

assertPreviewCurrent(s) ==
  /\ Doing(s, "assertPreviewCurrent") /\ DatabaseFree(s)
  /\ IF uiSetupCurrentState = req[s].base THEN Proceed(s, req[s]) ELSE Refuse(s, "rejected")
  /\ UNCHANGED <<transaction, world, previews, applied>> /\ Same

PreviewHeldEarlier(s) == TRUE

PreviewHolds(s) == uiSetupCurrentState = req[s].base

\* applyPortableSetupBundle: beforeImport asserts the preview again inside the
\* transaction; beforeCommit persists and activates the bundle's configuration.
applyPortableSetupBundle(s) ==
  /\ Doing(s, "import") /\ DatabaseFree(s)
  /\ IF PreviewHolds(s)
       THEN \/ /\ Proceed(s, req[s]) /\ transaction' = s
               /\ applied' = [reviewed |-> req[s].base, replaced |-> uiSetupCurrentState,
                               torn |-> TRUE, excuse |-> "none"]
               /\ world' = [world EXCEPT !.config = @ + 1]
            \/ Refuse(s, "rejected") /\ UNCHANGED <<transaction, world, applied>>
       ELSE Refuse(s, "rejected") /\ UNCHANGED <<transaction, world, applied>>
  /\ UNCHANGED previews /\ Same

\* The configuration is put back when its activation or the COMMIT fails after
\* all; a failure to write it back is only logged.
restoreSetupConfiguration(s, written) ==
  IF written THEN [world EXCEPT !.config = req[s].base[1]] ELSE world

\* Torn: of configuration and library one is the bundle's, the other is not.
Torn(s, w) == (w.config = req[s].base[1]) # (w.library = req[s].base[2])

commitSetup(s) ==
  /\ Doing(s, "commit") /\ transaction' = Nobody
  /\ \/ /\ Proceed(s, req[s]) /\ world' = [world EXCEPT !.library = @ + 1]
        /\ applied' = [applied EXCEPT !.torn = Torn(s, world')]
     \/ \E written \in BOOLEAN :
          /\ Refuse(s, "rejected") /\ world' = restoreSetupConfiguration(s, written)
          /\ applied' = [applied EXCEPT !.torn = Torn(s, world'),
                                       !.excuse = IF written THEN @ ELSE "rollback"]
  /\ UNCHANGED previews /\ Same

-----------------------------------------------------------------------------
(* The completed record and the answer.                                     *)

\* A success is acknowledged only once its completed record is durable; when
\* it is not, the client is told the result is not acknowledged (503).
installMutationAuditBarrier(s) ==
  /\ req[s].at = "complete"
  /\ \E recorded \in BOOLEAN :
       req' = [req EXCEPT ![s].at = "answered",
                 ![s].status = IF recorded \/ @ # "succeeded" THEN @ ELSE "unacknowledged",
                 ![s].seen = IF recorded THEN 1 ELSE 0]
  /\ UNCHANGED <<mutationInProgress, transaction, world, previews, authority, recovery, sent, outside, applied>>

leaves(s) ==
  /\ req[s].at = "answered" /\ req' = Answered(s)
  /\ UNCHANGED <<mutationInProgress, transaction, world, previews, authority, recovery, sent, outside, applied>>

\* Agents, imports and the trading engine change the library; backups age;
\* maintenance takes and releases the mutation hold; previews expire.
outsideChange ==
  /\ outside < MaxOutside /\ outside' = outside + 1
  /\ \/ /\ transaction = Nobody /\ world' = [world EXCEPT !.library = @ + 1]
        /\ UNCHANGED <<authority, previews>>
     \/ world' = [world EXCEPT !.backup = FALSE] /\ UNCHANGED <<authority, previews>>
     \/ authority' = ~authority /\ UNCHANGED <<world, previews>>
     \/ /\ \E p \in previews : previews' = previews \ {p}
        /\ UNCHANGED <<world, authority>>
  /\ UNCHANGED <<req, mutationInProgress, transaction, recovery, sent, applied>>

\* The process ends and another one starts: connections, sessions, previews
\* and the lock are gone and an open transaction is rolled back; the
\* configuration file stays as it was written.
processDies ==
  /\ outside < MaxOutside /\ outside' = outside + 1
  /\ req' = [s \in Slot |-> Idle]
  /\ mutationInProgress' = Nobody /\ transaction' = Nobody /\ previews' = {}
  /\ world' = [world EXCEPT !.sessions = {}]
  /\ applied' = [applied EXCEPT !.excuse = IF transaction = Nobody THEN @ ELSE "death"]
  /\ recovery' \in BOOLEAN
  /\ UNCHANGED <<authority, sent>>

HandlerStep(s) ==
  \/ readJsonBody(s) \/ changeElsewhere(s) \/ changeLibrary(s)
  \/ Control(s) \/ compareConfiguration(s) \/ applyConfiguration(s) \/ setSecrets(s)
  \/ setRuntimeSettings(s) \/ revokeLocalAdminSessions(s) \/ disableBackupDriveMirror(s)
  \/ removeBackupDriveAccessToken(s) \/ rotateDashboardToken(s)
  \/ createDashboardAdminToken(s) \/ runBackupNow(s) \/ stopForwarding(s) \/ clearDb(s)
  \/ runRestartCommand(s) \/ previewCapacity(s) \/ previewSetupBundle(s)
  \/ consumeSetupBundlePreview(s) \/ assertPreviewCurrent(s)
  \/ applyPortableSetupBundle(s) \/ commitSetup(s)

Next ==
  \/ \E s \in Slot :
       \/ bootstrapHandler(s) \/ localSessionHandler(s) \/ presentsStaleSession(s)
       \/ handleAuthenticatedApiRequest(s)
       \/ authorizeMutationAudit(s) \/ invokeApiHandler(s) \/ HandlerStep(s)
       \/ installMutationAuditBarrier(s) \/ leaves(s)
  \/ outsideChange
  \/ processDies

Spec == Init /\ [][Next]_web

-----------------------------------------------------------------------------
(* Properties. *)

TypeOK ==
  /\ req \in [Slot -> [at : {"idle", "authorise", "gate", "handle", "complete", "answered"},
                       h : [steps : Seq(STRING), confirm : BOOLEAN, repair : BOOLEAN,
                            lookup : BOOLEAN, restart : BOOLEAN], n : 0..5,
                       by : {"nobody", "bootstrap", "token", "session"} \X Nat, seen : Nat,
                       base : Nat \X Nat, authorised : BOOLEAN,
                       status : {"none", "succeeded", "rejected", "failed", "unacknowledged"}]]
  /\ {mutationInProgress, transaction} \subseteq Slot \cup {Nobody}
  /\ world.admin \in 0..MaxRequests + 1 /\ world.sessions \subseteq 1..MaxRequests + 1
  /\ authority \in BOOLEAN /\ recovery \in BOOLEAN

\* With an audit trail, a handler runs only for a request whose authorized
\* record is durable, and a client hears of a success only when its completed
\* record is durable too (authorizeMutationAudit, installMutationAuditBarrier):
\* whatever fails in between, no acknowledged change is missing from the trail.
AcknowledgedChangesAreAudited ==
  hasAuditTrail => \A s \in Slot :
    /\ req[s].at \in {"gate", "handle", "complete", "answered"} => req[s].authorised
    /\ req[s].at = "answered" /\ req[s].status = "succeeded" => req[s].seen = 1

\* A setup replacement replaces exactly the configuration, library and
\* workflow its reviewer saw, and afterwards either both configuration and
\* library are the bundle's or neither is, whatever other requests, agents and
\* timers do meanwhile (applySetupBundleHandler).  Two failures tear them
\* apart, and only these: the process dies between the write of the
\* configuration and the COMMIT, or the write that puts the configuration back
\* fails too.
SetupReplacedAsReviewed ==
  /\ applied.reviewed = applied.replaced
  /\ transaction = Nobody /\ applied.torn => applied.excuse \in {"death", "rollback"}

\* A configured Drive mirror always has its access token, whichever of the two
\* deletions fails (deleteBackupDriveAccessTokenHandler,
\* assertRuntimeIntegrationSecrets).
MirrorHasItsToken == world.mirror => world.driveToken

\* Once an administrator token is replaced, no session issued under an older
\* one authorises a request, also while the revocation is still to come
\* (authenticateLocalSession, accessTokenHandler).
OldSessionsAuthoriseNothing ==
  \A s \in Slot : req[s].at = "idle" /\ req'[s].by[1] = "session" => world.admin \in world.sessions
=============================================================================
