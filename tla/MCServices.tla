----------------------------- MODULE MCServices -----------------------------
(***************************************************************************)
(* The services around the routing core, one component after the other:    *)
(* database maintenance, operator jobs, agent sessions, delivery           *)
(* confirmations, and the outbox rows and their queue under fairness. part *)
(* says which component a behaviour is about.                              *)
(***************************************************************************)
EXTENDS OutboxScheduler

CONSTANTS Parts, MaxHandles, MaxLeases, MaxDeaths, Job, Restarting, MaxRecords,
    MaxActive, MaxJobFaults, MaxAccepts, MaxLives, Session, Event,
    AUTH_MAXIMUM_FAILURES, MaxAdmin, MaxSessionFaults, Task, Members, maxAttempts,
    maxCachedOutcomes, MaxFaults, OutboxRows, Slots, Starts, NoTask, MaxRetries,
    DbMayFail

VARIABLES
    part,
    marker, expired, generation, recs, acks, file, alive, handle, native, serving, work,
    seen, step, lease, deaths,
    disk, records, command, restartScheduled, requested, life, begun, returned, evicted,
    faults, clock,
    runtimeMode, currentRuntimeMode, agentRow, rowOf, sessions, http,
    authenticationFailures, notifier, events, delivered, received, disconnecting,
    shuttingDown, used,
    send, attempt, answer, telegram, updates, waiters, resolved, recentOutcomes, lost,
    trackerFaults,
    status, malformed, task, pc, aborted, settled, halted, isRunning, start, exposure,
    retries

Owner == INSTANCE Maintenance
Jobs == INSTANCE OperatorJobs WITH scheduled <- restartScheduled,
    MaxFaults <- MaxJobFaults

Agents == INSTANCE McpSessions WITH pump <- notifier, MaxFaults <- MaxSessionFaults
Tracker == INSTANCE DeliveryTracker WITH faults <- trackerFaults
Rows == INSTANCE Outbox WITH paused <- halted, Tasks <- OutboxRows, Execs <- Slots

AnAlbumAndAMessage == [t1 |-> 2, t2 |-> 1]

(* Of the two queued rows the operator retries the first only.             *)
RetriesBounded == row[2] = "closed" => row'[2] = "closed"

-----------------------------------------------------------------------------
\* The variables of a component that is not explored.
Unused == "unused"

maintenanceVars == <<marker, expired, generation, recs, acks, file, alive, handle,
    native, serving, work, seen, step, lease, deaths>>

jobsVars == <<disk, records, command, restartScheduled, requested, life, begun,
    returned, evicted, faults, clock>>

sessionsVars == <<runtimeMode, currentRuntimeMode, agentRow, rowOf, sessions, http,
    authenticationFailures, notifier, events, delivered, received, disconnecting,
    shuttingDown, used>>

deliveryVars == <<send, attempt, answer, telegram, updates, waiters, resolved,
    recentOutcomes, lost, trackerFaults>>

outboxVars == <<status, malformed, task, pc, aborted, settled, halted, isRunning, start,
    exposure, retries>>

ServicesInit ==
    /\ part \in Parts
    /\ IF part = "maintenance" THEN Owner!Init
       ELSE marker = Unused /\ expired = Unused /\ generation = Unused /\ recs = Unused /\
            acks = Unused /\ file = Unused /\ alive = Unused /\ handle = Unused /\
            native = Unused /\ serving = Unused /\ work = Unused /\ seen = Unused /\
            step = Unused /\ lease = Unused /\ deaths = Unused
    /\ IF part = "jobs" THEN Jobs!Init
       ELSE disk = Unused /\ records = Unused /\ command = Unused /\
            restartScheduled = Unused /\ requested = Unused /\ life = Unused /\
            begun = Unused /\ returned = Unused /\ evicted = Unused /\ faults = Unused /\
            clock = Unused
    /\ IF part = "sessions" THEN Agents!Init
       ELSE runtimeMode = Unused /\ currentRuntimeMode = Unused /\ agentRow = Unused /\
            rowOf = Unused /\ sessions = Unused /\ http = Unused /\
            authenticationFailures = Unused /\ notifier = Unused /\ events = Unused /\
            delivered = Unused /\ received = Unused /\ disconnecting = Unused /\
            shuttingDown = Unused /\ used = Unused
    /\ IF part = "delivery" THEN Tracker!TrackerInit
       ELSE send = Unused /\ attempt = Unused /\ answer = Unused /\ telegram = Unused /\
            updates = Unused /\ waiters = Unused /\ resolved = Unused /\
            recentOutcomes = Unused /\ lost = Unused /\ trackerFaults = Unused
    /\ IF part = "outbox" THEN Rows!Init
       ELSE status = Unused /\ malformed = Unused /\ task = Unused /\ pc = Unused /\
            aborted = Unused /\ settled = Unused /\ halted = Unused /\
            isRunning = Unused /\ start = Unused /\ exposure = Unused /\ retries = Unused
    /\ IF part = "scheduler" THEN SchedulerInit
       ELSE row = Unused /\ queue = Unused /\ exec = Unused /\ queuePaused = Unused /\
            maxConcurrency = Unused /\ scheduled = Unused /\ settling = Unused /\
            pump = Unused /\ pumpRequested = Unused /\ excluded = Unused /\
            limit = Unused /\ candidates = Unused /\ wakeup = Unused /\
            requeued = Unused /\ starting = Unused

ServicesNext ==
    \/ /\ part = "maintenance" /\ Owner!Next
       /\ UNCHANGED <<part, jobsVars, sessionsVars, deliveryVars, outboxVars, schedulerVars>>
    \/ /\ part = "jobs" /\ Jobs!Next
       /\ UNCHANGED <<part, maintenanceVars, sessionsVars, deliveryVars, outboxVars,
                      schedulerVars>>
    \/ /\ part = "sessions" /\ Agents!Next
       /\ UNCHANGED <<part, maintenanceVars, jobsVars, deliveryVars, outboxVars, schedulerVars>>
    \/ /\ part = "delivery" /\ Tracker!TrackerNext
       /\ UNCHANGED <<part, maintenanceVars, jobsVars, sessionsVars, outboxVars, schedulerVars>>
    \/ /\ part = "outbox" /\ Rows!Next
       /\ UNCHANGED <<part, maintenanceVars, jobsVars, sessionsVars, deliveryVars,
                      schedulerVars>>
    \/ /\ part = "scheduler" /\ SchedulerNext /\ RetriesBounded
       /\ UNCHANGED <<part, maintenanceVars, jobsVars, sessionsVars, deliveryVars,
                      outboxVars>>

servicesVars == <<part, maintenanceVars, jobsVars, sessionsVars, deliveryVars,
    outboxVars, schedulerVars>>

(***************************************************************************)
(* Fairness, each part's own: callbacks that are due run and timers fire,  *)
(* awaits end, a process supervisor starts the process again, somebody     *)
(* starts routing again as often as it can be started.                     *)
(***************************************************************************)
ServicesFairness ==
    /\ WF_maintenanceVars(part = "maintenance" /\ Owner!OwnerStep)
    /\ WF_maintenanceVars(part = "maintenance" /\ Owner!deadlinePasses)
    /\ WF_jobsVars(part = "jobs" /\ Jobs!requestRestart)
    /\ WF_jobsVars(part = "jobs" /\ Jobs!exits)
    /\ WF_jobsVars(part = "jobs" /\ Jobs!initialize)
    /\ WF_sessionsVars(part = "sessions" /\ Agents!synchronizeRuntimeMode)
    /\ \A s \in Session :
         /\ WF_sessionsVars(part = "sessions" /\ Agents!pumpNotifications(s))
         /\ WF_sessionsVars(part = "sessions" /\ (\/ Agents!sendLoggingMessage(s)
                                                  \/ Agents!recordMcpEventDelivery(s)))
    /\ WF_deliveryVars(part = "delivery" /\ Tracker!TimersFire)
    /\ \A e \in Slots : WF_outboxVars(part = "outbox" /\ Rows!Proceed(e))
    /\ \A s \in Starts :
         /\ SF_outboxVars(part = "outbox" /\ Rows!startForwardingNonInteractive(s))
         /\ WF_outboxVars(part = "outbox" /\ Rows!Activate(s))
    /\ WF_schedulerVars(part = "scheduler" /\ PumpStep)
    /\ WF_schedulerVars(part = "scheduler" /\ ingressWakeup)
    /\ WF_schedulerVars(part = "scheduler" /\ resumePersistedTasks)
    /\ \A t \in Ids :
         /\ WF_schedulerVars(part = "scheduler" /\ callerFinally(t))
         /\ WF_schedulerVars(part = "scheduler" /\ scheduleOutboxTask(t))
    /\ \A e \in Executions : WF_schedulerVars(part = "scheduler" /\ ExecProceeds(e))

ServicesSpec == ServicesInit /\ [][ServicesNext]_servicesVars /\ ServicesFairness

-----------------------------------------------------------------------------
(* A file is replaced only while no process has it open, and work that was *)
(* accepted keeps its handle until it is finished (mcp_maintenance.ts,     *)
(* db.ts).                                                                 *)
MaintenanceIsExclusive ==
    part = "maintenance" => /\ Owner!TypeOK
                            /\ Owner!ReplacedOnlyWhenClosed
                            /\ Owner!WorkKeepsItsHandle

(* A job id runs its command once, also across restarts and lost answers,  *)
(* and success is never invented (ui_operation_store.ts,                   *)
(* ui_restart_coordinator.ts); agent sessions follow the mode and are told *)
(* only what they were sent (mcp_server.ts).                               *)
CommandsAreAccountable ==
    /\ part = "jobs" => /\ Jobs!TypeOK
                        /\ Jobs!CommandsRunOnce
                        /\ Jobs!SuccessIsNeverInvented
    /\ part = "sessions" => Agents!TypeOK /\ Agents!SessionsFollowTheMode

(* A delivery counts as confirmed only if every message was sent, an early *)
(* outcome is not waited for, and a retry sends nothing twice              *)
(* (delivery_tracker.ts).                                                  *)
ConfirmationsAreTrue ==
    part = "delivery" => /\ Tracker!TypeOK
                         /\ Tracker!ConfirmedIsDelivered
                         /\ Tracker!OutcomesAreNotMissed
                         /\ Tracker!RetriesSendNothingTwice

-----------------------------------------------------------------------------
(* Liveness.  What waits, and what ends the wait; i numbers the sessions,  *)
(* tasks and rows of a part.                                               *)
SessionAt == <<"s1", "s2">>
TaskAt == <<"t1", "t2">>
Waits(i) ==
    \/ part = "maintenance" /\ Owner!Active
    \/ part = "jobs" /\ \E j \in Restarting : Jobs!RestartIsDue(j)
    \/ part = "sessions" /\ \E e \in Event : Agents!Owes(SessionAt[i], e)
    \/ part = "delivery" /\ send[TaskAt[i]] = "waiting"
    \/ part = "outbox" /\ TaskAt[i] \in OutboxRows /\ Rows!InFlight(TaskAt[i])
    \/ part = "scheduler" /\ row[i] \in {"incoming", "pending"}

Served(i) ==
    \/ part = "maintenance" /\ (~Owner!Active \/ ~alive["main"])
    \/ part = "jobs" /\ ~Jobs!Up
    \/ part = "sessions" /\ \A e \in Event : Agents!Settled(SessionAt[i], e)
    \/ part = "delivery" /\ send[TaskAt[i]] # "waiting"
    \/ part = "outbox" /\ (TaskAt[i] \in OutboxRows => ~Rows!InFlight(TaskAt[i]))
    \/ part = "scheduler" /\ row[i] \in {"taken", "closed"}

(* Stops, failed starts and crashes cease, routing is not held for good    *)
(* and the operator no longer retries closed rows: each retry goes         *)
(* straight to the queue and may take the place the pump had found.        *)
Calm == /\ <>[][part = "outbox" => ~Rows!Disturb]_servicesVars
        /\ <>[](part = "scheduler" => ~queuePaused /\ requeued = {})

(* Nothing is stranded: a published maintenance ends, a confirmed restart  *)
(* happens, an event reaches every session that stays connected, a wait    *)
(* for a confirmation ends, no row stays in preparing or sending, and      *)
(* every accepted message is taken by an execution (mcp_maintenance.ts,    *)
(* ui_restart_coordinator.ts, mcp_server.ts, delivery_tracker.ts,          *)
(* outbox_scheduler.ts, queue.ts).                                         *)
WorkIsNeverStranded == Calm => \A i \in 1..2 : Waits(i) ~> Served(i)
=============================================================================
