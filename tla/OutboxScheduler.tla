--------------------------- MODULE OutboxScheduler ---------------------------
(***************************************************************************)
(* DurableOutboxScheduler (outbox_scheduler.ts) on top of ConcurrencyQueue *)
(* (queue.ts), fed by the ingress callback of forwarder.ts. The database   *)
(* is the source of truth; the scheduler keeps a bounded window of it in   *)
(* memory. Everything here runs on one event loop: an action is the code   *)
(* between two awaits, including the calls of next() it makes.             *)
(***************************************************************************)
EXTENDS Integers, FiniteSets, Sequences, SequencesExt

CONSTANTS
    Ids,        \* ids, ordered by added_at, id: integers
    Executions,        \* identities for running executions
    Idle,         \* an exec identity that is not in use
    MaxPending,   \* queue capacity (OUTBOX_MAX_IN_MEMORY_TASKS)
    BatchSize,    \* rows listed at a time
    ListMayFail   \* TRUE: the listing of pending rows may throw

ASSUME SchedulerAssumption ==
    /\ Ids \subseteq Nat
    /\ IsFiniteSet(Executions) /\ Executions /= {}
    /\ Idle \notin Ids
    /\ MaxPending \in Nat \ {0}
    /\ BatchSize \in Nat \ {0}
    /\ ListMayFail \in BOOLEAN

VARIABLES
    row,            \* what the database holds: see RowState
    queue,          \* ConcurrencyQueue.queue: tasks not started yet
    exec,           \* running executions: the task and how far it is
    queuePaused,         \* ConcurrencyQueue.paused
    maxConcurrency, \* ConcurrencyQueue.maxConcurrency
    scheduled,      \* scheduledTaskIds
    settling,       \* callers settled whose finally callback is still to run
    pump,           \* pumpPromise and the progress of pumpAvailableWork
    pumpRequested,
    excluded,       \* snapshot of scheduledTaskIds handed to listPending
    limit,          \* limit handed to listPending
    candidates,     \* what listPending returned
    wakeup,         \* ingressWakeup timer is armed
    requeued,       \* operator retries between requeueOutboxTask and schedule
    starting        \* a routing start between queue.resume and the recovery

memory == <<queue, exec, scheduled>>
pumpVars == <<pump, pumpRequested, excluded, limit, candidates>>
schedulerVars == <<row, queue, exec, queuePaused, maxConcurrency, scheduled, settling, pumpVars, wakeup,
          requeued, starting>>

host == <<requeued, starting>>

RowState == {"absent", "incoming", "pending", "taken", "closed"}
NoExec == [task |-> Idle, pc |-> "free", settled |-> FALSE]
ExecutionState == {NoExec} \cup
    [task : Ids, pc : {"begun", "claimed", "ending"}, settled : BOOLEAN]

PumpState == {"idle", "listing", "listed", "returned"}

SchedulerTypeOK ==
    /\ row \in [Ids -> RowState]
    /\ queue \in Seq(Ids) /\ Len(queue) <= MaxPending
    /\ exec \in [Executions -> ExecutionState]
    /\ queuePaused \in BOOLEAN
    /\ maxConcurrency \in 1 .. Cardinality(Executions)
    /\ scheduled \subseteq Ids
    /\ settling \subseteq Ids
    /\ pump \in PumpState
    /\ pumpRequested \in BOOLEAN
    /\ excluded \subseteq Ids
    /\ limit \in 0 .. BatchSize
    /\ candidates \in Seq(Ids)
    /\ wakeup \in BOOLEAN
    /\ requeued \subseteq Ids
    /\ starting \in BOOLEAN

\* A process starts on the rows of its predecessor; routing is about to start.
SchedulerInit ==
    /\ row \in [Ids -> {"absent", "pending", "taken"}]
    /\ queue = <<>>
    /\ exec = [e \in Executions |-> NoExec]
    /\ queuePaused = FALSE
    /\ maxConcurrency = Cardinality(Executions)
    /\ scheduled = {}
    /\ settling = {}
    /\ pump = "idle"
    /\ pumpRequested = FALSE
    /\ excluded = {}
    /\ limit = 0
    /\ candidates = <<>>
    /\ wakeup = FALSE
    /\ requeued = {}
    /\ starting = TRUE

-----------------------------------------------------------------------------
(* The queue, as functions on a record m of its in-memory state            *)

Memory == [queue |-> queue, exec |-> exec, scheduled |-> scheduled]

SetMemory(m) == queue' = m.queue /\ exec' = m.exec /\ scheduled' = m.scheduled

Running(m) == Cardinality({e \in Executions : m.exec[e] /= NoExec})
Free(m) == CHOOSE e \in Executions : m.exec[e] = NoExec

\* Mutant: one execution too many.
next_off(m, isPaused, max) ==
    IF isPaused \/ Running(m) > max \/ m.queue = <<>> THEN m
    ELSE [m EXCEPT !.queue = Tail(@),
                   !.exec[Free(m)] = [task |-> Head(m.queue), pc |-> "begun", settled |-> FALSE]]

\* next(): nothing when queuePaused, at the limit or empty; else start the head.
next(m, isPaused, max) ==
    IF isPaused \/ Running(m) >= max \/ m.queue = <<>> THEN m
    ELSE [m EXCEPT !.queue = Tail(@),
                   !.exec[Free(m)] = [task |-> Head(m.queue), pc |-> "begun", settled |-> FALSE]]

\* A loop that calls next() n times.
nextTimes(m, n, isPaused, max) ==
    LET after[i \in 0 .. Cardinality(Executions)] ==
            IF i = 0 THEN m ELSE next(after[i - 1], isPaused, max)
    IN after[IF n < 0 THEN 0 ELSE n]

isAtCapacity(m) == Len(m.queue) >= MaxPending

\* Mutant: the window is not consulted.
schedule_blind(m, t) ==
    IF isAtCapacity(m) THEN m
    ELSE next([m EXCEPT !.queue = Append(@, t), !.scheduled = @ \cup {t}],
              queuePaused, maxConcurrency)

\* schedule(): already scheduled, at capacity, or added to the queue.
schedule(m, t) ==
    IF t \in m.scheduled \/ isAtCapacity(m) THEN m
    ELSE next([m EXCEPT !.queue = Append(@, t), !.scheduled = @ \cup {t}],
              queuePaused, maxConcurrency)

\* The number schedule() counts: also tasks that were scheduled before.
WasScheduled(m, t) == t \in m.scheduled \/ ~isAtCapacity(m)

-----------------------------------------------------------------------------
(* The pump                                                                *)

\* The head of the loop of pumpAvailableWork, up to the await of listPending.
EnterLoop(m, isPaused) ==
    IF isPaused \/ isAtCapacity(m)
    THEN pump' = "returned" /\ excluded' = {} /\ limit' = 0
    ELSE /\ pump' = "listing"
         /\ excluded' = m.scheduled
         /\ limit' = IF MaxPending - Len(m.queue) < BatchSize
                     THEN MaxPending - Len(m.queue) ELSE BatchSize

\* Mutant: a request during a pump is dropped.
requestPump_drop(m, isPaused) ==
    /\ UNCHANGED candidates
    /\ IF pump = "idle"
       THEN EnterLoop(m, isPaused) /\ UNCHANGED pumpRequested
       ELSE UNCHANGED <<pump, excluded, limit, pumpRequested>>

\* pump(): a pump that is under way is asked to run once more.
requestPump(m, isPaused) ==
    /\ UNCHANGED candidates
    /\ IF pump = "idle"
       THEN EnterLoop(m, isPaused) /\ UNCHANGED pumpRequested
       ELSE pumpRequested' = TRUE /\ UNCHANGED <<pump, excluded, limit>>

\* The rows of a set, oldest first, at most n of them.
Oldest(S, n) ==
    LET sorted == SetToSortSeq(S, LAMBDA a, b : a < b)
    IN SubSeq(sorted, 1, IF Len(sorted) < n THEN Len(sorted) ELSE n)

\* The listPending callback: processIncomingWork and flushIncomingAlbums route
\* accepted work, scheduleRemainingIngress arms the timer for what is left,
\* then the pending rows outside the snapshot are listed.
listPending ==
    LET incoming == {t \in Ids : row[t] = "incoming"}
        routed == ToSet(Oldest(incoming, limit))
        pending == routed \cup {t \in Ids : row[t] = "pending"}
    IN /\ pump = "listing"
       /\ row' = [t \in Ids |-> IF t \in routed THEN "pending" ELSE row[t]]
       /\ wakeup' = (wakeup \/ incoming \ routed /= {})
       /\ candidates' = Oldest(pending \ excluded, limit)
       /\ pump' = "listed"
       /\ excluded' = {} /\ limit' = 0
       /\ UNCHANGED <<memory, queuePaused, maxConcurrency, settling, pumpRequested, host>>

\* The listing throws: the pump ends, the error is logged.
listPendingFails ==
    /\ ListMayFail
    /\ pump = "listing"
    /\ pump' = "returned"
    /\ excluded' = {} /\ limit' = 0
    /\ UNCHANGED <<row, memory, queuePaused, maxConcurrency, settling, pumpRequested, candidates, wakeup, host>>

\* scheduleBatch and the decision to go round the loop again.
scheduleBatch ==
    LET step(acc, t) == [m |-> schedule(acc.m, t),
                         n |-> acc.n + (IF WasScheduled(acc.m, t) THEN 1 ELSE 0)]
        result == FoldLeft(step, [m |-> Memory, n |-> 0], candidates)
    IN /\ pump = "listed"
       /\ SetMemory(result.m)
       /\ IF result.n = 0
          THEN pump' = "returned" /\ UNCHANGED <<excluded, limit>>
          ELSE EnterLoop(result.m, queuePaused)
       /\ candidates' = <<>>
       /\ UNCHANGED <<row, queuePaused, maxConcurrency, settling, pumpRequested, wakeup, host>>

\* pumpPromise.finally: a request made meanwhile starts a new pump.
pumpFinally ==
    /\ pump = "returned"
    /\ IF pumpRequested
       THEN EnterLoop(Memory, queuePaused)
       ELSE pump' = "idle" /\ UNCHANGED <<excluded, limit>>
    /\ pumpRequested' = FALSE
    /\ UNCHANGED <<row, memory, queuePaused, maxConcurrency, settling, candidates, wakeup, host>>

ingressWakeup ==
    /\ wakeup
    /\ wakeup' = FALSE
    /\ requestPump(Memory, queuePaused)
    /\ UNCHANGED <<row, memory, queuePaused, maxConcurrency, settling, host>>

-----------------------------------------------------------------------------
(* Work arrives                                                            *)

\* routeIncomingMessage: the row is committed, then the pump is requested.
routeIncomingMessage(t) ==
    /\ row[t] = "absent"
    /\ row' = [row EXCEPT ![t] = "incoming"]
    /\ requestPump(Memory, queuePaused)
    /\ UNCHANGED <<memory, queuePaused, maxConcurrency, settling, wakeup, host>>

\* retryPersistedTask: the row is requeued ...
requeueOutboxTask(t) ==
    /\ row[t] = "closed"
    /\ row' = [row EXCEPT ![t] = "pending"]
    /\ requeued' = requeued \cup {t}
    /\ UNCHANGED <<memory, queuePaused, maxConcurrency, settling, pumpVars, wakeup, starting>>

\* ... then scheduled, or left to the pump when the queue is full.
scheduleOutboxTask(t) ==
    /\ t \in requeued
    /\ requeued' = requeued \ {t}
    /\ SetMemory(schedule(Memory, t))
    /\ IF WasScheduled(Memory, t) THEN UNCHANGED pumpVars ELSE requestPump(Memory, queuePaused)
    /\ UNCHANGED <<row, queuePaused, maxConcurrency, settling, wakeup, starting>>

-----------------------------------------------------------------------------
(* Executions and the queue's own events                                   *)

\* claimOutboxTask; a row in any other state makes the execution end.
claim(e) ==
    /\ exec[e].pc = "begun"
    /\ IF row[exec[e].task] = "pending"
       THEN /\ row' = [row EXCEPT ![exec[e].task] = "taken"]
            /\ exec' = [exec EXCEPT ![e].pc = "claimed"]
       ELSE /\ exec' = [exec EXCEPT ![e].pc = "ending"]
            /\ UNCHANGED row
    /\ UNCHANGED <<queue, scheduled, queuePaused, maxConcurrency, settling, pumpVars, wakeup, host>>

\* The row leaves the execution's hands: completed, failed, unknown.
close(e) ==
    /\ exec[e].pc = "claimed"
    /\ row' = [row EXCEPT ![exec[e].task] = IF @ = "taken" THEN "closed" ELSE @]
    /\ exec' = [exec EXCEPT ![e].pc = "ending"]
    /\ UNCHANGED <<queue, scheduled, queuePaused, maxConcurrency, settling, pumpVars, wakeup, host>>

\* Mutant: the released slot stays empty.
releaseSlotOnly(e) ==
    /\ exec[e].pc = "ending"
    /\ exec' = [exec EXCEPT ![e] = NoExec]
    /\ settling' = IF exec[e].settled THEN settling ELSE settling \cup {exec[e].task}
    /\ UNCHANGED <<row, queue, scheduled, queuePaused, maxConcurrency, pumpVars, wakeup, host>>

\* The task settles: the slot is released, the next item starts and the
\* caller, unless the timeout rejected it before, is settled.
releaseSlotAndNext(e) ==
    /\ exec[e].pc = "ending"
    /\ SetMemory(next([Memory EXCEPT !.exec[e] = NoExec], queuePaused, maxConcurrency))
    /\ settling' = IF exec[e].settled THEN settling ELSE settling \cup {exec[e].task}
    /\ UNCHANGED <<row, queuePaused, maxConcurrency, pumpVars, wakeup, host>>

\* The timer rejects the caller and aborts; the slot is not released.
executionTimeout(e) ==
    /\ exec[e] /= NoExec
    /\ ~exec[e].settled
    /\ exec' = [exec EXCEPT ![e].settled = TRUE]
    /\ settling' = settling \cup {exec[e].task}
    /\ UNCHANGED <<row, queue, scheduled, queuePaused, maxConcurrency, pumpVars, wakeup, host>>

\* scheduleIntoQueue's finally: the task leaves the window, the pump runs.
callerFinally(t) ==
    LET m == [Memory EXCEPT !.scheduled = @ \ {t}] IN
    /\ t \in settling
    /\ settling' = settling \ {t}
    /\ SetMemory(m)
    /\ requestPump(m, queuePaused)
    /\ UNCHANGED <<row, queuePaused, maxConcurrency, wakeup, host>>

\* Mutant: cleared items never settle their callers.
pauseAndClear_silent ==
    /\ queuePaused' = TRUE
    /\ queue' = <<>>
    /\ UNCHANGED <<row, exec, scheduled, settling, maxConcurrency, pumpVars, wakeup, host>>

\* stopForwarding: pause and clear; cleared items reject their callers.
pauseAndClear ==
    /\ queuePaused' = TRUE
    /\ queue' = <<>>
    /\ settling' = settling \cup ToSet(queue)
    /\ UNCHANGED <<row, exec, scheduled, maxConcurrency, pumpVars, wakeup, host>>

\* Routing start after a stop: the queue resumes. That nothing runs was checked
\* before the connection was set up, many turns of the event loop earlier. (The
\* start after boot finds the queue running; SchedulerInit is in the middle of it.)
resume ==
    /\ queuePaused /\ ~starting
    /\ starting' = TRUE
    /\ queuePaused' = FALSE
    /\ SetMemory(nextTimes(Memory, maxConcurrency, FALSE, maxConcurrency))
    /\ UNCHANGED <<row, maxConcurrency, settling, pumpVars, wakeup, requeued>>

\* Its last part: interrupted rows become pending again or are left to the
\* operator, then the pump runs.
resumePersistedTasks ==
    /\ starting
    /\ starting' = FALSE
    /\ \E safe \in SUBSET {t \in Ids : row[t] = "taken"} :
         row' = [t \in Ids |-> IF t \in safe THEN "pending"
                                ELSE IF row[t] = "taken" THEN "closed" ELSE row[t]]
    /\ requestPump(Memory, queuePaused)
    /\ UNCHANGED <<memory, queuePaused, maxConcurrency, settling, wakeup, requeued>>

updateSettings(max) ==
    /\ max /= maxConcurrency
    /\ maxConcurrency' = max
    /\ SetMemory(IF queuePaused THEN Memory
                 ELSE nextTimes(Memory, max - Running(Memory), FALSE, max))
    /\ UNCHANGED <<row, queuePaused, settling, pumpVars, wakeup, host>>

-----------------------------------------------------------------------------

PumpStep ==
    listPending \/ scheduleBatch \/ pumpFinally

ExecProceeds(e) == claim(e) \/ close(e) \/ releaseSlotAndNext(e)

SchedulerNext ==
    \/ PumpStep
    \/ listPendingFails
    \/ ingressWakeup
    \/ \E t \in Ids : 
         \/ routeIncomingMessage(t) \/ callerFinally(t)
         \/ requeueOutboxTask(t) \/ scheduleOutboxTask(t)
    \/ \E e \in Executions : ExecProceeds(e) \/ executionTimeout(e)
    \/ pauseAndClear
    \/ resume
    \/ resumePersistedTasks
    \/ \E max \in 1 .. Cardinality(Executions) : updateSettings(max)

SchedulerSpec == SchedulerInit /\ [][SchedulerNext]_schedulerVars

-----------------------------------------------------------------------------
(* Properties                                                              *)

Waiting == ToSet(queue)
UnsettledTasks == {exec[e].task : e \in {f \in Executions : exec[f] /= NoExec /\ ~exec[f].settled}}

\* A task is in the queue or in an unsettled execution at most once, though
\* the pump works with a stale snapshot while retries schedule directly.
NoDoubleExecution ==
    /\ \A i, j \in DOMAIN queue : queue[i] = queue[j] => i = j
    /\ Waiting \cap UnsettledTasks = {}
    /\ \A e, f \in Executions :
         exec[e] /= NoExec /\ ~exec[e].settled /\ ~exec[f].settled
            /\ exec[e].task = exec[f].task => e = f

\* scheduledTaskIds is exactly what is queued, running unsettled or about to
\* be released: no id leaks, which would hide its row from every listing.
WindowIsExact == scheduled = Waiting \cup UnsettledTasks \cup settling

\* The queue never leaves a runnable item waiting beside a free slot, through
\* timeouts, pauses, clears and changes of the concurrency limit.
WorkConserving ==
    ~queuePaused /\ queue /= <<>> => Running(Memory) >= maxConcurrency

\* No execution starts beyond the limit, also when timed-out executions still
\* hold their slots.
ConcurrencyRespected ==
    [][Running(Memory)' > Running(Memory) => Running(Memory)' <= maxConcurrency']_schedulerVars

=============================================================================
