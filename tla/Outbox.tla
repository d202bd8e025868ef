------------------------------- MODULE Outbox -------------------------------
(***************************************************************************)
(* The durable outbox of TSX Core: the rows of pending_tasks (db.ts), the  *)
(* executions that work on them (forwarder.ts), the queue slots those      *)
(* executions hold (queue.ts) and the operations that race with them:      *)
(* routing start with its two-statement recovery, routing stop, the queue  *)
(* timeout, a crash, and the operator's retry and acknowledgement.         *)
(*                                                                         *)
(* One database call is one step: SerializedDatabaseAccess (db.ts) runs    *)
(* the calls of the process one after the other in the order of issue.     *)
(* A check of signal.aborted and the call it guards are issued in the same *)
(* turn of the event loop, so they are one step too.                       *)
(*                                                                         *)
(* The scheduler's window and the order of the queue are modelled in       *)
(* OutboxScheduler; what this module needs from it is the guard of begin:  *)
(* no execution of a task starts while another one is unsettled.           *)
(***************************************************************************)
EXTENDS Naturals, FiniteSets, TLAPS

CONSTANTS
    Tasks,       \* outbox task ids, derived from the ingress row
    Execs,       \* slots of the ConcurrencyQueue (its maxConcurrency)
    Starts,      \* calls of startForwardingNonInteractive that may overlap
    NoTask,      \* the content of an empty slot
    MaxRetries,  \* bound on the operator's retries of one unknown task
    DbMayFail    \* TRUE: the status write of a failing execution may be lost

ASSUME NoTaskAssumption == NoTask \notin Tasks
ASSUME MaxRetriesAssumption == MaxRetries \in Nat
ASSUME DbMayFailAssumption == DbMayFail \in BOOLEAN

VARIABLES
    status,     \* pending_tasks.status; "absent" before, "pruned" after the row
    malformed,  \* rows whose stored JSON no longer parses
    task,       \* the task a slot works on
    pc,         \* how far the slot's execution has come
    aborted,    \* the slot's AbortSignal has fired
    settled,    \* the slot's caller was already rejected by the queue timeout
    paused,     \* ConcurrencyQueue.paused
    isRunning,  \* state.isRunning: routing is active
    start,      \* progress of each call of startForwardingNonInteractive
    exposure,   \* messages of the task that reach, or may reach, the target
    retries     \* operator retries out of "unknown"

rowVars  == <<status, malformed>>
slotVars == <<task, pc, aborted, settled>>
hostVars == <<paused, isRunning, start>>
ghostVars == <<exposure, retries>>
vars == <<rowVars, slotVars, hostVars, ghostVars>>

OutboxStatus == {"absent", "pending", "preparing", "sending", "completed",
                 "failed", "unknown", "needs_review", "pruned"}

(***************************************************************************)
(* idle      the slot is free                                              *)
(* begun     taskFn called, the row is not claimed yet                     *)
(* claimed   claimOutboxTask returned the row                              *)
(* marked    markOutboxSending returned; the provider call comes next      *)
(* waiting   the provider accepted a message that will be delivered        *)
(* doomed    the provider accepted a message and will report its failure   *)
(* copy      the forward was refused; the manual copy comes next           *)
(* done      a result is there, completeOutboxTask comes next              *)
(* failing   an exception is there, failOutboxTask comes next              *)
(***************************************************************************)
ExecState == {"idle", "begun", "claimed", "marked", "waiting", "doomed",
              "copy", "done", "failing"}

StartState == {"off", "connecting", "requeue", "reconcile"}

TypeOK ==
    /\ status \in [Tasks -> OutboxStatus]
    /\ malformed \in SUBSET Tasks
    /\ task \in [Execs -> Tasks \cup {NoTask}]
    /\ pc \in [Execs -> ExecState]
    /\ aborted \in [Execs -> BOOLEAN]
    /\ settled \in [Execs -> BOOLEAN]
    /\ paused \in BOOLEAN
    /\ isRunning \in BOOLEAN
    /\ start \in [Starts -> StartState]
    /\ exposure \in [Tasks -> Nat]
    /\ retries \in [Tasks -> 0 .. MaxRetries]

Init ==
    /\ status = [t \in Tasks |-> "absent"]
    /\ malformed = {}
    /\ task = [e \in Execs |-> NoTask]
    /\ pc = [e \in Execs |-> "idle"]
    /\ aborted = [e \in Execs |-> FALSE]
    /\ settled = [e \in Execs |-> FALSE]
    /\ paused = FALSE
    /\ isRunning = FALSE
    /\ start = [s \in Starts |-> "off"]
    /\ exposure = [t \in Tasks |-> 0]
    /\ retries = [t \in Tasks |-> 0]

-----------------------------------------------------------------------------
(* Rows                                                                    *)

Present(t) == status[t] \notin {"absent", "pruned"}

SetStatus(t, s) == status' = [status EXCEPT ![t] = s]

\* INSERT ... ON CONFLICT(id) DO NOTHING; legacy rows wait for a review. The
\* id is that of the ingress row: once the row is pruned only Telegram could
\* bring the task back, by announcing a message older than the retention
\* period once more, which is assumed not to happen.
enqueueOutboxTask(t) ==
    /\ status[t] = "absent"
    /\ \E s \in {"pending", "needs_review"} : SetStatus(t, s)
    /\ UNCHANGED <<malformed, slotVars, hostVars, ghostVars>>

\* The status reviewOutboxRow leaves behind: a row that does not parse is
\* taken out of automatic processing, "sending" keeps its uncertainty.
Reviewed(t) ==
    IF t \notin malformed \/ status[t] \in {"absent", "pruned", "unknown", "completed"}
    THEN status[t]
    ELSE IF status[t] = "sending" THEN "unknown" ELSE "needs_review"

\* getOutboxTask, listOutboxTasks and the scheduler's listing review rows.
reviewOutboxRow(t) ==
    /\ Reviewed(t) /= status[t]
    /\ SetStatus(t, Reviewed(t))
    /\ UNCHANGED <<malformed, slotVars, hostVars, ghostVars>>

\* Environment: stored JSON is damaged or was written by an older version.
DamagePayload(t) ==
    /\ Present(t)
    /\ t \notin malformed
    /\ malformed' = malformed \cup {t}
    /\ UNCHANGED <<status, slotVars, hostVars, ghostVars>>

\* The retry of the dashboard, from "failed".
requeueFailed(t) ==
    /\ status[t] = "failed"
    /\ t \notin malformed
    /\ SetStatus(t, "pending")
    /\ UNCHANGED <<malformed, slotVars, hostVars, ghostVars>>

\* Mutant: the retry takes a task that was completed in the meantime.
requeueUnknown_completed(t) ==
    /\ status[t] \in {"unknown", "completed"}
    /\ t \notin malformed
    /\ retries[t] < MaxRetries
    /\ SetStatus(t, "pending")
    /\ retries' = [retries EXCEPT ![t] = @ + 1]
    /\ UNCHANGED <<malformed, slotVars, hostVars, exposure>>

\* The retry of the dashboard, from "unknown": the operator takes the risk.
requeueUnknown(t) ==
    /\ status[t] = "unknown"
    /\ t \notin malformed
    /\ retries[t] < MaxRetries
    /\ SetStatus(t, "pending")
    /\ retries' = [retries EXCEPT ![t] = @ + 1]
    /\ UNCHANGED <<malformed, slotVars, hostVars, exposure>>

acknowledgeOutboxTask(t) ==
    /\ status[t] = "unknown"
    /\ SetStatus(t, "completed")
    /\ UNCHANGED <<malformed, slotVars, hostVars, ghostVars>>

\* Retention deletes completed rows only.
pruneOperationalData(t) ==
    /\ status[t] = "completed"
    /\ SetStatus(t, "pruned")
    /\ UNCHANGED <<malformed, slotVars, hostVars, ghostVars>>

-----------------------------------------------------------------------------
(* Executions                                                              *)

Goto(e, state) == pc' = [pc EXCEPT ![e] = state]

\* releaseSlot: the slot is free again and its caller is settled.
releaseSlot(e) ==
    /\ Goto(e, "idle")
    /\ task' = [task EXCEPT ![e] = NoTask]
    /\ aborted' = [aborted EXCEPT ![e] = FALSE]
    /\ settled' = [settled EXCEPT ![e] = FALSE]

Unsettled(t) == \E e \in Execs : task[e] = t /\ ~settled[e]

\* The queue gives a slot to a task of the scheduler's window.
begin(e, t) ==
    /\ pc[e] = "idle"
    /\ ~paused
    /\ Present(t)
    /\ ~Unsettled(t)
    /\ Goto(e, "begun")
    /\ task' = [task EXCEPT ![e] = t]
    /\ UNCHANGED <<rowVars, aborted, settled, hostVars, ghostVars>>

\* A stale or malformed row yields null, and the execution ends.
claimOutboxTask(e) ==
    LET t == task[e] IN
    /\ pc[e] = "begun"
    /\ IF status[t] \in {"pending", "failed"} /\ t \notin malformed
       THEN /\ SetStatus(t, "preparing")
            /\ Goto(e, "claimed")
            /\ UNCHANGED <<task, aborted, settled>>
       ELSE /\ SetStatus(t, Reviewed(t))
            /\ releaseSlot(e)
    /\ UNCHANGED <<malformed, hostVars, ghostVars>>

\* A local workflow signal or a blocked duplicate needs no provider call.
finishLocally(e) ==
    /\ pc[e] = "claimed"
    /\ Goto(e, "done")
    /\ UNCHANGED <<rowVars, task, aborted, settled, hostVars, ghostVars>>

\* The check of signal.aborted, then the guarded UPDATE; no row: an exception.
markOutboxSending(e) ==
    LET t == task[e] IN
    /\ pc[e] = "claimed"
    /\ ~aborted[e]
    /\ IF status[t] \in {"preparing", "sending"}
       THEN SetStatus(t, "sending") /\ Goto(e, "marked")
       ELSE UNCHANGED status /\ Goto(e, "failing")
    /\ UNCHANGED <<malformed, task, aborted, settled, hostVars, ghostVars>>

\* invokeWithRetry: signal.aborted is checked before every attempt. A flood
\* wait stays where it is; an accepted message has a fate of its own. A copy
\* that fails is an exception like any other (throwException).
invokeAccepted(e) ==
    /\ pc[e] \in {"marked", "copy"}
    /\ ~aborted[e]
    /\ \/ /\ Goto(e, "waiting")
          /\ exposure' = [exposure EXCEPT ![task[e]] = @ + 1]
       \/ /\ pc[e] = "marked"
          /\ Goto(e, "doomed")
          /\ UNCHANGED exposure
    /\ UNCHANGED <<rowVars, task, aborted, settled, hostVars, retries>>

\* A restricted forward, refused at once or reported by the send failure,
\* falls back to copying the text without marking the row again.
tryManualCopyFallback(e) ==
    /\ pc[e] \in {"marked", "doomed"}
    /\ Goto(e, "copy")
    /\ UNCHANGED <<rowVars, task, aborted, settled, hostVars, ghostVars>>

\* waitForResult resolves with the provider's confirmation.
confirmDelivery(e) ==
    /\ pc[e] = "waiting"
    /\ Goto(e, "done")
    /\ UNCHANGED <<rowVars, task, aborted, settled, hostVars, ghostVars>>

\* Any awaited call may reject: parser, provider, confirmation timeout, abort,
\* a database error. The result is an exception in executeScheduledOutboxTask.
throwException(e) ==
    /\ pc[e] \in {"claimed", "marked", "waiting", "doomed", "copy", "done"}
    /\ Goto(e, "failing")
    /\ UNCHANGED <<rowVars, task, aborted, settled, hostVars, ghostVars>>

\* Mutant: the late result of an execution settles an unknown row.
completeOutboxTask_late(e) ==
    LET t == task[e] IN
    /\ pc[e] = "done"
    /\ IF status[t] \in {"preparing", "sending", "unknown"}
       THEN SetStatus(t, "completed") /\ releaseSlot(e)
       ELSE Goto(e, "failing") /\ UNCHANGED <<status, task, aborted, settled>>
    /\ UNCHANGED <<malformed, hostVars, ghostVars>>

completeOutboxTask(e) ==
    LET t == task[e] IN
    /\ pc[e] = "done"
    /\ IF status[t] \in {"preparing", "sending"}
       THEN SetStatus(t, "completed") /\ releaseSlot(e)
       ELSE Goto(e, "failing") /\ UNCHANGED <<status, task, aborted, settled>>
    /\ UNCHANGED <<malformed, hostVars, ghostVars>>

\* Mutant: a failure while sending counts as a plain failure.
failOutboxTask_plain(e) ==
    LET t == task[e] IN
    /\ pc[e] = "failing"
    /\ \/ /\ status[t] \in {"preparing", "sending"}
          /\ \E s \in {"failed", "needs_review"} : SetStatus(t, s)
       \/ /\ status[t] \notin {"preparing", "sending"} \/ DbMayFail
          /\ UNCHANGED status
    /\ releaseSlot(e)
    /\ UNCHANGED <<malformed, hostVars, ghostVars>>

\* No row in flight: the call throws, and the execution ends all the same.
failOutboxTask(e) ==
    LET t == task[e] IN
    /\ pc[e] = "failing"
    /\ \/ /\ status[t] = "sending"
          /\ SetStatus(t, "unknown")
       \/ /\ status[t] = "preparing"
          /\ \E s \in {"failed", "needs_review"} : SetStatus(t, s)
       \/ /\ status[t] \notin {"preparing", "sending"} \/ DbMayFail
          /\ UNCHANGED status
    /\ releaseSlot(e)
    /\ UNCHANGED <<malformed, hostVars, ghostVars>>

\* The queue's timer rejects the caller; the slot stays taken.
queueTimeout(e) ==
    /\ pc[e] /= "idle"
    /\ ~settled[e]
    /\ settled' = [settled EXCEPT ![e] = TRUE]
    /\ aborted' = [aborted EXCEPT ![e] = TRUE]
    /\ UNCHANGED <<rowVars, task, pc, hostVars, ghostVars>>

-----------------------------------------------------------------------------
(* Routing start and stop, and the process                                 *)

abortRunning == aborted' = [e \in Execs |-> aborted[e] \/ pc[e] /= "idle"]

\* The dashboard refuses a start while routing is active; forwardQueue.running
\* is checked here, long before the recovery runs.
startForwardingNonInteractive(s) ==
    /\ start[s] = "off"
    /\ ~isRunning
    /\ \A e \in Execs : pc[e] = "idle"
    /\ start' = [start EXCEPT ![s] = "connecting"]
    /\ UNCHANGED <<rowVars, slotVars, paused, isRunning, ghostVars>>

\* Telegram is connected: the queue resumes before the rows are recovered.
connectAndActivateRouting(s) ==
    /\ start[s] = "connecting"
    /\ start' = [start EXCEPT ![s] = "requeue"]
    /\ paused' = FALSE
    /\ isRunning' = TRUE
    /\ UNCHANGED <<rowVars, slotVars, ghostVars>>

\* recoverInterruptedOutboxTasks, first statement.
recoverPreparing(s) ==
    /\ start[s] = "requeue"
    /\ start' = [start EXCEPT ![s] = "reconcile"]
    /\ status' = [t \in Tasks |->
                    IF status[t] = "preparing" THEN "pending" ELSE status[t]]
    /\ UNCHANGED <<malformed, slotVars, paused, isRunning, ghostVars>>

\* Mutant: interrupted sends are simply sent again.
recoverSending_requeue(s) ==
    /\ start[s] = "reconcile"
    /\ start' = [start EXCEPT ![s] = "off"]
    /\ status' = [t \in Tasks |->
                    IF status[t] = "sending" THEN "pending" ELSE status[t]]
    /\ UNCHANGED <<malformed, slotVars, paused, isRunning, ghostVars>>

\* recoverInterruptedOutboxTasks, second statement.
recoverSending(s) ==
    /\ start[s] = "reconcile"
    /\ start' = [start EXCEPT ![s] = "off"]
    /\ status' = [t \in Tasks |->
                    IF status[t] = "sending" THEN "unknown" ELSE status[t]]
    /\ UNCHANGED <<malformed, slotVars, paused, isRunning, ghostVars>>

cleanupFailedRoutingStart(s) ==
    /\ start[s] /= "off"
    /\ start' = [start EXCEPT ![s] = "off"]
    /\ paused' = TRUE
    /\ isRunning' = FALSE
    /\ abortRunning
    /\ UNCHANGED <<rowVars, task, pc, settled, ghostVars>>

\* Also the queue part of performShutdown.
stopForwarding ==
    /\ paused' = TRUE
    /\ isRunning' = FALSE
    /\ abortRunning
    /\ UNCHANGED <<rowVars, task, pc, settled, start, ghostVars>>

\* The process dies: only the database and the provider remember.
Crash ==
    /\ task' = [e \in Execs |-> NoTask]
    /\ pc' = [e \in Execs |-> "idle"]
    /\ aborted' = [e \in Execs |-> FALSE]
    /\ settled' = [e \in Execs |-> FALSE]
    /\ paused' = FALSE
    /\ isRunning' = FALSE
    /\ start' = [s \in Starts |-> "off"]
    /\ UNCHANGED <<rowVars, ghostVars>>

-----------------------------------------------------------------------------

RowStep ==
    \E t \in Tasks :
        \/ enqueueOutboxTask(t)
        \/ reviewOutboxRow(t)
        \/ DamagePayload(t)
        \/ requeueFailed(t)
        \/ requeueUnknown(t)
        \/ acknowledgeOutboxTask(t)
        \/ pruneOperationalData(t)

\* The steps an execution that holds a slot takes by itself.
Proceed(e) ==
    \/ claimOutboxTask(e)
    \/ finishLocally(e)
    \/ markOutboxSending(e)
    \/ invokeAccepted(e)
    \/ tryManualCopyFallback(e)
    \/ confirmDelivery(e)
    \/ throwException(e)
    \/ completeOutboxTask(e)
    \/ failOutboxTask(e)

ExecStep ==
    \E e \in Execs :
        \/ \E t \in Tasks : begin(e, t)
        \/ Proceed(e)
        \/ queueTimeout(e)

\* The steps a started routing call takes by itself.
Activate(s) ==
    \/ connectAndActivateRouting(s)
    \/ recoverPreparing(s)
    \/ recoverSending(s)

Disturb ==
    \/ \E s \in Starts : cleanupFailedRoutingStart(s)
    \/ stopForwarding
    \/ Crash

HostStep ==
    \/ \E s \in Starts : startForwardingNonInteractive(s) \/ Activate(s)
    \/ Disturb

Next == RowStep \/ ExecStep \/ HostStep

Spec == Init /\ [][Next]_vars

-----------------------------------------------------------------------------
(* Properties                                                              *)

\* Row statuses that tell the operator that nothing was sent.
Fresh == {"absent", "pending", "preparing", "failed", "needs_review"}

\* The delivery guarantee of the outbox: whatever crashes, timeouts, stops
\* and restarts happen, at most one message of a task reaches the target,
\* plus one for every time an operator retried it from "unknown".
NoUnauthorisedResend == \A t \in Tasks : exposure[t] <= 1 + retries[t]

\* A row that is pending or failed, which the dashboard offers for a retry
\* without a warning, or that waits for a review, hides no delivery the
\* operator did not answer for.
UnsentRowsHideNoDelivery ==
    \A t \in Tasks : status[t] \in Fresh => exposure[t] <= retries[t]

\* What a row's status says of its message, all that module Delivery shows.
ShownAs(s) ==
    IF s \in Fresh THEN "unsent"
    ELSE IF s \in {"sending", "unknown"} THEN "doubt" ELSE "closed"

Displayed == [t \in Tasks |-> ShownAs(status[t])]

Promise == INSTANCE Delivery
             WITH shown <- Displayed, delivered <- exposure, granted <- retries

\* The outbox implements the promise of module Delivery. Claims, reviews,
\* failures, recoveries, timeouts and crashes are stutters: none of them takes
\* a row out of doubt or reopens a completed or pruned one, an execution that
\* was overtaken delivers nothing a row shown as unsent does not account for,
\* and only requeueUnknown turns doubt into another attempt.
ImplementsDelivery == Promise!Spec

\* README "Zustellgarantie und Recovery": an unknown outcome is never resolved
\* by the program, not even by the late result of an execution that timed out;
\* only a retry or an acknowledgement of the operator takes the row further.
OnlyOperatorResolvesUnknown ==
    [][\A t \in Tasks :
         status[t] = "unknown" /\ status'[t] /= "unknown"
            => requeueUnknown(t) \/ acknowledgeOutboxTask(t)]_vars

InFlight(t) == status[t] \in {"preparing", "sending"}

-----------------------------------------------------------------------------
(* The inductive strengthening of NoUnauthorisedResend                     *)

\* Free slots are clean, and only an aborted execution loses its caller early.
SlotsConsistent ==
    \A e \in Execs : /\ pc[e] = "idle" <=> task[e] = NoTask
                     /\ pc[e] = "idle" => ~settled[e] /\ ~aborted[e]
                     /\ settled[e] => aborted[e]

\* Two executions of a task overlap only when the older one is settled.
OneUnsettled ==
    \A e, f \in Execs :
        task[e] = task[f] /\ task[e] /= NoTask /\ ~settled[e] /\ ~settled[f] => e = f

\* An execution that may still mark its row has not been overtaken by a send.
ClaimedBeforeSending ==
    \A e \in Execs : pc[e] = "claimed" /\ ~aborted[e] => status[task[e]] /= "sending"

\* Some live execution of the task may still call the provider.
MayInvoke(t) ==
    \E e \in Execs : task[e] = t /\ ~aborted[e] /\ pc[e] \in {"marked", "doomed", "copy"}

\* What a task has delivered, what its row may still lead to and what a live
\* execution may still send, together stay within the budget.
WithinBudget ==
    \A t \in Tasks :
        exposure[t] + (IF status[t] \in Fresh THEN 1 ELSE 0)
                    + (IF MayInvoke(t) THEN 1 ELSE 0) <= 1 + retries[t]

IInv == TypeOK /\ SlotsConsistent /\ OneUnsettled /\ ClaimedBeforeSending /\ WithinBudget

-----------------------------------------------------------------------------
(* The delivery guarantee for any set of tasks, any number of queue slots,  *)
(* overlapping routing starts and any bound on retries.                     *)

\* The rows, slots and counters of Outbox start well typed and within budget.
LEMMA InitEstablishesIInv == Init => IInv
<1> SUFFICES ASSUME Init PROVE IInv
  OBVIOUS
<1>1. TypeOK
  <2>1. aborted \in [Execs -> BOOLEAN] /\ settled \in [Execs -> BOOLEAN]
    BY Zenon DEF Init
  <2>2. 0 \in 0 .. MaxRetries
    BY MaxRetriesAssumption
  <2> QED
    BY <2>1, <2>2 DEF Init, TypeOK, OutboxStatus, ExecState, StartState
<1>2. SlotsConsistent /\ OneUnsettled /\ ClaimedBeforeSending
  BY DEF Init, SlotsConsistent, OneUnsettled, ClaimedBeforeSending
<1>3. \A t \in Tasks : ~MayInvoke(t)
  BY DEF Init, MayInvoke
<1>4. WithinBudget
  BY <1>3 DEF Init, WithinBudget, Fresh
<1> QED
  BY <1>1, <1>2, <1>4 DEF IInv

\* A step on the rows alone (enqueue, review, damage, retry, acknowledgement,
\* retention) keeps the invariant.
LEMMA RowStepPreservesIInv == ASSUME IInv, RowStep PROVE IInv'
<1> USE DEF IInv
<1>1. PICK t \in Tasks :
        \/ enqueueOutboxTask(t) \/ reviewOutboxRow(t) \/ DamagePayload(t)
        \/ requeueFailed(t) \/ requeueUnknown(t)
        \/ acknowledgeOutboxTask(t) \/ pruneOperationalData(t)
  BY DEF RowStep
<1> DEFINE Same == UNCHANGED <<task, pc, aborted, settled, paused, isRunning, start>>
<1>2. Same
  BY <1>1 DEF enqueueOutboxTask, reviewOutboxRow, DamagePayload, requeueFailed,
     requeueUnknown, acknowledgeOutboxTask, pruneOperationalData, slotVars, hostVars
<1>3. /\ malformed' \in SUBSET Tasks
      /\ exposure' = exposure
      /\ \/ retries' = retries
         \/ /\ status[t] = "unknown"
            /\ retries[t] < MaxRetries
            /\ retries' = [retries EXCEPT ![t] = @ + 1]
      /\ \E s \in OutboxStatus : status' = [status EXCEPT ![t] = s]
  BY <1>1 DEF enqueueOutboxTask, reviewOutboxRow, DamagePayload, requeueFailed,
     requeueUnknown, acknowledgeOutboxTask, pruneOperationalData, SetStatus,
     Reviewed, TypeOK, OutboxStatus, rowVars, ghostVars
<1>4. TypeOK'
  BY <1>2, <1>3, MaxRetriesAssumption DEF TypeOK
<1>5. SlotsConsistent' /\ OneUnsettled'
  BY <1>2 DEF SlotsConsistent, OneUnsettled
<1>6. status'[t] /= "sending" \/ status' = status
  BY <1>1 DEF enqueueOutboxTask, reviewOutboxRow, DamagePayload, requeueFailed,
     requeueUnknown, acknowledgeOutboxTask, pruneOperationalData, SetStatus,
     Reviewed, TypeOK, OutboxStatus
<1>7. ClaimedBeforeSending'
  BY <1>2, <1>3, <1>6 DEF ClaimedBeforeSending, TypeOK
<1>8. \A u \in Tasks : MayInvoke(u)' <=> MayInvoke(u)
  BY <1>2 DEF MayInvoke
<1>9. status'[t] \in Fresh => status[t] \in Fresh \/ retries'[t] = retries[t] + 1
  BY <1>1, MaxRetriesAssumption DEF enqueueOutboxTask, reviewOutboxRow, DamagePayload, requeueFailed,
     requeueUnknown, acknowledgeOutboxTask, pruneOperationalData, SetStatus,
     Reviewed, TypeOK, OutboxStatus, Fresh
<1>10. WithinBudget'
  <2> SUFFICES ASSUME NEW u \in Tasks
               PROVE  exposure'[u] + (IF status'[u] \in Fresh THEN 1 ELSE 0)
                        + (IF MayInvoke(u)' THEN 1 ELSE 0) <= 1 + retries'[u]
    BY DEF WithinBudget
  <2>1. exposure[u] + (IF status[u] \in Fresh THEN 1 ELSE 0)
          + (IF MayInvoke(u) THEN 1 ELSE 0) <= 1 + retries[u]
    BY DEF WithinBudget
  <2>2. exposure[u] \in Nat /\ retries[u] \in Nat /\ retries'[u] \in Nat
    BY <1>4, MaxRetriesAssumption DEF TypeOK
  <2>3. CASE u = t
    BY <2>1, <2>2, <2>3, <1>3, <1>8, <1>9 DEF TypeOK
  <2>4. CASE u /= t
    BY <2>1, <2>2, <2>4, <1>3, <1>8 DEF TypeOK
  <2> QED
    BY <2>3, <2>4
<1> QED
  BY <1>4, <1>5, <1>7, <1>10

\* An execution step touches one slot e and the row of its task. The facts the
\* cases below share: what the slot may become and what the other slots are.
LEMMA ReleasePreservesSlots ==
  ASSUME TypeOK, SlotsConsistent, OneUnsettled, NEW e \in Execs, releaseSlot(e)
  PROVE  /\ SlotsConsistent' /\ OneUnsettled'
         /\ pc' \in [Execs -> ExecState]
         /\ task' \in [Execs -> Tasks \cup {NoTask}]
         /\ aborted' \in [Execs -> BOOLEAN]
         /\ settled' \in [Execs -> BOOLEAN]
         /\ \A f \in Execs : pc'[f] /= "idle" =>
               f /= e /\ pc'[f] = pc[f] /\ task'[f] = task[f] /\ aborted'[f] = aborted[f]
<1>1. /\ \A f \in Execs \ {e} : /\ pc'[f] = pc[f] /\ task'[f] = task[f]
                                /\ aborted'[f] = aborted[f] /\ settled'[f] = settled[f]
      /\ pc'[e] = "idle" /\ task'[e] = NoTask /\ ~aborted'[e] /\ ~settled'[e]
  BY DEF releaseSlot, Goto, TypeOK
<1>2. aborted' \in [Execs -> BOOLEAN] /\ settled' \in [Execs -> BOOLEAN]
  BY Zenon DEF releaseSlot, TypeOK
<1>3. pc' \in [Execs -> ExecState] /\ task' \in [Execs -> Tasks \cup {NoTask}]
  BY DEF releaseSlot, Goto, TypeOK, ExecState
<1>4. SlotsConsistent'
  BY <1>1 DEF SlotsConsistent
<1>5. OneUnsettled'
  BY <1>1 DEF OneUnsettled
<1> QED
  BY <1>1, <1>2, <1>3, <1>4, <1>5

\* Releasing a slot takes away from what a task may still send.
LEMMA ReleaseShrinksMayInvoke ==
  ASSUME TypeOK, SlotsConsistent, OneUnsettled, NEW e \in Execs, releaseSlot(e), NEW t \in Tasks
  PROVE  MayInvoke(t)' => MayInvoke(t)
BY ReleasePreservesSlots DEF MayInvoke

\* If no task becomes fresh, gains a sender or an exposure, the budget holds.
LEMMA BudgetMonotone ==
  ASSUME TypeOK, WithinBudget, exposure' = exposure, retries' = retries,
         \A t \in Tasks : status'[t] \in Fresh => status[t] \in Fresh,
         \A t \in Tasks : MayInvoke(t)' => MayInvoke(t)
  PROVE  WithinBudget'
<1> SUFFICES ASSUME NEW t \in Tasks
             PROVE  exposure'[t] + (IF status'[t] \in Fresh THEN 1 ELSE 0)
                      + (IF MayInvoke(t)' THEN 1 ELSE 0) <= 1 + retries'[t]
  BY DEF WithinBudget
<1>1. exposure[t] + (IF status[t] \in Fresh THEN 1 ELSE 0)
        + (IF MayInvoke(t) THEN 1 ELSE 0) <= 1 + retries[t]
  BY DEF WithinBudget
<1>2. exposure[t] \in Nat /\ retries[t] \in Nat
  BY MaxRetriesAssumption DEF TypeOK
<1> QED
  BY <1>1, <1>2

\* A step of one execution (begin, claim, local result, mark, provider call,
\* fallback, confirmation, exception, completion, failure, timeout) keeps it.
LEMMA ExecStepPreservesIInv == ASSUME IInv, ExecStep PROVE IInv'
<1> USE DEF IInv
<1>1. PICK e \in Execs :
        \/ \E t \in Tasks : begin(e, t)
        \/ Proceed(e)
        \/ queueTimeout(e)
  BY DEF ExecStep
<1>2. ASSUME NEW t \in Tasks, begin(e, t) PROVE IInv'
  <2>1. TypeOK'
    BY <1>2 DEF begin, Goto, TypeOK, ExecState, rowVars, hostVars, ghostVars
  <2>2. SlotsConsistent'
    BY <1>2, NoTaskAssumption DEF begin, Goto, TypeOK, SlotsConsistent
  <2>3. OneUnsettled'
    BY <1>2 DEF begin, Unsettled, TypeOK, OneUnsettled
  <2>4. ClaimedBeforeSending'
    BY <1>2 DEF begin, Goto, TypeOK, ClaimedBeforeSending, rowVars
  <2>5. \A u \in Tasks : MayInvoke(u)' => MayInvoke(u)
    BY <1>2 DEF begin, Goto, TypeOK, MayInvoke
  <2>6. WithinBudget'
    BY <1>2, <2>5, BudgetMonotone DEF begin, rowVars, ghostVars
  <2> QED
    BY <2>1, <2>2, <2>3, <2>4, <2>6
<1>3. CASE claimOutboxTask(e)
  <2> DEFINE t == task[e]
  <2>0. t \in Tasks /\ UNCHANGED <<malformed, paused, isRunning, start, exposure, retries>>
    BY <1>3 DEF claimOutboxTask, TypeOK, SlotsConsistent, hostVars, ghostVars
  <2>1. CASE /\ status[t] \in {"pending", "failed"}
             /\ status' = [status EXCEPT ![t] = "preparing"]
             /\ pc[e] = "begun"
             /\ pc' = [pc EXCEPT ![e] = "claimed"]
             /\ UNCHANGED <<task, aborted, settled>>
    <3>1. TypeOK'
      BY <2>0, <2>1 DEF TypeOK, ExecState, OutboxStatus
    <3>2. SlotsConsistent' /\ OneUnsettled'
      BY <2>1 DEF TypeOK, SlotsConsistent, OneUnsettled
    <3>3. ClaimedBeforeSending'
      BY <2>0, <2>1 DEF TypeOK, ClaimedBeforeSending
    <3>4. \A u \in Tasks : MayInvoke(u)' => MayInvoke(u)
      BY <2>1 DEF TypeOK, MayInvoke
    <3>5. \A u \in Tasks : status'[u] \in Fresh => status[u] \in Fresh
      BY <2>0, <2>1 DEF TypeOK, Fresh
    <3> QED
      BY <2>0, <3>1, <3>2, <3>3, <3>4, <3>5, BudgetMonotone
  <2>2. CASE status' = [status EXCEPT ![t] = Reviewed(t)] /\ releaseSlot(e)
    <3>1. Reviewed(t) \in OutboxStatus
      BY <2>0 DEF Reviewed, TypeOK, OutboxStatus
    <3>2. TypeOK'
      BY <2>0, <2>2, <3>1, ReleasePreservesSlots DEF TypeOK
    <3>3. \A u \in Tasks : /\ status'[u] = "sending" => status[u] = "sending"
                           /\ status'[u] \in Fresh => status[u] \in Fresh
      BY <2>0, <2>2 DEF Reviewed, TypeOK, OutboxStatus, Fresh
    <3>4. ClaimedBeforeSending'
      BY <2>2, <3>3, ReleasePreservesSlots DEF ClaimedBeforeSending, SlotsConsistent, TypeOK
    <3> QED
      BY <2>0, <2>2, <3>2, <3>3, <3>4, ReleasePreservesSlots, ReleaseShrinksMayInvoke, BudgetMonotone
  <2> QED
    BY <1>3, <2>1, <2>2 DEF claimOutboxTask, SetStatus, Goto
<1>4. ASSUME NEW from \in ExecState, NEW to \in ExecState, pc[e] = from,
             pc' = [pc EXCEPT ![e] = to], from /= "idle", to \notin {"idle", "claimed"},
             to \in {"marked", "doomed", "copy"} => from \in {"marked", "doomed", "copy"},
             UNCHANGED <<status, malformed, task, aborted, settled,
                         paused, isRunning, start, exposure, retries>>
      PROVE  IInv'
  <2>1. TypeOK'
    BY <1>4 DEF TypeOK
  <2>2. SlotsConsistent' /\ OneUnsettled'
    BY <1>4 DEF TypeOK, SlotsConsistent, OneUnsettled
  <2>3. ClaimedBeforeSending'
    BY <1>4 DEF TypeOK, ClaimedBeforeSending
  <2>4. \A u \in Tasks : MayInvoke(u)' => MayInvoke(u)
    BY <1>4 DEF TypeOK, MayInvoke
  <2> QED
    BY <1>4, <2>1, <2>2, <2>3, <2>4, BudgetMonotone
<1> USE DEF slotVars, rowVars, hostVars, ghostVars
<1>5. CASE finishLocally(e)
  BY <1>4, <1>5 DEF finishLocally, Goto, ExecState
<1>6. CASE tryManualCopyFallback(e)
  BY <1>4, <1>6 DEF tryManualCopyFallback, Goto, ExecState
<1>7. CASE confirmDelivery(e)
  BY <1>4, <1>7 DEF confirmDelivery, Goto, ExecState
<1>8. CASE throwException(e)
  BY <1>4, <1>8 DEF throwException, Goto, ExecState
<1>9. CASE queueTimeout(e)
  <2>1. /\ \A f \in Execs \ {e} : settled'[f] = settled[f] /\ aborted'[f] = aborted[f]
        /\ settled'[e] /\ aborted'[e] /\ pc[e] /= "idle"
        /\ UNCHANGED <<rowVars, task, pc, hostVars, ghostVars>>
    BY <1>9 DEF queueTimeout, TypeOK
  <2>2. settled' \in [Execs -> BOOLEAN] /\ aborted' \in [Execs -> BOOLEAN]
    BY <1>9, Zenon DEF queueTimeout, TypeOK
  <2>3. TypeOK'
    BY <2>1, <2>2 DEF TypeOK
  <2>4. SlotsConsistent' /\ OneUnsettled' /\ ClaimedBeforeSending'
    BY <2>1 DEF SlotsConsistent, OneUnsettled, ClaimedBeforeSending
  <2>5. \A u \in Tasks : MayInvoke(u)' => MayInvoke(u)
    BY <2>1 DEF MayInvoke
  <2> QED
    BY <2>1, <2>3, <2>4, <2>5, BudgetMonotone
<1>10. CASE markOutboxSending(e)
  <2> DEFINE t == task[e]
  <2>0. t \in Tasks /\ pc[e] = "claimed" /\ ~aborted[e]
    BY <1>10 DEF markOutboxSending, TypeOK, SlotsConsistent
  <2>1. CASE /\ status[t] \in {"preparing", "sending"}
             /\ status' = [status EXCEPT ![t] = "sending"]
             /\ pc' = [pc EXCEPT ![e] = "marked"]
    <3>1. UNCHANGED <<malformed, task, aborted, settled, hostVars, ghostVars>>
      BY <1>10 DEF markOutboxSending
    <3>2. TypeOK'
      BY <2>0, <2>1, <3>1 DEF TypeOK, ExecState, OutboxStatus
    <3>3. SlotsConsistent' /\ OneUnsettled'
      BY <2>0, <2>1, <3>1 DEF TypeOK, SlotsConsistent, OneUnsettled
    <3>4. \A f \in Execs : task[f] = t /\ ~aborted[f] => f = e
      BY <2>0, NoTaskAssumption DEF SlotsConsistent, OneUnsettled, TypeOK
    <3>5. ClaimedBeforeSending'
      BY <2>0, <2>1, <3>1, <3>4 DEF TypeOK, ClaimedBeforeSending
    <3>6. status[t] = "preparing" /\ ~MayInvoke(t)
      BY <2>0, <2>1, <3>4 DEF ClaimedBeforeSending, MayInvoke
    <3>7. \A u \in Tasks \ {t} : status'[u] = status[u] /\ (MayInvoke(u)' => MayInvoke(u))
      BY <2>0, <2>1, <3>1 DEF TypeOK, MayInvoke
    <3>8. WithinBudget'
      <4> SUFFICES ASSUME NEW u \in Tasks
                   PROVE  exposure[u] + (IF status'[u] \in Fresh THEN 1 ELSE 0)
                            + (IF MayInvoke(u)' THEN 1 ELSE 0) <= 1 + retries[u]
        BY <3>1 DEF WithinBudget
      <4>1. exposure[u] + (IF status[u] \in Fresh THEN 1 ELSE 0)
              + (IF MayInvoke(u) THEN 1 ELSE 0) <= 1 + retries[u]
        BY DEF WithinBudget
      <4>2. exposure[u] \in Nat /\ retries[u] \in Nat
        BY MaxRetriesAssumption DEF TypeOK
      <4>3. CASE u = t
        BY <4>1, <4>2, <4>3, <2>0, <2>1, <3>6 DEF Fresh, TypeOK
      <4>4. CASE u /= t
        BY <4>1, <4>2, <4>4, <3>7
      <4> QED
        BY <4>3, <4>4
    <3> QED
      BY <3>2, <3>3, <3>5, <3>8
  <2>2. CASE UNCHANGED status /\ pc' = [pc EXCEPT ![e] = "failing"]
    BY <1>4, <1>10, <2>0, <2>2 DEF markOutboxSending, ExecState
  <2> QED
    BY <1>10, <2>1, <2>2 DEF markOutboxSending, SetStatus, Goto
<1>11. CASE invokeAccepted(e)
  <2> DEFINE t == task[e]
  <2>0. /\ t \in Tasks /\ pc[e] \in {"marked", "copy"} /\ ~aborted[e]
        /\ UNCHANGED <<rowVars, task, aborted, settled, hostVars, retries>>
    BY <1>11 DEF invokeAccepted, TypeOK, SlotsConsistent
  <2>1. CASE /\ pc' = [pc EXCEPT ![e] = "waiting"]
             /\ exposure' = [exposure EXCEPT ![t] = @ + 1]
    <3>1. TypeOK'
      BY <2>0, <2>1 DEF TypeOK, ExecState
    <3>2. SlotsConsistent' /\ OneUnsettled' /\ ClaimedBeforeSending'
      BY <2>0, <2>1 DEF TypeOK, SlotsConsistent, OneUnsettled, ClaimedBeforeSending
    <3>3. \A f \in Execs : task[f] = t /\ ~aborted[f] => f = e
      BY <2>0, NoTaskAssumption DEF SlotsConsistent, OneUnsettled, TypeOK
    <3>4. MayInvoke(t) /\ ~MayInvoke(t)'
      BY <2>0, <2>1, <3>3 DEF MayInvoke, TypeOK
    <3>5. \A u \in Tasks \ {t} : exposure'[u] = exposure[u] /\ (MayInvoke(u)' => MayInvoke(u))
      BY <2>0, <2>1 DEF TypeOK, MayInvoke
    <3>6. WithinBudget'
      <4> SUFFICES ASSUME NEW u \in Tasks
                   PROVE  exposure'[u] + (IF status[u] \in Fresh THEN 1 ELSE 0)
                            + (IF MayInvoke(u)' THEN 1 ELSE 0) <= 1 + retries[u]
        BY <2>0 DEF WithinBudget
      <4>1. exposure[u] + (IF status[u] \in Fresh THEN 1 ELSE 0)
              + (IF MayInvoke(u) THEN 1 ELSE 0) <= 1 + retries[u]
        BY DEF WithinBudget
      <4>2. exposure[u] \in Nat /\ retries[u] \in Nat
        BY MaxRetriesAssumption DEF TypeOK
      <4>3. CASE u = t
        BY <4>1, <4>2, <4>3, <2>0, <2>1, <3>4 DEF TypeOK
      <4>4. CASE u /= t
        BY <4>1, <4>2, <4>4, <3>5
      <4> QED
        BY <4>3, <4>4
    <3> QED
      BY <3>1, <3>2, <3>6
  <2>2. CASE pc' = [pc EXCEPT ![e] = "doomed"] /\ UNCHANGED exposure
    BY <1>4, <2>0, <2>2 DEF ExecState
  <2> QED
    BY <1>11, <2>1, <2>2 DEF invokeAccepted, Goto
<1>12. ASSUME task[e] \in Tasks, NEW s \in OutboxStatus \ (Fresh \cup {"sending"}),
              \/ status' = [status EXCEPT ![task[e]] = s]
              \/ status' = status
              \/ /\ status[task[e]] = "preparing"
                 /\ \E r \in {"failed", "needs_review"} : status' = [status EXCEPT ![task[e]] = r],
              releaseSlot(e), UNCHANGED <<malformed, hostVars, ghostVars>>
       PROVE  IInv'
  <2>1. TypeOK'
    BY <1>12, ReleasePreservesSlots DEF TypeOK, OutboxStatus
  <2>2. \A u \in Tasks : /\ status'[u] = "sending" => status[u] = "sending"
                         /\ status'[u] \in Fresh => status[u] \in Fresh
    BY <1>12 DEF TypeOK, Fresh
  <2>3. ClaimedBeforeSending'
    BY <2>2, <1>12, ReleasePreservesSlots DEF ClaimedBeforeSending, SlotsConsistent, TypeOK
  <2> QED
    BY <1>12, <2>1, <2>2, <2>3, ReleasePreservesSlots, ReleaseShrinksMayInvoke, BudgetMonotone
<1>13. CASE completeOutboxTask(e)
  <2>1. task[e] \in Tasks /\ "completed" \in OutboxStatus \ (Fresh \cup {"sending"})
    BY <1>13 DEF completeOutboxTask, TypeOK, SlotsConsistent, OutboxStatus, Fresh
  <2>2. CASE status[task[e]] \in {"preparing", "sending"}
    BY <1>12, <1>13, <2>1, <2>2 DEF completeOutboxTask, SetStatus
  <2>3. CASE status[task[e]] \notin {"preparing", "sending"}
    BY <1>4, <1>13, <2>3 DEF completeOutboxTask, Goto, ExecState
  <2> QED
    BY <2>2, <2>3
<1>14. CASE failOutboxTask(e)
  <2>1. /\ task[e] \in Tasks
        /\ "unknown" \in OutboxStatus \ (Fresh \cup {"sending"})
    BY <1>14 DEF failOutboxTask, TypeOK, SlotsConsistent, OutboxStatus, Fresh
  <2>2. releaseSlot(e) /\ UNCHANGED <<malformed, hostVars, ghostVars>>
    BY <1>14 DEF failOutboxTask
  <2>3. \/ status' = [status EXCEPT ![task[e]] = "unknown"]
        \/ /\ status[task[e]] = "preparing"
           /\ \E r \in {"failed", "needs_review"} : status' = [status EXCEPT ![task[e]] = r]
        \/ status' = status
    BY <1>14 DEF failOutboxTask, SetStatus
  <2> QED
    BY <1>12, <2>1, <2>2, <2>3
<1> QED
  BY <1>1, <1>2, <1>3, <1>5, <1>6, <1>7, <1>8, <1>9, <1>10, <1>11, <1>13, <1>14 DEF Proceed

\* Routing start, its recovery statements, stop and crash keep the invariant.
LEMMA HostStepPreservesIInv == ASSUME IInv, HostStep PROVE IInv'
<1> USE DEF IInv, slotVars, rowVars, hostVars, ghostVars
<1>1. ASSUME NEW s \in Starts, startForwardingNonInteractive(s) \/ connectAndActivateRouting(s)
      PROVE  IInv'
  <2>1. UNCHANGED <<rowVars, slotVars, ghostVars>>
    BY <1>1 DEF startForwardingNonInteractive, connectAndActivateRouting
  <2>2. TypeOK'
    BY <1>1, <2>1 DEF startForwardingNonInteractive, connectAndActivateRouting, TypeOK, StartState
  <2>3. SlotsConsistent' /\ OneUnsettled' /\ ClaimedBeforeSending'
    BY <2>1 DEF SlotsConsistent, OneUnsettled, ClaimedBeforeSending
  <2>4. \A t \in Tasks : MayInvoke(t)' => MayInvoke(t)
    BY <2>1 DEF MayInvoke
  <2> QED
    BY <2>1, <2>2, <2>3, <2>4, BudgetMonotone
<1>2. ASSUME NEW s \in Starts, recoverPreparing(s) \/ recoverSending(s)
      PROVE  IInv'
  <2>1. UNCHANGED <<malformed, slotVars, ghostVars>>
    BY <1>2 DEF recoverPreparing, recoverSending
  <2>2. \A t \in Tasks : /\ status'[t] \in OutboxStatus
                         /\ status'[t] = "sending" => status[t] = "sending"
                         /\ status'[t] \in Fresh => status[t] \in Fresh
    BY <1>2 DEF recoverPreparing, recoverSending, TypeOK, OutboxStatus, Fresh
  <2>3. TypeOK'
    BY <1>2, <2>1, <2>2 DEF recoverPreparing, recoverSending, TypeOK, StartState
  <2>4. SlotsConsistent' /\ OneUnsettled'
    BY <2>1 DEF SlotsConsistent, OneUnsettled
  <2>5. ClaimedBeforeSending'
    BY <2>1, <2>2 DEF ClaimedBeforeSending, TypeOK, SlotsConsistent
  <2>6. \A t \in Tasks : MayInvoke(t)' => MayInvoke(t)
    BY <2>1 DEF MayInvoke
  <2> QED
    BY <2>1, <2>2, <2>3, <2>4, <2>5, <2>6, BudgetMonotone
<1>3. CASE stopForwarding \/ \E s \in Starts : cleanupFailedRoutingStart(s)
  <2>1. /\ UNCHANGED <<rowVars, task, pc, settled, ghostVars>>
        /\ aborted' = [e \in Execs |-> aborted[e] \/ pc[e] /= "idle"]
        /\ paused' = TRUE /\ isRunning' = FALSE
        /\ start' \in [Starts -> StartState]
    BY <1>3 DEF stopForwarding, cleanupFailedRoutingStart, abortRunning, TypeOK, StartState
  <2>2. aborted' \in [Execs -> BOOLEAN]
    BY <2>1, Zenon
  <2>3. \A e \in Execs : aborted'[e] <=> aborted[e] \/ pc[e] /= "idle"
    BY <2>1
  <2>4. TypeOK'
    BY <2>1, <2>2 DEF TypeOK
  <2>5. SlotsConsistent' /\ OneUnsettled' /\ ClaimedBeforeSending'
    BY <2>1, <2>3 DEF SlotsConsistent, OneUnsettled, ClaimedBeforeSending
  <2>6. \A t \in Tasks : MayInvoke(t)' => MayInvoke(t)
    BY <2>1, <2>3 DEF MayInvoke
  <2> QED
    BY <2>1, <2>4, <2>5, <2>6, BudgetMonotone
<1>4. CASE Crash
  <2>1. \A e \in Execs : pc'[e] = "idle" /\ task'[e] = NoTask /\ ~aborted'[e] /\ ~settled'[e]
    BY <1>4 DEF Crash
  <2>2. aborted' \in [Execs -> BOOLEAN] /\ settled' \in [Execs -> BOOLEAN]
    BY <1>4, Zenon DEF Crash
  <2>3. TypeOK'
    BY <1>4, <2>2 DEF Crash, TypeOK, ExecState, StartState
  <2>4. SlotsConsistent' /\ OneUnsettled' /\ ClaimedBeforeSending'
    BY <2>1 DEF SlotsConsistent, OneUnsettled, ClaimedBeforeSending
  <2>5. \A t \in Tasks : MayInvoke(t)' => MayInvoke(t)
    BY <2>1 DEF MayInvoke
  <2> QED
    BY <1>4, <2>3, <2>4, <2>5, BudgetMonotone DEF Crash
<1> QED
  BY <1>1, <1>2, <1>3, <1>4 DEF HostStep, Activate, Disturb

\* Every behaviour of the outbox stays within the inductive invariant.
THEOREM OutboxInvariant == Spec => []IInv
<1>1. IInv /\ [Next]_vars => IInv'
  <2> SUFFICES ASSUME IInv, [Next]_vars PROVE IInv'
    OBVIOUS
  <2>1. CASE Next
    BY <2>1, RowStepPreservesIInv, ExecStepPreservesIInv, HostStepPreservesIInv DEF Next
  <2>2. CASE UNCHANGED vars
    BY <2>2 DEF vars, rowVars, slotVars, hostVars, ghostVars, IInv, TypeOK, SlotsConsistent,
       OneUnsettled, ClaimedBeforeSending, WithinBudget, MayInvoke
  <2> QED
    BY <2>1, <2>2
<1> QED
  BY <1>1, InitEstablishesIInv, PTL DEF Spec

\* Type correctness of rows, slots and counters.
THEOREM OutboxTypeCorrect == Spec => []TypeOK
<1>1. IInv => TypeOK
  BY DEF IInv
<1> QED
  BY <1>1, OutboxInvariant, PTL

\* The delivery guarantee: no message beyond the first without an operator's
\* retry from unknown (claim, mark, fail and recovery of pending_tasks).
THEOREM NoResend == Spec => []NoUnauthorisedResend
<1>1. IInv => NoUnauthorisedResend
  BY MaxRetriesAssumption DEF IInv, TypeOK, WithinBudget, NoUnauthorisedResend
<1> QED
  BY <1>1, OutboxInvariant, PTL

\* A row offered for a plain retry, or about to be claimed, hides no delivery.
THEOREM UnsentIsUnsent == Spec => []UnsentRowsHideNoDelivery
<1>1. IInv => UnsentRowsHideNoDelivery
  BY MaxRetriesAssumption DEF IInv, TypeOK, WithinBudget, UnsentRowsHideNoDelivery
<1> QED
  BY <1>1, OutboxInvariant, PTL

\* A step that keeps what every status says of its message keeps the display.
LEMMA SameDisplay ==
  ASSUME \A t \in Tasks : ShownAs(status'[t]) = ShownAs(status[t])
  PROVE  Displayed' = Displayed
BY DEF Displayed

\* A write of one row's status changes the display of that row alone.
LEMMA OneDisplay ==
  ASSUME TypeOK, NEW t \in Tasks, NEW s, status' = [status EXCEPT ![t] = s]
  PROVE  Displayed' = [Displayed EXCEPT ![t] = ShownAs(s)]
<1>1. \A u \in Tasks : status'[u] = IF u = t THEN s ELSE status[u]
  BY DEF TypeOK
<1>2. \A u \in Tasks : ShownAs(status'[u]) = IF u = t THEN ShownAs(s) ELSE ShownAs(status[u])
  BY <1>1
<1> QED
  BY <1>2 DEF Displayed

\* What each status an outbox step writes or leaves says of the message.
LEMMA Readings ==
  /\ ShownAs("pending") = "unsent" /\ ShownAs("preparing") = "unsent"
  /\ ShownAs("sending") = "doubt" /\ ShownAs("unknown") = "doubt"
  /\ ShownAs("completed") = "closed"
BY DEF ShownAs, Fresh

\* The steps on the rows: a retry from unknown authorises, an acknowledgement
\* closes, everything else (enqueue, review, damage, plain retry, retention)
\* leaves the promise where it is.
LEMMA RowStepKeepsPromise ==
  ASSUME IInv, RowStep
  PROVE  [Promise!Next]_<<Displayed, exposure, retries>>
<1>1. PICK t \in Tasks :
        \/ enqueueOutboxTask(t) \/ reviewOutboxRow(t) \/ DamagePayload(t)
        \/ requeueFailed(t) \/ requeueUnknown(t)
        \/ acknowledgeOutboxTask(t) \/ pruneOperationalData(t)
  BY DEF RowStep
<1>2. CASE requeueUnknown(t)
  <2>1. /\ Displayed' = [Displayed EXCEPT ![t] = "unsent"]
        /\ Displayed[t] = "doubt"
    <3>0. status' = [status EXCEPT ![t] = "pending"]
      BY <1>2 DEF requeueUnknown, SetStatus
    <3>1. Displayed' = [Displayed EXCEPT ![t] = "unsent"]
      BY <3>0, OneDisplay, Readings DEF IInv
    <3>2. Displayed[t] = "doubt"
      BY <1>2, Readings DEF requeueUnknown, Displayed
    <3> QED
      BY <3>1, <3>2
  <2>2. Promise!Authorise(t)
    BY <1>2, <2>1 DEF requeueUnknown, Promise!Authorise
  <2> QED
    BY <2>2 DEF Promise!Next
<1>3. CASE acknowledgeOutboxTask(t)
  <2>1. /\ Displayed' = [Displayed EXCEPT ![t] = "closed"]
        /\ Displayed[t] = "doubt"
    <3>0. status' = [status EXCEPT ![t] = "completed"]
      BY <1>3 DEF acknowledgeOutboxTask, SetStatus
    <3>1. Displayed' = [Displayed EXCEPT ![t] = "closed"]
      BY <3>0, OneDisplay, Readings DEF IInv
    <3>2. Displayed[t] = "doubt"
      BY <1>3, Readings DEF acknowledgeOutboxTask, Displayed
    <3> QED
      BY <3>1, <3>2
  <2>2. Promise!Close(t)
    BY <1>3, <2>1 DEF acknowledgeOutboxTask, Promise!Close, ghostVars
  <2> QED
    BY <2>2 DEF Promise!Next
<1>4. CASE \/ enqueueOutboxTask(t) \/ reviewOutboxRow(t) \/ DamagePayload(t)
           \/ requeueFailed(t) \/ pruneOperationalData(t)
  <2>1. \A u \in Tasks : ShownAs(status'[u]) = ShownAs(status[u])
    BY <1>4 DEF enqueueOutboxTask, reviewOutboxRow, DamagePayload, requeueFailed,
       pruneOperationalData, SetStatus, Reviewed, IInv, TypeOK, OutboxStatus, ShownAs, Fresh
  <2>2. UNCHANGED <<exposure, retries>>
    BY <1>4 DEF enqueueOutboxTask, reviewOutboxRow, DamagePayload, requeueFailed,
       pruneOperationalData, ghostVars
  <2> QED
    BY <2>1, <2>2, SameDisplay
<1> QED
  BY <1>1, <1>2, <1>3, <1>4

\* The steps of an execution: the mark before the provider call is the attempt,
\* an accepted message is delivered within the promise, a completion closes.
LEMMA ExecStepKeepsPromise ==
  ASSUME IInv, ExecStep
  PROVE  [Promise!Next]_<<Displayed, exposure, retries>>
<1>1. PICK e \in Execs : (\E t \in Tasks : begin(e, t)) \/ Proceed(e) \/ queueTimeout(e)
  BY DEF ExecStep
<1>2. Proceed(e) => task[e] \in Tasks
  BY DEF Proceed, claimOutboxTask, finishLocally, markOutboxSending, invokeAccepted,
     tryManualCopyFallback, confirmDelivery, throwException, completeOutboxTask,
     failOutboxTask, IInv, TypeOK, SlotsConsistent
<1>3. CASE \/ \E t \in Tasks : begin(e, t)
           \/ finishLocally(e) \/ tryManualCopyFallback(e) \/ confirmDelivery(e)
           \/ throwException(e) \/ queueTimeout(e)
  <2>1. UNCHANGED <<status, exposure, retries>>
    BY <1>3 DEF begin, finishLocally, tryManualCopyFallback, confirmDelivery,
       throwException, queueTimeout, rowVars, ghostVars
  <2> QED
    BY <2>1, SameDisplay
<1>4. CASE claimOutboxTask(e) \/ failOutboxTask(e)
  <2>1. \A u \in Tasks : ShownAs(status'[u]) = ShownAs(status[u])
    <3> DEFINE t == task[e]
    <3>1. t \in Tasks
      BY <1>2, <1>4 DEF Proceed
    <3>2. \/ status' = status
          \/ \E s \in OutboxStatus : /\ status' = [status EXCEPT ![t] = s]
                                     /\ ShownAs(s) = ShownAs(status[t])
      BY <1>4, <3>1 DEF claimOutboxTask, failOutboxTask, SetStatus, Reviewed, IInv,
         TypeOK, OutboxStatus, ShownAs, Fresh
    <3> QED
      BY <3>1, <3>2 DEF IInv, TypeOK
  <2>2. UNCHANGED <<exposure, retries>>
    BY <1>4 DEF claimOutboxTask, failOutboxTask, ghostVars
  <2> QED
    BY <2>1, <2>2, SameDisplay
<1>5. CASE markOutboxSending(e)
  <2> DEFINE t == task[e]
  <2>1. t \in Tasks /\ UNCHANGED <<exposure, retries>>
    BY <1>2, <1>5 DEF Proceed, markOutboxSending, ghostVars
  <2>2. CASE status[t] = "preparing"
    <3>1. status' = [status EXCEPT ![t] = "sending"]
      BY <1>5, <2>2 DEF markOutboxSending, SetStatus
    <3>2. Displayed' = [Displayed EXCEPT ![t] = "doubt"]
      BY <2>1, <3>1, OneDisplay, Readings DEF IInv
    <3>3. Displayed[t] = "unsent"
      BY <2>1, <2>2, Readings DEF Displayed
    <3> QED
      BY <2>1, <3>2, <3>3 DEF Promise!Attempt, Promise!Next
  <2>3. CASE status[t] /= "preparing"
    <3>1. status' = status
      BY <1>5, <2>1, <2>3 DEF markOutboxSending, SetStatus, IInv, TypeOK
    <3> QED
      BY <2>1, <3>1, SameDisplay
  <2> QED
    BY <2>2, <2>3
<1>6. CASE invokeAccepted(e)
  <2> DEFINE t == task[e]
  <2>1. /\ t \in Tasks /\ status' = status /\ retries' = retries
        /\ exposure' = exposure \/ exposure' = [exposure EXCEPT ![t] = @ + 1]
    BY <1>2, <1>6 DEF Proceed, invokeAccepted, rowVars
  <2>2. MayInvoke(t)
    BY <1>6 DEF invokeAccepted, MayInvoke
  <2>3. exposure[t] < retries[t] + (IF Displayed[t] = "unsent" THEN 0 ELSE 1)
    <3>1. Displayed[t] = "unsent" <=> status[t] \in Fresh
      BY <2>1 DEF Displayed, ShownAs
    <3>2. exposure[t] \in Nat /\ retries[t] \in Nat
      BY <2>1, MaxRetriesAssumption DEF IInv, TypeOK
    <3> QED
      BY <2>1, <2>2, <3>1, <3>2 DEF IInv, WithinBudget
  <2>4. Displayed' = Displayed
    BY <2>1, SameDisplay
  <2>5. CASE exposure' = exposure
    BY <2>1, <2>4, <2>5
  <2>6. CASE exposure' = [exposure EXCEPT ![t] = @ + 1]
    BY <2>1, <2>3, <2>4, <2>6 DEF Promise!Deliver, Promise!Next
  <2> QED
    BY <2>1, <2>5, <2>6
<1>7. CASE completeOutboxTask(e)
  <2> DEFINE t == task[e]
  <2>1. t \in Tasks /\ UNCHANGED <<exposure, retries>>
    BY <1>2, <1>7 DEF Proceed, completeOutboxTask, ghostVars
  <2>2. CASE status[t] \in {"preparing", "sending"}
    <3>1. status' = [status EXCEPT ![t] = "completed"]
      BY <1>7, <2>2 DEF completeOutboxTask, SetStatus
    <3>2. Displayed' = [Displayed EXCEPT ![t] = "closed"]
      BY <2>1, <3>1, OneDisplay, Readings DEF IInv
    <3>3. Displayed[t] \in {"unsent", "doubt"}
      BY <2>1, <2>2, Readings DEF Displayed
    <3> QED
      BY <2>1, <3>2, <3>3 DEF Promise!Close, Promise!Next
  <2>3. CASE status[t] \notin {"preparing", "sending"}
    <3>1. status' = status
      BY <1>7, <2>3 DEF completeOutboxTask
    <3> QED
      BY <2>1, <3>1, SameDisplay
  <2> QED
    BY <2>2, <2>3
<1> QED
  BY <1>1, <1>3, <1>4, <1>5, <1>6, <1>7 DEF Proceed

\* Routing start with its recovery, stop and crash: preparing returns to
\* pending and sending becomes unknown, which say the same of the message.
LEMMA HostStepKeepsPromise ==
  ASSUME IInv, HostStep
  PROVE  UNCHANGED <<Displayed, exposure, retries>>
<1>1. \A t \in Tasks : ShownAs(status'[t]) = ShownAs(status[t])
  BY DEF HostStep, Activate, Disturb, startForwardingNonInteractive,
     connectAndActivateRouting, recoverPreparing, recoverSending,
     cleanupFailedRoutingStart, stopForwarding, Crash, rowVars, ShownAs, Fresh
<1>2. UNCHANGED <<exposure, retries>>
  BY DEF HostStep, Activate, Disturb, startForwardingNonInteractive,
     connectAndActivateRouting, recoverPreparing, recoverSending,
     cleanupFailedRoutingStart, stopForwarding, Crash, ghostVars
<1> QED
  BY <1>1, <1>2, SameDisplay

\* The outbox implements the promise of module Delivery: every step is an
\* attempt, a delivery, a closure, an authorisation or a stutter of it.
THEOREM OutboxImplementsDelivery == Spec => ImplementsDelivery
<1>1. Init => Promise!Init
  BY DEF Init, Promise!Init, Displayed, ShownAs, Fresh
<1>2. IInv /\ [Next]_vars => [Promise!Next]_<<Displayed, exposure, retries>>
  <2>1. CASE UNCHANGED vars
    BY <2>1 DEF vars, rowVars, ghostVars, Displayed
  <2> QED
    BY <2>1, RowStepKeepsPromise, ExecStepKeepsPromise, HostStepKeepsPromise DEF Next
<1> QED
  BY <1>1, <1>2, OutboxInvariant, PTL DEF Spec, ImplementsDelivery, Promise!Spec

\* An unknown outcome is resolved by the operator alone, in every behaviour.
THEOREM UnknownWaitsForOperator == Spec => OnlyOperatorResolvesUnknown
<1>1. IInv /\ [Next]_vars =>
        [\A t \in Tasks : status[t] = "unknown" /\ status'[t] /= "unknown"
            => requeueUnknown(t) \/ acknowledgeOutboxTask(t)]_vars
  <2> SUFFICES ASSUME IInv, Next, NEW t \in Tasks,
                      status[t] = "unknown", status'[t] /= "unknown"
               PROVE  requeueUnknown(t) \/ acknowledgeOutboxTask(t)
    OBVIOUS
  <2> USE DEF IInv, TypeOK, rowVars
  <2>1. CASE RowStep
    <3>1. PICK u \in Tasks :
            \/ enqueueOutboxTask(u) \/ reviewOutboxRow(u) \/ DamagePayload(u)
            \/ requeueFailed(u) \/ requeueUnknown(u)
            \/ acknowledgeOutboxTask(u) \/ pruneOperationalData(u)
      BY <2>1 DEF RowStep
    <3>2. u = t
      BY <3>1 DEF enqueueOutboxTask, reviewOutboxRow, DamagePayload, requeueFailed,
         requeueUnknown, acknowledgeOutboxTask, pruneOperationalData, SetStatus
    <3> QED
      BY <3>1, <3>2 DEF enqueueOutboxTask, reviewOutboxRow, DamagePayload, requeueFailed,
         pruneOperationalData, Reviewed
  <2>2. ASSUME NEW e \in Execs, Proceed(e) PROVE FALSE
    <3>1. CASE task[e] \in Tasks
      BY <2>2, <3>1 DEF Proceed, claimOutboxTask, finishLocally, markOutboxSending,
         invokeAccepted, tryManualCopyFallback, confirmDelivery, throwException,
         completeOutboxTask, failOutboxTask, SetStatus, Reviewed
    <3>2. CASE task[e] \notin Tasks
      BY <2>2, <3>2 DEF SlotsConsistent, Proceed, claimOutboxTask, finishLocally,
         markOutboxSending, invokeAccepted, tryManualCopyFallback, confirmDelivery,
         throwException, completeOutboxTask, failOutboxTask
    <3> QED
      BY <3>1, <3>2
  <2>3. CASE ExecStep
    BY <2>2, <2>3 DEF ExecStep, begin, queueTimeout
  <2>4. CASE HostStep
    BY <2>4 DEF HostStep, Activate, Disturb, startForwardingNonInteractive,
       connectAndActivateRouting, recoverPreparing, recoverSending,
       cleanupFailedRoutingStart, stopForwarding, Crash
  <2> QED
    BY <2>1, <2>3, <2>4 DEF Next
<1> QED
  BY <1>1, OutboxInvariant, PTL DEF Spec, OnlyOperatorResolvesUnknown

=============================================================================
