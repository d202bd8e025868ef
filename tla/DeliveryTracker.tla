--------------------------- MODULE DeliveryTracker ---------------------------
(***************************************************************************)
(* Waiting for Telegram's confirmation of a send                           *)
(* (src/src/delivery_tracker.ts, invokeWithFloodWaitRetry of               *)
(* src/src/tdlib_retry.ts).  A task's query is invoked, retried only while *)
(* Telegram asks to wait, and answered with one provisional message per    *)
(* album member; the final outcome of a member comes as an update that may *)
(* be handled before or after the task starts to wait for it.              *)
(***************************************************************************)
EXTENDS Naturals, Sequences, FiniteSets, SequencesExt

CONSTANTS
    Task,               \* tasks that send
    Members,            \* [Task -> how many messages the task sends]
    maxAttempts,        \* of invokeWithFloodWaitRetry
    maxCachedOutcomes,  \* of the tracker
    MaxFaults           \* bound on timeouts, expiries, aborts and closes

VARIABLES
    send,           \* [Task -> where the task stands]
    attempt,        \* [Task -> invocations made]
    answer,         \* [Message -> sending_state in the answer to the task]
    telegram,       \* [Message -> what became of the message]
    updates,        \* outcomes TDLib has still to deliver
    waiters,        \* messages with a registered waiter
    resolved,       \* messages whose waiter or answer gave a message id
    recentOutcomes, \* cached outcomes, oldest first
    lost,           \* messages whose outcome left the cache unread
    faults

trackerVars == <<send, attempt, answer, telegram, updates, waiters, resolved,
                 recentOutcomes, lost, faults>>

Of(t) == {t} \X (1..Members[t])
Message == UNION {Of(t) : t \in Task}

TrackerInit ==
    /\ send = [t \in Task |-> "idle"]
    /\ attempt = [t \in Task |-> 0]
    /\ answer = [m \in Message |-> "none"]
    /\ telegram = [m \in Message |-> "none"]
    /\ updates = {}
    /\ waiters = {}
    /\ resolved = {}
    /\ recentOutcomes = <<>>
    /\ lost = {}
    /\ faults = 0

Cached(m) == \E i \in 1..Len(recentOutcomes) : recentOutcomes[i] = m

-----------------------------------------------------------------------------
(* The invocation.                                                         *)

\* client.invoke, first or after a flood wait.
invokeWithFloodWaitRetry(t) ==
    /\ send[t] = "idle"
    /\ attempt[t] < maxAttempts
    /\ attempt' = [attempt EXCEPT ![t] = @ + 1]
    /\ send' = [send EXCEPT ![t] = "invoking"]
    /\ UNCHANGED <<answer, telegram, updates, waiters, resolved,
                   recentOutcomes, lost, faults>>

\* Telegram refuses: an acceptable flood wait is retried, anything else and
\* the last attempt end the task.
invokeRefused(t, flood) ==
    /\ send[t] = "invoking"
    /\ \A m \in Of(t) : telegram[m] = "none"
    /\ send' = [send EXCEPT ![t] = IF flood /\ attempt[t] < maxAttempts
                                   THEN "idle" ELSE "error"]
    /\ UNCHANGED <<attempt, answer, telegram, updates, waiters, resolved,
                   recentOutcomes, lost, faults>>

\* External: TDLib accepts the messages; its answer shows each as pending, or
\* as settled already (then no update follows).
telegramAccepts(t) ==
    /\ send[t] = "invoking"
    /\ \A m \in Of(t) : telegram[m] = "none"
    /\ \E shown \in [Of(t) -> {"pending", "sent", "failed"}] :
         /\ telegram' = [m \in Message |-> IF m \in Of(t) THEN shown[m] ELSE telegram[m]]
         /\ answer' = [m \in Message |-> IF m \in Of(t) THEN shown[m] ELSE answer[m]]
    /\ UNCHANGED <<send, attempt, updates, waiters, resolved, recentOutcomes,
                   lost, faults>>

\* External: a pending message is sent or fails, and an update says so.
telegramSettles(m, outcome) ==
    /\ telegram[m] = "pending"
    /\ telegram' = [telegram EXCEPT ![m] = outcome]
    /\ updates' = updates \cup {m}
    /\ UNCHANGED <<send, attempt, answer, waiters, resolved, recentOutcomes,
                   lost, faults>>

-----------------------------------------------------------------------------
(* The tracker.                                                            *)

\* A task is told the outcome of one of its messages: Promise.all rejects
\* with the first failure and resolves when every member has its id.
Told(t, ids, failed) ==
    IF send[t] \notin {"invoking", "waiting"} THEN send[t]
    ELSE IF failed THEN "error"
    ELSE IF Of(t) \subseteq ids THEN "confirmed"
    ELSE "waiting"

\* publish without a waiter: remember the outcome, evict the oldest.
cacheOutcome(m) ==
    LET all == Append(recentOutcomes, m)
        over == Len(all) > maxCachedOutcomes
    IN  /\ recentOutcomes' = IF over THEN Tail(all) ELSE all
        /\ lost' = IF over THEN lost \cup {Head(all)} ELSE lost

\* handleUpdate and publish: the waiter gets the outcome, or the cache does.
handleUpdate(m) ==
    LET t == m[1]
        ok == telegram[m] = "sent"
    IN  /\ m \in updates
        /\ updates' = updates \ {m}
        /\ IF m \in waiters
           THEN /\ waiters' = waiters \ {m}
                /\ resolved' = IF ok THEN resolved \cup {m} ELSE resolved
                /\ send' = [send EXCEPT ![t] = Told(t, resolved', ~ok)]
                /\ UNCHANGED <<recentOutcomes, lost>>
           ELSE cacheOutcome(m) /\ UNCHANGED <<waiters, resolved, send>>
        /\ UNCHANGED <<attempt, answer, telegram, faults>>

\* Mutant: every member that has an id counts as delivered.
settledInAnswerAny(m) == answer[m] # "failed"

\* A member without sending_state carries its final id.
settledInAnswer(m) == answer[m] = "sent"

\* The answer reaches the task: waitForResult takes the ids it shows, reads
\* cached outcomes and registers a waiter for every other member.
waitForResult(t) ==
    LET now == {m \in Of(t) : settledInAnswer(m)}
        rest == Of(t) \ now
        known == {m \in rest : answer[m] # "failed" /\ Cached(m)}
        bad == \E m \in rest : answer[m] = "failed"
                               \/ (m \in known /\ telegram[m] = "failed")
        ids == now \cup {m \in known : telegram[m] = "sent"}
    IN  /\ send[t] = "invoking" /\ \A m \in Of(t) : answer[m] # "none"
        /\ resolved' = resolved \cup ids
        /\ waiters' = waiters \cup {m \in rest \ known : answer[m] = "pending"}
        /\ recentOutcomes' = SelectSeq(recentOutcomes, LAMBDA m : m \notin known)
        /\ send' = [send EXCEPT ![t] = Told(t, resolved', bad)]
        /\ UNCHANGED <<attempt, answer, telegram, updates, lost, faults>>

\* Reject the waiters of these messages; their tasks fail.
Reject(some) ==
    /\ waiters' = waiters \ some
    /\ send' = [t \in Task |-> IF send[t] = "waiting" /\ Of(t) \cap some # {}
                              THEN "error" ELSE send[t]]

\* The confirmation timer of a waiter.
confirmationTimeout(m) ==
    /\ m \in waiters
    /\ Reject({m})
    /\ UNCHANGED <<attempt, answer, telegram, updates, resolved,
                   recentOutcomes, lost, faults>>

\* The task's signal aborts every wait of the task, or ends its flood wait.
abort(t) ==
    /\ faults < MaxFaults
    /\ faults' = faults + 1
    /\ \/ send[t] = "waiting" /\ Reject(waiters \cap Of(t))
       \/ /\ send[t] = "idle" /\ attempt[t] > 0
          /\ send' = [send EXCEPT ![t] = "error"]
          /\ UNCHANGED waiters
    /\ UNCHANGED <<attempt, answer, telegram, updates, resolved,
                   recentOutcomes, lost>>

\* pruneOutcomes: cached outcomes past their time to live.
pruneOutcomes ==
    /\ faults < MaxFaults /\ recentOutcomes # <<>>
    /\ faults' = faults + 1
    /\ lost' = lost \cup {Head(recentOutcomes)}
    /\ recentOutcomes' = Tail(recentOutcomes)
    /\ UNCHANGED <<send, attempt, answer, telegram, updates, waiters, resolved>>

\* close: shutdown, reset or a new tracker.
close ==
    /\ faults < MaxFaults
    /\ faults' = faults + 1
    /\ Reject(waiters)
    /\ lost' = lost \cup ToSet(recentOutcomes)
    /\ recentOutcomes' = <<>>
    /\ UNCHANGED <<attempt, answer, telegram, updates, resolved>>

TrackerNext ==
    \/ \E t \in Task : \/ invokeWithFloodWaitRetry(t)
                       \/ \E flood \in BOOLEAN : invokeRefused(t, flood)
                       \/ telegramAccepts(t)
                       \/ waitForResult(t)
                       \/ abort(t)
    \/ \E m \in Message : \/ \E o \in {"sent", "failed"} : telegramSettles(m, o)
                          \/ handleUpdate(m)
                          \/ confirmationTimeout(m)
    \/ pruneOutcomes
    \/ close

\* Timers fire (setTimeout of waitForMessage).
TimersFire == \E m \in Message : confirmationTimeout(m)

-----------------------------------------------------------------------------
TypeOK ==
    /\ send \in [Task -> {"idle", "invoking", "waiting", "confirmed", "error"}]
    /\ attempt \in [Task -> 0..maxAttempts]
    /\ answer \in [Message -> {"none", "pending", "sent", "failed"}]
    /\ telegram \in [Message -> {"none", "pending", "sent", "failed"}]
    /\ updates \cup waiters \cup resolved \cup lost \subseteq Message
    /\ recentOutcomes \in Seq(Message) /\ Len(recentOutcomes) <= maxCachedOutcomes

\* A confirmed task was delivered whole: every message of its album was really
\* sent, however updates, answers, timeouts and evictions interleave.
ConfirmedIsDelivered ==
    \A t \in Task : send[t] = "confirmed" => \A m \in Of(t) : telegram[m] = "sent"

\* An outcome that came before the wait is not waited for: a registered waiter
\* whose update was already handled lost it to the cache's limits only.
OutcomesAreNotMissed ==
    \A m \in waiters :
        answer[m] = "pending" /\ telegram[m] # "pending" /\ m \notin updates
            => m \in lost

\* Only a refused query is invoked again: no message is sent twice by the
\* retry, since a further attempt never follows an accepted one.
RetriesSendNothingTwice ==
    \A t \in Task : send[t] = "idle" => \A m \in Of(t) : telegram[m] = "none"
=============================================================================
