------------------------------ MODULE Retention ------------------------------
(***************************************************************************)
(* The retention job (src/src/retention.ts) and the transaction it repeats *)
(* (pruneOperationalData of src/src/db.ts): old, settled rows are deleted  *)
(* in batches while the forwarder and the engine go on writing.            *)
(*                                                                         *)
(* A signal is one row with one outbox task; it may own one trade intent   *)
(* (a "single") or a fallback run whose candidates are tried in turn (a    *)
(* "group").  Signals are numbered in the order of created_at; `log` is    *)
(* the order in which intents were settled (updated_at).  The first        *)
(* `oldSignals` and `cut` of them precede the cutoff.  Tables without      *)
(* references (reconciliation runs, paper orders, AI days) are one table,  *)
(* `loose`, of which only the number of old rows matters.                  *)
(*                                                                         *)
(* RESTRICT foreign keys are modelled: a delete that would orphan a row    *)
(* fails the whole transaction.  trading_execution_events is one of the    *)
(* tables with such a key on the intents; the job neither deletes its rows *)
(* nor asks for them when it selects intents.                              *)
(***************************************************************************)
EXTENDS Naturals, Sequences, FiniteSets, SequencesExt

CONSTANTS
    Signals,        \* how many signals are received
    Batch,          \* DATA_RETENTION_BATCH_SIZE
    MaxBatches,     \* MAX_BATCHES_PER_RUN
    MaxLoose        \* bound on rows of the tables without references

VARIABLES
    signal,         \* [Signal -> what the signal row owns]
    intent,         \* [Signal \X Rank -> status of the trade intent]
    evidence,       \* intents with fills, accounting, journal or open alarms
    events,         \* intents with a row in trading_execution_events
    fallback,       \* [Signal -> status of the fallback run]
    signalRun,      \* signals whose workflow_signal_runs row exists
    task,           \* [Signal -> status of the outbox task]
    loose,          \* old rows of the tables without references
    oldSignals,     \* how many signals precede the cutoff
    log, cut,       \* intents by updated_at, how many precede the cutoff
    running,        \* 0, or the number of the batch that is next
    latest,         \* [full, left]: what the last batch deleted and left
    report          \* how the last run ended, for readiness; "none" during a run

retentionVars == <<signal, intent, evidence, events, fallback, signalRun, task, loose,
                   oldSignals, log, cut, running, latest, report>>

Signal == 1..Signals
Rank == 1..2
Intent == Signal \X Rank

Absent == "absent"
Present(status) == status \notin {Absent, "gone"}

InitRetention ==
    /\ signal = [s \in Signal |-> Absent]
    /\ intent = [i \in Intent |-> Absent]
    /\ evidence = {}
    /\ events = {}
    /\ fallback = [s \in Signal |-> Absent]
    /\ signalRun = {}
    /\ task = [s \in Signal |-> Absent]
    /\ loose = 0
    /\ oldSignals = 0
    /\ log = <<>>
    /\ cut = 0
    /\ running = 0
    /\ latest = [full |-> FALSE, left |-> FALSE]
    /\ report = "none"

Quiet == UNCHANGED <<running, latest, report>>

-----------------------------------------------------------------------------
(* What the forwarder and the engine write.                                *)

\* processXmlSignal saves the signal, its task is open, and the intents are
\* created in one transaction with the signal run.
createWorkflowTradingIntents(s, kind) ==
    /\ signal[s] = Absent
    /\ \A t \in 1..(s - 1) : signal[t] # Absent
    /\ signal' = [signal EXCEPT ![s] = kind]
    /\ task' = [task EXCEPT ![s] = "open"]
    /\ intent' = IF kind = "plain" THEN intent
                 ELSE [intent EXCEPT ![<<s, 1>>] = "active"]
    /\ fallback' = IF kind = "group" THEN [fallback EXCEPT ![s] = "probing"]
                   ELSE fallback
    /\ signalRun' = IF kind = "plain" THEN signalRun ELSE signalRun \cup {s}
    /\ UNCHANGED <<evidence, events, loose, oldSignals, log, cut>> /\ Quiet

\* recordCreatedIntents writes the event of an intent in a call of its own
\* after the transaction that created it, and the engine adds events while the
\* intent is under way.  A crash in between, or a promotion of the candidate,
\* leaves an intent without one.  Only what there is when it is settled counts.
recordTradingExecutionEvent(i, recorded) ==
    events' = IF recorded THEN events \cup {i} ELSE events

\* The engine refuses the first candidate and hands the run to the second.
advanceWorkflowFallback(s, recorded) ==
    /\ fallback[s] = "probing"
    /\ intent[<<s, 1>>] = "active" /\ intent[<<s, 2>>] = Absent
    /\ intent' = [intent EXCEPT ![<<s, 1>>] = "settled", ![<<s, 2>>] = "active"]
    /\ log' = Append(log, <<s, 1>>)
    /\ recordTradingExecutionEvent(<<s, 1>>, recorded)
    /\ UNCHANGED <<signal, evidence, fallback, signalRun, task, loose,
                   oldSignals, cut>>
    /\ Quiet

\* An intent ends: traded (evidence is kept, and keeps it from the cleanup) or
\* blocked.  Its run, if it has one, is selected, exhausted or stopped.
settleIntent(i, traded, recorded) ==
    /\ intent[i] = "active"
    /\ intent' = [intent EXCEPT ![i] = "settled"]
    /\ evidence' = IF traded THEN evidence \cup {i} ELSE evidence
    /\ recordTradingExecutionEvent(i, recorded)
    /\ fallback' = IF fallback[i[1]] = "probing"
                   THEN [fallback EXCEPT ![i[1]] = "final"] ELSE fallback
    /\ log' = Append(log, i)
    /\ UNCHANGED <<signal, signalRun, task, loose, oldSignals, cut>> /\ Quiet

\* The outbox completes the task (or an operator settles it).
completeTask(s) ==
    /\ task[s] = "open"
    /\ task' = [task EXCEPT ![s] = "completed"]
    /\ UNCHANGED <<signal, intent, evidence, events, fallback, signalRun, loose,
                   oldSignals, log, cut>>
    /\ Quiet

\* Time passes: the next signal, the next settled intent (never before its
\* signal), a completed task, or the independent tables grow old.
grow ==
    /\ \/ /\ oldSignals < Signals /\ signal[oldSignals + 1] # Absent
          /\ oldSignals' = oldSignals + 1
          /\ UNCHANGED <<cut, task, loose>>
       \/ /\ cut < Len(log) /\ log[cut + 1][1] <= oldSignals
          /\ cut' = cut + 1
          /\ UNCHANGED <<oldSignals, task, loose>>
       \/ /\ \E s \in 1..oldSignals :
               task[s] = "completed" /\ task' = [task EXCEPT ![s] = "old"]
          /\ UNCHANGED <<oldSignals, cut, loose>>
       \/ /\ loose < MaxLoose /\ loose' = MaxLoose
          /\ UNCHANGED <<oldSignals, cut, task>>
    /\ UNCHANGED <<signal, intent, evidence, events, fallback, signalRun, log>>
    /\ Quiet

-----------------------------------------------------------------------------
(* One batch.                                                              *)

\* ORDER BY ... LIMIT: the first rows of a table, at most a batch of them.
FirstBatch(rows) == ToSet(SubSeq(rows, 1, IF Len(rows) < Batch THEN Len(rows) ELSE Batch))

\* The first SELECT: settled, old, and without evidence that must be kept.
selectedIntents ==
    LET Free(i) == intent[i] = "settled" /\ i \notin evidence
    IN  FirstBatch(SelectSeq(SubSeq(log, 1, cut), Free))

Candidates(s) == {i \in {s} \X Rank : intent[i] # Absent}

\* Mutant: the candidates of one fallback run are taken one by one.
prepareOneByOne == {i \in selectedIntents : fallback[i[1]] # "probing"}

\* The second statement takes back every candidate of a run that is probing
\* or has a sibling outside the set.
prepareTradingRetentionCandidates ==
    {i \in selectedIntents :
        fallback[i[1]] # Absent =>
            /\ fallback[i[1]] = "final"
            /\ Candidates(i[1]) \subseteq selectedIntents}

\* Rows of fallback runs and signal runs that go with the intents.
deleteRetainedWorkflowState(chosen) ==
    {s \in Signal :
        /\ fallback[s] = "final"
        /\ Candidates(s) \cap chosen # {}
        /\ Candidates(s) \subseteq chosen}

StillOwns(s, intentAfter) == \E i \in {s} \X Rank : Present(intentAfter[i])

\* The signals statement: no unsettled task and no intent refers to it.
prunableSignal(s, intentAfter) ==
    /\ Present(signal[s])
    /\ task[s] # "open"
    /\ ~StillOwns(s, intentAfter)

\* The rows as the statements of the transaction leave them.
Pruned ==
    LET chosen == prepareTradingRetentionCandidates
        runs == deleteRetainedWorkflowState(chosen)
        intentAfter == [i \in Intent |-> IF i \in chosen THEN "gone" ELSE intent[i]]
        fallbackAfter == [s \in Signal |-> IF s \in runs THEN "gone" ELSE fallback[s]]
        signalRuns == {s \in signalRun :
                         /\ \E i \in chosen : i[1] = s
                         /\ ~StillOwns(s, intentAfter)
                         /\ ~Present(fallbackAfter[s])}
        SignalRow(s) == s <= oldSignals /\ prunableSignal(s, intentAfter)
        TaskRow(s) == task[s] = "old"
        byTime == [s \in Signal |-> s]
    IN  [intents |-> chosen,
         fallbacks |-> runs,
         signalRuns |-> signalRuns,
         signals |-> FirstBatch(SelectSeq(byTime, SignalRow)),
         tasks |-> FirstBatch(SelectSeq(byTime, TaskRow)),
         loose |-> IF loose < Batch THEN loose ELSE Batch]

\* ON DELETE RESTRICT of the rows the job deletes together: intents, fallback
\* runs, signal runs and signals.
RestrictHolds(gone) ==
    /\ \A i \in gone.intents : Present(fallback[i[1]]) => i[1] \in gone.fallbacks
    /\ \A s \in gone.signals : /\ s \in signalRun => s \in gone.signalRuns
                               /\ Present(fallback[s]) => s \in gone.fallbacks
                               /\ \A i \in {s} \X Rank :
                                    Present(intent[i]) => i \in gone.intents

\* ON DELETE RESTRICT of trading_execution_events, whose rows always stay.
EventsAllow(gone) == gone.intents \cap events = {}

hasFullBatch(gone) ==
    \/ Cardinality(gone.intents) >= Batch
    \/ Cardinality(gone.signals) >= Batch
    \/ Cardinality(gone.tasks) >= Batch
    \/ gone.loose >= Batch

\* What the documentation calls the backlog: intents old, settled and free of
\* evidence and events, whose fallback run could go with all its candidates.
Prunable ==
    LET free == {i \in ToSet(SubSeq(log, 1, cut)) : /\ intent[i] = "settled"
                                                    /\ i \notin evidence \cup events}
    IN  {i \in free : fallback[i[1]] # Absent =>
                        fallback[i[1]] = "final" /\ Candidates(i[1]) \subseteq free}

\* One pass of the loop in execute: the whole transaction, or its rollback.
pruneOperationalData ==
    LET gone == Pruned IN
    /\ running \in 1..MaxBatches
    /\ IF RestrictHolds(gone) /\ EventsAllow(gone)
       THEN /\ intent' = [i \in Intent |-> IF i \in gone.intents THEN "gone" ELSE intent[i]]
            /\ fallback' = [s \in Signal |-> IF s \in gone.fallbacks THEN "gone" ELSE fallback[s]]
            /\ signalRun' = signalRun \ gone.signalRuns
            /\ signal' = [s \in Signal |-> IF s \in gone.signals THEN "gone" ELSE signal[s]]
            /\ task' = [s \in Signal |-> IF s \in gone.tasks THEN "gone" ELSE task[s]]
            /\ loose' = loose - gone.loose
            /\ latest' = [full |-> hasFullBatch(gone),
                          left |-> Prunable \ gone.intents # {}]
            /\ running' = IF hasFullBatch(gone) THEN running + 1 ELSE MaxBatches + 1
            /\ UNCHANGED report
       ELSE /\ report' = IF RestrictHolds(gone) THEN "events" ELSE "constraint"
            /\ running' = 0
            /\ UNCHANGED <<signal, intent, fallback, signalRun, task, loose, latest>>
    /\ UNCHANGED <<evidence, events, oldSignals, log, cut>>

\* runNow: one run at a time.
runNow ==
    /\ running = 0
    /\ running' = 1
    /\ report' = "none"
    /\ UNCHANGED <<signal, intent, evidence, events, fallback, signalRun, task, loose,
                   oldSignals, log, cut, latest>>

\* The end of execute: the status says whether the last batch was full.
finishExecute ==
    /\ running = MaxBatches + 1
    /\ running' = 0
    /\ report' = IF latest.full THEN "backlog" ELSE "healthy"
    /\ latest' = [full |-> FALSE, left |-> FALSE]
    /\ UNCHANGED <<signal, intent, evidence, events, fallback, signalRun, task, loose,
                   oldSignals, log, cut>>

RetentionNext ==
    \/ \E s \in Signal : \/ \E kind \in {"plain", "single", "group"} :
                               createWorkflowTradingIntents(s, kind)
                         \/ \E recorded \in BOOLEAN : advanceWorkflowFallback(s, recorded)
                         \/ completeTask(s)
    \/ \E i \in Intent, traded, recorded \in BOOLEAN :
         (traded => recorded) /\ settleIntent(i, traded, recorded)
    \/ grow
    \/ runNow
    \/ pruneOperationalData
    \/ finishExecute

-----------------------------------------------------------------------------
TypeOK ==
    /\ signal \in [Signal -> {Absent, "plain", "single", "group", "gone"}]
    /\ intent \in [Intent -> {Absent, "active", "settled", "gone"}]
    /\ evidence \subseteq Intent
    /\ events \subseteq Intent
    /\ fallback \in [Signal -> {Absent, "probing", "final", "gone"}]
    /\ signalRun \subseteq Signal
    /\ task \in [Signal -> {Absent, "open", "completed", "old", "gone"}]
    /\ loose \in 0..MaxLoose
    /\ oldSignals \in 0..Signals
    /\ cut \in 0..Len(log)
    /\ running \in 0..(MaxBatches + 1)
    /\ report \in {"none", "healthy", "backlog", "constraint", "events"}

\* Retention never stops on its own references: whatever mixture of signals,
\* fallback runs and trades has grown old, no batch leaves behind one of the
\* rows it should have deleted with another; a foreign key rolls the cleanup
\* back for an execution event only.
OnlyEventsRefuse == report # "constraint"

\* A batch of terminal rows is pruned, as test_retention.js asserts of a
\* settled intent with its fallback run, signal run and signal: no foreign key
\* rolls it back.  The code breaks this for an intent with execution events.
PruningNeverFails == report \notin {"constraint", "events"}

\* What is still owed or is evidence stays: an intent under way or with
\* evidence, and the signal and runs it hangs on, and the signal of an open
\* task, are there until they are settled.
OwedRowsStay ==
    /\ \A i \in evidence : Present(intent[i])
    /\ \A s \in Signal :
         /\ task[s] = "open" => Present(signal[s])
         /\ StillOwns(s, intent) => Present(signal[s]) /\ s \in signalRun
         /\ fallback[s] = "probing" => \E k \in Rank : intent[<<s, k>>] = "active"

\* A bound for the run about the backlog, which needs no execution event.
WithoutEvents == events = {}

\* A backlog that the job cannot work off is reported: when a run ends healthy,
\* no old, settled intent that could be deleted was left behind.
BacklogIsReported == running = MaxBatches + 1 /\ ~latest.full => ~latest.left
=============================================================================
