---------------------------- MODULE OperatorJobs ----------------------------
(***************************************************************************)
(* Durable operator jobs (ui_operation_store.ts) and the restarts they     *)
(* confirm (ui_restart_coordinator.ts).  A job is accepted under an id its *)
(* client chose, so that a retry of a lost answer finds the record instead *)
(* of running the command again - within one process, and after a restart  *)
(* or a crash that interrupted it.  Every write of a record may fail,      *)
(* before or after the new file is in place.                               *)
(***************************************************************************)
EXTENDS Naturals, FiniteSets

CONSTANTS Job,          \* job ids
          Restarting,   \* those whose command ends in a restart
          MaxRecords,   \* MAX_RECORDS (200 in the code)
          MaxActive,    \* jobs active at once (2 in the code)
          MaxFaults,    \* failing record writes
          MaxAccepts,   \* jobs accepted
          MaxLives      \* process lives ended by a crash

VARIABLES disk,         \* record files
          records,      \* UiOperationStore.records
          command,      \* where the process is with each job's command
          scheduled,    \* UiRestartCoordinator.scheduled
          requested,    \* createProcessRestartRequest ran
          life,         \* processInstanceId; the process is up when even
          begun,        \* how often a job's command was begun
          returned,     \* jobs whose command returned successfully
          evicted,      \* how often a job's record was evicted
          faults, clock

jobVars == <<disk, records, command, scheduled, requested, life, begun, returned,
             evicted, faults, clock>>

\* life counts up by two with each start; odd while no process runs.
Up == life % 2 = 0

None == [state |-> "none", by |-> "none", instance |-> 0, source |-> 0, receipt |-> "none", at |-> 0]

Init ==
  /\ disk = [j \in Job |-> None] /\ records = disk
  /\ command = [j \in Job |-> "none"]
  /\ scheduled = {} /\ requested = FALSE /\ life = 2
  /\ begun = [j \in Job |-> 0] /\ returned = {} /\ evicted = [j \in Job |-> 0]
  /\ faults = 0 /\ clock = 0

Exists(j) == records[j].state # "none"
terminal(state) == state \in {"succeeded", "failed", "unknown"}
Active == {j \in Job : Exists(j) /\ ~terminal(records[j].state)}

\* persist: the temporary file is synced, renamed and the directory synced
\* before the record is published in memory; a fault comes before or after
\* the rename.
Persists(j, r) == disk' = [disk EXCEPT ![j] = r] /\ records' = [records EXCEPT ![j] = r] /\ UNCHANGED faults
PersistFails(j, r) ==
  /\ faults < MaxFaults /\ faults' = faults + 1
  /\ disk' \in {disk, [disk EXCEPT ![j] = r]} /\ UNCHANGED records

-----------------------------------------------------------------------------
(* Accepting a job. *)

Oldest == {j \in Job : Exists(j) /\ terminal(records[j].state)
             /\ \A k \in Job : Exists(k) /\ terminal(records[k].state) => records[j].at <= records[k].at}

\* schedule: a confirmed command of this process restarts it, whether or not
\* its receipt is durable.
schedule(j) ==
  IF /\ records'[j].instance = life /\ records'[j].source = life
     /\ records'[j].state \in {"awaiting-restart", "unknown"}
    THEN scheduled' = scheduled \cup {j} ELSE UNCHANGED scheduled

\* accept finds the record of this id: bound to another request it refuses;
\* otherwise it answers with the record, and the restart it confirmed is
\* scheduled again.
acceptExisting(j, by) ==
  /\ Up /\ Exists(j) /\ records[j].by = by /\ j \in Restarting
  /\ UNCHANGED <<disk, records>> /\ schedule(j)
  /\ UNCHANGED <<command, requested, life, begun, returned, evicted, faults, clock>>

acceptForgetful(j, by) ==
  /\ Up /\ ~(Exists(j) /\ ~terminal(records[j].state)) /\ clock < MaxAccepts
  /\ Persists(j, [None EXCEPT !.state = "accepted", !.by = by, !.instance = life, !.at = clock])
  /\ command' = [command EXCEPT ![j] = "accepted"] /\ clock' = clock + 1
  /\ UNCHANGED <<scheduled, requested, life, begun, returned, evicted>>

\* A new id needs a free active place and, at the limit, the eviction of the
\* oldest terminal record.
accept(j, by) ==
  /\ Up /\ ~Exists(j) /\ clock < MaxAccepts
  /\ Cardinality(Active) < MaxActive
  /\ LET full == Cardinality({k \in Job : Exists(k)}) >= MaxRecords
         gone == IF full THEN Oldest ELSE {}
         kept(recs) == [k \in Job |-> IF k \in gone THEN None ELSE recs[k]]
         job == [None EXCEPT !.state = "accepted", !.by = by, !.instance = life, !.at = clock]
     IN /\ full => Oldest # {}
        /\ evicted' = [k \in Job |-> evicted[k] + IF k \in gone THEN 1 ELSE 0]
        /\ \/ /\ disk' = [kept(disk) EXCEPT ![j] = job] /\ records' = [kept(records) EXCEPT ![j] = job]
              /\ command' = [command EXCEPT ![j] = "accepted"] /\ UNCHANGED faults
           \/ /\ faults < MaxFaults /\ faults' = faults + 1 /\ records' = kept(records)
              /\ disk' \in {kept(disk), [kept(disk) EXCEPT ![j] = job]}
              /\ UNCHANGED command
  /\ clock' = clock + 1
  /\ UNCHANGED <<scheduled, requested, life, begun, returned>>

-----------------------------------------------------------------------------
(* Running its command. *)

\* update to running; only then is the command begun.
startCommand(j) ==
  /\ Up /\ command[j] = "accepted"
  /\ LET r == [records[j] EXCEPT !.state = "running"] IN
     \/ /\ Persists(j, r) /\ command' = [command EXCEPT ![j] = "running"]
        /\ begun' = [begun EXCEPT ![j] = @ + 1]
     \/ /\ PersistFails(j, r) /\ UNCHANGED begun
        /\ command' = [command EXCEPT ![j] = IF j \in Restarting THEN "none" ELSE "raised"]
  /\ UNCHANGED <<scheduled, requested, life, returned, evicted, clock>>

operation(j) ==
  /\ Up /\ command[j] = "running"
  /\ \/ command' = [command EXCEPT ![j] = "returned"] /\ returned' = returned \cup {j}
     \/ command' = [command EXCEPT ![j] = "raised"] /\ UNCHANGED returned
  /\ UNCHANGED <<disk, records, scheduled, requested, life, begun, evicted, faults, clock>>

\* run: a plain command's result; a failing write of it counts as a failure.
run(j) ==
  /\ Up /\ j \notin Restarting /\ command[j] \in {"returned", "raised"}
  /\ LET r == [records[j] EXCEPT !.state = IF command[j] = "returned" THEN "succeeded" ELSE "failed"] IN
     \/ Persists(j, r) /\ command' = [command EXCEPT ![j] = "none"]
     \/ /\ PersistFails(j, r)
        /\ command' = [command EXCEPT ![j] = IF @ = "returned" THEN "raised" ELSE "none"]
  /\ UNCHANGED <<scheduled, requested, life, begun, returned, evicted, clock>>

\* recordUnsuccessfulCommand: failed, or unknown in memory when that cannot
\* be written.
recordUnsuccessfulCommand(j) ==
  /\ Up /\ j \in Restarting /\ command[j] = "raised"
  /\ LET r == [records[j] EXCEPT !.state = "failed"] IN
     \/ Persists(j, r)
     \/ /\ faults < MaxFaults /\ faults' = faults + 1
        /\ disk' \in {disk, [disk EXCEPT ![j] = r]}
        /\ records' = [records EXCEPT ![j].state = "unknown"]
  /\ command' = [command EXCEPT ![j] = "none"]
  /\ UNCHANGED <<scheduled, requested, life, begun, returned, evicted, clock>>

\* runRestart: the receipt of a returned command.  When it cannot be written,
\* the outcome is unknown with an uncertain receipt, written once more if
\* possible, and the restart is scheduled all the same.
runRestart(j) ==
  /\ Up /\ j \in Restarting /\ command[j] = "returned"
  /\ LET durable == [records[j] EXCEPT !.state = "awaiting-restart", !.source = life, !.receipt = "durable"]
         uncertain == [durable EXCEPT !.state = "unknown", !.receipt = "uncertain"]
     IN \/ Persists(j, durable)
        \/ /\ faults < MaxFaults /\ faults' = faults + 1
           /\ disk' \in {disk, [disk EXCEPT ![j] = durable], [disk EXCEPT ![j] = uncertain]}
           /\ records' = [records EXCEPT ![j] = uncertain]
  /\ schedule(j)
  /\ command' = [command EXCEPT ![j] = "none"]
  /\ UNCHANGED <<requested, life, begun, returned, evicted, clock>>

-----------------------------------------------------------------------------
(* Restart: the answer finished, was closed, or its grace period passed.    *)

requestRestart ==
  /\ Up /\ scheduled # {} /\ ~requested /\ requested' = TRUE
  /\ UNCHANGED <<disk, records, command, scheduled, life, begun, returned, evicted, faults, clock>>

Ends == /\ life' = life + 1 /\ scheduled' = {} /\ requested' = FALSE
        /\ command' = [j \in Job |-> "none"]
        /\ UNCHANGED <<disk, records, begun, returned, evicted, faults, clock>>

\* Shutdown finishes, or its watchdog forces the exit.
exits == Up /\ requested /\ Ends
crashes == Up /\ life < 2 * MaxLives /\ Ends

\* observeInterruptedRecord: what the next process makes of a record left by
\* another one.
observeInterruptedRecord(r) ==
  IF terminal(r.state) /\ r.receipt # "uncertain" THEN r
  ELSE [r EXCEPT !.state = IF @ = "awaiting-restart" /\ r.receipt # "uncertain" THEN "succeeded" ELSE "unknown"]

initialize ==
  /\ ~Up /\ life' = life + 1
  /\ disk' = [j \in Job |-> IF disk[j] = None THEN None ELSE observeInterruptedRecord(disk[j])]
  /\ records' = disk'
  /\ UNCHANGED <<command, scheduled, requested, begun, returned, evicted, faults, clock>>

Requester == {"operator", "another"}

Next ==
  \/ \E j \in Job, by \in Requester : acceptExisting(j, by) \/ accept(j, by)
  \/ \E j \in Job : \/ startCommand(j) \/ operation(j) \/ run(j)
                    \/ recordUnsuccessfulCommand(j) \/ runRestart(j)
  \/ requestRestart \/ exits \/ crashes \/ initialize

\* Timers fire and the supervisor starts the service again; commands may take
\* for ever and clients need not ask again.
Spec == Init /\ [][Next]_jobVars /\ WF_jobVars(requestRestart) /\ WF_jobVars(exits) /\ WF_jobVars(initialize)

-----------------------------------------------------------------------------
(* Properties. *)

Record == [state : {"none", "accepted", "running", "awaiting-restart", "succeeded", "failed", "unknown"},
           by : {"none"} \cup Requester, instance : Nat, source : Nat,
           receipt : {"none", "durable", "uncertain"}, at : Nat]

TypeOK ==
  /\ disk \in [Job -> Record] /\ records \in [Job -> Record]
  /\ command \in [Job -> {"none", "accepted", "running", "returned", "raised"}]
  /\ scheduled \subseteq Restarting /\ requested \in BOOLEAN /\ life \in Nat
  /\ begun \in [Job -> Nat] /\ returned \subseteq Job /\ evicted \in [Job -> Nat] /\ faults \in 0..MaxFaults

\* A job's command is begun once, however often its request is repeated, its
\* answer lost, its record's writes failing or the process restarted, as long
\* as its record was not evicted at the limit (accept, runRestart, initialize).
CommandsRunOnce == \A j \in Job : begun[j] <= 1 + evicted[j]

\* A record, in memory or on disk, claims success only for a command that
\* returned successfully (run, runRestart, observeInterruptedRecord).
SuccessIsNeverInvented ==
  \A j \in Job : \A r \in {disk[j], records[j]} :
    r.state \in {"awaiting-restart", "succeeded"} => j \in returned

\* A confirmed restart command ends this process, also when its receipt could
\* not be written or nobody waits for the answer (schedule,
\* createProcessRestartRequest).
RestartIsDue(j) == Up /\ records[j].source = life /\ command[j] = "none"
=============================================================================
