--------------------------- MODULE IngressProofs ----------------------------
(***************************************************************************)
(* The executions of outbox rows, retention and crashes keep the inductive *)
(* invariant of Ingress, and the theorems.  The lemmas about accepting,    *)
(* classifying and album steps stand at the end of Ingress.                *)
(***************************************************************************)
EXTENDS Ingress

\* The executions' part of the agreement for a step of one row: what it must
\* leave of the row, and that no output becomes live without its signal.
LEMMA RowKeeps ==
  ASSUME IngressInv, NEW t \in Tasks, NEW status, NEW to,
         task' = [task EXCEPT ![t] = status], stage' = [stage EXCEPT ![t] = to],
         status \in {"pending", "running", "failed", "completed"},
         to \in {"idle", "claimed", "checked", "saved", "published"},
         task[t] \in {"pending", "running", "failed"},
         UNCHANGED <<active, work, pinned, group, parts, payload, listed, pruned>>,
         UNCHANGED <<signals, intents>>,
         TaskAgrees(t)', UNCHANGED sent \/ sent' = [sent EXCEPT ![t] = @ + 1]
  PROVE  Routes' /\ Executions'
<1>1. \A u \in Tasks \ {t} : task'[u] = task[u] /\ stage'[u] = stage[u] /\ sent'[u] = sent[u]
  BY DEF IngressInv, TypeOK
<1>2. task'[t] = status
  BY DEF IngressInv, TypeOK
<1>3. \A u \in Tasks : Exists(u)' <=> Exists(u)
  <2>1. \A u \in Tasks : task'[u] = "none" <=> task[u] = "none"
    BY <1>1, <1>2
  <2> QED
    BY <2>1 DEF Exists
<1>4. Routes'
  BY <1>3, RoutesKept DEF IngressInv
<1>5. ASSUME NEW u \in Tasks PROVE TaskAgrees(u)'
  <2>1. CASE u = t
    BY <2>1
  <2>2. CASE u # t
    BY <1>1, <2>2 DEF IngressInv, Executions, TaskAgrees
  <2> QED
    BY <2>1, <2>2
<1>6. ASSUME NEW m \in Messages, NEW p \in Plans, task'[Output(m, p)] \in {"pending", "running", "failed"}
      PROVE  Child(m, p) \in signals
  <2>1. task[Output(m, p)] \in {"pending", "running", "failed"}
    BY <1>1, <1>6, Kinds
  <2> QED
    BY <2>1 DEF IngressInv, Executions, DuplicatesPublishNothing
<1>7. DuplicatesPublishNothing'
  BY <1>6 DEF IngressInv, Executions, DuplicatesPublishNothing
<1> QED
  BY <1>4, <1>5, <1>7 DEF Executions

\* The inbox stays well typed whatever a row reports.
LEMMA ReportTypes ==
  ASSUME TypeOK, NEW t, NEW status \in {"processed", "failed"}, inbox' \in Reports(t, status)
  PROVE  inbox' \in [Messages -> {"none", "received", "filtered", "album_waiting", "routed",
                                  "needs_review", "duplicate", "processed", "failed"}]
  BY DEF TypeOK, Reports, InboxSet

\* Claiming, failing and retrying a row (claimOutboxTask, failOutboxTask,
\* retryPersistedTask).
LEMMA RowStepKeeps ==
  ASSUME IngressInv, NEW t \in Tasks,
         claimOutboxTask(t) \/ executionFails(t) \/ retryPersistedTask(t)
  PROVE  IngressInv'
<1> USE DEF upset, ingressVars, pumpVars, Progress
<1>1. TaskAgrees(t) /\ TypeOK
  BY DEF IngressInv, Executions
<1>2. CASE claimOutboxTask(t)
  <2>1. TaskAgrees(t)'
    BY <1>1, <1>2 DEF claimOutboxTask, TaskAgrees, TypeOK
  <2>2. TypeOK'
    BY <1>1, <1>2 DEF claimOutboxTask, TypeOK
  <2>3. Routes' /\ Executions'
    BY <1>2, <2>1, RowKeeps DEF claimOutboxTask
  <2> QED
    BY <2>2, <2>3 DEF IngressInv
<1>3. CASE executionFails(t)
  <2>1. TaskAgrees(t)'
    BY <1>1, <1>3 DEF executionFails, TaskAgrees, TypeOK
  <2>2. TypeOK'
    BY <1>1, <1>3, ReportTypes, IngressAssumption DEF executionFails, TypeOK
  <2>3. Routes' /\ Executions'
    BY <1>3, <2>1, RowKeeps DEF executionFails
  <2> QED
    BY <2>2, <2>3 DEF IngressInv
<1>4. CASE retryPersistedTask(t)
  <2>1. TaskAgrees(t)' /\ stage[t] = "idle"
    BY <1>1, <1>4 DEF retryPersistedTask, TaskAgrees, TypeOK
  <2>2. TypeOK'
    BY <1>1, <1>4 DEF retryPersistedTask, TypeOK
  <2>3. stage' = [stage EXCEPT ![t] = "idle"]
    BY <1>1, <1>4, <2>1 DEF retryPersistedTask, TypeOK
  <2>4. Routes' /\ Executions'
    BY <1>4, <2>1, <2>3, RowKeeps DEF retryPersistedTask
  <2> QED
    BY <2>2, <2>4 DEF IngressInv
<1> QED
  BY <1>2, <1>3, <1>4

\* The steps of an execution that settle its row (finishWorkflowSignal, the
\* duplicate branch of checkLegacySignal, deliver).
LEMMA SettleKeeps ==
  ASSUME IngressInv, NEW t \in Tasks, execute(t),
         finishWorkflowSignal(t) \/ checkLegacySignal(t) \/ deliver(t)
  PROVE  IngressInv'
<1> USE DEF Progress, pumpVars
<1>1. TaskAgrees(t) /\ TypeOK
  BY DEF IngressInv, Executions
<1>2. UNCHANGED <<active, work, pinned, group, parts, ripe, payload, pump, listed, wake, pruned, upsets>>
  BY DEF execute
<1>3. CASE finishWorkflowSignal(t)
  <2>1. task[t] = "running" /\ TaskAgrees(t)'
    BY <1>1, <1>2, <1>3 DEF finishWorkflowSignal, TaskAgrees, TypeOK
  <2>2. TypeOK'
    BY <1>1, <1>2, <1>3 DEF finishWorkflowSignal, TypeOK, InboxSet
  <2>3. Routes' /\ Executions'
    BY <1>2, <1>3, <2>1, RowKeeps DEF finishWorkflowSignal
  <2> QED
    BY <2>2, <2>3 DEF IngressInv
<1>4. CASE checkLegacySignal(t)
  <2>1. task[t] = "running"
    BY <1>1, <1>4 DEF checkLegacySignal, TaskAgrees
  <2>2. CASE UNCHANGED inbox /\ stage' = [stage EXCEPT ![t] = "checked"] /\ UNCHANGED <<task, signals, intents, sent>>
    <3>1. TaskAgrees(t)'
      BY <1>1, <1>2, <1>4, <2>1, <2>2 DEF checkLegacySignal, TaskAgrees, TypeOK
    <3>2. TypeOK'
      BY <1>1, <1>2, <2>2 DEF TypeOK
    <3>3. task' = [task EXCEPT ![t] = "running"]
      BY <1>1, <2>1, <2>2 DEF TypeOK
    <3>4. Routes' /\ Executions'
      BY <1>2, <2>1, <2>2, <3>1, <3>3, RowKeeps
    <3> QED
      BY <3>2, <3>4 DEF IngressInv
  <2>3. CASE /\ inbox' = InboxSet({t[2]}, "duplicate") /\ stage' = [stage EXCEPT ![t] = "idle"]
             /\ task' = [task EXCEPT ![t] = "completed"] /\ UNCHANGED <<signals, intents, sent>>
    <3>1. TaskAgrees(t)'
      BY <1>1, <1>2, <2>1, <2>3 DEF TaskAgrees, TypeOK
    <3>2. TypeOK'
      BY <1>1, <1>2, <2>3 DEF TypeOK, InboxSet
    <3>3. Routes' /\ Executions'
      BY <1>2, <2>1, <2>3, <3>1, RowKeeps
    <3> QED
      BY <3>2, <3>3 DEF IngressInv
  <2> QED
    BY <1>4, <2>2, <2>3 DEF checkLegacySignal
<1>5. CASE deliver(t)
  <2>1. TaskAgrees(t)'
    BY <1>1, <1>2, <1>5 DEF deliver, TaskAgrees, TypeOK
  <2>2. TypeOK'
    BY <1>1, <1>2, <1>5, ReportTypes DEF deliver, TypeOK
  <2>3. Routes' /\ Executions'
    BY <1>2, <1>5, <2>1, RowKeeps DEF deliver
  <2> QED
    BY <2>2, <2>3 DEF IngressInv
<1> QED
  BY <1>3, <1>4, <1>5

\* The legacy path saves its signal before it writes the intent
\* (saveSignal, createLegacyIntentForSignal).
LEMMA LegacyKeeps ==
  ASSUME IngressInv, NEW t \in Tasks, execute(t), saveSignal(t) \/ createLegacyIntentForSignal(t)
  PROVE  IngressInv'
<1> USE DEF Progress, pumpVars
<1>1. /\ TaskAgrees(t) /\ TypeOK /\ DuplicatesPublishNothing
      /\ task[t] = "running" /\ t[1] = "single" /\ t \in Parsing
  <2>1. TaskAgrees(t) /\ TypeOK /\ DuplicatesPublishNothing
    BY DEF IngressInv, Executions
  <2>2. task[t] = "running" /\ t[1] = "single"
    BY <2>1 DEF saveSignal, createLegacyIntentForSignal, TaskAgrees
  <2> QED
    BY <2>1, <2>2, Kinds DEF Parsing
<1>2. /\ UNCHANGED <<active, work, pinned, group, parts, ripe, payload, pump, listed, wake, pruned, upsets>>
      /\ UNCHANGED <<inbox, task, sent>> /\ signals \subseteq signals'
      /\ \A u \in signals' \ signals : u[1] = "single"
      /\ \A u \in Tasks \ {t} : stage'[u] = stage[u]
      /\ stage'[t] \in {"saved", "published"}
      /\ stage'[t] = "saved" => t \in signals'
      /\ stage' \in [Tasks -> {"idle", "claimed", "checked", "saved", "published"}]
      /\ signals' \subseteq Parsing /\ intents' \subseteq signals'
  <2>1. UNCHANGED <<active, work, pinned, group, parts, ripe, payload, pump, listed, wake, pruned, upsets>>
    BY DEF execute
  <2>2. CASE saveSignal(t)
    BY <1>1, <2>1, <2>2 DEF saveSignal, TypeOK, DuplicatesPublishNothing
  <2>3. CASE createLegacyIntentForSignal(t)
    BY <1>1, <2>1, <2>3 DEF createLegacyIntentForSignal, TypeOK, DuplicatesPublishNothing,
       TaskAgrees
  <2> QED
    BY <2>2, <2>3
<1>3. TypeOK'
  BY <1>1, <1>2 DEF TypeOK
<1>4. Routes'
  BY <1>2, RoutesKept DEF IngressInv, Exists
<1>5. ASSUME NEW u \in Tasks PROVE TaskAgrees(u)'
  <2>1. CASE u = t
    BY <1>1, <1>2, <2>1 DEF TaskAgrees
  <2>2. CASE u # t
    BY <1>2, <2>2 DEF IngressInv, Executions, TaskAgrees
  <2> QED
    BY <2>1, <2>2
<1>6. {u \in signals' : u[1] = "plan"} = {u \in signals : u[1] = "plan"}
  BY <1>2
<1>7. DuplicatesPublishNothing'
  BY <1>1, <1>2, <1>6 DEF DuplicatesPublishNothing
<1> QED
  BY <1>3, <1>4, <1>5, <1>7 DEF IngressInv, Executions

\* A plan's signal, its intents and its output are written in one transaction
\* that starts with the duplicate check (processWorkflowSignal).
LEMMA PublishKeeps ==
  ASSUME IngressInv, NEW t \in Tasks, execute(t), processWorkflowSignal(t)
  PROVE  IngressInv'
<1> USE DEF Progress, pumpVars
<1>1. TaskAgrees(t) /\ TypeOK /\ DuplicatesPublishNothing
  BY DEF IngressInv, Executions
<1>2. PICK m \in Messages, p \in Plans : t = Child(m, p)
  BY Kinds DEF processWorkflowSignal
<1>a. UNCHANGED <<active, work, pinned, group, parts, ripe, payload, pump, listed, wake, pruned, upsets, sent>>
  BY DEF execute, processWorkflowSignal
<1>b. stage' = [stage EXCEPT ![t] = "published"] /\ task[t] = "running"
  BY <1>1 DEF execute, processWorkflowSignal, TaskAgrees
<1>c. t[1] = "plan" /\ t[2] = m /\ t[3] = p /\ t \in Parsing
  BY <1>2, Kinds DEF Parsing
<1>3. /\ UNCHANGED <<active, work, pinned, group, parts, ripe, payload, pump, listed, wake, pruned, upsets, sent>>
      /\ stage' = [stage EXCEPT ![t] = "published"] /\ task[t] = "running"
      /\ t[1] = "plan" /\ t[2] = m /\ t[3] = p /\ t \in Parsing
  BY <1>a, <1>b, <1>c
<1> DEFINE T == {Output(m, p)}
<1>4. CASE isDuplicateSignal(t)
  <2>1. inbox' = InboxSet({t[2]}, "duplicate") /\ UNCHANGED <<signals, intents, task>>
    BY <1>4 DEF processWorkflowSignal
  <2>2. TypeOK'
    BY <1>1, <1>3, <2>1 DEF TypeOK, InboxSet
  <2>3. TaskAgrees(t)' /\ task' = [task EXCEPT ![t] = "running"]
    BY <1>1, <1>3, <2>1 DEF TaskAgrees, TypeOK
  <2>4. Routes' /\ Executions'
    BY <1>3, <2>1, <2>3, RowKeeps
  <2> QED
    BY <2>2, <2>4 DEF IngressInv
<1>5. CASE ~isDuplicateSignal(t)
  <2>1. /\ signals' = signals \cup {t} /\ intents' = intents \cup {t}
        /\ task' = Enqueued(T) /\ UNCHANGED inbox
    BY <1>3, <1>5 DEF processWorkflowSignal
  <2>2. TypeOK'
    BY ZenonT(20), <1>1, <1>3, <2>1, EnqueuedType DEF TypeOK
  <2>3. \A u \in T : u[1] = "output"
    BY Kinds
  <2> HIDE DEF T
  <2>4. \A u \in Tasks : u[1] # "output" => (Exists(u)' <=> Exists(u))
    BY <1>3, <2>1, <2>3, EnqueuedExists
  <2>5. Routes'
    BY <1>3, <2>4, RoutesKept DEF IngressInv
  <2>6. ASSUME NEW u \in Tasks PROVE TaskAgrees(u)'
    <3>1. task'[u] = task[u] \/ task[u] = "none"
      BY <2>1 DEF Enqueued
    <3>2. TaskAgrees(u)
      BY DEF IngressInv, Executions
    <3>3. stage'[u] = IF u = t THEN "published" ELSE stage[u]
      BY <1>1, <1>3 DEF TypeOK
    <3>4. sent'[u] = sent[u] /\ pruned' = pruned /\ signals \subseteq signals'
      BY <1>3, <2>1
    <3>5. task[t] = "running" /\ t[1] = "plan"
      BY <1>3
    <3> QED
      BY <3>1, <3>2, <3>3, <3>4, <3>5 DEF TaskAgrees
  <2>7. \A s \in signals : s[1] = "plan" /\ ContentOf[s[2]] = ContentOf[t[2]] /\ s[3] = t[3] => s = t
    BY <1>3, <1>5 DEF isDuplicateSignal, Scope
  <2>8. \A r, s \in {u \in signals' : u[1] = "plan"} :
           ContentOf[r[2]] = ContentOf[s[2]] /\ r[3] = s[3] => r = s
    BY <1>1, <2>1, <2>7 DEF DuplicatesPublishNothing
  <2>9. ASSUME NEW n \in Messages, NEW q \in Plans, task'[Output(n, q)] \in {"pending", "running", "failed"}
        PROVE  Child(n, q) \in signals'
    <3>1. CASE Output(n, q) \in T
      BY <1>2, <2>1, <3>1, Kinds DEF T
    <3>2. CASE Output(n, q) \notin T
      <4>1. task'[Output(n, q)] = task[Output(n, q)]
        BY <2>1, <3>2, Kinds DEF Enqueued
      <4> QED
        BY <1>1, <2>1, <2>9, <4>1 DEF DuplicatesPublishNothing
    <3> QED
      BY <3>1, <3>2
  <2>10. DuplicatesPublishNothing'
    BY <1>1, <2>1, <2>8, <2>9 DEF DuplicatesPublishNothing
  <2> QED
    BY <2>2, <2>5, <2>6, <2>10 DEF IngressInv, Executions
<1> QED
  BY <1>4, <1>5

\* Retention deletes only rows that are done and signals that no live row and
\* no intent needs (pruneOperationalData).
LEMMA PruneKeeps ==
  ASSUME IngressInv, NEW m \in Messages, NEW settled \in BOOLEAN, pruneOperationalData(m, settled)
  PROVE  IngressInv'
<1> USE DEF pumpVars
<1> DEFINE old == {t \in Tasks : m \in MessageOf(t) /\ task[t] = "completed"}
<1>1. /\ inbox' = IF inbox[m] \in {"processed", "filtered"} THEN [inbox EXCEPT ![m] = "none"] ELSE inbox
      /\ signals' = signals \ prunableSignals(m, settled)
      /\ intents' = IF settled THEN {s \in intents : s[2] # m} ELSE intents
      /\ task' = [t \in Tasks |-> IF t \in old THEN "none" ELSE task[t]]
      /\ pruned' = pruned \cup old
      /\ UNCHANGED <<active, work, pinned, group, parts, ripe, payload, pump, listed, wake, stage, sent, upsets>>
  BY DEF pruneOperationalData
<1>2. old \subseteq Tasks /\ \A t \in old : task[t] = "completed"
  OBVIOUS
<1> HIDE DEF old
<1>3. TypeOK /\ (\A t \in Tasks : TaskAgrees(t)) /\ DuplicatesPublishNothing
  BY DEF IngressInv, Executions
<1>4. TypeOK'
  BY <1>1, <1>2, <1>3 DEF TypeOK
<1>5. \A t \in Tasks : Exists(t)' <=> Exists(t)
  BY <1>1, <1>2 DEF Exists
<1>6. Routes'
  BY <1>1, <1>5, RoutesKept DEF IngressInv
<1>7. ASSUME NEW t \in Tasks, Live(t), NEW n \in Messages, t[2] = n, t[1] # "album",
             NEW s \in signals, s[2] = n
      PROVE  s \in signals'
  <2>1. t \in Tasks \ {Album(g) : g \in Albums}
    BY <1>7, Kinds
  <2>2. s \notin prunableSignals(m, settled)
    BY <1>7, <2>1 DEF prunableSignals
  <2> QED
    BY <1>1, <1>7, <2>2
<1>8. ASSUME NEW t \in Tasks PROVE TaskAgrees(t)'
  <2>1. TaskAgrees(t) /\ (task'[t] = task[t] \/ (task[t] = "completed" /\ t \in pruned'))
    BY <1>1, <1>2, <1>3
  <2>2. ASSUME stage[t] = "saved" PROVE t \in signals'
    <3>1. t[1] = "single" /\ task[t] = "running" /\ t \in signals
      BY <2>1, <2>2 DEF TaskAgrees
    <3>2. PICK n \in Messages : t = Single(n)
      BY <3>1, Kinds
    <3> QED
      BY <1>7, <3>1, <3>2, Kinds DEF Live
  <2> QED
    BY <1>1, <2>1, <2>2 DEF TaskAgrees
<1>9. intents' \subseteq signals'
  BY <1>1, <1>3 DEF DuplicatesPublishNothing, prunableSignals
<1>10. ASSUME NEW n \in Messages, NEW p \in Plans, task'[Output(n, p)] \in {"pending", "running", "failed"}
       PROVE  Child(n, p) \in signals'
  <2>1. Live(Output(n, p)) /\ Child(n, p) \in signals
    BY <1>1, <1>3, <1>10, Kinds DEF Live, DuplicatesPublishNothing
  <2> QED
    BY <1>7, <2>1, Kinds
<1>11. DuplicatesPublishNothing'
  BY <1>1, <1>3, <1>9, <1>10 DEF DuplicatesPublishNothing
<1> QED
  BY <1>4, <1>6, <1>8, <1>11 DEF IngressInv, Executions

\* A crash forgets the executions and the listing, and no row.
LEMMA CrashKeeps ==
  ASSUME IngressInv, Crash
  PROVE  IngressInv'
<1> USE DEF upset, ingressVars
<1>1. TypeOK'
  BY IngressAssumption DEF IngressInv, TypeOK, Crash
<1>2. \A t \in Tasks : Exists(t)' <=> Exists(t)
  BY DEF Crash, Exists
<1>3. Routes'
  BY <1>2, RoutesKept DEF IngressInv, Crash
<1>4. ASSUME NEW t \in Tasks PROVE TaskAgrees(t)'
  BY DEF IngressInv, Executions, TaskAgrees, Crash
<1>5. ASSUME NEW n \in Messages, NEW p \in Plans, task'[Output(n, p)] \in {"pending", "running", "failed"}
      PROVE  Child(n, p) \in signals
  <2>1. task[Output(n, p)] \in {"pending", "running", "failed"}
    BY <1>5, Kinds DEF Crash
  <2> QED
    BY <2>1 DEF IngressInv, Executions, DuplicatesPublishNothing
<1>6. DuplicatesPublishNothing'
  BY <1>5 DEF IngressInv, Executions, DuplicatesPublishNothing, Crash
<1> QED
  BY <1>1, <1>3, <1>4, <1>6 DEF IngressInv, Executions

\* The first start finds no work, no albums and no rows.
LEMMA IngressStarts == Init => IngressInv
<1> SUFFICES ASSUME Init PROVE IngressInv
  OBVIOUS
<1>1. TypeOK
  <2>1. inbox \in [Messages -> {"none", "received", "filtered", "album_waiting", "routed",
                                "needs_review", "duplicate", "processed", "failed"}]
    BY DEF Init
  <2>2. upsets \in 0..MaxUpsets /\ sent \in [Tasks -> Nat]
    BY IngressAssumption DEF Init
  <2> QED
    BY <2>1, <2>2 DEF Init, TypeOK
<1>2. \A t \in Tasks : ~Exists(t)
  BY DEF Init, Exists
<1>3. Routes
  BY <1>2, Kinds DEF Init, Routes, MessageAgrees, AlbumAgrees
<1>4. \A m \in Messages, p \in Plans : task[Output(m, p)] = "none"
  BY Kinds DEF Init
<1>5. Executions
  BY <1>4 DEF Init, Executions, TaskAgrees, DuplicatesPublishNothing
<1> QED
  BY <1>1, <1>3, <1>5 DEF IngressInv

\* Every step of the ingress keeps the agreement.
LEMMA IngressSteps == IngressInv /\ [Next]_vars => IngressInv'
<1> SUFFICES ASSUME IngressInv, [Next]_vars PROVE IngressInv'
  OBVIOUS
<1>1. ASSUME NEW w \in Revisions \cup {Legacy}, activateWorkflow(w) PROVE IngressInv'
  BY <1>1, QuietKeeps
<1>2. ASSUME NEW m \in Messages, acceptIncomingMessage(m) PROVE IngressInv'
  BY <1>2, AcceptKeeps
<1>3. ASSUME NEW m \in Messages, announceAgain(m) PROVE IngressInv'
  BY <1>3, QuietKeeps
<1>4. ASSUME NEW m \in Messages, classificationFails(m) PROVE IngressInv'
  BY <1>4, FailedKeeps
<1>5. CASE Pump
  <2>1. CASE listPending
    BY <2>1, QuietKeeps
  <2>2. ASSUME NEW m \in Messages, processIncomingRow(m) PROVE IngressInv'
    BY <2>2, ProcessKeeps
  <2>3. CASE flushIncomingAlbums
    BY <2>3, FlushKeeps
  <2>4. CASE scheduleRemainingIngress
    BY <2>4, QuietKeeps
  <2> QED
    BY <1>5, <2>1, <2>2, <2>3, <2>4 DEF Pump
<1>6. ASSUME NEW g \in Albums, albumReady(g) PROVE IngressInv'
  BY <1>6, QuietKeeps
<1>7. ASSUME NEW t \in Tasks, claimOutboxTask(t) \/ executionFails(t) \/ retryPersistedTask(t)
      PROVE  IngressInv'
  BY <1>7, RowStepKeeps
<1>8. ASSUME NEW t \in Tasks, execute(t) PROVE IngressInv'
  <2>1. CASE finishWorkflowSignal(t) \/ checkLegacySignal(t) \/ deliver(t)
    BY <1>8, <2>1, SettleKeeps
  <2>2. CASE saveSignal(t) \/ createLegacyIntentForSignal(t)
    BY <1>8, <2>2, LegacyKeeps
  <2>3. CASE processWorkflowSignal(t)
    BY <1>8, <2>3, PublishKeeps
  <2> QED
    BY <1>8, <2>1, <2>2, <2>3 DEF execute
<1>9. ASSUME NEW m \in Messages, NEW settled \in BOOLEAN, pruneOperationalData(m, settled)
      PROVE  IngressInv'
  BY <1>9, PruneKeeps
<1>10. CASE Crash
  BY <1>10, CrashKeeps
<1>11. CASE UNCHANGED vars
  <2>1. TypeOK'
    BY <1>11 DEF vars, ingressVars, pumpVars, taskVars, IngressInv, TypeOK
  <2>2. Routes'
    BY <1>11, RoutesKept DEF vars, ingressVars, pumpVars, taskVars, IngressInv, Exists
  <2>3. Executions'
    BY <1>11, ExecutionsKept DEF vars, taskVars, IngressInv
  <2> QED
    BY <2>1, <2>2, <2>3 DEF IngressInv
<1> QED
  BY <1>1, <1>2, <1>3, <1>4, <1>5, <1>6, <1>7, <1>8, <1>9, <1>10, <1>11 DEF Next

\* The inductive invariant of the ingress: what is decided about a message,
\* its album and its outbox rows agree in every reachable state.
THEOREM IngressAgreement == Spec => []IngressInv
<1> QED
  BY IngressStarts, IngressSteps, PTL DEF Spec

\* No message is lost and none is routed twice, for any messages, albums,
\* workflow revisions and number of upsets: its rows are exactly those of the
\* route pinned at its acceptance (classifyIncomingRow).
THEOREM MessagesAreRoutedOnce == Spec => []RoutedExactlyAsPinned
<1> QED
  BY IngressAgreement, AgreementRoutes, PTL

\* A message held in an album is listed in an album that will still be closed
\* (addAlbumPart, flushIncomingAlbums).
THEOREM WaitingPartsWait == Spec => []WaitingPartsAreHeld
<1> QED
  BY IngressAgreement, AgreementHolds, PTL

\* A duplicate publishes nothing, and a row executed again after a crash or a
\* retry is not sent again (processWorkflowSignal, executeScheduledOutboxTask).
THEOREM NoSecondPublication == Spec => []NothingIsDoneTwice
<1> QED
  BY IngressAgreement, AgreementIsOnce, PTL

=============================================================================
