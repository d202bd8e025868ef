---------------------------- MODULE EntrySteps -----------------------------
(***************************************************************************)
(* Proofs about EntryDispatch, for any runs, accounts and upsets.  The      *)
(* inductive invariant IInv stands at the end of that module.  Here are     *)
(* the facts about single rows, the frame lemmas, and the steps that keep   *)
(* the invariant before an entry leaves: settling, reconciliation, the      *)
(* operators' commands and the worker up to the hand-off.  EntryProofs has  *)
(* the other steps and the theorems.                                        *)
(***************************************************************************)
EXTENDS EntryDispatch, TLAPS

(* The part of TypeOK that the proofs use.                                 *)
Types ==
    /\ intent \in [Cands -> IntentStatus \cup {"none"}]
    /\ order \in [Cands -> ORDER_STATUSES \cup {"none"}]
    /\ position \in [Cands -> Active \cup {"none", "closed"}]
    /\ op \in [Cands -> Phases]
    /\ run \in [Runs -> {"none", "probing", "selected", "stopped", "exhausted"}]
    /\ rank \in [Runs -> Ranks] /\ last \in [Runs -> Ranks]
    /\ venue \in [Cands -> Answered \cup {"absent", "inflight"}]
    /\ sends \in [Cands -> Nat]
    /\ drained \in [Ranks -> BOOLEAN]
    /\ wpc \in WorkerSteps
    /\ IF wpc = "idle" THEN wc = NoCand ELSE wc \in Cands
    /\ stage \in [Ranks -> Stages] /\ caller \in [Ranks -> Callers]
    /\ target \in [Ranks -> Cands \cup {NoCand}]

(* The inductive invariant.                                                *)
Inv == Types /\ IInv

\* A candidate is a run and a rank.
LEMMA CandParts == \A c \in Cands : c[1] \in Runs /\ c[2] \in Ranks /\ c = <<c[1], c[2]>>
  BY DEF Cands

\* Ranks are natural numbers.
LEMMA RankTypes ==
  ASSUME Types, NEW c \in Cands
  PROVE  c[2] \in Nat /\ rank[c[1]] \in Nat /\ last[c[1]] \in Nat
<1>1. c[1] \in Runs /\ c[2] \in Ranks
  BY CandParts
<1>2. rank[c[1]] \in Ranks /\ last[c[1]] \in Ranks
  BY <1>1 DEF Types
<1>3. Ranks \subseteq Nat
  BY EntryAssumption DEF Ranks
<1> QED
  BY <1>1, <1>2, <1>3

\* Rows, runs and the venue are left alone.
Quiet == UNCHANGED <<intent, order, position, op, run, rank, venue, sends>>

\* A step that touches no row keeps what the rows, the runs and the venue say.
LEMMA QuietSteps ==
  ASSUME Inv, Quiet
  PROVE  /\ \A c \in Cands : RowsAgree(c)' /\ RunsAgree(c)'
         /\ OneOwnerPerSymbol'
  BY DEF Inv, IInv, Quiet, RowsAgree, RunsAgree, OneOwnerPerSymbol, Live

\* A drain whose orders and operations are all terminal left nothing that can
\* still fill (drainAndProveEntries).
LEMMA DrainProved ==
  ASSUME Inv, NEW a \in Ranks, entriesDrained(On(a))
  PROVE  \A c \in On(a) : venue[c] \notin {"inflight", "open"}
  BY DEF Inv, Types, IInv, entriesDrained, RowsAgree, TerminalOrder, Pending, Phases, On

\* A final status of a row is the venue's.
Tells(status, v) ==
    /\ status = "filled" => v \in {"filled", "flat"}
    /\ status = "rejected" => v = "rejected"
    /\ status = "cancelled" => v \in {"absent", "cancelled"}

\* Merging an answer of the venue, or none, into a status that tells the truth
\* gives one that tells the truth (mergedStatus).
LEMMA MergeTells ==
  ASSUME NEW o \in ORDER_STATUSES \cup {"none"}, NEW v, Tells(o, v), NEW f,
         NEW s, s = "unknown" \/ (v \in Answered /\ s = IF v = "flat" THEN "filled" ELSE v)
  PROVE  /\ mergedStatus(o, s, f, 1) \in ORDER_STATUSES
         /\ Tells(mergedStatus(o, s, f, 1), v)
         /\ o = "filled" => mergedStatus(o, s, f, 1) = "filled"
  BY DEF mergedStatus, heldOrPartialStatus, Tells, ORDER_STATUSES, TerminalOrder, Answered

\* The same of the status an order row is left with (persistOrderEvidence).
LEMMA PersistedTells ==
  ASSUME Inv, NEW c \in Cands,
         NEW s, s = "unknown" \/ (venue[c] \in Answered /\ s = venueStatus(c))
  PROVE  /\ persisted(c, s) \in ORDER_STATUSES
         /\ Tells(persisted(c, s), venue[c])
         /\ order[c] = "filled" => persisted(c, s) = "filled"
<1>1. order[c] \in ORDER_STATUSES \cup {"none"} /\ Tells(order[c], venue[c])
  BY DEF Inv, Types, IInv, RowsAgree, Tells
<1> QED
  BY <1>1, MergeTells DEF persisted, venueStatus

\* What has an owner at the venue has an active position.
LEMMA LiveIsActive ==
  ASSUME Inv, NEW c \in Cands, venue[c] \in Live
  PROVE  position[c] \in Active
  BY DEF Inv, Types, IInv, RowsAgree, Live

\* Away from its reconciliations the worker holds its account alone.
LEMMA WorkerExcludes ==
  ASSUME Inv, wpc \notin {"idle", "reconcile", "exits"}
  PROVE  stage[acct(wc)] = "idle"
  BY CandParts DEF Inv, Types, IInv, MutexAgrees, acct

\* The reservation is released on the proof that nothing was sent, or kept.
LEMMA Abandons ==
  ASSUME Inv, NEW c \in Cands, abandonUndispatchedPlan(c)
  PROVE  \/ UNCHANGED <<order, op, position>>
         \/ /\ sends[c] = 0 /\ intent[c] \in {"planned", "submitting"}
            /\ order' = [order EXCEPT ![c] = "cancelled"]
            /\ op' = [op EXCEPT ![c] = op'[c]] /\ op'[c] \in {"none", "abandoned"}
            /\ position' = [position EXCEPT ![c] = "closed"]
<1>1. CASE ~hasUndispatchedPlanProof(c, TRUE, FALSE)
  BY <1>1 DEF abandonUndispatchedPlan
<1>2. CASE hasUndispatchedPlanProof(c, TRUE, FALSE)
  <2>1. /\ order' = [order EXCEPT ![c] = "cancelled"]
        /\ op' = [op EXCEPT ![c] = IF @ = "prepared" THEN "abandoned" ELSE @]
        /\ position' = [position EXCEPT ![c] = "closed"]
    BY <1>2 DEF abandonUndispatchedPlan
  <2>2. intent[c] \in {"planned", "submitting"} /\ op[c] \in {"none", "prepared", "abandoned"}
    BY <1>2 DEF hasUndispatchedPlanProof
  <2>3. sends[c] = 0
    BY <2>2 DEF Inv, IInv, RowsAgree
  <2> QED
    BY <2>1, <2>2, <2>3 DEF Inv, Types
<1> QED
  BY <1>1, <1>2

\* The rows of d say what they said while they and the venue are left alone.
LEMMA RowKept ==
  ASSUME NEW d, RowsAgree(d), intent'[d] = intent[d], order'[d] = order[d],
         position'[d] = position[d], op'[d] = op[d], venue'[d] = venue[d], sends'[d] = sends[d]
  PROVE  RowsAgree(d)'
  BY DEF RowsAgree, Live

\* A step on the rows of one candidate keeps the agreement of all rows if it
\* keeps that candidate's.
LEMMA OneRow ==
  ASSUME IInv, NEW c \in Cands, UNCHANGED <<venue, sends>>, RowsAgree(c)',
         \A d \in Cands \ {c} : /\ intent'[d] = intent[d] /\ order'[d] = order[d]
                                /\ position'[d] = position[d] /\ op'[d] = op[d]
  PROVE  \A d \in Cands : RowsAgree(d)'
<1>1. \A d \in Cands : RowsAgree(d)
  BY DEF IInv
<1> QED
  BY <1>1, RowKept

\* A step that creates no intent and reopens none keeps what the runs say.
LEMMA RunsKept ==
  ASSUME IInv, UNCHANGED <<run, rank, sends>>,
         \A d \in Cands : \/ intent'[d] = intent[d]
                          \/ /\ intent[d] # "none"
                             /\ intent[d] \in SettledIntent => intent'[d] \in SettledIntent
  PROVE  \A d \in Cands : RunsAgree(d)'
<1>1. \A d \in Cands : RunsAgree(d)
  BY DEF IInv
<1> QED
  BY <1>1 DEF RunsAgree

\* The worker's steps between its two reconciliations.
Between == WorkerSteps \ {"idle", "reconcile", "exits"}

\* They leave the mutexes of the accounts alone.
LEMMA MutexKept ==
  ASSUME IInv, UNCHANGED <<stage, caller, target, wc>>,
         wpc' = wpc \/ (wpc \in Between /\ wpc' \in Between),
         \A d \in Cands : order[d] # "none" => order'[d] # "none"
  PROVE  \A b \in Ranks : MutexAgrees(b)'
<1>1. wpc' = wpc \/ (/\ wpc \notin {"idle", "reconcile", "exits"}
                     /\ wpc' \notin {"idle", "reconcile", "exits"})
  BY DEF Between
<1> TAKE b \in Ranks
<1>2. MutexAgrees(b)
  BY DEF IInv
<1>3. \A d \in On(b) : order[d] # "none" => order'[d] # "none"
  BY DEF On
<1> QED
  BY <1>1, <1>2, <1>3 DEF MutexAgrees

\* What the venue has changes with the venue only.
LEMMA VenueKept ==
  ASSUME IInv, UNCHANGED <<venue, drained>>
  PROVE  OneOwnerPerSymbol' /\ DrainedIsDrained'
  BY DEF IInv, OneOwnerPerSymbol, DrainedIsDrained, Live

\* The rows are in their ranges.
RowTypes ==
    /\ intent \in [Cands -> IntentStatus \cup {"none"}]
    /\ order \in [Cands -> ORDER_STATUSES \cup {"none"}]
    /\ position \in [Cands -> Active \cup {"none", "closed"}]
    /\ op \in [Cands -> Phases]

\* Only the rows of c change.
Only(c) ==
    \A d \in Cands \ {c} : /\ intent'[d] = intent[d] /\ order'[d] = order[d]
                           /\ position'[d] = position[d] /\ op'[d] = op[d]

\* A step of the worker that writes rows keeps every variable in its range.
LEMMA WorkerTypes ==
  ASSUME Types, RowTypes', wc' \in Cands, wpc' \in Between,
         UNCHANGED <<run, rank, last, venue, sends, drained, stage, caller, target>>
  PROVE  Types'
<1>1. wpc' \in WorkerSteps /\ wpc' # "idle"
  BY DEF Between
<1> QED
  BY <1>1 DEF Types, RowTypes

\* Rows that the worker does not hold between its reconciliations may change
\* under it, as long as no position of its account becomes active.
LEMMA WorkerKept ==
  ASSUME IInv, UNCHANGED <<wpc, wc, err, run, sends>>, wpc \in WorkerSteps,
         wpc \in Between => intent'[wc] = intent[wc] /\ op'[wc] = op[wc],
         wpc # "idle" => intent'[wc] # "none",
         \A d \in Cands : position'[d] \in Active => position[d] \in Active
  PROVE  WorkerAgrees'
<1>1. WorkerAgrees /\ \A d \in On(acct(wc)) : position'[d] \in Active => position[d] \in Active
  BY DEF IInv, On
<1>2. wpc \in Between \/ wpc \in {"idle", "reconcile", "exits"}
  BY DEF Between
<1>3. CASE wpc \in Between
  BY <1>1, <1>3 DEF WorkerAgrees
<1>4. CASE wpc \in {"idle", "reconcile", "exits"}
  BY <1>1, <1>4 DEF WorkerAgrees
<1> QED
  BY <1>2, <1>3, <1>4

\* A pass that is under way moves its own stage and target only.
LEMMA PassKept ==
  ASSUME IInv, NEW a \in Ranks, UNCHANGED <<wpc, wc, caller>>, stage[a] # "idle", stage'[a] # "idle",
         \A b \in Ranks \ {a} : stage'[b] = stage[b] /\ target'[b] = target[b],
         stage'[a] \in {"cancelling", "cancelSent"} =>
            target'[a] \in On(a) /\ order'[target'[a]] # "none",
         \A d \in Cands : order[d] # "none" => order'[d] # "none"
  PROVE  \A b \in Ranks : MutexAgrees(b)'
<1> TAKE b \in Ranks
<1>1. MutexAgrees(b) /\ MutexAgrees(a)
  BY DEF IInv
<1>2. \A d \in On(b) : order[d] # "none" => order'[d] # "none"
  BY DEF On
<1>3. CASE b = a
  BY <1>1, <1>3 DEF MutexAgrees
<1>4. CASE b # a
  BY <1>1, <1>2, <1>4 DEF MutexAgrees
<1> QED
  BY <1>3, <1>4

\* The worker enters the mutex of a, which is free, for a pass of its own, or
\* takes up a candidate of a without one.
LEMMA WorkerEnters ==
  ASSUME IInv, NEW a \in Ranks, acct(wc') = a, stage[a] = "idle", UNCHANGED target,
         wpc = "idle" \/ (wpc \in Between /\ wc' = wc),
         \A d \in Cands : order[d] # "none" => order'[d] # "none",
         \/ UNCHANGED <<stage, caller>> /\ wpc' \in Between
         \/ /\ \A b \in Ranks \ {a} : stage'[b] = stage[b] /\ caller'[b] = caller[b]
            /\ stage'[a] = "drain"
            /\ \/ wpc' = "reconcile" /\ caller'[a] = "worker"
               \/ wpc' = "exits" /\ caller'[a] = "exits"
  PROVE  \A b \in Ranks : MutexAgrees(b)'
<1>0. /\ wpc \in Between => wpc \notin {"idle", "reconcile", "exits"}
      /\ wpc' \in Between => wpc' \notin {"idle", "reconcile", "exits"}
  BY DEF Between
<1> TAKE b \in Ranks
<1>1. MutexAgrees(b) /\ caller[a] = "none"
  BY DEF IInv, MutexAgrees
<1>2. \A d \in On(b) : order[d] # "none" => order'[d] # "none"
  BY DEF On
<1>3. CASE b = a
  BY <1>0, <1>1, <1>2, <1>3 DEF MutexAgrees
<1>4. CASE b # a
  BY <1>0, <1>1, <1>2, <1>4 DEF MutexAgrees
<1> QED
  BY <1>3, <1>4

\* Taking up an unsent candidate of a free account, for a pass or to fail it.
LEMMA TakesUp ==
  ASSUME Inv, NEW c \in Cands, wpc = "idle", stage[acct(c)] = "idle", wc' = c,
         intent[c] = "pending" \/ hasUndispatchedPlanProof(c, FALSE, FALSE),
         order' = [order EXCEPT ![c] = IF @ = "submitting" THEN "created" ELSE @],
         UNCHANGED <<intent, position, op, run, rank, last, venue, sends, drained, target>>,
         \/ wpc' = "failing" /\ UNCHANGED <<stage, caller>>
         \/ /\ wpc' = "reconcile" /\ stage' = [stage EXCEPT ![acct(c)] = "drain"]
            /\ caller' = [caller EXCEPT ![acct(c)] = "worker"]
  PROVE  Inv'
<1>1. /\ acct(c) \in Ranks /\ RowsAgree(c) /\ RowTypes /\ WorkerAgrees
      /\ stage \in [Ranks -> Stages] /\ caller \in [Ranks -> Callers]
  BY CandParts DEF Inv, Types, IInv, RowTypes, acct
<1>2. sends[c] = 0 /\ intent[c] \in {"pending", "planned", "submitting"}
  BY <1>1 DEF RowsAgree, hasUndispatchedPlanProof
<1>3. /\ order' \in [Cands -> ORDER_STATUSES \cup {"none"}]
      /\ order'[c] = order[c] \/ (order[c] = "submitting" /\ order'[c] = "created")
      /\ \A d \in Cands \ {c} : order'[d] = order[d]
  BY <1>1 DEF RowTypes, ORDER_STATUSES
<1>4. \A d \in Cands : order[d] # "none" => order'[d] # "none"
  BY <1>3
<1>5. /\ stage' \in [Ranks -> Stages] /\ caller' \in [Ranks -> Callers]
      /\ \A b \in Ranks \ {acct(c)} : stage'[b] = stage[b] /\ caller'[b] = caller[b]
      /\ wpc' = "reconcile" => stage'[acct(c)] = "drain" /\ caller'[acct(c)] = "worker"
  BY <1>1 DEF Stages, Callers
<1>6. Types'
  BY <1>3, <1>5 DEF Inv, Types, WorkerSteps
<1>7. RowsAgree(c)'
  BY <1>1, <1>2, <1>3 DEF RowsAgree, Live
<1>8. \A d \in Cands : RowsAgree(d)'
  BY <1>3, <1>7, OneRow DEF Inv
<1>9. \A d \in Cands : RunsAgree(d)'
  BY RunsKept DEF Inv
<1>10. \A b \in Ranks : MutexAgrees(b)'
  <2>1. "failing" \in Between
    BY DEF Between, WorkerSteps
  <2> QED
    BY <1>1, <1>4, <1>5, <2>1, WorkerEnters DEF Inv
<1>11. WorkerAgrees'
  BY <1>2 DEF WorkerAgrees
<1>12. OneOwnerPerSymbol' /\ DrainedIsDrained'
  BY VenueKept DEF Inv
<1> QED
  BY <1>6, <1>8, <1>9, <1>10, <1>11, <1>12 DEF Inv, IInv

\* A step of a pass on one order of its account, and on its own stage and target.
LEMMA PassOnOrder ==
  ASSUME Inv, NEW a \in Ranks, NEW c \in On(a), NEW s,
         order' = [order EXCEPT ![c] = s], s \in ORDER_STATUSES, Tells(s, venue[c]),
         order[c] # "none", order[c] = "filled" => s = "filled",
         stage[a] # "idle", NEW g \in Stages \ {"idle"}, stage' = [stage EXCEPT ![a] = g],
         NEW t \in Cands \cup {NoCand}, target' = [target EXCEPT ![a] = t],
         g \in {"cancelling", "cancelSent"} => t = c,
         UNCHANGED <<intent, position, op, run, rank, last, venue, sends, drained, caller, wpc, wc, err>>
  PROVE  Inv'
<1>1. /\ c \in Cands /\ RowsAgree(c) /\ WorkerAgrees /\ wpc \in WorkerSteps
      /\ order \in [Cands -> ORDER_STATUSES \cup {"none"}]
      /\ stage \in [Ranks -> Stages] /\ target \in [Ranks -> Cands \cup {NoCand}]
  BY DEF Inv, Types, IInv, On
<1>2. /\ order' \in [Cands -> ORDER_STATUSES \cup {"none"}] /\ order'[c] = s
      /\ \A d \in Cands \ {c} : order'[d] = order[d]
  BY <1>1
<1>3. s # "none"
  BY DEF ORDER_STATUSES
<1>4. /\ stage' \in [Ranks -> Stages] /\ target' \in [Ranks -> Cands \cup {NoCand}]
      /\ stage'[a] = g /\ target'[a] = t
      /\ \A b \in Ranks \ {a} : stage'[b] = stage[b] /\ target'[b] = target[b]
  BY <1>1
<1>5. Types'
  BY <1>2, <1>4 DEF Inv, Types
<1>6. RowsAgree(c)'
  BY <1>1, <1>2, <1>3 DEF RowsAgree, Tells, Live
<1>7. \A d \in Cands : RowsAgree(d)'
  BY <1>1, <1>2, <1>6, OneRow DEF Inv
<1>8. \A d \in Cands : RunsAgree(d)'
  BY RunsKept DEF Inv
<1>9. \A b \in Ranks : MutexAgrees(b)'
  <2>1. \A d \in Cands : order[d] # "none" => order'[d] # "none"
    BY <1>2, <1>3
  <2> QED
    BY <1>2, <1>3, <1>4, <2>1, PassKept DEF Inv
<1>10. WorkerAgrees'
  <2>1. wpc # "idle" => intent'[wc] # "none"
    BY <1>1 DEF WorkerAgrees
  <2> QED
    BY <1>1, <2>1, WorkerKept DEF Inv
<1>11. OneOwnerPerSymbol' /\ DrainedIsDrained'
  BY VenueKept DEF Inv
<1> QED
  BY <1>5, <1>7, <1>8, <1>9, <1>10, <1>11 DEF Inv, IInv

\* What reconciling an active position may do to its rows: it is closed only when
\* it is flat and its entry is terminal, and an open intent is settled or
\* monitored (reconcileOpenRemotePosition, reconcileMissingRemotePosition).
RowMoves(d) ==
    /\ position'[d] \in Active \cup {"closed"}
    /\ position'[d] = "closed" => venue[d] # "filled" /\ order'[d] \in TerminalOrder
    /\ \/ intent'[d] = intent[d]
       \/ /\ intent[d] \notin SettledIntent
          /\ intent'[d] \in {"completed", "failed", "monitoring"} \cap IntentStatus
          /\ intent'[d] = "completed" => order'[d] = "filled"

\* Every position that the reconciliation handles moves so.
LEMMA ReconciledRow ==
  ASSUME NEW a, NEW handled, NEW slipped, reconcilePositions(a, handled, slipped),
         NEW d \in Cands, d \in handled, position[d] \in Active
  PROVE  RowMoves(d)
<1>1. position'[d] = IF closable(d) THEN "closed"
                     ELSE IF venue[d] # "filled" \/ position[d] = "emergency" THEN position[d]
                     ELSE IF d \in slipped THEN "emergency" ELSE "open"
  BY DEF reconcilePositions
<1>2. intent'[d] = IF intent[d] \in SettledIntent THEN intent[d]
                   ELSE IF closable(d) THEN IF order'[d] = "filled" THEN "completed" ELSE "failed"
                   ELSE IF position'[d] = "open" /\ intent[d] \in {"submitting", "unknown"}
                   THEN "monitoring" ELSE intent[d]
  BY DEF reconcilePositions
<1>3. closable(d) => venue[d] # "filled" /\ order'[d] \in TerminalOrder
  BY DEF closable
<1>4. /\ "emergency" \in Active /\ "open" \in Active /\ "closed" \notin Active
      /\ {"completed", "failed", "monitoring"} \subseteq IntentStatus
  BY DEF Active, IntentStatus
<1>5. /\ position'[d] \in Active \cup {"closed"}
      /\ position'[d] = "closed" => venue[d] # "filled" /\ order'[d] \in TerminalOrder
  BY <1>1, <1>3, <1>4
<1>6. \/ intent'[d] = intent[d]
      \/ /\ intent[d] \notin SettledIntent
         /\ intent'[d] \in {"completed", "failed", "monitoring"} \cap IntentStatus
         /\ intent'[d] = "completed" => order'[d] = "filled"
  BY <1>2, <1>4
<1> QED
  BY <1>5, <1>6 DEF RowMoves

\* Nothing the agreement is about changes.
LEMMA ControlKept ==
  ASSUME Inv, UNCHANGED <<intent, order, position, op, run, rank, last, venue, sends, drained,
                          wpc, wc, err, stage, caller, target>>
  PROVE  Inv'
<1>1. Types'
  BY DEF Inv, Types
<1>2. wpc \in WorkerSteps /\ (wpc # "idle" => intent[wc] # "none")
  BY DEF Inv, Types, IInv, WorkerAgrees
<1> QED
  BY <1>1, <1>2, QuietSteps, MutexKept, WorkerKept, VenueKept DEF Quiet, Inv, IInv

\* The worker moves on between its reconciliations and writes no row.
LEMMA WorkerMoves ==
  ASSUME Inv, wpc \in Between, wpc' \in Between, WorkerAgrees',
         UNCHANGED <<intent, order, position, op, run, rank, last, venue, sends, drained, wc,
                     stage, caller, target>>
  PROVE  Inv'
<1>1. wc \in Cands /\ RowTypes'
  BY DEF Inv, Types, Between, RowTypes
<1> QED
  BY <1>1, WorkerTypes, QuietSteps, MutexKept, VenueKept DEF Quiet, Inv, IInv

\* Somebody other than the worker enters the mutex of a, which is free.
LEMMA PassBegins ==
  ASSUME Inv, NEW a \in Ranks, Free(a), stage' = [stage EXCEPT ![a] = "drain"],
         NEW who \in {"runtime", "operator", "drainer", "expiry", "release"},
         caller' = [caller EXCEPT ![a] = who],
         UNCHANGED <<intent, order, position, op, run, rank, last, venue, sends, drained,
                     wpc, wc, err, target>>
  PROVE  Inv'
<1>1. /\ stage' \in [Ranks -> Stages] /\ caller' \in [Ranks -> Callers]
      /\ stage'[a] = "drain" /\ caller'[a] = who
      /\ \A b \in Ranks \ {a} : stage'[b] = stage[b] /\ caller'[b] = caller[b]
  BY DEF Inv, Types, Stages, Callers
<1>2. Types'
  BY <1>1 DEF Inv, Types
<1>3. \A b \in Ranks : MutexAgrees(b)'
  <2> TAKE b \in Ranks
  <2>1. MutexAgrees(b)
    BY DEF Inv, IInv
  <2>2. CASE b = a
    BY <1>1, <2>1, <2>2 DEF MutexAgrees, Free
  <2>3. CASE b # a
    BY <1>1, <2>1, <2>3 DEF MutexAgrees
  <2> QED
    BY <2>2, <2>3
<1>4. wpc \in WorkerSteps /\ (wpc # "idle" => intent[wc] # "none")
  BY DEF Inv, Types, IInv, WorkerAgrees
<1> QED
  BY <1>2, <1>3, <1>4, QuietSteps, WorkerKept, VenueKept DEF Quiet, Inv, IInv

\* A pass goes from one of its stages to the next.
LEMMA PassMoves ==
  ASSUME Inv, NEW a \in Ranks, stage[a] # "idle", NEW g \in Stages \ {"idle"},
         stage' = [stage EXCEPT ![a] = g],
         g \in {"cancelling", "cancelSent"} => stage[a] = "cancelling",
         UNCHANGED <<intent, order, position, op, run, rank, last, venue, sends, drained,
                     wpc, wc, err, caller, target>>
  PROVE  Inv'
<1>1. /\ stage' \in [Ranks -> Stages] /\ stage'[a] = g
      /\ \A b \in Ranks \ {a} : stage'[b] = stage[b]
  BY DEF Inv, Types
<1>2. Types'
  BY <1>1 DEF Inv, Types
<1>3. \A b \in Ranks : MutexAgrees(b)'
  <2>1. MutexAgrees(a)
    BY DEF Inv, IInv
  <2>2. g \in {"cancelling", "cancelSent"} => target[a] \in On(a) /\ order[target[a]] # "none"
    BY <2>1 DEF MutexAgrees
  <2> QED
    BY <1>1, <2>2, PassKept DEF Inv
<1>4. wpc \in WorkerSteps /\ (wpc # "idle" => intent[wc] # "none")
  BY DEF Inv, Types, IInv, WorkerAgrees
<1> QED
  BY <1>2, <1>3, <1>4, QuietSteps, WorkerKept, VenueKept DEF Quiet, Inv, IInv

\* A pass leaves the mutex of a; one of the worker's hands the candidate back.
LEMMA PassEnds ==
  ASSUME Inv, NEW a \in Ranks, stage' = [stage EXCEPT ![a] = "idle"],
         caller' = [caller EXCEPT ![a] = "none"],
         UNCHANGED <<intent, order, position, op, run, rank, last, venue, sends, wc, target>>,
         \/ caller[a] \notin {"none", "worker", "exits"} /\ UNCHANGED <<wpc, err>>
         \/ caller[a] \in {"worker", "exits"} /\ wpc' \in Between /\ WorkerAgrees',
         drained' \in [Ranks -> BOOLEAN], DrainedIsDrained'
  PROVE  Inv'
<1>1. /\ stage' \in [Ranks -> Stages] /\ caller' \in [Ranks -> Callers]
      /\ stage'[a] = "idle" /\ caller'[a] = "none"
      /\ \A b \in Ranks \ {a} : stage'[b] = stage[b] /\ caller'[b] = caller[b]
  BY DEF Inv, Types, Stages, Callers
<1>2. MutexAgrees(a) /\ wpc \in WorkerSteps /\ (wpc # "idle" => intent[wc] # "none")
  BY DEF Inv, Types, IInv, WorkerAgrees
<1>3. /\ wpc' \in Between => wpc' \in WorkerSteps /\ wpc' \notin {"idle", "reconcile", "exits"}
      /\ caller[a] \in {"worker", "exits"} => wpc \in {"reconcile", "exits"} /\ acct(wc) = a
  BY <1>2 DEF MutexAgrees, Between
<1>4. Types'
  <2>1. wpc' \in WorkerSteps /\ IF wpc' = "idle" THEN wc' = NoCand ELSE wc' \in Cands
    BY <1>3 DEF Inv, Types
  <2> QED
    BY <1>1, <2>1 DEF Inv, Types
<1>5. \A b \in Ranks : MutexAgrees(b)'
  <2> TAKE b \in Ranks
  <2>1. MutexAgrees(b)
    BY DEF Inv, IInv
  <2>2. CASE b = a
    BY <1>1, <1>2, <1>3, <2>2 DEF MutexAgrees
  <2>3. CASE b # a
    BY <1>1, <1>3, <2>1, <2>3 DEF MutexAgrees
  <2> QED
    BY <2>2, <2>3
<1>6. WorkerAgrees'
  BY <1>2, WorkerKept DEF Inv
<1> QED
  BY <1>4, <1>5, <1>6, QuietSteps DEF Quiet, Inv, IInv

\* The worker lets go of its candidate and of nothing else.
LEMMA WorkerRests ==
  ASSUME IInv, wpc \in Between, wpc' = "idle", UNCHANGED <<stage, caller, target>>,
         \A d \in Cands : order[d] # "none" => order'[d] # "none"
  PROVE  \A b \in Ranks : MutexAgrees(b)'
<1> TAKE b \in Ranks
<1>1. wpc \notin {"idle", "reconcile", "exits"} /\ MutexAgrees(b)
  BY DEF Between, IInv
<1>2. \A d \in On(b) : order[d] # "none" => order'[d] # "none"
  BY DEF On
<1> QED
  BY <1>1, <1>2 DEF MutexAgrees

\* What is below the successor is below or equal.
LEMMA AtOrBelow == \A i, j \in Nat : i < j + 1 => i = j \/ i < j
  OBVIOUS

\* A settled intent has no other successor.
LEMMA SettledIsFinal ==
  ASSUME NEW s \in SettledIntent, NEW t, canTransitionIntent(s, t)
  PROVE  t = s
  BY DEF SettledIntent, canTransitionIntent, INTENT_TRANSITIONS

\* How a failure leaves the intents and the run of c: the intent is settled and
\* the run may end, or the next rank is promoted, or nothing is written.
Closes(c, s) ==
    /\ intent' = [intent EXCEPT ![c] = s] /\ s \in {"blocked", "unknown"}
    /\ s = "unknown" => intent[c] \notin SettledIntent
    /\ UNCHANGED <<rank, last>>
    /\ \/ UNCHANGED run
       \/ isCurrent(c) /\ \E q \in {"stopped", "exhausted"} : run' = [run EXCEPT ![c[1]] = q]

Promotes(c, s, q) ==
    /\ isCurrent(c) /\ c[2] < last[c[1]] /\ UNCHANGED last
    /\ s \in {"pending", "blocked"} /\ q \in {"probing", "stopped"}
    /\ intent' = [intent EXCEPT ![c] = "blocked", ![<<c[1], c[2] + 1>>] = s]
    /\ rank' = [rank EXCEPT ![c[1]] = c[2] + 1]
    /\ run' = [run EXCEPT ![c[1]] = q]

\* What settleFailure does to the intents, the rows and the run.
LEMMA SettleCases ==
  ASSUME Inv, NEW c \in Cands, NEW e, settleFailure(c, e)
  PROVE  \/ UNCHANGED <<intent, order, op, position, fallback>>
         \/ abandonUndispatchedPlan(c) /\ \E s : Closes(c, s)
         \/ UNCHANGED <<order, op, position>> /\ \E s : Closes(c, s)
         \/ abandonUndispatchedPlan(c) /\ \E s, q : Promotes(c, s, q)
<1>0. /\ c[1] \in Runs /\ c[2] \in Nat /\ last[c[1]] \in Nat
      /\ run \in [Runs -> {"none", "probing", "selected", "stopped", "exhausted"}]
  BY CandParts, RankTypes DEF Inv, Types
<1>1. CASE e \in FallbackReasons /\ abandonUndispatchedPlan(c) /\ advanceWorkflowFallback(c, e)
  <2>1. CASE ~isCurrent(c)
    BY <1>1, <2>1 DEF advanceWorkflowFallback, Closes, fallback
  <2>2. CASE isCurrent(c) /\ c[2] >= last[c[1]]
    BY <1>1, <2>2 DEF advanceWorkflowFallback, Closes
  <2>3. CASE isCurrent(c) /\ ~(c[2] >= last[c[1]]) /\ e \notin FallbackOn
    BY <1>1, <2>3 DEF advanceWorkflowFallback, Closes
  <2>4. CASE isCurrent(c) /\ ~(c[2] >= last[c[1]]) /\ e \in FallbackOn
    <3> DEFINE s == IF executionRefused(c[2] + 1) THEN "blocked" ELSE "pending"
               q == IF executionRefused(c[2] + 1) THEN "stopped" ELSE "probing"
    <3>1. /\ intent' = [intent EXCEPT ![c] = "blocked", ![<<c[1], c[2] + 1>>] = s]
          /\ run' = [run EXCEPT ![c[1]] = IF executionRefused(c[2] + 1) THEN "stopped" ELSE @]
          /\ rank' = [rank EXCEPT ![c[1]] = c[2] + 1]
          /\ UNCHANGED last
      BY <1>1, <2>4 DEF advanceWorkflowFallback
    <3>2. run' = [run EXCEPT ![c[1]] = q]
      BY <3>1, <2>4, <1>0 DEF isCurrent
    <3>3. c[2] < last[c[1]]
      BY <2>4, <1>0
    <3> HIDE DEF s, q
    <3>4. Promotes(c, s, q)
      BY <3>1, <3>2, <3>3, <2>4 DEF Promotes, s, q
    <3> QED
      BY <1>1, <3>4
  <2> QED
    BY <2>1, <2>2, <2>3, <2>4
<1>2. ASSUME e \notin FallbackReasons, NEW s \in {"blocked", "unknown"},
             canTransitionIntent(intent[c], s), intent' = [intent EXCEPT ![c] = s],
             stopWorkflowFallback(c)
      PROVE  Closes(c, s)
  <2>1. s = "unknown" => intent[c] \notin SettledIntent
    BY <1>2, SettledIsFinal DEF SettledIntent
  <2>2. UNCHANGED run \/ (isCurrent(c) /\ run' = [run EXCEPT ![c[1]] = "stopped"])
    BY <1>0, <1>2 DEF stopWorkflowFallback
  <2> QED
    BY <1>2, <2>1, <2>2 DEF Closes, stopWorkflowFallback
<1> QED
  BY <1>1, <1>2 DEF settleFailure

\* A failure keeps the agreement of rows and runs: what is settled is unsent,
\* and only a probing run promotes its next rank (handleIntentFailure).
LEMMA Settles ==
  ASSUME Inv, NEW c \in Cands, NEW e, settleFailure(c, e), intent[c] # "none",
         UNCHANGED <<venue, sends>>
  PROVE  /\ intent' \in [Cands -> IntentStatus \cup {"none"}]
         /\ order' \in [Cands -> ORDER_STATUSES \cup {"none"}]
         /\ position' \in [Cands -> Active \cup {"none", "closed"}]
         /\ op' \in [Cands -> Phases]
         /\ run' \in [Runs -> {"none", "probing", "selected", "stopped", "exhausted"}]
         /\ rank' \in [Runs -> Ranks] /\ last' \in [Runs -> Ranks]
         /\ \A d \in Cands : order[d] # "none" => order'[d] # "none"
         /\ \A d \in Cands : RowsAgree(d)' /\ RunsAgree(d)'
<1>1. c[1] \in Runs /\ c[2] \in Ranks /\ c = <<c[1], c[2]>>
  BY CandParts
<1>2. RowsAgree(c) /\ RunsAgree(c)
  BY DEF Inv, IInv
<1>3. \/ UNCHANGED <<order, op, position>>
      \/ /\ sends[c] = 0 /\ intent[c] \in {"planned", "submitting"}
         /\ order' = [order EXCEPT ![c] = "cancelled"]
         /\ op' = [op EXCEPT ![c] = op'[c]] /\ op'[c] \in {"none", "abandoned"}
         /\ position' = [position EXCEPT ![c] = "closed"]
  BY SettleCases, Abandons
<1>4. /\ order' \in [Cands -> ORDER_STATUSES \cup {"none"}]
      /\ position' \in [Cands -> Active \cup {"none", "closed"}]
      /\ op' \in [Cands -> Phases]
      /\ \A d \in Cands : order[d] # "none" => order'[d] # "none"
  BY <1>3 DEF Inv, Types, Phases, ORDER_STATUSES
<1>5. ASSUME NEW d \in Cands,
             intent'[d] = intent[d] \/ (d = c /\ intent'[c] \notin {"none", "pending", "completed"})
      PROVE  RowsAgree(d)'
  <2>1. RowsAgree(d) /\ intent[c] # "none"
    BY <1>5 DEF Inv, IInv
  <2>2. \/ order'[d] = order[d] /\ op'[d] = op[d] /\ position'[d] = position[d]
        \/ /\ d = c /\ sends[c] = 0 /\ intent[c] \in {"planned", "submitting"}
           /\ order'[d] = "cancelled" /\ op'[d] \in {"none", "abandoned"} /\ position'[d] = "closed"
    <3>1. DOMAIN order = Cands /\ DOMAIN op = Cands /\ DOMAIN position = Cands
      BY DEF Inv, Types
    <3> QED
      BY <1>3, <3>1
  <2>3. CASE order'[d] = order[d] /\ op'[d] = op[d] /\ position'[d] = position[d]
    <3>1. CASE intent'[d] = intent[d]
      BY <2>1, <2>3, <3>1, RowKept
    <3>2. CASE intent'[d] \notin {"none", "pending", "completed"}
      BY <2>1, <2>3, <3>2 DEF RowsAgree, Live
    <3> QED
      BY <1>5, <3>1, <3>2
  <2>4. CASE /\ d = c /\ sends[c] = 0 /\ intent[c] \in {"planned", "submitting"}
             /\ order'[d] = "cancelled" /\ op'[d] \in {"none", "abandoned"} /\ position'[d] = "closed"
    <3>1. intent'[d] \notin {"none", "pending", "completed"}
      BY <1>5, <2>4
    <3> QED
      BY <2>1, <2>4, <3>1 DEF RowsAgree, Live
  <2> QED
    BY <2>2, <2>3, <2>4
<1>6. CASE UNCHANGED <<intent, order, op, position, fallback>>
  <2>1. \A d \in Cands : RunsAgree(d)'
    BY <1>6 DEF Inv, IInv, RunsAgree, fallback
  <2>2. \A d \in Cands : RowsAgree(d)'
    BY <1>6 DEF Inv, IInv, RowsAgree
  <2> QED
    BY <1>4, <1>6, <2>1, <2>2 DEF Inv, Types, fallback
<1>7. ASSUME NEW s, Closes(c, s)
      PROVE  /\ intent' \in [Cands -> IntentStatus \cup {"none"}]
             /\ run' \in [Runs -> {"none", "probing", "selected", "stopped", "exhausted"}]
             /\ rank' \in [Runs -> Ranks] /\ last' \in [Runs -> Ranks]
             /\ \A d \in Cands : RowsAgree(d)' /\ RunsAgree(d)'
  <2>1. /\ intent' \in [Cands -> IntentStatus \cup {"none"}]
        /\ run' \in [Runs -> {"none", "probing", "selected", "stopped", "exhausted"}]
        /\ rank' \in [Runs -> Ranks] /\ last' \in [Runs -> Ranks]
    BY <1>1, <1>7 DEF Closes, Inv, Types, IntentStatus
  <2>2. \A d \in Cands : RowsAgree(d)'
    BY <1>5, <1>7 DEF Closes, Inv, Types
  <2>3. \A d \in Cands : RunsAgree(d)'
    BY <1>1, <1>7, CandParts DEF Closes, Inv, Types, IInv, RunsAgree, SettledIntent, isCurrent
  <2> QED
    BY <2>1, <2>2, <2>3
<1>8. ASSUME NEW s, NEW q, Promotes(c, s, q)
      PROVE  /\ intent' \in [Cands -> IntentStatus \cup {"none"}]
             /\ run' \in [Runs -> {"none", "probing", "selected", "stopped", "exhausted"}]
             /\ rank' \in [Runs -> Ranks] /\ last' \in [Runs -> Ranks]
             /\ \A d \in Cands : RowsAgree(d)' /\ RunsAgree(d)'
  <2> DEFINE n == <<c[1], c[2] + 1>>
  <2>1. /\ n \in Cands /\ n[1] = c[1] /\ n[2] = c[2] + 1 /\ n # c
        /\ c[2] + 1 \in Ranks /\ n[2] > rank[n[1]]
    BY <1>1, <1>8, EntryAssumption DEF Promotes, Inv, Types, Cands, Ranks, isCurrent
  <2>2. intent[n] = "none" /\ order[n] = "none" /\ position[n] = "none" /\ op[n] = "none"
    BY <2>1 DEF Inv, IInv, RunsAgree, RowsAgree
  <2>3. intent' = [intent EXCEPT ![c] = "blocked", ![n] = s]
    BY <1>8 DEF Promotes
  <2> HIDE DEF n
  <2>4. /\ intent' \in [Cands -> IntentStatus \cup {"none"}]
        /\ run' \in [Runs -> {"none", "probing", "selected", "stopped", "exhausted"}]
        /\ rank' \in [Runs -> Ranks] /\ last' \in [Runs -> Ranks]
    <3>1. s \in IntentStatus /\ "blocked" \in IntentStatus
      BY <1>8 DEF Promotes, IntentStatus
    <3>2. intent' \in [Cands -> IntentStatus \cup {"none"}]
      BY <2>1, <2>3, <3>1 DEF Inv, Types
    <3>3. run' \in [Runs -> {"none", "probing", "selected", "stopped", "exhausted"}]
      BY <1>1, <1>8 DEF Promotes, Inv, Types
    <3>4. rank' \in [Runs -> Ranks] /\ last' \in [Runs -> Ranks]
      BY <1>1, <1>8, <2>1 DEF Promotes, Inv, Types
    <3> QED
      BY <3>2, <3>3, <3>4
  <2>5. \A d \in Cands \ {n} : RowsAgree(d)'
    BY <1>5, <2>1, <2>3 DEF Inv, Types
  <2>6. RowsAgree(n)'
    <3>1. order'[n] = "none" /\ position'[n] = "none" /\ op'[n] = "none"
      BY <1>3, <2>1, <2>2 DEF Inv, Types
    <3>2. intent'[n] \in {"pending", "blocked"}
      BY <1>8, <2>1, <2>3 DEF Promotes, Inv, Types
    <3>3. RowsAgree(n)
      BY <2>1 DEF Inv, IInv
    <3> QED
      BY <2>2, <3>1, <3>2, <3>3 DEF RowsAgree, Live
  <2>7. ASSUME NEW d \in Cands PROVE RunsAgree(d)'
    <3>1. CASE d[1] # c[1]
      <4>1. d[1] \in Runs /\ d # c /\ d # n /\ RunsAgree(d)
        BY <2>1, <3>1, CandParts DEF Inv, IInv
      <4>2. intent'[d] = intent[d]
        BY <2>1, <2>3, <4>1 DEF Inv, Types
      <4>3. run'[d[1]] = run[d[1]] /\ rank'[d[1]] = rank[d[1]]
        BY <1>1, <1>8, <3>1, <4>1 DEF Promotes, Inv, Types
      <4> QED
        BY <4>1, <4>2, <4>3 DEF RunsAgree
    <3>2. CASE d[1] = c[1]
      <4>1. d[2] \in Nat /\ c[2] \in Nat /\ rank[c[1]] = c[2] /\ run[c[1]] = "probing"
        BY <1>8, RankTypes DEF Inv, Promotes, isCurrent
      <4>2. rank'[d[1]] = c[2] + 1 /\ run'[d[1]] = q /\ q \in {"probing", "stopped"}
        BY <1>1, <1>8, <3>2 DEF Promotes, Inv, Types
      <4>3. sends[d] = 0
        BY <3>2, <4>1 DEF Inv, IInv, RunsAgree
      <4>4. d[2] > c[2] + 1 => intent'[d] = "none"
        BY <1>1, <2>1, <2>3, <3>2, <4>1 DEF Inv, Types, IInv, RunsAgree
      <4>5. d[2] < c[2] + 1 => intent'[d] \in SettledIntent
        <5>1. CASE d[2] = c[2]
          BY <1>1, <2>1, <2>3, <3>2, <5>1, CandParts DEF Inv, Types, SettledIntent
        <5>2. CASE d[2] < c[2]
          BY <1>1, <2>1, <2>3, <3>2, <4>1, <5>2 DEF Inv, Types, IInv, RunsAgree
        <5> QED
          BY <4>1, <5>1, <5>2, AtOrBelow
      <4> QED
        BY <4>2, <4>3, <4>4, <4>5 DEF RunsAgree
    <3> QED
      BY <3>1, <3>2
  <2> QED
    BY <2>4, <2>5, <2>6, <2>7
<1> QED
  BY <1>4, <1>6, <1>7, <1>8, SettleCases

\* A row write that fails before the operation is journaled changes the worker only.
LEMMA Keeps_workerFails ==
  ASSUME Inv, workerFails
  PROVE  Inv'
<1>1. /\ wpc \in {"planned", "selected", "submitting"} /\ wpc' = "failing" /\ err' \in {"RISK", "ERROR"}
      /\ UNCHANGED <<intent, order, position, op, run, rank, last, venue, sends, drained, wc,
                     stage, caller, target>>
  BY DEF workerFails, workerAt, fail, rows, fallback, world, mutexes
<1>2. WorkerAgrees /\ wpc \in Between /\ wpc' \in Between
  BY <1>1 DEF Inv, IInv, Between, WorkerSteps
<1>3. WorkerAgrees'
  BY <1>1, <1>2 DEF WorkerAgrees, FallbackReasons
<1> QED
  BY <1>1, <1>2, <1>3, WorkerMoves

\* A dispatch the fence refuses leaves every row as it was (withDatabaseDispatchFence).
LEMMA Keeps_refuseDispatch ==
  ASSUME Inv, refuseDispatch
  PROVE  Inv'
<1>1. /\ wpc = "dispatching" /\ wpc' = "unsent"
      /\ UNCHANGED <<intent, order, position, op, run, rank, last, venue, sends, drained, wc,
                     stage, caller, target>>
  BY DEF refuseDispatch, workerAt, fail, rows, fallback, world, mutexes
<1>2. WorkerAgrees /\ wpc \in Between /\ wpc' \in Between
  BY <1>1 DEF Inv, IInv, Between, WorkerSteps
<1>3. WorkerAgrees'
  BY <1>1, <1>2 DEF WorkerAgrees, FallbackReasons
<1> QED
  BY <1>1, <1>2, <1>3, WorkerMoves

\* Isolating an unresolved dispatch sets the account's switches only (isolateUnresolvedDispatch).
LEMMA Keeps_isolateFailure ==
  ASSUME Inv, isolateFailure
  PROVE  Inv'
<1>1. /\ wpc = "failing" /\ wpc' = "closing" /\ err' = classifyIntentFailure(wc, err)
      /\ UNCHANGED <<intent, order, position, op, run, rank, last, venue, sends, drained, wc,
                     stage, caller, target>>
  BY DEF isolateFailure, workerAt, fail, rows, fallback, world, mutexes
<1>2. WorkerAgrees /\ wpc \in Between /\ wpc' \in Between
  BY <1>1 DEF Inv, IInv, Between, WorkerSteps
<1>3. err' = err \/ err' \notin FallbackReasons
  BY <1>1 DEF classifyIntentFailure, FallbackReasons
<1>4. WorkerAgrees'
  BY <1>1, <1>2, <1>3 DEF WorkerAgrees
<1> QED
  BY <1>1, <1>2, <1>4, WorkerMoves

\* A pass enters the mutex of a free account (reconcileAccount).
LEMMA Keeps_reconcileAccount ==
  ASSUME Inv, NEW a \in Ranks, reconcileAccount(a)
  PROVE  Inv'
<1>1. /\ Free(a) /\ stage' = [stage EXCEPT ![a] = "drain"]
      /\ caller' = [caller EXCEPT ![a] = "runtime"]
      /\ UNCHANGED <<intent, order, position, op, run, rank, last, venue, sends, drained,
                     wpc, wc, err, target>>
  BY DEF reconcileAccount, beginReconcile, to, fallback, world, worker
<1> QED
  BY <1>1, PassBegins

\* The drain of a pass ends and the venue is asked (reconcileAccountOwned).
LEMMA Keeps_drainEnds ==
  ASSUME Inv, NEW a \in Ranks, drainEnds(a)
  PROVE  Inv'
<1>1. /\ stage[a] = "drain"
      /\ \E g \in {"observe"} : stage' = [stage EXCEPT ![a] = g]
      /\ UNCHANGED <<intent, order, position, op, run, rank, last, venue, sends, drained,
                     wpc, wc, err, caller, target>>
  BY DEF drainEnds, to, rows, fallback, world, worker
<1>2. {"observe"} \subseteq Stages \ {"idle"}
  BY DEF Stages
<1> QED
  BY <1>1, <1>2, PassMoves

\* A snapshot that cannot be read ends the pass (reconcileAccountOwned).
LEMMA Keeps_observeFails ==
  ASSUME Inv, NEW a \in Ranks, observeFails(a)
  PROVE  Inv'
<1>1. /\ stage[a] = "observe"
      /\ \E g \in {"failSoft", "failHard"} : stage' = [stage EXCEPT ![a] = g]
      /\ UNCHANGED <<intent, order, position, op, run, rank, last, venue, sends, drained,
                     wpc, wc, err, caller, target>>
  BY DEF observeFails, to, rows, fallback, world, worker
<1>2. {"failSoft", "failHard"} \subseteq Stages \ {"idle"}
  BY DEF Stages
<1> QED
  BY <1>1, <1>2, PassMoves

\* A pass of the loop or of the operator leaves the mutex (reconcileAccountOwned).
LEMMA Keeps_reconciled ==
  ASSUME Inv, NEW a \in Ranks, reconciled(a)
  PROVE  Inv'
<1>1. /\ caller[a] \in {"runtime", "operator"} /\ UNCHANGED <<wpc, err, drained>>
      /\ stage' = [stage EXCEPT ![a] = "idle"] /\ caller' = [caller EXCEPT ![a] = "none"]
      /\ UNCHANGED <<intent, order, position, op, run, rank, last, venue, sends, wc, target>>
  BY DEF reconciled, ended, leave, to, rows, fallback, world, worker
<1>2. DrainedIsDrained' /\ drained' \in [Ranks -> BOOLEAN]
  BY <1>1, VenueKept DEF Inv, Types
<1> QED
  BY <1>1, <1>2, PassEnds

\* The worker takes its candidate on after its own pass (reconcileEntryCandidate).
LEMMA Keeps_candidateReconciled ==
  ASSUME Inv, NEW a \in Ranks, candidateReconciled(a)
  PROVE  Inv'
<1>1. /\ caller[a] = "worker" /\ UNCHANGED drained
      /\ wpc' \in {"prepare", "failing"} /\ (wpc' = "failing" => err' = "RISK")
      /\ stage' = [stage EXCEPT ![a] = "idle"] /\ caller' = [caller EXCEPT ![a] = "none"]
      /\ UNCHANGED <<intent, order, position, op, run, rank, last, venue, sends, wc, target>>
  BY DEF candidateReconciled, ended, leave, to, goto, fail, rows, fallback, world
<1>2. DrainedIsDrained' /\ drained' \in [Ranks -> BOOLEAN]
  BY <1>1, VenueKept DEF Inv, Types
<1>3. wpc' \in Between
  BY <1>1 DEF Between, WorkerSteps
<1>4. WorkerAgrees'
  <2>1. wpc = "reconcile" /\ WorkerAgrees
    BY <1>1 DEF Inv, IInv, MutexAgrees
  <2> QED
    BY <1>1, <2>1 DEF WorkerAgrees, FallbackReasons
<1> QED
  BY <1>1, <1>2, <1>3, <1>4, PassEnds

\* The worker goes on after the pass that places the exits (submitInitialExits).
LEMMA Keeps_exitsReconciled ==
  ASSUME Inv, NEW a \in Ranks, exitsReconciled(a)
  PROVE  Inv'
<1>1. /\ caller[a] = "exits" /\ UNCHANGED drained
      /\ wpc' \in {"finish", "failing"} /\ (wpc' = "failing" => err' = "ERROR")
      /\ stage' = [stage EXCEPT ![a] = "idle"] /\ caller' = [caller EXCEPT ![a] = "none"]
      /\ UNCHANGED <<intent, order, position, op, run, rank, last, venue, sends, wc, target>>
  BY DEF exitsReconciled, ended, leave, to, goto, fail, rows, fallback, world
<1>2. DrainedIsDrained' /\ drained' \in [Ranks -> BOOLEAN]
  BY <1>1, VenueKept DEF Inv, Types
<1>3. wpc' \in Between
  BY <1>1 DEF Between, WorkerSteps
<1>4. WorkerAgrees'
  <2>1. wpc = "exits" /\ WorkerAgrees
    BY <1>1 DEF Inv, IInv, MutexAgrees
  <2> QED
    BY <1>1, <2>1 DEF WorkerAgrees, FallbackReasons
<1> QED
  BY <1>1, <1>2, <1>3, <1>4, PassEnds

\* The drain of expired entries ends (cancelExpiredEntries).
LEMMA Keeps_expiryProved ==
  ASSUME Inv, NEW a \in Ranks, expiryProved(a)
  PROVE  Inv'
<1>1. /\ caller[a] \in {"expiry"} /\ UNCHANGED <<wpc, err, drained>>
      /\ stage' = [stage EXCEPT ![a] = "idle"] /\ caller' = [caller EXCEPT ![a] = "none"]
      /\ UNCHANGED <<intent, order, position, op, run, rank, last, venue, sends, wc, target>>
  BY DEF expiryProved, ended, leave, to, rows, fallback, world, worker
<1>2. DrainedIsDrained' /\ drained' \in [Ranks -> BOOLEAN]
  BY <1>1, VenueKept DEF Inv, Types
<1> QED
  BY <1>1, <1>2, PassEnds

\* A drain is recorded as proved only when every entry is terminal (drainAndProveEntries).
LEMMA Keeps_entriesProved ==
  ASSUME Inv, NEW a \in Ranks, entriesProved(a)
  PROVE  Inv'
<1>0. /\ caller[a] = "drainer" /\ UNCHANGED <<wpc, err>>
      /\ stage' = [stage EXCEPT ![a] = "idle"] /\ caller' = [caller EXCEPT ![a] = "none"]
      /\ UNCHANGED <<intent, order, position, op, run, rank, last, venue, sends, wc, target>>
      /\ \E proved \in BOOLEAN : /\ proved => entriesDrained(On(a))
                                 /\ drained' = [drained EXCEPT ![a] = @ \/ proved]
  BY DEF entriesProved, ended, leave, to, rows, fallback, worker
<1>1. /\ UNCHANGED venue
      /\ \/ UNCHANGED drained
         \/ drained' = [drained EXCEPT ![a] = TRUE] /\ entriesDrained(On(a))
  <2>1. drained \in [Ranks -> BOOLEAN]
    BY DEF Inv, Types
  <2>2. PICK proved \in BOOLEAN : /\ proved => entriesDrained(On(a))
                                 /\ drained' = [drained EXCEPT ![a] = @ \/ proved]
    BY <1>0
  <2>3. CASE proved
    BY <1>0, <2>1, <2>2, <2>3
  <2>4. CASE ~proved
    BY <1>0, <2>1, <2>2, <2>4
  <2> QED
    BY <2>3, <2>4
<1>2. DrainedIsDrained' /\ drained' \in [Ranks -> BOOLEAN]
  <2>1. DrainedIsDrained /\ drained \in [Ranks -> BOOLEAN]
    BY DEF Inv, Types, IInv
  <2>2. CASE UNCHANGED drained
    BY <1>1, <2>1, <2>2 DEF DrainedIsDrained
  <2>3. CASE drained' = [drained EXCEPT ![a] = TRUE] /\ entriesDrained(On(a))
    <3>1. \A c \in On(a) : venue[c] \notin {"inflight", "open"}
      BY <2>3, DrainProved
    <3>2. \A b \in Ranks \ {a} : drained'[b] = drained[b]
      BY <2>1, <2>3
    <3> QED
      BY <1>1, <2>1, <2>3, <3>1, <3>2 DEF DrainedIsDrained
  <2> QED
    BY <1>1, <2>2, <2>3
<1> QED
  BY <1>0, <1>2, PassEnds

\* A release is recorded with the same proof (releaseAccountKillSwitchOwned).
LEMMA Keeps_accountReleased ==
  ASSUME Inv, NEW a \in Ranks, accountReleased(a)
  PROVE  Inv'
<1>1. /\ caller[a] = "release" /\ UNCHANGED <<wpc, err>>
      /\ stage' = [stage EXCEPT ![a] = "idle"] /\ caller' = [caller EXCEPT ![a] = "none"]
      /\ UNCHANGED <<intent, order, position, op, run, rank, last, venue, sends, wc, target>>
      /\ \/ UNCHANGED drained
         \/ drained' = [drained EXCEPT ![a] = TRUE] /\ entriesDrained(On(a))
  BY DEF accountReleased, accountReleasable, ended, leave, to, rows, fallback, worker
<1>2. DrainedIsDrained' /\ drained' \in [Ranks -> BOOLEAN]
  <2>1. DrainedIsDrained /\ drained \in [Ranks -> BOOLEAN]
    BY DEF Inv, Types, IInv
  <2>2. CASE UNCHANGED drained
    BY <1>1, <2>1, <2>2 DEF DrainedIsDrained
  <2>3. CASE drained' = [drained EXCEPT ![a] = TRUE] /\ entriesDrained(On(a))
    <3>1. \A c \in On(a) : venue[c] \notin {"inflight", "open"}
      BY <2>3, DrainProved
    <3>2. \A b \in Ranks \ {a} : drained'[b] = drained[b]
      BY <2>1, <2>3
    <3> QED
      BY <1>1, <2>1, <2>3, <3>1, <3>2 DEF DrainedIsDrained
  <2> QED
    BY <1>1, <2>2, <2>3
<1> QED
  BY <1>1, <1>2, PassEnds

\* A hold on an account's entries changes no row (holdEntries).
LEMMA Keeps_holdEntries ==
  ASSUME Inv, NEW a \in Ranks, holdEntries(a)
  PROVE  Inv'
<1>1. UNCHANGED <<intent, order, position, op, run, rank, last, venue, sends, drained,
                  wpc, wc, err, stage, caller, target>>
  BY DEF holdEntries, rows, fallback, world, worker, mutexes
<1> QED
  BY <1>1, ControlKept

\* A requested drain marks entries and takes the mutex (cancelOpenEntries).
LEMMA Keeps_cancelOpenEntries ==
  ASSUME Inv, NEW a \in Ranks, cancelOpenEntries(a)
  PROVE  Inv'
<1>1. /\ Free(a) /\ stage' = [stage EXCEPT ![a] = "drain"]
      /\ caller' = [caller EXCEPT ![a] = "drainer"]
      /\ UNCHANGED <<intent, order, position, op, run, rank, last, venue, sends, drained,
                     wpc, wc, err, target>>
  BY DEF cancelOpenEntries, beginReconcile, to, fallback, world, worker
<1> QED
  BY <1>1, PassBegins

\* An expired entry is marked for the drain (cancelExpiredEntries).
LEMMA Keeps_cancelExpiredEntries ==
  ASSUME Inv, NEW c \in Cands, cancelExpiredEntries(c)
  PROVE  Inv'
<1>1. /\ Free(acct(c)) /\ stage' = [stage EXCEPT ![acct(c)] = "drain"]
      /\ caller' = [caller EXCEPT ![acct(c)] = "expiry"]
      /\ UNCHANGED <<intent, order, position, op, run, rank, last, venue, sends, drained,
                     wpc, wc, err, target>>
  BY DEF cancelExpiredEntries, beginReconcile, to, fallback, world, worker
<1>2. acct(c) \in Ranks
  BY CandParts DEF acct
<1> QED
  BY <1>1, <1>2, PassBegins

\* Pausing entries invalidates the worker's admission (disableEntries).
LEMMA Keeps_disableEntries ==
  ASSUME Inv, disableEntries
  PROVE  Inv'
<1>1. UNCHANGED <<intent, order, position, op, run, rank, last, venue, sends, drained,
                  wpc, wc, err, stage, caller, target>>
  BY DEF disableEntries, rows, fallback, world, worker, mutexes
<1> QED
  BY <1>1, ControlKept

\* The runtime's kill switch invalidates it too (setKillSwitchRuntime).
LEMMA Keeps_setKillSwitchRuntime ==
  ASSUME Inv, setKillSwitchRuntime
  PROVE  Inv'
<1>1. UNCHANGED <<intent, order, position, op, run, rank, last, venue, sends, drained,
                  wpc, wc, err, stage, caller, target>>
  BY DEF setKillSwitchRuntime, rows, fallback, world, worker, mutexes
<1> QED
  BY <1>1, ControlKept

\* Resuming entries changes no row (enableEntries).
LEMMA Keeps_enableEntries ==
  ASSUME Inv, enableEntries
  PROVE  Inv'
<1>1. UNCHANGED <<intent, order, position, op, run, rank, last, venue, sends, drained,
                  wpc, wc, err, stage, caller, target>>
  BY DEF enableEntries, rows, fallback, world, worker, mutexes
<1> QED
  BY <1>1, ControlKept

\* An operator's pass takes a free account's mutex (requestReconciliation).
LEMMA Keeps_requestReconciliation ==
  ASSUME Inv, NEW a \in Ranks, requestReconciliation(a)
  PROVE  Inv'
<1>1. /\ Free(a) /\ stage' = [stage EXCEPT ![a] = "drain"]
      /\ caller' = [caller EXCEPT ![a] = "operator"]
      /\ UNCHANGED <<intent, order, position, op, run, rank, last, venue, sends, drained,
                     wpc, wc, err, target>>
  BY DEF requestReconciliation, beginReconcile, to, fallback, world, worker
<1> QED
  BY <1>1, PassBegins

\* The global release changes the runtime only (releaseGlobalTradingKillSwitch).
LEMMA Keeps_releaseGlobalTradingKillSwitch ==
  ASSUME Inv, releaseGlobalTradingKillSwitch
  PROVE  Inv'
<1>1. UNCHANGED <<intent, order, position, op, run, rank, last, venue, sends, drained,
                  wpc, wc, err, stage, caller, target>>
  BY DEF releaseGlobalTradingKillSwitch, rows, fallback, world, worker, mutexes
<1> QED
  BY <1>1, ControlKept

\* An account's release begins with a pass of its own (releaseAccountKillSwitch).
LEMMA Keeps_releaseAccountKillSwitch ==
  ASSUME Inv, NEW a \in Ranks, releaseAccountKillSwitch(a)
  PROVE  Inv'
<1>1. /\ Free(a) /\ stage' = [stage EXCEPT ![a] = "drain"]
      /\ caller' = [caller EXCEPT ![a] = "release"]
      /\ UNCHANGED <<intent, order, position, op, run, rank, last, venue, sends, drained,
                     wpc, wc, err, target>>
  BY DEF releaseAccountKillSwitch, beginReconcile, to, fallback, world, worker
<1> QED
  BY <1>1, PassBegins

\* A crash keeps the rows and empties the worker and the mutexes.
LEMMA Keeps_Crash ==
  ASSUME Inv, Crash
  PROVE  Inv'
<1>1. /\ UNCHANGED <<intent, order, position, op, run, rank, last, venue, sends, drained>>
      /\ wpc' = "idle" /\ wc' = NoCand
      /\ stage' = [a \in Ranks |-> "idle"] /\ caller' = [a \in Ranks |-> "none"]
      /\ target' = [a \in Ranks |-> NoCand]
  BY DEF Crash, rows, fallback, world
<1>2. Types'
  <2>1. "idle" \in WorkerSteps /\ "idle" \in Stages /\ "none" \in Callers
    BY DEF WorkerSteps, Stages, Callers
  <2> QED
    BY <1>1, <2>1 DEF Inv, Types
<1>3. (\A a \in Ranks : MutexAgrees(a)') /\ WorkerAgrees'
  BY <1>1 DEF MutexAgrees, WorkerAgrees
<1> QED
  BY <1>1, <1>2, <1>3, QuietSteps, VenueKept DEF Quiet, Inv, IInv

\* A cancel leaves for the venue (cancelTrackedOrder).
LEMMA Keeps_cancelSend ==
  ASSUME Inv, NEW a \in Ranks, cancelSend(a)
  PROVE  Inv'
<1>1. /\ stage[a] = "cancelling"
      /\ \E g \in {"cancelSent"} : stage' = [stage EXCEPT ![a] = g]
      /\ UNCHANGED <<intent, order, position, op, run, rank, last, venue, sends, drained,
                     wpc, wc, err, caller, target>>
  BY DEF cancelSend, to, rows, fallback, world, worker
<1>2. {"cancelSent"} \subseteq Stages \ {"idle"}
  BY DEF Stages
<1> QED
  BY <1>1, <1>2, PassMoves

\* A new run stands at rank 0 with one intent (createWorkflowTradingIntents).
LEMMA Keeps_createWorkflowTradingIntents ==
  ASSUME Inv, NEW r \in Runs, createWorkflowTradingIntents(r)
  PROVE  Inv'
<1> DEFINE n == <<r, 0>>
<1>1. /\ run[r] = "none" /\ \E k \in Ranks : last' = [last EXCEPT ![r] = k]
      /\ \E s \in {"blocked", "pending"} : intent' = [intent EXCEPT ![n] = s]
      /\ \E q \in {"stopped", "probing"} : run' = [run EXCEPT ![r] = q]
      /\ UNCHANGED <<order, position, op, rank, venue, sends, drained, wpc, wc, err,
                     stage, caller, target>>
  BY DEF createWorkflowTradingIntents, world, worker, mutexes
<1>2. n \in Cands /\ n[1] = r /\ n[2] = 0
  BY EntryAssumption DEF Cands, Ranks
<1> HIDE DEF n
<1>3. /\ intent \in [Cands -> IntentStatus \cup {"none"}]
      /\ run \in [Runs -> {"none", "probing", "selected", "stopped", "exhausted"}]
      /\ last \in [Runs -> Ranks]
  BY DEF Inv, Types
<1>4. \A d \in Cands : d[1] = r => intent[d] = "none" /\ sends[d] = 0 /\ rank[r] = 0
  <2> TAKE d \in Cands
  <2>1. RowsAgree(d) /\ RunsAgree(d)
    BY DEF Inv, IInv
  <2> QED
    BY <1>1, <2>1 DEF RowsAgree, RunsAgree
<1>5. /\ intent'[n] \in {"blocked", "pending"} /\ \A d \in Cands \ {n} : intent'[d] = intent[d]
      /\ run'[r] # "none" /\ \A q \in Runs \ {r} : run'[q] = run[q]
  BY <1>1, <1>2, <1>3
<1>6. Types'
  <2>1. "blocked" \in IntentStatus /\ "pending" \in IntentStatus
    BY DEF IntentStatus
  <2>2. intent' \in [Cands -> IntentStatus \cup {"none"}]
    BY <1>1, <1>2, <1>3, <2>1
  <2>3. /\ run' \in [Runs -> {"none", "probing", "selected", "stopped", "exhausted"}]
        /\ last' \in [Runs -> Ranks]
    BY <1>1, <1>3
  <2> QED
    BY <1>1, <2>2, <2>3 DEF Inv, Types
<1>7. RowsAgree(n)'
  <2>1. RowsAgree(n) /\ intent[n] = "none"
    BY <1>2, <1>4 DEF Inv, IInv
  <2> QED
    BY <1>1, <1>5, <2>1 DEF RowsAgree, Live
<1>8. \A d \in Cands : RowsAgree(d)'
  BY <1>1, <1>2, <1>5, <1>7, OneRow DEF Inv
<1>9. \A d \in Cands : RunsAgree(d)'
  <2> TAKE d \in Cands
  <2>1. d[1] \in Runs /\ d[2] \in Nat /\ RunsAgree(d)
    BY CandParts, RankTypes DEF Inv, IInv
  <2>2. CASE d[1] # r
    BY <1>1, <1>2, <1>5, <2>1, <2>2 DEF RunsAgree
  <2>3. CASE d[1] = r
    <3>1. rank'[d[1]] = 0 /\ sends'[d] = 0 /\ run'[d[1]] # "none"
      BY <1>1, <1>4, <1>5, <2>3
    <3>2. d[2] > 0 => intent'[d] = "none"
      <4>1. d[2] > 0 => d # n
        BY <1>2
      <4> QED
        BY <1>4, <1>5, <2>3, <4>1
    <3>3. ~(d[2] < 0)
      BY <2>1
    <3> QED
      BY <3>1, <3>2, <3>3 DEF RunsAgree
  <2> QED
    BY <2>2, <2>3
<1>10. \A b \in Ranks : MutexAgrees(b)'
  BY <1>1, MutexKept DEF Inv
<1>11. WorkerAgrees'
  <2>1. WorkerAgrees /\ wpc \in WorkerSteps /\ (wpc # "idle" => wc \in Cands)
    BY DEF Inv, Types, IInv
  <2>2. wpc # "idle" => wc[1] \in Runs /\ wc[1] # r /\ wc # n
    BY <1>2, <1>4, <2>1, CandParts DEF WorkerAgrees
  <2>3. wpc # "idle" => intent'[wc] = intent[wc] /\ run'[wc[1]] = run[wc[1]]
    BY <1>5, <2>1, <2>2
  <2> QED
    BY <1>1, <2>1, <2>3 DEF WorkerAgrees
<1>12. OneOwnerPerSymbol' /\ DrainedIsDrained'
  BY <1>1, VenueKept DEF Inv
<1> QED
  BY <1>6, <1>8, <1>9, <1>10, <1>11, <1>12 DEF Inv, IInv

\* The worker takes up an unsent intent of a free account (processIntent).
LEMMA Keeps_processIntent ==
  ASSUME Inv, NEW c \in Cands, processIntent(c)
  PROVE  Inv'
<1>1. /\ wpc = "idle" /\ stage[acct(c)] = "idle" /\ wc' = c
      /\ intent[c] = "pending" \/ hasUndispatchedPlanProof(c, FALSE, FALSE)
      /\ order' = [order EXCEPT ![c] = IF @ = "submitting" THEN "created" ELSE @]
      /\ UNCHANGED <<intent, position, op, run, rank, last, venue, sends, drained, target>>
  BY DEF processIntent, LoopIdle, Free, beginReconcile, world, fallback, mutexes
<1>2. \/ wpc' = "failing" /\ UNCHANGED <<stage, caller>>
      \/ /\ wpc' = "reconcile" /\ stage' = [stage EXCEPT ![acct(c)] = "drain"]
         /\ caller' = [caller EXCEPT ![acct(c)] = "worker"]
  BY DEF processIntent, beginReconcile, mutexes
<1> QED
  BY <1>1, <1>2, TakesUp

\* An unsafe clock fails the candidate before anything is sent (assertClockSafeForEntry).
LEMMA Keeps_clockUnsafe ==
  ASSUME Inv, NEW c \in Cands, clockUnsafe(c)
  PROVE  Inv'
<1>1. /\ wpc = "idle" /\ stage[acct(c)] = "idle" /\ wc' = c
      /\ intent[c] = "pending" \/ hasUndispatchedPlanProof(c, FALSE, FALSE)
      /\ order' = [order EXCEPT ![c] = IF @ = "submitting" THEN "created" ELSE @]
      /\ UNCHANGED <<intent, position, op, run, rank, last, venue, sends, drained, target>>
      /\ wpc' = "failing" /\ UNCHANGED <<stage, caller>>
  BY DEF clockUnsafe, LoopIdle, Free, world, fallback, mutexes
<1> QED
  BY <1>1, TakesUp

\* A plan reserves the position of an unsent candidate (preparePendingIntent).
LEMMA Keeps_preparePendingIntent ==
  ASSUME Inv, preparePendingIntent
  PROVE  Inv'
<1>1. /\ wpc = "prepare" /\ wpc' \in {"planned", "failing"}
      /\ UNCHANGED <<op, run, rank, last, venue, sends, drained, stage, caller, target, wc>>
      /\ \/ /\ UNCHANGED <<intent, order, position>>
            /\ wpc' = "planned" => intent[wc] # "pending" /\ entrySafe(wc, FALSE)
         \/ /\ wpc' = "planned" /\ intent[wc] = "pending"
            /\ intent' = [intent EXCEPT ![wc] = "planned"]
            /\ order' = [order EXCEPT ![wc] = "created"]
            /\ position' = [position EXCEPT ![wc] = "opening"]
  BY DEF preparePendingIntent, workerAt, goto, fail, rows, world, fallback, mutexes
<1>2. /\ wc \in Cands /\ RowsAgree(wc) /\ RowTypes /\ WorkerAgrees
      /\ sends[wc] \in Nat
  BY <1>1 DEF Inv, Types, IInv, RowTypes
<1>3. /\ sends[wc] = 0 /\ intent[wc] \notin {"none", "completed"}
      /\ entrySafe(wc, FALSE) => intent[wc] \in {"pending", "planned", "submitting"}
  <2>1. sends[wc] = 0 /\ intent[wc] # "none"
    BY <1>1, <1>2 DEF WorkerAgrees
  <2>2. intent[wc] # "completed"
    BY <1>2, <2>1 DEF RowsAgree
  <2>3. entrySafe(wc, FALSE) => intent[wc] \in {"pending", "planned", "submitting"}
    BY DEF entrySafe, candidateNeverSent, hasUndispatchedPlanProof
  <2> QED
    BY <2>1, <2>2, <2>3
<1>4. /\ RowTypes' /\ Only(wc)
      /\ \/ /\ intent'[wc] = intent[wc] /\ order'[wc] = order[wc] /\ position'[wc] = position[wc]
            /\ wpc' = "planned" => intent[wc] \in {"planned", "submitting"}
         \/ /\ intent[wc] = "pending" /\ intent'[wc] = "planned" /\ order'[wc] = "created"
            /\ position'[wc] = "opening"
  <2>1. CASE /\ UNCHANGED <<intent, order, position>>
             /\ wpc' = "planned" => intent[wc] # "pending" /\ entrySafe(wc, FALSE)
    BY <1>1, <1>2, <1>3, <2>1 DEF RowTypes, Only
  <2>2. CASE /\ intent[wc] = "pending"
             /\ intent' = [intent EXCEPT ![wc] = "planned"]
             /\ order' = [order EXCEPT ![wc] = "created"]
             /\ position' = [position EXCEPT ![wc] = "opening"]
    BY <1>1, <1>2, <2>2 DEF RowTypes, Only, IntentStatus, ORDER_STATUSES, Active
  <2> QED
    BY <1>1, <2>1, <2>2
<1>5. Types'
  BY <1>1, <1>2, <1>4, WorkerTypes DEF Inv, Between, WorkerSteps
<1>6. RowsAgree(wc)'
  BY <1>1, <1>2, <1>3, <1>4 DEF RowsAgree, Live
<1>7. \A d \in Cands : RowsAgree(d)'
  BY <1>1, <1>2, <1>4, <1>6, OneRow DEF Inv, Only
<1>8. \A d \in Cands : RunsAgree(d)'
  BY <1>1, <1>3, <1>4, RunsKept DEF Inv, Only, SettledIntent
<1>9. \A b \in Ranks : MutexAgrees(b)'
  <2>1. \A d \in Cands : order[d] # "none" => order'[d] # "none"
    BY <1>1, <1>2, <1>4 DEF Only, ORDER_STATUSES
  <2>2. wpc \in Between /\ wpc' \in Between
    BY <1>1 DEF Between, WorkerSteps
  <2> QED
    BY <1>1, <2>1, <2>2, MutexKept DEF Inv
<1>10. WorkerAgrees'
  BY <1>1, <1>2, <1>3, <1>4 DEF WorkerAgrees, Only, On
<1>11. OneOwnerPerSymbol' /\ DrainedIsDrained'
  BY <1>1, VenueKept DEF Inv
<1> QED
  BY <1>5, <1>7, <1>8, <1>9, <1>10, <1>11 DEF Inv, IInv

\* Once selected, the run promotes nobody (markWorkflowFallbackSelected).
LEMMA Keeps_markWorkflowFallbackSelected ==
  ASSUME Inv, markWorkflowFallbackSelected
  PROVE  Inv'
<1>1. /\ wpc = "planned" /\ wpc' = "selected"
      /\ run' = [run EXCEPT ![wc[1]] = IF isCurrent(wc) THEN "selected" ELSE @]
      /\ UNCHANGED <<intent, order, position, op, rank, last, venue, sends, drained, wc,
                     stage, caller, target>>
  BY DEF markWorkflowFallbackSelected, workerAt, goto, rows, world, mutexes
<1>2. /\ wc \in Cands /\ wc[1] \in Runs /\ RunsAgree(wc) /\ WorkerAgrees
      /\ run \in [Runs -> {"none", "probing", "selected", "stopped", "exhausted"}]
  BY <1>1, CandParts DEF Inv, Types, IInv
<1>3. sends[wc] = 0 /\ intent[wc] \in {"planned", "submitting"}
  BY <1>1, <1>2 DEF WorkerAgrees
<1>4. wc[2] = rank[wc[1]]
  <2>1. wc[2] \in Nat /\ rank[wc[1]] \in Nat
    BY <1>2, RankTypes DEF Inv
  <2>2. ~(wc[2] > rank[wc[1]]) /\ ~(wc[2] < rank[wc[1]])
    BY <1>2, <1>3 DEF RunsAgree, SettledIntent
  <2> QED
    BY <2>1, <2>2
<1>5. /\ run' \in [Runs -> {"none", "probing", "selected", "stopped", "exhausted"}]
      /\ run'[wc[1]] # "probing"
      /\ \A q \in Runs : run'[q] = run[q] \/ (run[q] = "probing" /\ run'[q] = "selected")
  BY <1>1, <1>2, <1>4 DEF isCurrent
<1>6. Types'
  <2>1. wpc' \in WorkerSteps /\ wpc' # "idle"
    BY <1>1 DEF WorkerSteps
  <2> QED
    BY <1>1, <1>2, <1>5, <2>1 DEF Inv, Types
<1>7. \A d \in Cands : RowsAgree(d)'
  <2>1. \A d \in Cands : RowsAgree(d)
    BY DEF Inv, IInv
  <2> QED
    BY <1>1, <2>1, RowKept
<1>8. \A d \in Cands : RunsAgree(d)'
  <2> TAKE d \in Cands
  <2>1. RunsAgree(d) /\ d[1] \in Runs
    BY CandParts DEF Inv, IInv
  <2> QED
    BY <1>1, <1>5, <2>1 DEF RunsAgree
<1>9. \A b \in Ranks : MutexAgrees(b)'
  <2>1. wpc \in Between /\ wpc' \in Between
    BY <1>1 DEF Between, WorkerSteps
  <2> QED
    BY <1>1, <2>1, MutexKept DEF Inv
<1>10. WorkerAgrees'
  BY <1>1, <1>3, <1>5 DEF WorkerAgrees
<1>11. OneOwnerPerSymbol' /\ DrainedIsDrained'
  BY <1>1, VenueKept DEF Inv
<1> QED
  BY <1>6, <1>7, <1>8, <1>9, <1>10, <1>11 DEF Inv, IInv

\* The open intent of the worker's candidate is submitting (executePendingIntent).
LEMMA Keeps_setIntentSubmitting ==
  ASSUME Inv, setIntentSubmitting
  PROVE  Inv'
<1>1. /\ wpc = "selected" /\ wpc' \in {"submitting"}
      /\ UNCHANGED <<order, position, op, run, rank, last, venue, sends, drained, stage, caller, target, wc>>
      /\ intent' = [intent EXCEPT ![wc] = "submitting"]
  BY DEF setIntentSubmitting, workerAt, goto, fail, rows, world, fallback, mutexes
<1>2. /\ wc \in Cands /\ RowsAgree(wc) /\ RowTypes /\ WorkerAgrees
      /\ sends[wc] \in Nat
  BY <1>1 DEF Inv, Types, IInv, RowTypes
<1>3. sends[wc] = 0 /\ intent[wc] \in {"planned", "submitting"}
  BY <1>1, <1>2 DEF WorkerAgrees
<1>4. /\ RowTypes' /\ Only(wc)
      /\ intent'[wc] = "submitting"
  BY <1>1, <1>2, <1>3 DEF RowTypes, Only, IntentStatus
<1>5. Types'
  BY <1>1, <1>2, <1>4, WorkerTypes DEF Inv, Between, WorkerSteps
<1>6. RowsAgree(wc)'
  BY <1>1, <1>2, <1>3, <1>4 DEF RowsAgree, Live
<1>7. \A d \in Cands : RowsAgree(d)'
  BY <1>1, <1>2, <1>4, <1>6, OneRow DEF Inv, Only
<1>8. \A d \in Cands : RunsAgree(d)'
  BY <1>1, <1>3, <1>4, RunsKept DEF Inv, Only, SettledIntent
<1>9. \A b \in Ranks : MutexAgrees(b)'
  <2>1. \A d \in Cands : order[d] # "none" => order'[d] # "none"
    BY <1>1, <1>2, <1>4 DEF Only, ORDER_STATUSES
  <2>2. wpc \in Between /\ wpc' \in Between
    BY <1>1 DEF Between, WorkerSteps
  <2> QED
    BY <1>1, <2>1, <2>2, MutexKept DEF Inv
<1>10. WorkerAgrees'
  BY <1>1, <1>2, <1>3, <1>4 DEF WorkerAgrees, Only, On
<1>11. OneOwnerPerSymbol' /\ DrainedIsDrained'
  BY <1>1, VenueKept DEF Inv
<1> QED
  BY <1>5, <1>7, <1>8, <1>9, <1>10, <1>11 DEF Inv, IInv

\* The journal opens a new generation of an unsent entry (prepareTradingOperation).
LEMMA Keeps_prepareTradingOperation ==
  ASSUME Inv, prepareTradingOperation
  PROVE  Inv'
<1>1. /\ wpc = "submitting" /\ wpc' \in {"journaled", "failing"}
      /\ UNCHANGED <<intent, order, position, run, rank, last, venue, sends, drained, stage, caller, target, wc>>
      /\ \/ op' = [op EXCEPT ![wc] = "prepared"] /\ wpc' = "journaled"
         \/ UNCHANGED op /\ wpc' = "failing" /\ err' = "ERROR"
  BY DEF prepareTradingOperation, workerAt, goto, fail, rows, world, fallback, mutexes
<1>2. /\ wc \in Cands /\ RowsAgree(wc) /\ RowTypes /\ WorkerAgrees
      /\ sends[wc] \in Nat
  BY <1>1 DEF Inv, Types, IInv, RowTypes
<1>3. sends[wc] = 0 /\ intent[wc] \in {"planned", "submitting"}
  BY <1>1, <1>2 DEF WorkerAgrees
<1>4. /\ RowTypes' /\ Only(wc)
      /\ op'[wc] = "prepared" \/ op'[wc] = op[wc]
  BY <1>1, <1>2, <1>3 DEF RowTypes, Only, Phases, Pending
<1>5. Types'
  BY <1>1, <1>2, <1>4, WorkerTypes DEF Inv, Between, WorkerSteps
<1>6. RowsAgree(wc)'
  BY <1>1, <1>2, <1>3, <1>4 DEF RowsAgree, Live
<1>7. \A d \in Cands : RowsAgree(d)'
  BY <1>1, <1>2, <1>4, <1>6, OneRow DEF Inv, Only
<1>8. \A d \in Cands : RunsAgree(d)'
  BY <1>1, <1>3, <1>4, RunsKept DEF Inv, Only, SettledIntent
<1>9. \A b \in Ranks : MutexAgrees(b)'
  <2>1. \A d \in Cands : order[d] # "none" => order'[d] # "none"
    BY <1>1, <1>2, <1>4 DEF Only, ORDER_STATUSES
  <2>2. wpc \in Between /\ wpc' \in Between
    BY <1>1 DEF Between, WorkerSteps
  <2> QED
    BY <1>1, <2>1, <2>2, MutexKept DEF Inv
<1>10. WorkerAgrees'
  BY <1>1, <1>2, <1>3, <1>4 DEF WorkerAgrees, Only, On, FallbackReasons
<1>11. OneOwnerPerSymbol' /\ DrainedIsDrained'
  BY <1>1, VenueKept DEF Inv
<1> QED
  BY <1>5, <1>7, <1>8, <1>9, <1>10, <1>11 DEF Inv, IInv

\* The last admission finds no other owner of the symbol (assertFinalEntryAdmission).
LEMMA Keeps_beforeDispatch ==
  ASSUME Inv, beforeDispatch
  PROVE  Inv'
<1>1. /\ wpc = "journaled" /\ wpc' \in {"unsent", "admitted"}
      /\ UNCHANGED <<intent, position, op, run, rank, last, venue, sends, drained, stage, caller, target, wc>>
      /\ \/ order' = order
         \/ order' = [order EXCEPT ![wc] = "submitting"] /\ order[wc] = "created"
      /\ wpc' = "admitted" => admissionRefusal(wc) = "none"
  BY DEF beforeDispatch, workerAt, goto, fail, rows, world, fallback, mutexes
<1>2. /\ wc \in Cands /\ RowsAgree(wc) /\ RowTypes /\ WorkerAgrees
      /\ sends[wc] \in Nat
  BY <1>1 DEF Inv, Types, IInv, RowTypes
<1>3. sends[wc] = 0 /\ intent[wc] \in {"planned", "submitting"}
  BY <1>1, <1>2 DEF WorkerAgrees
<1>4. /\ RowTypes' /\ Only(wc)
      /\ order'[wc] = order[wc] \/ (order[wc] = "created" /\ order'[wc] = "submitting")
      /\ wpc' = "admitted" => \A d \in On(acct(wc)) \ {wc} : position[d] \notin Active
  BY <1>1, <1>2, <1>3 DEF RowTypes, Only, ORDER_STATUSES, admissionRefusal, capacityRefusal,
     symbolOwned
<1>5. Types'
  BY <1>1, <1>2, <1>4, WorkerTypes DEF Inv, Between, WorkerSteps
<1>6. RowsAgree(wc)'
  BY <1>1, <1>2, <1>3, <1>4 DEF RowsAgree, Live
<1>7. \A d \in Cands : RowsAgree(d)'
  BY <1>1, <1>2, <1>4, <1>6, OneRow DEF Inv, Only
<1>8. \A d \in Cands : RunsAgree(d)'
  BY <1>1, <1>3, <1>4, RunsKept DEF Inv, Only, SettledIntent
<1>9. \A b \in Ranks : MutexAgrees(b)'
  <2>1. \A d \in Cands : order[d] # "none" => order'[d] # "none"
    BY <1>1, <1>2, <1>4 DEF Only, ORDER_STATUSES
  <2>2. wpc \in Between /\ wpc' \in Between
    BY <1>1 DEF Between, WorkerSteps
  <2> QED
    BY <1>1, <2>1, <2>2, MutexKept DEF Inv
<1>10. WorkerAgrees'
  BY <1>1, <1>2, <1>3, <1>4 DEF WorkerAgrees, Only, On
<1>11. OneOwnerPerSymbol' /\ DrainedIsDrained'
  BY <1>1, VenueKept DEF Inv
<1> QED
  BY <1>5, <1>7, <1>8, <1>9, <1>10, <1>11 DEF Inv, IInv

\* The journal says dispatching before the request leaves (runJournaledExchangeWrite).
LEMMA Keeps_markDispatching ==
  ASSUME Inv, markDispatching
  PROVE  Inv'
<1>1. /\ wpc = "admitted" /\ wpc' \in {"dispatching"}
      /\ UNCHANGED <<intent, order, position, run, rank, last, venue, sends, drained, stage, caller, target, wc>>
      /\ op' = [op EXCEPT ![wc] = "dispatching"]
  BY DEF markDispatching, workerAt, goto, fail, rows, world, fallback, mutexes
<1>2. /\ wc \in Cands /\ RowsAgree(wc) /\ RowTypes /\ WorkerAgrees
      /\ sends[wc] \in Nat
  BY <1>1 DEF Inv, Types, IInv, RowTypes
<1>3. sends[wc] = 0 /\ intent[wc] \in {"planned", "submitting"}
  BY <1>1, <1>2 DEF WorkerAgrees
<1>4. /\ RowTypes' /\ Only(wc)
      /\ op'[wc] = "dispatching"
  BY <1>1, <1>2, <1>3 DEF RowTypes, Only, Phases, Pending
<1>5. Types'
  BY <1>1, <1>2, <1>4, WorkerTypes DEF Inv, Between, WorkerSteps
<1>6. RowsAgree(wc)'
  BY <1>1, <1>2, <1>3, <1>4 DEF RowsAgree, Live
<1>7. \A d \in Cands : RowsAgree(d)'
  BY <1>1, <1>2, <1>4, <1>6, OneRow DEF Inv, Only
<1>8. \A d \in Cands : RunsAgree(d)'
  BY <1>1, <1>3, <1>4, RunsKept DEF Inv, Only, SettledIntent
<1>9. \A b \in Ranks : MutexAgrees(b)'
  <2>1. \A d \in Cands : order[d] # "none" => order'[d] # "none"
    BY <1>1, <1>2, <1>4 DEF Only, ORDER_STATUSES
  <2>2. wpc \in Between /\ wpc' \in Between
    BY <1>1 DEF Between, WorkerSteps
  <2> QED
    BY <1>1, <2>1, <2>2, MutexKept DEF Inv
<1>10. WorkerAgrees'
  BY <1>1, <1>2, <1>3, <1>4 DEF WorkerAgrees, Only, On
<1>11. OneOwnerPerSymbol' /\ DrainedIsDrained'
  BY <1>1, VenueKept DEF Inv
<1> QED
  BY <1>5, <1>7, <1>8, <1>9, <1>10, <1>11 DEF Inv, IInv

=============================================================================
