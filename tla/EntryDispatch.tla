---------------------------- MODULE EntryDispatch ----------------------------
(***************************************************************************)
(* From a trade intent to an entry order at the venue, once.  A signal run *)
(* tries its ranked accounts one after the other (workflow_repository.ts); *)
(* the worker of trading_runtime.ts prepares, journals and sends the entry *)
(* of the current rank (trading_engine.ts, trading_recovery.ts); every     *)
(* account is reconciled with its venue, drained and released under one    *)
(* mutex (trading_mutation_coordinator.ts); operators stop and resume      *)
(* entries at any time; the process may crash between any two commits.     *)
(*                                                                         *)
(* Abstractions.  All signals trade one symbol and rank k trades on        *)
(* account k.  An entry is one unit: partial fills are in OrderEvidence.   *)
(* The protective stop travels with its entry and is not shown.  A request *)
(* in flight may arrive at any later time, or never.  A snapshot is        *)
(* applied in the step that reads it: what the venue does between the two  *)
(* does not depend on local rows, so it may as well happen afterwards.     *)
(***************************************************************************)
EXTENDS StateTransitions

CONSTANTS
    Runs,        \* signal runs
    LastRank,    \* ranks, and accounts, are 0..LastRank: the longest chain
    FallbackOn,  \* the reasons that promote the next rank
    MaxUpsets    \* bound on crashes, outages, operator stops and expiries together

FallbackReasons == {"SYMBOL_UNAVAILABLE", "SYMBOL_ALREADY_OWNED"}

ASSUME EntryAssumption ==
    /\ LastRank \in Nat /\ MaxUpsets \in Nat
    /\ FallbackOn \subseteq FallbackReasons

VARIABLES
    \* rows, by candidate <<run, rank>>
    intent, order, position,
    op,          \* phase of the journaled protected entry
    cancelOp,    \* phase of the latest journaled cancel of the entry
    drain,       \* entry_drain_requested_at is set
    \* rows, by run, by account, and the runtime row
    run, rank, kill,
    last,        \* the last candidate of a run: the length of its chain
    blocked,     \* an open incident or an unacknowledged critical risk event
    runtime,
    \* the venue, and ghosts: entries handed off, drains proved
    venue, sends, drained,
    \* process memory: the worker, the owner of each account's mutex, holds
    wpc, wc, valid, err,
    stage, caller, target,
    paused, held,
    upsets

rows == <<intent, order, position, op, cancelOp, drain>>
fallback == <<run, rank, last>>
world == <<venue, sends, drained>>
worker == <<wpc, wc, valid, err>>
mutexes == <<stage, caller, target>>
control == <<runtime, paused, held>>
vars == <<rows, fallback, kill, blocked, world, worker, mutexes, control, upsets>>

Ranks == 0..LastRank
Cands == Runs \X Ranks
NoCand == <<"none", "none">>
acct(c) == c[2]
On(a) == {c \in Cands : acct(c) = a}

Errors == {"none", "RISK", "ERROR"} \cup FallbackReasons
Labels == Errors \ {"none"}
Active == {"opening", "open", "emergency"}
InDoubt == {"dispatching", "unresolved"}
Pending == {"prepared", "dispatching", "acknowledged", "unresolved"}
UncertainOrder == {"submitting", "unknown", "cancel_pending"}
Answered == {"open", "filled", "flat", "rejected", "cancelled"}

Phases == Pending \cup {"none", "resolved", "abandoned"}
WorkerSteps == {"idle", "reconcile", "prepare", "planned", "selected", "submitting",
                "journaled", "admitted", "dispatching", "waiting", "unsent", "abandon",
                "wfail", "acked", "exits", "finish", "failing", "closing"}

Stages == {"idle", "drain", "cancelling", "cancelSent", "observe", "ok", "failSoft", "failHard"}
Callers == {"none", "runtime", "operator", "worker", "exits", "drainer", "expiry", "release"}

(* Every row, flag and program counter stays in its range; the worker      *)
(* holds a candidate while it runs, and none while it is idle.             *)
TypeOK ==
    /\ intent \in [Cands -> IntentStatus \cup {"none"}]
    /\ order \in [Cands -> ORDER_STATUSES \cup {"none"}]
    /\ position \in [Cands -> Active \cup {"none", "closed"}]
    /\ op \in [Cands -> Phases]
    /\ cancelOp \in [Cands -> Phases \cup {"active"}]
    /\ drain \in [Cands -> BOOLEAN]
    /\ run \in [Runs -> {"none", "probing", "selected", "stopped", "exhausted"}]
    /\ rank \in [Runs -> Ranks] /\ last \in [Runs -> Ranks]
    /\ kill \in [Ranks -> BOOLEAN] /\ blocked \in [Ranks -> BOOLEAN]
    /\ runtime \in {"enabled", "disabled", "killed"}
    /\ venue \in [Cands -> Answered \cup {"absent", "inflight"}]
    /\ sends \in [Cands -> Nat] /\ drained \in [Ranks -> BOOLEAN]
    /\ wpc \in WorkerSteps
    /\ valid \in BOOLEAN /\ err \in Errors
    /\ IF wpc = "idle" THEN wc = NoCand ELSE wc \in Cands
    /\ stage \in [Ranks -> Stages] /\ caller \in [Ranks -> Callers]
    /\ target \in [Ranks -> Cands \cup {NoCand}]
    /\ paused \in BOOLEAN /\ held \in [Ranks -> BOOLEAN]
    /\ upsets \in 0..MaxUpsets

Init ==
    /\ intent = [c \in Cands |-> "none"] /\ order = [c \in Cands |-> "none"]
    /\ position = [c \in Cands |-> "none"]
    /\ op = [c \in Cands |-> "none"] /\ cancelOp = [c \in Cands |-> "none"]
    /\ drain = [c \in Cands |-> FALSE]
    /\ run = [r \in Runs |-> "none"] /\ rank = [r \in Runs |-> 0]
    /\ last = [r \in Runs |-> 0]
    /\ kill = [a \in Ranks |-> FALSE] /\ blocked = [a \in Ranks |-> FALSE]
    /\ runtime = "enabled"
    /\ venue = [c \in Cands |-> "absent"] /\ sends = [c \in Cands |-> 0]
    /\ drained = [a \in Ranks |-> FALSE]
    /\ wpc = "idle" /\ wc = NoCand /\ valid = FALSE /\ err = "none"
    /\ stage = [a \in Ranks |-> "idle"] /\ caller = [a \in Ranks |-> "none"]
    /\ target = [a \in Ranks |-> NoCand]
    /\ paused = FALSE /\ held = [a \in Ranks |-> FALSE]
    /\ upsets = 0

-----------------------------------------------------------------------------
(* What the rows prove.                                                    *)

(* The mutex of account a is not held (TradingMutationCoordinator.run).    *)
Free(a) == stage[a] = "idle" /\ ~(wpc # "idle" /\ acct(wc) = a)

(* TradingRuntime is one loop: it retires and reconciles account after     *)
(* account, cancels expired entries, then processes intents.               *)
LoopIdle == wpc = "idle" /\ \A a \in Ranks : caller[a] \notin {"runtime", "expiry"}

(* unresolvedOperationCount(a) > 0                                         *)
unresolvedOperations(a) ==
    \E c \in On(a) : op[c] \in InDoubt \/ cancelOp[c] \in InDoubt

(* hasUndispatchedPlanProof: the rows alone prove the entry was never      *)
(* sent.  witness: the operation the caller itself is about to send.       *)
hasUndispatchedPlanProof(c, allowAbandoned, witness) ==
    /\ intent[c] \in {"planned", "submitting"}
    /\ position[c] \in IF allowAbandoned THEN {"opening", "emergency"} ELSE {"opening"}
    /\ op[c] \in {"none", "prepared"}
                 \cup (IF allowAbandoned THEN {"abandoned"} ELSE {})
                 \cup (IF witness THEN {"dispatching"} ELSE {})
    /\ cancelOp[c] = "none"
    /\ \/ order[c] = "created"
       \/ order[c] = "submitting" /\ op[c] # "none"

(* assertCandidateNeverSent                                                *)
candidateNeverSent(c, witness) ==
    \/ intent[c] = "pending" /\ order[c] = "none" /\ ~witness
    \/ hasUndispatchedPlanProof(c, FALSE, witness)

(* workflowIntentBlockReason and assertExecutionPreconditions              *)
executionRefused(a) == kill[a] \/ runtime # "enabled"

(* Mutant: a position that is still opening does not own its symbol.       *)
symbolOwnedOnceOpen(c) == \E d \in On(acct(c)) \ {c} : position[d] \in {"open", "emergency"}

(* loadCapacityState: symbolOwned; one symbol makes the position limit the *)
(* same question.                                                          *)
symbolOwned(c) == \E d \in On(acct(c)) \ {c} : position[d] \in Active

(* assertAccountSafetyState                                                *)
accountUnsafe(c) ==
    blocked[acct(c)] \/ \E d \in On(acct(c)) \ {c} : order[d] \in UncertainOrder

capacityRefusal(c) ==
    IF accountUnsafe(c) THEN "RISK"
    ELSE IF symbolOwned(c) THEN "SYMBOL_ALREADY_OWNED"
    ELSE "none"

(* The checks of preparePendingIntent before its reconciliation, and again *)
(* those of assertFinalEntryAdmission.                                     *)
admissionRefusal(c) ==
    IF executionRefused(acct(c)) \/ unresolvedOperations(acct(c)) THEN "RISK"
    ELSE capacityRefusal(c)

(* proveEntrySafety: account-wide, with only the candidate itself exempt.  *)
entrySafe(c, witness) ==
    /\ candidateNeverSent(c, witness)
    /\ ~executionRefused(acct(c))
    /\ ~blocked[acct(c)]
    /\ \A d \in On(acct(c)) \ {c} :
          /\ op[d] \notin Pending /\ cancelOp[d] \notin Pending
          /\ order[d] \notin UncertainOrder
          /\ order[d] \notin TerminalOrder \cup {"none"} => position[d] \in Active

(* evaluateTradingSafety for entriesDrained and for accountRelease.        *)
entriesDrained(cs) ==
    \A c \in cs : /\ op[c] \notin Pending /\ cancelOp[c] \notin Pending
                  /\ order[c] \in TerminalOrder \cup {"none"}

accountReleasable(a) == entriesDrained(On(a)) /\ ~blocked[a]

pendingEntryDrains(a) ==
    {c \in On(a) : /\ drain[c]
                   /\ \/ order[c] \notin TerminalOrder
                      \/ op[c] \in InDoubt \/ cancelOp[c] \in InDoubt}

(* The budget of crashes, outages and operator stops.                      *)
upset == upsets < MaxUpsets /\ upsets' = upsets + 1

(* requestEntryDrain for the entries cs.                                   *)
requestEntryDrain(cs) ==
    drain' = [c \in Cands |->
                \/ drain[c]
                \/ /\ c \in cs /\ order[c] # "none"
                   /\ \/ order[c] \notin TerminalOrder
                      \/ op[c] \in InDoubt \/ cancelOp[c] \in InDoubt]

(* abandonUndispatchedPlan: releases the reservation on positive proof.    *)
abandonUndispatchedPlan(c) ==
    IF hasUndispatchedPlanProof(c, TRUE, FALSE)
    THEN /\ order' = [order EXCEPT ![c] = "cancelled"]
         /\ op' = [op EXCEPT ![c] = IF @ = "prepared" THEN "abandoned" ELSE @]
         /\ position' = [position EXCEPT ![c] = "closed"]
    ELSE UNCHANGED <<order, op, position>>

(* The status one unit of evidence leaves the row of c in.                 *)
venueStatus(c) == IF venue[c] = "flat" THEN "filled" ELSE venue[c]
persisted(c, status) ==
    mergedStatus(order[c], status, IF "filled" \in {order[c], status} THEN 1 ELSE 0, 1)

-----------------------------------------------------------------------------
(* Signal runs.                                                            *)

(* The candidates of the run are stored with it.                           *)
createWorkflowTradingIntents(r) ==
    /\ run[r] = "none"
    /\ \E k \in Ranks : last' = [last EXCEPT ![r] = k]
    /\ intent' = [intent EXCEPT ![<<r, 0>>] =
                     IF executionRefused(0) THEN "blocked" ELSE "pending"]
    /\ run' = [run EXCEPT ![r] = IF executionRefused(0) THEN "stopped" ELSE "probing"]
    /\ UNCHANGED <<order, position, op, cancelOp, drain, rank, kill, blocked, world,
                   worker, mutexes, control, upsets>>

isCurrent(c) == run[c[1]] = "probing" /\ rank[c[1]] = c[2]

(* advanceWorkflowFallbackTransaction: the intent is blocked whatever its  *)
(* status; the next rank is promoted only from the probing, current one.   *)
advanceWorkflowFallback(c, reason) ==
    LET r == c[1]
        next == <<r, c[2] + 1>>
    IN  IF ~isCurrent(c)
        THEN /\ intent' = [intent EXCEPT ![c] = "blocked"]
             /\ UNCHANGED fallback
        ELSE IF c[2] >= last[r]
        THEN /\ intent' = [intent EXCEPT ![c] = "blocked"]
             /\ run' = [run EXCEPT ![r] = "exhausted"]
             /\ UNCHANGED <<rank, last>>
        ELSE IF reason \notin FallbackOn
        THEN /\ intent' = [intent EXCEPT ![c] = "blocked"]
             /\ run' = [run EXCEPT ![r] = "stopped"]
             /\ UNCHANGED <<rank, last>>
        ELSE /\ intent' = [intent EXCEPT ![c] = "blocked",
                              ![next] = IF executionRefused(next[2]) THEN "blocked" ELSE "pending"]
             /\ run' = [run EXCEPT ![r] = IF executionRefused(next[2]) THEN "stopped" ELSE @]
             /\ rank' = [rank EXCEPT ![r] = next[2]]
             /\ UNCHANGED last

stopWorkflowFallback(c) ==
    /\ run' = [run EXCEPT ![c[1]] = IF isCurrent(c) THEN "stopped" ELSE @]
    /\ UNCHANGED <<rank, last>>

-----------------------------------------------------------------------------
(* The entry worker, up to the hand-off.                                   *)

workerAt(pc) == wpc = pc

goto(pc) == wpc' = pc /\ UNCHANGED <<wc, valid, err>>

fail(pc, e) == wpc' = pc /\ err' = e /\ UNCHANGED <<wc, valid>>

(* reconcileAccountOwned enters: an active kill switch asks for a drain.   *)
beginReconcile(a, who) ==
    /\ stage' = [stage EXCEPT ![a] = "drain"]
    /\ caller' = [caller EXCEPT ![a] = who]
    /\ UNCHANGED target
    /\ IF kill[a] \/ runtime = "killed" THEN requestEntryDrain(On(a)) ELSE UNCHANGED drain

(* processIntent and the first checks of preparePendingIntent.  Any of     *)
(* them may also refuse for a reason outside the model (route revoked,     *)
(* deadline passed): RISK.                                                 *)
processIntent(c) ==
    /\ LoopIdle /\ ~paused /\ Free(acct(c))
    /\ intent[c] = "pending" \/ hasUndispatchedPlanProof(c, FALSE, FALSE)
    /\ order' = [order EXCEPT ![c] = IF @ = "submitting" THEN "created" ELSE @]
    /\ wc' = c /\ valid' = TRUE
    /\ \E e \in {"RISK", admissionRefusal(c)} :
          IF e = "none"
          THEN /\ wpc' = "reconcile" /\ err' = "none"
               /\ beginReconcile(acct(c), "worker")
          ELSE /\ wpc' = "failing" /\ err' = e
               /\ UNCHANGED <<drain, mutexes>>
    /\ UNCHANGED <<intent, position, op, cancelOp, fallback, kill, blocked, world, control, upsets>>

(* assertClockSafeForEntry: an unsafe clock kills the runtime.             *)
clockUnsafe(c) ==
    /\ upset
    /\ LoopIdle /\ ~paused /\ Free(acct(c))
    /\ intent[c] = "pending" \/ hasUndispatchedPlanProof(c, FALSE, FALSE)
    /\ order' = [order EXCEPT ![c] = IF @ = "submitting" THEN "created" ELSE @]
    /\ wc' = c /\ valid' = TRUE /\ wpc' = "failing" /\ err' = "RISK"
    /\ runtime' = "killed"
    /\ UNCHANGED <<intent, position, op, cancelOp, drain, fallback, kill, blocked, world,
                   mutexes, paused, held>>

(* preparePendingIntent after its reconciliation: capacity, the safety     *)
(* proof, then the market and sizing reads; a new plan is persisted, the   *)
(* plan of an earlier attempt is kept.                                     *)
preparePendingIntent ==
    /\ workerAt("prepare")
    /\ LET refusal == IF capacityRefusal(wc) # "none" THEN capacityRefusal(wc)
                      ELSE IF ~entrySafe(wc, FALSE) THEN "RISK" ELSE "none"
       IN  \/ /\ \E e \in IF refusal = "none"
                             THEN {"RISK", "ERROR", "SYMBOL_UNAVAILABLE"} ELSE {refusal} :
                    fail("failing", e)
              /\ UNCHANGED <<intent, order, position>>
           \/ /\ refusal = "none"
              /\ goto("planned")
              /\ IF intent[wc] = "pending"
                 THEN /\ intent' = [intent EXCEPT ![wc] = "planned"]
                      /\ order' = [order EXCEPT ![wc] = "created"]
                      /\ position' = [position EXCEPT ![wc] = "opening"]
                 ELSE UNCHANGED <<intent, order, position>>
    /\ UNCHANGED <<op, cancelOp, drain, fallback, kill, blocked, world, mutexes, control, upsets>>

(* Mutant: the run keeps probing while its entry is sent.                  *)
fallbackNotSelected ==
    /\ workerAt("planned")
    /\ goto("selected")
    /\ UNCHANGED <<rows, fallback, kill, blocked, world, mutexes, control, upsets>>

markWorkflowFallbackSelected ==
    /\ workerAt("planned")
    /\ run' = [run EXCEPT ![wc[1]] = IF isCurrent(wc) THEN "selected" ELSE @]
    /\ goto("selected")
    /\ UNCHANGED <<rows, rank, last, kill, blocked, world, mutexes, control, upsets>>

setIntentSubmitting ==
    /\ workerAt("selected")
    /\ intent' = [intent EXCEPT ![wc] = "submitting"]
    /\ goto("submitting")
    /\ UNCHANGED <<order, position, op, cancelOp, drain, fallback, kill, blocked, world,
                   mutexes, control, upsets>>

(* A failed row write or an identity that cannot be bound, before the      *)
(* operation is journaled.                                                 *)
workerFails ==
    /\ wpc \in {"planned", "selected", "submitting"}
    /\ \E e \in {"RISK", "ERROR"} : fail("failing", e)
    /\ UNCHANGED <<rows, fallback, kill, blocked, world, mutexes, control, upsets>>

(* prepareTradingOperation: a prepared operation is reused, a settled one  *)
(* gets a new generation, anything else must not be repeated.              *)
prepareTradingOperation ==
    /\ workerAt("submitting")
    /\ IF op[wc] \in {"none", "prepared", "resolved", "abandoned"}
       THEN op' = [op EXCEPT ![wc] = "prepared"] /\ goto("journaled")
       ELSE UNCHANGED op /\ fail("failing", "ERROR")
    /\ UNCHANGED <<intent, order, position, cancelOp, drain, fallback, kill, blocked, world,
                   mutexes, control, upsets>>

(* beforeDispatch: markOrderSubmitting, then assertFinalEntryAdmission.    *)
beforeDispatch ==
    /\ workerAt("journaled")
    /\ IF order[wc] # "created"
       THEN fail("unsent", "ERROR") /\ UNCHANGED order
       ELSE /\ order' = [order EXCEPT ![wc] = "submitting"]
            /\ \/ \E e \in {"RISK", "ERROR", "SYMBOL_UNAVAILABLE", admissionRefusal(wc)} \ {"none"} :
                    fail("unsent", e)
               \/ /\ admissionRefusal(wc) = "none" /\ intent[wc] = "submitting"
                  /\ valid /\ ~paused /\ ~held[acct(wc)]
                  /\ goto("admitted")
    /\ UNCHANGED <<intent, position, op, cancelOp, drain, fallback, kill, blocked, world,
                   mutexes, control, upsets>>

(* Mutant: the dispatch is journaled only with its answer.                 *)
dispatchUnmarked ==
    /\ workerAt("admitted")
    /\ goto("dispatching")
    /\ UNCHANGED <<rows, fallback, kill, blocked, world, mutexes, control, upsets>>

markDispatching ==
    /\ workerAt("admitted")
    /\ op' = [op EXCEPT ![wc] = "dispatching"]
    /\ goto("dispatching")
    /\ UNCHANGED <<intent, order, position, cancelOp, drain, fallback, kill, blocked, world,
                   mutexes, control, upsets>>

(* withDatabaseDispatchFence: the safety proof and the synchronous guard   *)
(* (entry epoch, holds, deadline) right before the request leaves.         *)
sendProtectedEntry ==
    /\ workerAt("dispatching")
    /\ valid /\ ~paused /\ ~held[acct(wc)]
    /\ entrySafe(wc, TRUE)
    /\ venue' = [venue EXCEPT ![wc] = IF @ = "absent" THEN "inflight" ELSE @]
    /\ sends' = [sends EXCEPT ![wc] = @ + 1]
    /\ drained' = [drained EXCEPT ![acct(wc)] = FALSE]
    /\ goto("waiting")
    /\ UNCHANGED <<rows, fallback, kill, blocked, mutexes, control, upsets>>

refuseDispatch ==
    /\ workerAt("dispatching")
    /\ \E e \in {"RISK", "ERROR"} : fail("unsent", e)
    /\ UNCHANGED <<rows, fallback, kill, blocked, world, mutexes, control, upsets>>

(* recordWriteFailure of a write that was never sent.                      *)
recordUnsent ==
    /\ workerAt("unsent")
    /\ op' = [op EXCEPT ![wc] = "abandoned"]
    /\ goto("abandon")
    /\ UNCHANGED <<intent, order, position, cancelOp, drain, fallback, kill, blocked, world,
                   mutexes, control, upsets>>

abandonUnsent ==
    /\ workerAt("abandon")
    /\ abandonUndispatchedPlan(wc)
    /\ goto("failing")
    /\ UNCHANGED <<intent, cancelOp, drain, fallback, kill, blocked, world, mutexes, control, upsets>>

-----------------------------------------------------------------------------
(* The entry worker, after the hand-off.                                   *)

(* The acknowledgement is persisted with the phase, in one transaction.    *)
replyAcknowledged ==
    /\ workerAt("waiting") /\ venue[wc] \in Answered
    /\ order' = [order EXCEPT ![wc] = persisted(wc, venueStatus(wc))]
    /\ op' = [op EXCEPT ![wc] = "acknowledged"]
    /\ goto("acked")
    /\ UNCHANGED <<intent, position, cancelOp, drain, fallback, kill, blocked, world,
                   mutexes, control, upsets>>

(* An answer that leaves the outcome open; validateProtectedEntryOutcome   *)
(* then throws.                                                            *)
replyUnclear ==
    /\ workerAt("waiting")
    /\ order' = [order EXCEPT ![wc] = persisted(wc, "unknown")]
    /\ op' = [op EXCEPT ![wc] = "unresolved"]
    /\ fail("failing", "ERROR")
    /\ UNCHANGED <<intent, position, cancelOp, drain, fallback, kill, blocked, world,
                   mutexes, control, upsets>>

(* Mutant: a timeout counts as a request that was never sent.              *)
replyFailsUnsent ==
    /\ workerAt("waiting")
    /\ op' = [op EXCEPT ![wc] = "abandoned"]
    /\ \E e \in Labels : fail("wfail", e)
    /\ UNCHANGED <<intent, order, position, cancelOp, drain, fallback, kill, blocked, world,
                   mutexes, control, upsets>>

(* Timeout, lost connection, failed persist: recordWriteFailure.           *)
replyFails ==
    /\ workerAt("waiting")
    /\ op' = [op EXCEPT ![wc] = "unresolved"]
    /\ \E e \in Labels : fail("wfail", e)
    /\ UNCHANGED <<intent, order, position, cancelOp, drain, fallback, kill, blocked, world,
                   mutexes, control, upsets>>

(* The catch of submitTrackedProtectedEntry: unknown, then whatever orders *)
(* the error itself confirms.                                              *)
markUnknown ==
    /\ workerAt("wfail")
    /\ LET unknown == IF order[wc] \in {"created", "submitting", "unknown"}
                      THEN "unknown" ELSE order[wc]
       IN  \E s \in {unknown} \cup
                     {mergedStatus(unknown, venueStatus(d), IF venueStatus(d) = "filled" THEN 1 ELSE 0, 1) :
                        d \in {e \in {wc} : venue[e] \in Answered}} :
             order' = [order EXCEPT ![wc] = s]
    /\ goto("failing")
    /\ UNCHANGED <<intent, position, op, cancelOp, drain, fallback, kill, blocked, world,
                   mutexes, control, upsets>>

(* requestEmergencyExit, with the account's kill switch before it.         *)
emergencyExit(c) ==
    /\ kill' = [kill EXCEPT ![acct(c)] = TRUE]
    /\ position' = [position EXCEPT ![c] = IF @ \in Active THEN "emergency" ELSE @]
    /\ requestEntryDrain({c})

(* validateProtectedEntryOutcome, enforceEntrySlippage, submitInitialExits. *)
entryAcknowledged ==
    /\ workerAt("acked")
    /\ \/ /\ order[wc] = "rejected"
          /\ fail("failing", "RISK")
          /\ UNCHANGED <<position, drain, kill, mutexes>>
       \/ /\ order[wc] \in {"cancelled", "unknown", "cancel_pending"}
          /\ fail("failing", "ERROR")
          /\ UNCHANGED <<position, drain, kill, mutexes>>
       \/ /\ order[wc] \in {"open", "filled"}
          /\ \E e \in Labels : fail("failing", e)
          /\ emergencyExit(wc)
          /\ UNCHANGED mutexes
       \/ /\ order[wc] \in {"filled", "cancelled"}
          /\ position' = [position EXCEPT ![wc] = IF order[wc] = "filled" THEN "open" ELSE @]
          /\ goto("exits")
          /\ beginReconcile(acct(wc), "exits")
          /\ UNCHANGED kill
       \/ /\ order[wc] = "open"
          /\ goto("finish")
          /\ UNCHANGED <<position, drain, kill, mutexes>>
    /\ UNCHANGED <<intent, order, op, cancelOp, fallback, blocked, world, control, upsets>>

entrySubmitted ==
    /\ workerAt("finish")
    /\ intent' = [intent EXCEPT ![wc] = IF @ \in {"submitting", "unknown"} THEN "monitoring" ELSE @]
    /\ wpc' = "idle" /\ wc' = NoCand /\ valid' = FALSE /\ err' = "none"
    /\ UNCHANGED <<order, position, op, cancelOp, drain, fallback, kill, blocked, world,
                   mutexes, control, upsets>>

-----------------------------------------------------------------------------
(* handleIntentFailure.                                                    *)

(* classifyIntentFailure: the durable operation wins over the label.       *)
classifyIntentFailure(c, e) ==
    IF op[c] \in InDoubt \/ cancelOp[c] \in InDoubt THEN "ERROR" ELSE e

(* Classification, and isolateUnresolvedDispatch of an unknown outcome.    *)
isolateFailure ==
    /\ workerAt("failing")
    /\ LET e == classifyIntentFailure(wc, err)
           isolated == e = "ERROR" /\ order[wc] \in UncertainOrder
       IN  /\ fail("closing", e)
           /\ kill' = [kill EXCEPT ![acct(wc)] = @ \/ isolated]
           /\ blocked' = [blocked EXCEPT ![acct(wc)] = @ \/ isolated]
    /\ UNCHANGED <<rows, fallback, world, mutexes, control, upsets>>

(* Mutant: the failure overwrites whatever the intent came to meanwhile.   *)
settleFailureAlways(c, e) ==
    /\ UNCHANGED <<order, op, position>>
    /\ intent' = [intent EXCEPT ![c] = IF e = "ERROR" THEN "unknown" ELSE "blocked"]
    /\ stopWorkflowFallback(c)
    /\ blocked' = [blocked EXCEPT ![acct(c)] = @ \/ e = "ERROR"]

(* The transaction that settles c with error e.  An intent that may not    *)
(* take the status rolls all of it back.  An unknown outcome also leaves a *)
(* critical risk event.                                                    *)
settleFailure(c, e) ==
    LET status == IF e = "ERROR" THEN "unknown" ELSE "blocked"
    IN  \/ /\ e \in FallbackReasons
           /\ abandonUndispatchedPlan(c)
           /\ advanceWorkflowFallback(c, e)
           /\ UNCHANGED blocked
        \/ /\ e \notin FallbackReasons
           /\ canTransitionIntent(intent[c], status)
           /\ IF e = "ERROR" THEN UNCHANGED <<order, op, position>> ELSE abandonUndispatchedPlan(c)
           /\ intent' = [intent EXCEPT ![c] = status]
           /\ stopWorkflowFallback(c)
           /\ blocked' = [blocked EXCEPT ![acct(c)] = @ \/ e = "ERROR"]
        \/ /\ e \notin FallbackReasons
           /\ ~canTransitionIntent(intent[c], status)
           /\ UNCHANGED <<intent, order, op, position, fallback, blocked>>

handleIntentFailure ==
    /\ workerAt("closing")
    /\ settleFailure(wc, err)
    /\ wpc' = "idle" /\ wc' = NoCand /\ valid' = FALSE /\ err' = "none"
    /\ UNCHANGED <<cancelOp, drain, kill, world, mutexes, control, upsets>>

(* retireUnauthorizedPreparation: a revoked preparation that was provably  *)
(* never sent is settled even while entries are paused.                    *)
retireUnauthorizedPreparation(c) ==
    /\ LoopIdle /\ Free(acct(c))
    /\ hasUndispatchedPlanProof(c, TRUE, FALSE)
    /\ settleFailure(c, "RISK")
    /\ UNCHANGED <<cancelOp, drain, kill, world, worker, mutexes, control, upsets>>

-----------------------------------------------------------------------------
(* One pass of reconcileAccountOwned, under the account's mutex.           *)

to(a, s) == stage' = [stage EXCEPT ![a] = s]

reconcileAccount(a) ==
    /\ LoopIdle /\ Free(a)
    /\ beginReconcile(a, "runtime")
    /\ UNCHANGED <<intent, order, position, op, cancelOp, fallback, kill, blocked, world,
                   worker, control, upsets>>

(* drainEntryCommitment of an entry that provably never left.              *)
drainAbandon(c) ==
    /\ stage[acct(c)] = "drain" /\ c \in pendingEntryDrains(acct(c))
    /\ order[c] \in {"created", "submitting"}
    /\ hasUndispatchedPlanProof(c, TRUE, FALSE)
    /\ abandonUndispatchedPlan(c)
    /\ intent' = [intent EXCEPT ![c] = "failed"]
    /\ UNCHANGED <<cancelOp, drain, fallback, kill, blocked, world, worker, mutexes, control, upsets>>

(* cancelRetryObservation for an entry: a first attempt, or one after the  *)
(* previous attempt was seen to have left the order active.                *)
cancelAllowed(c) ==
    \/ order[c] = "open" /\ cancelOp[c] \in {"none", "active"}
    \/ order[c] = "cancel_pending" /\ cancelOp[c] = "active"

(* drainEntryCommitment of an active entry: cancelTrackedOrder journals.   *)
drainCancel(c) ==
    /\ stage[acct(c)] = "drain" /\ c \in pendingEntryDrains(acct(c))
    /\ cancelAllowed(c)
    /\ order' = [order EXCEPT ![c] = "cancel_pending"]
    /\ cancelOp' = [cancelOp EXCEPT ![c] = "prepared"]
    /\ to(acct(c), "cancelling")
    /\ target' = [target EXCEPT ![acct(c)] = c]
    /\ UNCHANGED <<intent, position, op, drain, fallback, kill, blocked, world, worker, caller,
                   control, upsets>>

(* prepareCancelDispatch refuses a second attempt without that sight of    *)
(* the order; cancelEntryRow's catch treats it like any failed cancel.     *)
cancelRefused(c) ==
    /\ stage[acct(c)] = "drain" /\ c \in pendingEntryDrains(acct(c))
    /\ order[c] = "open" /\ ~cancelAllowed(c)
    /\ order' = [order EXCEPT ![c] = "unknown"]
    /\ kill' = [kill EXCEPT ![acct(c)] = TRUE]
    /\ UNCHANGED <<intent, position, op, cancelOp, drain, fallback, blocked, world, worker,
                   mutexes, control, upsets>>

cancelSend(a) ==
    /\ stage[a] = "cancelling"
    /\ cancelOp' = [cancelOp EXCEPT ![target[a]] = "dispatching"]
    /\ to(a, "cancelSent")
    /\ UNCHANGED <<intent, order, position, op, drain, fallback, kill, blocked, world, worker,
                   caller, target, control, upsets>>

(* The cancel fails before (abandoned) or after (unresolved) it was sent;  *)
(* cancelEntryRow marks the entry unknown and kills the account.           *)
cancelEntryRowFails(a) ==
    /\ stage[a] \in {"cancelling", "cancelSent"}
    /\ cancelOp' = [cancelOp EXCEPT ![target[a]] =
                       IF stage[a] = "cancelling" THEN "abandoned" ELSE "unresolved"]
    /\ order' = [order EXCEPT ![target[a]] = IF @ \in TerminalOrder THEN @ ELSE "unknown"]
    /\ kill' = [kill EXCEPT ![a] = TRUE]
    /\ to(a, "drain") /\ target' = [target EXCEPT ![a] = NoCand]
    /\ UNCHANGED <<intent, position, op, drain, fallback, blocked, world, worker, caller,
                   control, upsets>>

(* Mutant: the acknowledged cancel request counts as a cancelled order.    *)
cancelTrusted(a) ==
    /\ stage[a] = "cancelSent"
    /\ cancelOp' = [cancelOp EXCEPT ![target[a]] = "acknowledged"]
    /\ order' = [order EXCEPT ![target[a]] = persisted(target[a], "cancelled")]
    /\ to(a, "drain") /\ target' = [target EXCEPT ![a] = NoCand]
    /\ UNCHANGED <<intent, position, op, drain, fallback, kill, blocked, world, worker, caller,
                   control, upsets>>

cancelAcknowledged(a) ==
    /\ stage[a] = "cancelSent" /\ venue[target[a]] \in Answered \ {"open"}
    /\ cancelOp' = [cancelOp EXCEPT ![target[a]] = "acknowledged"]
    /\ order' = [order EXCEPT ![target[a]] = persisted(target[a], venueStatus(target[a]))]
    /\ to(a, "drain") /\ target' = [target EXCEPT ![a] = NoCand]
    /\ UNCHANGED <<intent, position, op, drain, fallback, kill, blocked, world, worker, caller,
                   control, upsets>>

(* drainRequestedEntriesOwned ends, with or without having reached every   *)
(* commitment.  drainAndProveEntries then enters reconcileAccountOwned.    *)
drainEnds(a) ==
    /\ stage[a] = "drain"
    /\ kill' = [kill EXCEPT ![a] = @ \/ pendingEntryDrains(a) # {}]
    /\ IF caller[a] \in {"drainer", "expiry"} /\ (kill'[a] \/ runtime = "killed")
       THEN requestEntryDrain(On(a)) ELSE UNCHANGED drain
    /\ to(a, "observe")
    /\ UNCHANGED <<intent, order, position, op, cancelOp, fallback, blocked, world, worker,
                   caller, target, control, upsets>>

observeFails(a) ==
    /\ upset
    /\ stage[a] = "observe"
    /\ \E s \in {"failSoft", "failHard"} : to(a, s)
    /\ UNCHANGED <<rows, fallback, kill, blocked, world, worker, caller, target, control>>

(* persistRemoteExecutions, resolveObservedOperations and                  *)
(* resolveActiveCancelAttempts of the entries `seen` in a snapshot.        *)
ingestedOrder(c, seen) == IF c \in seen THEN persisted(c, venueStatus(c)) ELSE order[c]
ingestedOp(c, seen) ==
    IF c \in seen /\ op[c] \in Pending \ {"prepared"} THEN "resolved" ELSE op[c]

ingestedCancel(c, seen) ==
    IF c \notin seen THEN cancelOp[c]
    ELSE IF ingestedOrder(c, seen) \in TerminalOrder
    THEN IF cancelOp[c] \in Pending \ {"prepared"} THEN "resolved" ELSE cancelOp[c]
    ELSE IF cancelOp[c] \in {"prepared", "dispatching", "unresolved"} THEN "active"
    ELSE cancelOp[c]

ingestOwnedState(a, seen) ==
    /\ order' = [c \in Cands |-> ingestedOrder(c, seen)]
    /\ op' = [c \in Cands |-> ingestedOp(c, seen)]
    /\ cancelOp' = [c \in Cands |-> ingestedCancel(c, seen)]

(* detectUnmanagedExposure and assertAccountOwnership: exposure at the     *)
(* venue that no active position with a filled entry accounts for.         *)
unownedExposure(a) ==
    \E c \in On(a) : venue[c] = "filled" /\ ~(position[c] \in Active /\ order'[c] = "filled")

(* What loadTradeLifecycle and the tradeClosed proof ask for.              *)
closable(c) ==
    /\ position[c] \in Active /\ venue[c] # "filled"
    /\ order'[c] \in TerminalOrder
    /\ op'[c] \notin Pending /\ cancelOp'[c] \notin Pending
    /\ \/ intent[c] \in SettledIntent
       \/ canTransitionIntent(intent[c], IF order'[c] = "filled" THEN "completed" ELSE "failed")

(* reconcileOpenRemotePosition and reconcileMissingRemotePosition for the  *)
(* positions handled; slipped: those whose fill broke the slippage bound.  *)
reconcilePositions(a, handled, slipped) ==
    /\ position' = [c \in Cands |->
          IF c \notin handled THEN position[c]
          ELSE IF closable(c) THEN "closed"
          ELSE IF venue[c] # "filled" \/ position[c] = "emergency" THEN position[c]
          ELSE IF c \in slipped THEN "emergency" ELSE "open"]
    /\ intent' = [c \in Cands |->
          IF c \notin handled \/ intent[c] \in SettledIntent THEN intent[c]
          ELSE IF closable(c) THEN IF order'[c] = "filled" THEN "completed" ELSE "failed"
          ELSE IF position'[c] = "open" /\ intent[c] \in {"submitting", "unknown"} THEN "monitoring"
          ELSE intent[c]]
    /\ requestEntryDrain(slipped)

(* applyRemoteState and the checks of reconcileAccountOwned after it.  A   *)
(* failure may leave any part of the positions handled.                    *)
applyRemoteState(a) ==
    /\ stage[a] = "observe"
    /\ \E seen \in SUBSET {c \in On(a) : venue[c] \in Answered} :
         /\ ingestOwnedState(a, seen)
         /\ \/ /\ unownedExposure(a)
               /\ kill' = [kill EXCEPT ![a] = TRUE]
               /\ to(a, "failHard")
               /\ UNCHANGED <<intent, position, drain, upsets>>
            \/ /\ ~unownedExposure(a)
               /\ LET managed == {c \in On(a) : position[c] \in Active}
                      held1 == {c \in managed : venue[c] = "filled" /\ position[c] # "emergency"}
                      clean ==
                         /\ \A c \in On(a) : op'[c] \notin InDoubt /\ cancelOp'[c] \notin InDoubt
                         /\ \A c \in On(a) : drain'[c] => order'[c] \in TerminalOrder
                         /\ \A c \in managed :
                               /\ position'[c] # "emergency"
                               /\ order'[c] \in TerminalOrder /\ venue[c] # "filled" => closable(c)
                  IN  \E handled \in SUBSET managed, slipped \in SUBSET held1 :
                        /\ slipped \subseteq handled
                        /\ reconcilePositions(a, handled, slipped)
                        /\ kill' = [kill EXCEPT ![a] = @ \/ slipped # {}]
                        /\ IF clean /\ handled = managed
                           THEN \/ to(a, "ok") /\ UNCHANGED upsets
                                \/ upset /\ \E s \in {"failSoft", "failHard"} : to(a, s)
                           ELSE /\ IF handled = managed THEN UNCHANGED upsets ELSE upset
                                /\ \E s \in {"failSoft", "failHard"} : to(a, s)
    /\ UNCHANGED <<fallback, blocked, world, worker, caller, target, control>>

-----------------------------------------------------------------------------
(* The end of a pass, for each of its callers.                             *)

(* recordReconciliationFailure and recordReconciliationSuccess; extra: the *)
(* caller activates the account's kill switch as well.                     *)
recordReconciliation(a, extra) ==
    /\ blocked' \in {[blocked EXCEPT ![a] = b] :
                       b \in IF stage[a] = "ok" THEN {FALSE, blocked[a]} ELSE {TRUE}}
    /\ kill' = [kill EXCEPT ![a] = @ \/ stage[a] = "failHard" \/ extra]

ended(a, who) == stage[a] \in {"ok", "failSoft", "failHard"} /\ caller[a] = who

leave(a) ==
    /\ to(a, "idle")
    /\ caller' = [caller EXCEPT ![a] = "none"]
    /\ UNCHANGED target

reconciled(a) ==
    /\ ended(a, "runtime") \/ ended(a, "operator")
    /\ recordReconciliation(a, FALSE) /\ leave(a)
    /\ UNCHANGED <<rows, fallback, world, worker, control, upsets>>

(* reconcileEntryCandidate                                                 *)
candidateReconciled(a) ==
    /\ ended(a, "worker")
    /\ recordReconciliation(a, FALSE) /\ leave(a)
    /\ IF stage[a] = "ok" THEN goto("prepare") ELSE fail("failing", "RISK")
    /\ UNCHANGED <<rows, fallback, world, control, upsets>>

(* submitInitialExits: only the exhausted pass budget is tolerated.        *)
exitsReconciled(a) ==
    /\ ended(a, "exits")
    /\ recordReconciliation(a, FALSE) /\ leave(a)
    /\ \/ stage[a] # "failHard" /\ goto("finish")
       \/ stage[a] # "ok" /\ fail("failing", "ERROR")
    /\ UNCHANGED <<rows, fallback, world, control, upsets>>

(* drainAndProveEntries for a whole account, and for the expired entries.  *)
entriesProved(a) ==
    /\ ended(a, "drainer")
    /\ \E proved \in BOOLEAN :
          /\ proved => stage[a] = "ok" /\ entriesDrained(On(a))
          /\ recordReconciliation(a, ~proved)
          /\ drained' = [drained EXCEPT ![a] = @ \/ proved]
    /\ held' = [held EXCEPT ![a] = FALSE]
    /\ leave(a)
    /\ UNCHANGED <<rows, fallback, venue, sends, worker, runtime, paused, upsets>>

expiryProved(a) ==
    /\ ended(a, "expiry")
    /\ \E proved \in BOOLEAN :
          /\ proved => stage[a] = "ok" /\ entriesDrained({c \in On(a) : drain[c]})
          /\ recordReconciliation(a, ~proved)
    /\ leave(a)
    /\ UNCHANGED <<rows, fallback, world, worker, control, upsets>>

(* releaseAccountKillSwitchOwned: proof and write in one transaction.      *)
accountReleased(a) ==
    /\ ended(a, "release")
    /\ \/ /\ recordReconciliation(a, FALSE)
          /\ UNCHANGED drained
       \/ /\ stage[a] = "ok" /\ accountReleasable(a)
          /\ kill' = [kill EXCEPT ![a] = FALSE]
          /\ drained' = [drained EXCEPT ![a] = TRUE]
          /\ UNCHANGED blocked
    /\ leave(a)
    /\ UNCHANGED <<rows, fallback, venue, sends, worker, control, upsets>>

-----------------------------------------------------------------------------
(* Operators and timers.                                                   *)

(* cancelOpenEntries: the hold is immediate, the drain waits for the mutex. *)
holdEntries(a) ==
    /\ upset
    /\ ~held[a]
    /\ held' = [held EXCEPT ![a] = TRUE]
    /\ valid' = (valid /\ acct(wc) # a)
    /\ UNCHANGED <<rows, fallback, kill, blocked, world, wpc, wc, err, mutexes, runtime, paused>>

cancelOpenEntries(a) ==
    /\ held[a] /\ Free(a)
    /\ requestEntryDrain(On(a))
    /\ to(a, "drain") /\ caller' = [caller EXCEPT ![a] = "drainer"]
    /\ UNCHANGED <<intent, order, position, op, cancelOp, fallback, kill, blocked, world,
                   worker, target, control, upsets>>

cancelExpiredEntries(c) ==
    /\ upset
    /\ LoopIdle /\ Free(acct(c)) /\ order[c] \notin TerminalOrder \cup {"none"}
    /\ requestEntryDrain({c})
    /\ to(acct(c), "drain") /\ caller' = [caller EXCEPT ![acct(c)] = "expiry"]
    /\ UNCHANGED <<intent, order, position, op, cancelOp, fallback, kill, blocked, world,
                   worker, target, control>>

disableEntries ==
    /\ upset
    /\ runtime' = IF runtime = "killed" THEN "killed" ELSE "disabled"
    /\ paused' = TRUE /\ valid' = FALSE
    /\ UNCHANGED <<rows, fallback, kill, blocked, world, wpc, wc, err, mutexes, held>>

setKillSwitchRuntime ==
    /\ upset
    /\ runtime' = "killed"
    /\ paused' = TRUE /\ valid' = FALSE
    /\ held' = [a \in Ranks |-> TRUE]
    /\ UNCHANGED <<rows, fallback, kill, blocked, world, wpc, wc, err, mutexes>>

enableEntries ==
    /\ runtime # "killed"
    /\ runtime' = "enabled" /\ paused' = FALSE
    /\ UNCHANGED <<rows, fallback, kill, blocked, world, worker, mutexes, held, upsets>>

(* TradingWebControl.reconcile                                             *)
requestReconciliation(a) ==
    /\ upset
    /\ Free(a)
    /\ beginReconcile(a, "operator")
    /\ UNCHANGED <<intent, order, position, op, cancelOp, fallback, kill, blocked, world,
                   worker, control>>

(* The proof of every account, and the release, share one transaction      *)
(* under every account's mutex.                                            *)
releaseGlobalTradingKillSwitch ==
    /\ runtime = "killed"
    /\ \A a \in Ranks : Free(a) /\ accountReleasable(a)
    /\ runtime' = "disabled"
    /\ UNCHANGED <<rows, fallback, kill, blocked, world, worker, mutexes, paused, held, upsets>>

releaseAccountKillSwitch(a) ==
    /\ upset
    /\ kill[a] /\ Free(a)
    /\ beginReconcile(a, "release")
    /\ UNCHANGED <<intent, order, position, op, cancelOp, fallback, kill, blocked, world,
                   worker, control>>

(* emergencyFlatten has killed the runtime before it gets here.            *)
prepareAccountEmergency(a) ==
    LET managed == {c \in On(a) : position[c] \in Active}
    IN  /\ runtime = "killed" /\ Free(a) /\ managed # {}
        /\ kill' = [kill EXCEPT ![a] = TRUE]
        /\ position' = [c \in Cands |-> IF c \in managed THEN "emergency" ELSE position[c]]
        /\ requestEntryDrain(managed)
        /\ UNCHANGED <<intent, order, op, cancelOp, fallback, blocked, world, worker, mutexes,
                       control, upsets>>

-----------------------------------------------------------------------------
(* The venue, and the end of the process.                                  *)

venueMoves(c, from, next) ==
    /\ venue[c] = from /\ venue' = [venue EXCEPT ![c] = next]
    /\ UNCHANGED <<rows, fallback, kill, blocked, sends, drained, worker, mutexes, control, upsets>>

venueAccepts(c) == venueMoves(c, "inflight", "open")
venueRejects(c) == venueMoves(c, "inflight", "rejected")
venueFills(c) == venueMoves(c, "open", "filled")
venueCancels(c) == venueMoves(c, "open", "cancelled")
venueExits(c) == venueMoves(c, "filled", "flat")

(* Only rows survive; entries stay paused until they are enabled again.    *)
Crash ==
    /\ upset
    /\ wpc' = "idle" /\ wc' = NoCand /\ valid' = FALSE /\ err' = "none"
    /\ stage' = [a \in Ranks |-> "idle"] /\ caller' = [a \in Ranks |-> "none"]
    /\ target' = [a \in Ranks |-> NoCand]
    /\ paused' = TRUE /\ held' = [a \in Ranks |-> FALSE]
    /\ UNCHANGED <<rows, fallback, kill, blocked, world, runtime>>

-----------------------------------------------------------------------------
entryWorker ==
    \/ \E c \in Cands : processIntent(c) \/ clockUnsafe(c)
    \/ preparePendingIntent \/ markWorkflowFallbackSelected \/ setIntentSubmitting
    \/ workerFails \/ prepareTradingOperation \/ beforeDispatch \/ markDispatching
    \/ sendProtectedEntry \/ refuseDispatch \/ recordUnsent \/ abandonUnsent
    \/ replyAcknowledged \/ replyUnclear \/ replyFails \/ markUnknown
    \/ entryAcknowledged \/ entrySubmitted \/ isolateFailure \/ handleIntentFailure

reconciliation ==
    \/ \E a \in Ranks :
          \/ reconcileAccount(a)
          \/ cancelSend(a) \/ cancelEntryRowFails(a) \/ cancelAcknowledged(a)
          \/ drainEnds(a) \/ observeFails(a) \/ applyRemoteState(a)
          \/ reconciled(a) \/ candidateReconciled(a) \/ exitsReconciled(a)
          \/ entriesProved(a) \/ expiryProved(a) \/ accountReleased(a)
    \/ \E c \in Cands : \/ drainAbandon(c) \/ drainCancel(c) \/ cancelRefused(c)
                        \/ retireUnauthorizedPreparation(c)

operators ==
    \/ \E a \in Ranks : \/ holdEntries(a) \/ cancelOpenEntries(a) \/ requestReconciliation(a)
                        \/ releaseAccountKillSwitch(a) \/ prepareAccountEmergency(a)
    \/ \E c \in Cands : cancelExpiredEntries(c)
    \/ disableEntries \/ setKillSwitchRuntime \/ enableEntries \/ releaseGlobalTradingKillSwitch

venueStep ==
    \E c \in Cands : \/ venueAccepts(c) \/ venueRejects(c) \/ venueFills(c)
                     \/ venueCancels(c) \/ venueExits(c)

Next ==
    \/ \E r \in Runs : createWorkflowTradingIntents(r)
    \/ entryWorker \/ reconciliation \/ operators \/ venueStep \/ Crash

Spec == Init /\ [][Next]_vars

-----------------------------------------------------------------------------
Live == {"inflight", "open", "filled"}

(* A signal run reaches at most one account: once an entry may have left   *)
(* for one rank, no later failure promotes another                         *)
(* (markWorkflowFallbackSelected before the dispatch, trading_engine.ts).  *)
AtMostOneAccount ==
    \A r \in Runs, j, k \in Ranks : sends[<<r, j>>] > 0 /\ sends[<<r, k>>] > 0 => j = k

(* No entry is handed to the venue twice, whatever is retried, resumed     *)
(* after a crash or restarted by the operator (the operation journal of    *)
(* runJournaledExchangeWrite).                                             *)
NoDoubleSend == \A c \in Cands : sends[c] <= 1

(* A reservation is released, or a trade closed, only when nothing of it   *)
(* is at the venue or on its way there (abandonUndispatchedPlan,           *)
(* reconcileMissingRemotePosition).                                        *)
ClosedMeansFlat == \A c \in Cands : position[c] = "closed" => venue[c] \notin Live

(* An operation recorded as never sent was never sent (recordWriteFailure, *)
(* unsentPlanOperation).                                                   *)
UnsentIsUnsent ==
    \A c \in Cands : op[c] \in {"none", "prepared", "abandoned"} => venue[c] = "absent"

(* What the rows call closed or never sent is so at the venue.             *)
RowsTellTheVenue == ClosedMeansFlat /\ UnsentIsUnsent

(* Two signals never hold exposure, or a pending entry, in the same symbol *)
(* of one account (loadCapacityState and proveEntrySafety under the        *)
(* account's mutex).                                                       *)
OneOwnerPerSymbol ==
    \A c, d \in Cands : acct(c) = acct(d) /\ venue[c] \in Live /\ venue[d] \in Live => c = d

(* After a drain or a kill-switch release was proved, no entry of the      *)
(* account can still fill until a new one is sent (drainAndProveEntries,   *)
(* releaseAccountKillSwitchOwned).                                         *)
DrainedIsDrained ==
    \A a \in Ranks : drained[a] => \A c \in On(a) : venue[c] \notin {"inflight", "open"}

(* A settled intent is never taken up again, and a completed one keeps its *)
(* result (transitionTradingIntent; the fallback's update is unconditional). *)
SettledStaysSettled ==
    [][\A c \in Cands :
          /\ intent[c] \in SettledIntent => intent'[c] \in SettledIntent
          /\ intent[c] = "completed" => intent'[c] = "completed"]_vars

(* The next account of a fallback is tried only when the executor reported *)
(* that the symbol is unavailable on the current one, and never because of *)
(* a position or ownership limit (docs/TRADING_GUIDE.md, "Kein Fallback    *)
(* findet statt bei"; advanceWorkflowFallbackTransaction).                 *)
OnlyUnavailableAdvances ==
    [][\A r \in Runs : rank'[r] # rank[r] => err = "SYMBOL_UNAVAILABLE"]_vars

-----------------------------------------------------------------------------
(* The inductive invariant behind these properties.                        *)

(* What one candidate's rows prove about the venue.                        *)
RowsAgree(c) ==
    /\ sends[c] <= 1
    /\ sends[c] = 0 <=> venue[c] = "absent"
    /\ op[c] \in {"none", "prepared", "abandoned"} => sends[c] = 0
    /\ order[c] = "none" \/ position[c] = "none" => sends[c] = 0
    /\ intent[c] \in {"none", "pending"} =>
         order[c] = "none" /\ position[c] = "none" /\ op[c] = "none"
    /\ intent[c] = "completed" => order[c] = "filled"
    /\ order[c] = "filled" => venue[c] \in {"filled", "flat"}
    /\ order[c] = "rejected" => venue[c] = "rejected"
    /\ order[c] = "cancelled" => venue[c] \in {"absent", "cancelled"}
    /\ position[c] = "closed" => venue[c] \notin Live

(* A run stands at one rank: those before it were settled unsent, those    *)
(* behind it do not exist yet, and while it is probing nothing was sent.   *)
RunsAgree(c) ==
    /\ run[c[1]] = "none" => intent[c] = "none" /\ rank[c[1]] = 0
    /\ c[2] > rank[c[1]] => intent[c] = "none"
    /\ c[2] < rank[c[1]] => intent[c] \in SettledIntent /\ sends[c] = 0
    /\ run[c[1]] = "probing" => sends[c] = 0

(* Who holds the mutex of account a, and what it is about to cancel.       *)
MutexAgrees(a) ==
    /\ stage[a] = "idle" <=> caller[a] = "none"
    /\ caller[a] = "worker" <=> wpc = "reconcile" /\ acct(wc) = a
    /\ caller[a] = "exits" <=> wpc = "exits" /\ acct(wc) = a
    /\ wpc # "idle" /\ acct(wc) = a => caller[a] \in {"none", "worker", "exits"}
    /\ stage[a] \in {"cancelling", "cancelSent"} =>
         target[a] \in On(a) /\ order[target[a]] # "none"

(* The worker's candidate exists; up to the hand-off it is unsent, from    *)
(* the plan to the answer its intent is open, from its selection to the    *)
(* hand-off its run promotes nobody, once admitted nobody else owns the    *)
(* symbol, and what is about to leave is journaled as leaving.             *)
WorkerAgrees ==
    /\ wpc # "idle" => intent[wc] # "none"
    /\ wpc \in {"reconcile", "prepare", "planned", "selected", "submitting", "journaled",
                "admitted", "dispatching", "unsent", "abandon"} => sends[wc] = 0
    /\ wpc \in {"planned", "selected", "submitting", "journaled", "admitted", "dispatching",
                "unsent", "waiting", "wfail", "acked"} => intent[wc] \in {"planned", "submitting"}
    /\ wpc \in {"selected", "submitting", "journaled", "admitted", "dispatching"} =>
         run[wc[1]] # "probing"
    /\ wpc \in {"admitted", "dispatching"} =>
         \A d \in On(acct(wc)) \ {wc} : position[d] \notin Active
    /\ wpc = "dispatching" => op[wc] = "dispatching"
    /\ wpc \in {"failing", "closing"} /\ err \in FallbackReasons => intent[wc] # "completed"

(* The rows, the runs, the mutexes and the worker agree with one another   *)
(* and with the venue, between any two commits of trading_engine.ts.       *)
IInv ==
    /\ \A c \in Cands : RowsAgree(c) /\ RunsAgree(c)
    /\ \A a \in Ranks : MutexAgrees(a)
    /\ WorkerAgrees
    /\ OneOwnerPerSymbol
    /\ DrainedIsDrained
=============================================================================
