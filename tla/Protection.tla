----------------------------- MODULE Protection -----------------------------
(***************************************************************************)
(* The exits of one managed trade: its protective stop and replacements,   *)
(* its take-profit targets and its emergency reductions.  The engine       *)
(* (trading_engine.ts) holds the account's mutation lock, reads the venue, *)
(* stores what it read and acts on that reading; meanwhile the venue fills *)
(* orders, requests and answers get lost or arrive late, and the process   *)
(* may die between any two awaits.                                         *)
(*                                                                         *)
(* An order is <<role, target, generation>>; generation 0 is the order of  *)
(* the trade plan.  The entry and its stop were dispatched together (see   *)
(* EntryDispatch); the model starts with both resting at the venue.        *)
(***************************************************************************)
EXTENDS Naturals, FiniteSets, FiniteSetsExt, StateTransitions

CONSTANTS
    EntryQuantity,   \* ordered quantity, in steps of size 1
    Percents,        \* targetAllocationsPercent, a sequence
    MaxStops,        \* replacement stops a behaviour may create (bound)
    MaxTargets,      \* replacements per target (bound)
    MaxFlattens,     \* emergency reductions (bound)
    MaxCancelAttempts, \* MAX_CANCEL_ATTEMPTS of one reconciliation
    MaxUpsets        \* crashes, lost or unanswered requests (bound)

VARIABLES
    row,       \* trading_orders and their journal: what the process stored
    venue,     \* the orders at the exchange
    wire,      \* submissions under way
    cwire,     \* cancellations under way
    position,  \* trading_positions: status, emergency request, stop price
    alloc,     \* trading_take_profit_allocations
    kill,      \* the account's kill switch
    drain,     \* the entry's drain request
    pc,        \* where the reconciliation stands
    snap,      \* the observation it acts on
    job,       \* [kind, todo, cur, changed]: the writes of this pass
    pass, budget,
    upsets

vars == <<row, venue, wire, cwire, position, alloc, kill, drain, pc, snap, job,
          pass, budget, upsets>>

-----------------------------------------------------------------------------
(***************************************************************************)
(* The target budgets of trading_take_profit.ts.  A plan divides the       *)
(* entered quantity over its targets; resizeTargetTotals rescales what is  *)
(* not yet executed to the quantity still owned.  Quantities are natural   *)
(* numbers of the smallest unit; a budget is a function on 1..n.           *)
(***************************************************************************)
least(a, b) == IF a <= b THEN a ELSE b

quantizeDown(value, step) == value - (value % step)

Total(totals) == MapThenSumSet(LAMBDA i : totals[i], DOMAIN totals)

(***************************************************************************)
(* allocateTargetQuantities of trading_risk.ts: each target but the last   *)
(* gets its percentage rounded down, the last one the rest.  A share that  *)
(* rounds to zero is refused (TARGET_QUANTITY_BELOW_MINIMUM).              *)
(***************************************************************************)
percentShare(quantity, percent, step) == quantizeDown((quantity * percent) \div 100, step)

allocatable(quantity, percents, step) ==
    \A i \in DOMAIN percents :
        (i + 1) \in DOMAIN percents => percentShare(quantity, percents[i], step) > 0

allocateTargetQuantities(quantity, percents, step) ==
    LET Share(i) == percentShare(quantity, percents[i], step)
        Before(i) == MapThenSumSet(Share, {j \in DOMAIN percents : j < i})
    IN  [i \in DOMAIN percents |->
           IF (i + 1) \in DOMAIN percents THEN Share(i) ELSE quantity - Before(i)]

(* The unconsumed part of each target: filled targets weigh nothing.       *)
targetWeights(previous, filled) ==
    [i \in DOMAIN previous |->
       IF previous[i] > filled[i] THEN previous[i] - filled[i] ELSE 0]

(* Proportional shares of the available quantity, rounded down.            *)
proportional(weights, available, step) ==
    [i \in DOMAIN weights |->
       IF Total(weights) = 0 THEN 0
       ELSE quantizeDown((available * weights[i]) \div Total(weights), step)]

(***************************************************************************)
(* What rounding lost goes to the last targets first.  A target that is    *)
(* being shrunk is not raised above its old budget.                        *)
(***************************************************************************)
roundingRoom(weights, share, available, step) ==
    [i \in DOMAIN weights |->
       IF weights[i] = 0 THEN 0
       ELSE IF available <= Total(weights)
       THEN quantizeDown(weights[i] - share[i], step)
       ELSE available]

allocateRoundingRemainder(weights, share, available, step) ==
    LET lost == available - Total(share)
        room == roundingRoom(weights, share, available, step)
        After(i) == MapThenSumSet(LAMBDA j : room[j], {j \in DOMAIN weights : j > i})
    IN  [i \in DOMAIN weights |->
           share[i] + (IF lost <= After(i) THEN 0 ELSE least(room[i], lost - After(i)))]

(* TP_TARGETS_EXHAUSTED_WITH_EXPOSURE is thrown exactly when this fails.   *)
resizable(previous, filled, net, step) ==
    Total(targetWeights(previous, filled)) = 0 => quantizeDown(net, step) = 0

remainingTargets(previous, filled, net, step) ==
    LET weights == targetWeights(previous, filled)
        available == quantizeDown(net, step)
    IN  allocateRoundingRemainder(weights, proportional(weights, available, step),
                                  available, step)

resizeTargetTotals(previous, filled, net, step) ==
    LET remaining == remainingTargets(previous, filled, net, step)
    IN  [i \in DOMAIN previous |-> remaining[i] + filled[i]]

(* A target is complete once its budget was reached by a new fill; it      *)
(* stays complete (completedTargetEvidence).                               *)
completedTargetEvidence(totals, before, completed, filled) ==
    [i \in DOMAIN totals |->
       completed[i] \/ (totals[i] > before[i] /\ filled[i] > before[i] /\ filled[i] >= totals[i])]

-----------------------------------------------------------------------------
Targets == DOMAIN Percents
Entry == <<"entry", 0, 0>>
Stops == {<<"stop", 0, g>> : g \in 0..MaxStops}
TPs == {<<"tp", t, g>> : t \in Targets, g \in 0..MaxTargets}
Flattens == {<<"flatten", 0, g>> : g \in 1..MaxFlattens}
Exits == Stops \cup TPs \cup Flattens
Orders == {Entry} \cup Exits
Role(o) == o[1]
Rows(role) == {o \in Orders : Role(o) = role}

Sum(f(_), S) == MapThenSumSet(f, S)
Filled(o) == venue[o].filled
Exposure == Filled(Entry) - Sum(Filled, Exits)
Resting(o) == venue[o].status = "open"
EntryRemainder == IF Resting(Entry) THEN row[Entry].qty - Filled(Entry) ELSE 0

NoRow == [status |-> "none", qty |-> 0, seen |-> 0, trig |-> 0, op |-> "none", cop |-> "none"]
NoJob == [kind |-> "none", todo |-> {}, cur |-> Entry, changed |-> FALSE]
Unset == [i \in Targets |-> 0]
Absent == [o \in Orders |-> [status |-> "absent", filled |-> 0]]
Active == {"open", "partially_filled"}
Unresolved == {"submitting", "unknown", "cancel_pending"}

Init ==
    /\ row = [o \in Orders |->
                CASE o = Entry -> [NoRow EXCEPT !.status = "open", !.qty = EntryQuantity, !.op = "resolved"]
                  [] o = <<"stop", 0, 0>> -> [NoRow EXCEPT !.status = "open", !.qty = EntryQuantity, !.op = "resolved"]
                  [] Role(o) = "tp" /\ o[3] = 0 ->
                       [NoRow EXCEPT !.status = "created",
                                     !.qty = allocateTargetQuantities(EntryQuantity, Percents, 1)[o[2]]]
                  [] OTHER -> NoRow]
    /\ venue = [o \in Orders |-> [status |-> IF o \in {Entry, <<"stop", 0, 0>>} THEN "open" ELSE "absent",
                                  filled |-> 0]]
    /\ wire = {} /\ cwire = {}
    /\ position = [status |-> "opening", emergency |-> FALSE, stop |-> 0]
    /\ alloc = [known |-> FALSE, totals |-> Unset, before |-> Unset, completed |-> [i \in Targets |-> FALSE]]
    /\ kill = FALSE /\ drain = FALSE
    /\ pc = "idle" /\ snap = Absent /\ job = NoJob
    /\ pass = 1 /\ budget = MaxCancelAttempts
    /\ upsets = 0

-----------------------------------------------------------------------------
(* The venue (external): reduce-only exits never exceed the position.      *)

Engine == <<row, position, alloc, kill, drain, pc, snap, job, pass, budget>>

VenueFill(o) ==
    /\ Resting(o)
    /\ o # Entry => Exposure > 0
    /\ venue' = [venue EXCEPT ![o] = [filled |-> @.filled + 1,
                                      status |-> IF @.filled + 1 = row[o].qty THEN "filled" ELSE "open"]]
    /\ UNCHANGED <<Engine, wire, cwire, upsets>>

(* A submission arrives: a market reduction executes at once, up to the    *)
(* position; a resting exit rests; either may be refused instead.          *)
VenueAccepts(o) ==
    /\ o \in wire
    /\ wire' = wire \ {o}
    /\ \/ /\ Role(o) # "flatten"
          /\ venue' = [venue EXCEPT ![o].status = "open"]
       \/ /\ Role(o) = "flatten" /\ Exposure > 0
          /\ venue' = [venue EXCEPT ![o] =
               [filled |-> least(row[o].qty, Exposure),
                status |-> IF row[o].qty <= Exposure THEN "filled" ELSE "cancelled"]]
    /\ UNCHANGED <<Engine, cwire, upsets>>

VenueRefuses(o) ==
    /\ o \in wire
    /\ \/ Exposure = 0 /\ UNCHANGED upsets
       \/ Exposure > 0 /\ upsets < MaxUpsets /\ upsets' = upsets + 1
    /\ wire' = wire \ {o}
    /\ venue' = [venue EXCEPT ![o].status = "rejected"]
    /\ UNCHANGED <<Engine, cwire>>

VenueCancels(o) ==
    /\ o \in cwire
    /\ cwire' = cwire \ {o}
    /\ venue' = IF Resting(o) THEN [venue EXCEPT ![o].status = "cancelled"] ELSE venue
    /\ UNCHANGED <<Engine, wire, upsets>>

RequestLost(o) ==
    /\ upsets < MaxUpsets
    /\ o \in wire \cup cwire
    /\ wire' = wire \ {o} /\ cwire' = cwire \ {o}
    /\ upsets' = upsets + 1
    /\ UNCHANGED <<Engine, venue>>

-----------------------------------------------------------------------------
(* Reading the venue and storing what was read.                            *)

RemoteStatus(o) ==
    IF venue[o].status = "open" /\ venue[o].filled > 0 THEN "partially_filled" ELSE venue[o].status

Merged(r, status, filled) ==
    [r EXCEPT !.status = mergedStatus(@, status, selectedFilledQuantity(r.seen, filled), r.qty),
              !.seen = selectedFilledQuantity(@, filled)]

(* resolveObservedOperations and resolveActiveCancelAttempts for one row.  *)
Resolved(r, status) ==
    [r EXCEPT
       !.op = IF @ \in {"dispatching", "unresolved", "acknowledged"} THEN "resolved" ELSE @,
       !.cop = IF status \in TerminalOrder
               THEN IF @ \in {"dispatching", "unresolved", "acknowledged"} THEN "resolved" ELSE @
               ELSE IF @ = "prepared" THEN "abandoned"
               ELSE IF @ \in {"dispatching", "unresolved"} THEN "stillActive" ELSE @]

ingestOwnedState ==
    [o \in Orders |-> IF venue[o].status = "absent" THEN row[o]
                      ELSE Resolved(Merged(row[o], RemoteStatus(o), venue[o].filled), venue[o].status)]

SnapExposure == snap[Entry].filled - Sum(LAMBDA o : snap[o].filled, Exits)

EndReconcile ==
    /\ pc' = "idle" /\ snap' = Absent /\ job' = NoJob
    /\ pass' = 1 /\ budget' = MaxCancelAttempts

(* A pass that changed something is followed by a new observation, at most *)
(* three times (acquireAndReconcile).                                      *)
EndPass(changed) ==
    IF changed /\ pass < 3
    THEN /\ pc' = "observe" /\ pass' = pass + 1
         /\ snap' = Absent /\ job' = NoJob
         /\ UNCHANGED budget
    ELSE EndReconcile

Goto(where) == pc' = where /\ UNCHANGED <<snap, pass, budget>>

EntryOpen(rows) == rows[Entry].status \notin TerminalOrder

(* requestEntryDrain marks only an entry that can still fill.              *)
requestEntryDrain(rows) == drain \/ EntryOpen(rows)

reconcileAccountOwned ==
    /\ pc = "idle" /\ position.status # "closed"
    /\ drain' = IF kill THEN requestEntryDrain(row) ELSE drain
    /\ Goto("drain")
    /\ UNCHANGED <<row, venue, wire, cwire, position, alloc, kill, job, upsets>>

(* drainRequestedEntriesOwned, best effort; the cancellation protocol of   *)
(* an entry is the subject of EntryDispatch and is one step here.          *)
drainRequestedEntriesOwned ==
    /\ pc = "drain"
    /\ \/ /\ ~(drain /\ row[Entry].status \in Active)
          /\ kill' = (kill \/ (drain /\ EntryOpen(row)))
          /\ Goto("observe")
          /\ UNCHANGED <<row, venue, upsets>>
       \/ /\ drain /\ row[Entry].status \in Active
          /\ budget > 0
          /\ budget' = budget - 1
          /\ \/ /\ venue' = IF Resting(Entry) THEN [venue EXCEPT ![Entry].status = "cancelled"] ELSE venue
                /\ row' = [row EXCEPT ![Entry] = Merged(@, venue'[Entry].status, venue'[Entry].filled)]
                /\ UNCHANGED <<kill, upsets>>
             \/ /\ upsets < MaxUpsets /\ upsets' = upsets + 1
                /\ venue' \in {venue, IF Resting(Entry)
                                      THEN [venue EXCEPT ![Entry].status = "cancelled"] ELSE venue}
                /\ row' = [row EXCEPT ![Entry].status = "unknown"]
                /\ kill' = TRUE
          /\ pc' = "observe"
          /\ UNCHANGED <<snap, pass>>
       \/ /\ drain /\ row[Entry].status \in Active /\ budget = 0
          /\ kill' = TRUE
          /\ Goto("observe")
          /\ UNCHANGED <<row, venue, upsets>>
    /\ UNCHANGED <<wire, cwire, position, alloc, drain, job>>

(* observeSafetyState, ingestOwnedState and the branch of applyRemoteState.*)
applyRemoteState ==
    /\ pc = "observe"
    /\ snap' = venue
    /\ row' = ingestOwnedState
    /\ IF Exposure > 0
       THEN /\ position' = [position EXCEPT !.status = IF position.emergency THEN "emergency" ELSE "open"]
            /\ pc' = IF position.emergency THEN "flatten" ELSE "stop"
       ELSE /\ pc' = "missing"
            /\ UNCHANGED position
    /\ UNCHANGED <<venue, wire, cwire, alloc, kill, drain, job, pass, budget, upsets>>

-----------------------------------------------------------------------------
(* Writes: prepare, mark, dispatch, answer (runJournaledExchangeWrite).    *)

(* recoverPreparedExits: a submission that was only prepared never left.   *)
recoverPreparedExits(rows, role) ==
    [o \in Orders |->
       IF Role(o) = role /\ rows[o].status = "submitting" /\ rows[o].op \in {"prepared", "abandoned"}
       THEN [rows[o] EXCEPT !.status = "created"] ELSE rows[o]]

(* retireUndispatchedExit for a row that is still "created".               *)
retireUndispatchedExit(r) == [r EXCEPT !.status = "cancelled",
                                       !.op = IF @ = "prepared" THEN "abandoned" ELSE @]

Slot(o) == {p \in Orders : p[1] = o[1] /\ p[2] = o[2]}
LastGeneration(rows, slot) ==
    LET made == {o \in slot : o[3] > 0 /\ rows[o].status # "none"}
    IN  IF made = {} THEN {} ELSE {CHOOSE o \in made : \A p \in made : p[3] <= o[3]}

(* createGeneratedTradingOrder refuses while an order of the role is       *)
(* unresolved, and when a prepared generation differs from the wanted one. *)
generatable(rows, slot, quantity, trigger) ==
    /\ \A o \in Orders : (\E p \in slot : Role(o) = Role(p)) => rows[o].status \notin Unresolved
    /\ \A o \in LastGeneration(rows, slot) :
          rows[o].status = "created" => rows[o].qty = quantity /\ rows[o].trig = trigger

(* The order it returns: the prepared generation, or the next one.         *)
Generation(rows, slot) ==
    LET last == LastGeneration(rows, slot)
        prepared == {o \in last : rows[o].status = "created"}
        next == {o \in slot : o[3] = 1 + (IF last = {} THEN 0 ELSE (CHOOSE p \in last : TRUE)[3])}
    IN  IF prepared # {} THEN prepared ELSE next

Created(quantity, trigger) ==
    [NoRow EXCEPT !.status = "created", !.qty = quantity, !.trig = trigger]

(* The order to send is job.cur; the journal entry is prepared first.      *)
prepareTradingOperation ==
    /\ pc = "prepare"
    /\ row' = [row EXCEPT ![job.cur].op = "prepared"]
    /\ Goto("mark")
    /\ UNCHANGED <<venue, wire, cwire, position, alloc, kill, drain, job, upsets>>

markOrderSubmitting ==
    /\ pc = "mark"
    /\ row[job.cur].status = "created"
    /\ row' = [row EXCEPT ![job.cur].status = "submitting"]
    /\ Goto("dispatch")
    /\ UNCHANGED <<venue, wire, cwire, position, alloc, kill, drain, job, upsets>>

submitOrder ==
    /\ pc = "dispatch"
    /\ row' = [row EXCEPT ![job.cur].op = "dispatching"]
    /\ wire' = wire \cup {job.cur}
    /\ Goto("answer")
    /\ UNCHANGED <<venue, cwire, position, alloc, kill, drain, job, upsets>>

Answered(o) == [row EXCEPT ![o] = [Merged(@, RemoteStatus(o), venue[o].filled) EXCEPT !.op = "acknowledged"]]
Unanswered(o) == [row EXCEPT ![o].status = "unknown", ![o].op = "unresolved"]

(* activateProtectiveStop got its answer.  The replacement is accepted, or *)
(* the trade is flattened.                                                 *)
stopAnswered ==
    /\ pc = "answer" /\ Role(job.cur) = "stop"
    /\ venue[job.cur].status # "absent"
    /\ row' = Answered(job.cur)
    /\ Goto(IF row'[job.cur].status \in Active \cup {"filled"} THEN "record" ELSE "kill")
    /\ UNCHANGED <<venue, wire, cwire, position, alloc, kill, drain, job, upsets>>

(* The position learns its new stop price in a statement of its own.       *)
recordStopPrice ==
    /\ pc = "record"
    /\ position' = [position EXCEPT !.stop = row[job.cur].trig]
    /\ drain' = IF row[job.cur].status = "filled" THEN requestEntryDrain(row) ELSE drain
    /\ EndPass(TRUE)
    /\ UNCHANGED <<row, venue, wire, cwire, alloc, kill, upsets>>

(* Take-profit placement stops at the first target that executes.          *)
targetAnswered ==
    /\ pc = "answer" /\ Role(job.cur) = "tp"
    /\ venue[job.cur].status # "absent"
    /\ row' = Answered(job.cur)
    /\ IF row'[job.cur].status \notin Active \cup {"filled"}
       THEN kill' = TRUE /\ EndReconcile
       ELSE /\ UNCHANGED kill
            /\ IF row'[job.cur].seen > 0
               THEN EndPass(TRUE)
               ELSE job' = [job EXCEPT !.changed = TRUE] /\ Goto("place")
    /\ UNCHANGED <<venue, wire, cwire, position, alloc, drain, upsets>>

(* Whatever the answer, the account stays blocked until reconciled.        *)
reductionAnswered ==
    /\ pc = "answer" /\ Role(job.cur) = "flatten"
    /\ venue[job.cur].status # "absent"
    /\ row' = Answered(job.cur)
    /\ kill' = TRUE
    /\ IF row'[job.cur].status = "filled" THEN EndPass(TRUE) ELSE EndReconcile
    /\ UNCHANGED <<venue, wire, cwire, position, alloc, drain, upsets>>

(* No answer, or a transport error: the outcome is unknown.                *)
submitTrackedOrderFailed ==
    /\ pc = "answer" /\ upsets < MaxUpsets
    /\ upsets' = upsets + 1
    /\ row' = Unanswered(job.cur)
    /\ IF Role(job.cur) = "stop"
       THEN Goto("kill") /\ UNCHANGED <<job, kill>>
       ELSE EndReconcile /\ kill' = TRUE
    /\ UNCHANGED <<venue, wire, cwire, position, alloc, drain>>

-----------------------------------------------------------------------------
(* Cancellations: job.todo holds what is left to cancel.                   *)

CancelThrows ==
    /\ kill' = (kill \/ job.kind \in {"staleStops", "staleTargets"})
    /\ EndReconcile

(* cancelRetryObservation: a repeated attempt needs the still-active proof *)
(* of the previous one, a first attempt a row without a pending wish.      *)
cancelRetryAllowed(o) ==
    \/ row[o].cop = "none" /\ row[o].status # "cancel_pending"
    \/ row[o].cop \in {"prepared", "abandoned", "stillActive"} /\ snap[o].status = "open"

claimCancelAttempt(o) ==
    /\ pc = "cancel" /\ o \in job.todo
    /\ IF budget = 0
       THEN /\ EndReconcile
            /\ UNCHANGED <<row, kill>>
       ELSE IF job.kind = "siblings" /\ row[o].status = "created"
       THEN /\ row' = [row EXCEPT ![o] = retireUndispatchedExit(@)]
            /\ IF job.todo = {o} THEN EndPass(TRUE)
               ELSE /\ job' = [job EXCEPT !.todo = @ \ {o}]
                    /\ budget' = budget - 1
                    /\ UNCHANGED <<pc, snap, pass>>
            /\ UNCHANGED kill
       ELSE IF (job.kind = "siblings" /\ row[o].status \notin Active \cup {"cancel_pending"})
               \/ ~cancelRetryAllowed(o)
       THEN /\ CancelThrows /\ UNCHANGED row
       ELSE /\ row' = [row EXCEPT ![o].cop = "prepared"]
            /\ job' = [job EXCEPT !.cur = o]
            /\ budget' = budget - 1 /\ pc' = "cmark"
            /\ UNCHANGED <<kill, snap, pass>>
    /\ UNCHANGED <<venue, wire, cwire, position, alloc, drain, upsets>>

cancelMarked ==
    /\ pc = "cmark"
    /\ IF row[job.cur].status \in Active \cup Unresolved
       THEN /\ row' = [row EXCEPT ![job.cur].status = "cancel_pending"]
            /\ Goto("csend") /\ UNCHANGED <<job, kill>>
       ELSE /\ row' = [row EXCEPT ![job.cur].cop = "abandoned"]
            /\ CancelThrows
    /\ UNCHANGED <<venue, wire, cwire, position, alloc, drain, upsets>>

-----------------------------------------------------------------------------
(* What protects what.                                                     *)

(* Mutant: only what is already filled is protected.                       *)
requiredStopQuantityFilled(exposure, rows) == exposure

(* requiredStopQuantity: the exposure and whatever the entry may still add.*)
requiredStopQuantity(exposure, rows) ==
    exposure + (IF EntryOpen(rows) THEN rows[Entry].qty - rows[Entry].seen ELSE 0)

(* pendingCancelOrderIds: any cancellation not known to be unsent.         *)
pendingCancel(o) == row[o].status = "cancel_pending" \/ row[o].cop \notin {"none", "abandoned"}

(* protectiveStopCoverage of a stop as the observation shows it.           *)
protectiveStopCoverage(o, quantity, trigger) ==
    /\ snap[o].status = "open"
    /\ row[o].qty - snap[o].filled >= quantity
    /\ row[o].trig >= trigger

hasIndependentProtection(o) ==
    \E s \in Stops \ {o} :
        /\ ~pendingCancel(s)
        /\ protectiveStopCoverage(s, requiredStopQuantity(SnapExposure, row), position.stop)

(* loadOwnershipProof: the net quantity of the stored fills.               *)
ownedQuantity(rows) == rows[Entry].seen - Sum(LAMBDA o : rows[o].seen, Exits)

(* assertExitCancellationSafe, evaluated right before the request is sent. *)
exitCancellationSafe(o) ==
    \/ ownedQuantity(row) = 0 /\ ~EntryOpen(row) /\ SnapExposure = 0
    \/ /\ SnapExposure > 0 /\ SnapExposure = ownedQuantity(row)
       /\ Role(o) = "stop" => hasIndependentProtection(o)

cancelSent ==
    /\ pc = "csend"
    /\ IF exitCancellationSafe(job.cur) /\ snap[job.cur].status = "open"
       THEN /\ row' = [row EXCEPT ![job.cur].cop = "dispatching"]
            /\ cwire' = cwire \cup {job.cur}
            /\ Goto("canswer") /\ UNCHANGED <<job, kill>>
       ELSE /\ row' = [row EXCEPT ![job.cur].cop = "abandoned"]
            /\ UNCHANGED cwire
            /\ CancelThrows
    /\ UNCHANGED <<venue, wire, position, alloc, drain, upsets>>

cancelAnswered ==
    /\ pc = "canswer" /\ job.cur \notin cwire
    /\ row' = [row EXCEPT ![job.cur] =
                 [Merged(@, RemoteStatus(job.cur), venue[job.cur].filled) EXCEPT
                    !.cop = IF Resting(job.cur) THEN "unresolved" ELSE "acknowledged"]]
    /\ IF Resting(job.cur)
       THEN CancelThrows
       ELSE /\ UNCHANGED kill
            /\ IF job.todo = {job.cur}
               THEN EndPass(TRUE)
               ELSE job' = [job EXCEPT !.todo = @ \ {job.cur}] /\ Goto("cancel")
    /\ UNCHANGED <<venue, wire, cwire, position, alloc, drain, upsets>>

cancelFailed ==
    /\ pc = "canswer" /\ upsets < MaxUpsets
    /\ upsets' = upsets + 1
    /\ row' = [row EXCEPT ![job.cur].cop = "unresolved"]
    /\ CancelThrows
    /\ UNCHANGED <<venue, wire, cwire, position, alloc, drain>>

-----------------------------------------------------------------------------
(* loadTakeProfitAllocation: null until the entry is terminal with a fill; *)
(* the first basis divides the entered quantity (the plan's rows are still *)
(* untouched then), later ones rescale the stored totals.                  *)

TargetFilled(rows) ==
    [i \in Targets |-> Sum(LAMBDA o : rows[o].seen, {o \in TPs : o[2] = i})]

AllocationDue(rows) == ~EntryOpen(rows) /\ rows[Entry].seen > 0

Basis(rows) ==
    IF alloc.known THEN alloc.totals
    ELSE allocateTargetQuantities(rows[Entry].seen, Percents, 1)

AllocationFails(rows) ==
    /\ AllocationDue(rows)
    /\ \/ ~alloc.known /\ ~allocatable(rows[Entry].seen, Percents, 1)
       \/ ~resizable(Basis(rows), TargetFilled(rows), ownedQuantity(rows), 1)

loadTakeProfitAllocation(rows) ==
    IF ~AllocationDue(rows) \/ AllocationFails(rows) THEN alloc
    ELSE [known |-> TRUE,
          totals |-> resizeTargetTotals(Basis(rows), TargetFilled(rows), ownedQuantity(rows), 1),
          before |-> TargetFilled(rows),
          completed |-> IF alloc.known
                        THEN completedTargetEvidence(alloc.totals, alloc.before, alloc.completed,
                                                     TargetFilled(rows))
                        ELSE alloc.completed]

(* completedTakeProfitTargets: an unproved allocation blocks the account   *)
(* and does not tighten the stop.                                          *)
completedTargets(rows) ==
    IF ~AllocationDue(rows) \/ AllocationFails(rows) THEN 0
    ELSE Cardinality({i \in Targets : loadTakeProfitAllocation(rows).completed[i]})

-----------------------------------------------------------------------------
(* ensureProtectiveStop.  Triggers: 0 is the planned stop, 1 break-even    *)
(* after the first completed target; a larger trigger is safer.            *)

DurableStops(rows) == {s \in Stops : snap[s].status = "open" /\ ~pendingCancel(s)}

desiredTrigger(rows) ==
    Max({position.stop, IF completedTargets(rows) >= 1 THEN 1 ELSE 0}
        \cup {rows[s].trig : s \in DurableStops(rows)})

ExactStops(rows) ==
    {s \in DurableStops(rows) :
       /\ rows[s].qty - snap[s].filled = requiredStopQuantity(SnapExposure, rows)
       /\ rows[s].trig = desiredTrigger(rows)}

StaleStops(exact) == {s \in Stops : snap[s].status = "open"} \ {exact}

ensureProtectiveStop ==
    /\ pc = "stop"
    /\ LET rows == recoverPreparedExits(row, "stop")
           trigger == desiredTrigger(rows)
           quantity == requiredStopQuantity(SnapExposure, rows)
           slot == Slot(<<"stop", 0, 0>>)
           exact == ExactStops(rows)
       IN  /\ alloc' = loadTakeProfitAllocation(rows)
           /\ kill' = (kill \/ AllocationFails(rows))
           /\ drain' = IF \E s \in Stops : rows[s].status = "filled"
                       THEN requestEntryDrain(rows) ELSE drain
           /\ IF exact # {}
              THEN LET kept == CHOOSE s \in exact : TRUE
                   IN  /\ row' = rows
                       /\ position' = [position EXCEPT !.stop = trigger]
                       /\ IF StaleStops(kept) = {}
                          THEN Goto("targets") /\ UNCHANGED job
                          ELSE /\ job' = [NoJob EXCEPT !.kind = "staleStops", !.todo = StaleStops(kept)]
                               /\ Goto("cancel")
              ELSE /\ UNCHANGED position
                   /\ IF generatable(rows, slot, quantity, trigger)
                      THEN \E s \in Generation(rows, slot) :
                             /\ row' = [rows EXCEPT ![s] = IF rows[s].status = "created" THEN @
                                                           ELSE Created(quantity, trigger)]
                             /\ job' = [NoJob EXCEPT !.kind = "send", !.cur = s]
                             /\ Goto("prepare")
                      ELSE row' = rows /\ Goto("kill") /\ UNCHANGED job
    /\ UNCHANGED <<venue, wire, cwire, upsets>>

(* The entry filled far from its plan: flatten (assertTerminalEntrySlippage).*)
slippageExceeded ==
    /\ pc = "stop" /\ upsets < MaxUpsets
    /\ ~EntryOpen(row)
    /\ upsets' = upsets + 1
    /\ Goto("kill")
    /\ UNCHANGED <<row, venue, wire, cwire, position, alloc, kill, drain, job>>

-----------------------------------------------------------------------------
(* emergencyFlatten: block the account, store the request, read again,     *)
(* reduce.  The failure that led here is rethrown: no further pass.        *)

activateAccountKillSwitch ==
    /\ pc = "kill"
    /\ kill' = TRUE
    /\ pc' = "request" /\ job' = NoJob /\ pass' = 3
    /\ UNCHANGED <<row, venue, wire, cwire, position, alloc, drain, snap, budget, upsets>>

requestEmergencyExit ==
    /\ pc = "request"
    /\ position' = [position EXCEPT !.status = "emergency", !.emergency = TRUE]
    /\ drain' = requestEntryDrain(row)
    /\ Goto("drain")
    /\ UNCHANGED <<row, venue, wire, cwire, alloc, kill, job, upsets>>

(* emergencyFlattenManaged by an operator, between reconciliations.        *)
operatorEmergency ==
    /\ pc = "idle" /\ upsets < MaxUpsets
    /\ position.status \in {"opening", "open"}
    /\ upsets' = upsets + 1
    /\ kill' = TRUE
    /\ position' = [position EXCEPT !.status = "emergency", !.emergency = TRUE]
    /\ drain' = requestEntryDrain(row)
    /\ UNCHANGED <<row, venue, wire, cwire, alloc, pc, snap, job, pass, budget>>

LastFlatten(rows) == LastGeneration(rows, Flattens)

(* prepareEmergencyReduction: nothing while the last reduction could still *)
(* execute; the ten-second cooldown of a rejected one is over by now.      *)
reductionAllowed(rows) ==
    \A f \in LastFlatten(rows) :
        /\ rows[f].status \notin Unresolved \cup Active
        /\ rows[f].status = "filled" => rows[f].seen = rows[f].qty

submitEmergencyReduction ==
    /\ pc = "flatten"
    /\ LET recovered == recoverPreparedExits(row, "flatten")
           stale == {f \in LastFlatten(recovered) : recovered[f].status = "created"
                                                    /\ recovered[f].qty # SnapExposure}
           rows == [o \in Orders |-> IF o \in stale THEN retireUndispatchedExit(recovered[o]) ELSE recovered[o]]
       IN  IF ~reductionAllowed(recovered) \/ ~generatable(rows, Flattens, SnapExposure, 0)
           THEN /\ row' = recovered /\ kill' = TRUE /\ EndReconcile
           ELSE \E f \in Generation(rows, Flattens) :
                  /\ row' = [rows EXCEPT ![f] = IF rows[f].status = "created" THEN @
                                                ELSE Created(SnapExposure, 0)]
                  /\ job' = [NoJob EXCEPT !.kind = "send", !.cur = f]
                  /\ Goto("prepare") /\ UNCHANGED kill
    /\ UNCHANGED <<venue, wire, cwire, position, alloc, drain, upsets>>

-----------------------------------------------------------------------------
(* ensureTakeProfitCoverage.                                               *)

LiveTargets(rows, i) == {o \in TPs : o[2] = i /\ rows[o].status \in Active}
Covered(rows, i) ==
    TargetFilled(rows)[i] + Sum(LAMBDA o : rows[o].qty - rows[o].seen, LiveTargets(rows, i))

staleTargets(rows, totals) ==
    UNION {LiveTargets(rows, i) : i \in {j \in Targets : Covered(rows, j) # totals[j]}}

ensureTakeProfitCoverage ==
    /\ pc = "targets"
    /\ LET rows == recoverPreparedExits(row, "tp")
           next == loadTakeProfitAllocation(rows)
           pending == {o \in TPs : rows[o].status = "cancel_pending"}
       IN  /\ row' = rows
           /\ IF ~AllocationDue(rows)
              THEN EndPass(FALSE) /\ UNCHANGED alloc
              ELSE IF AllocationFails(rows)
              THEN EndReconcile /\ UNCHANGED alloc
              ELSE /\ alloc' = next
                   /\ IF \E o \in TPs : rows[o].status \in {"submitting", "unknown"}
                      THEN EndReconcile
                      ELSE IF pending # {}
                      THEN job' = [NoJob EXCEPT !.kind = "resume", !.todo = pending] /\ Goto("cancel")
                      ELSE IF staleTargets(rows, next.totals) # {}
                      THEN /\ job' = [NoJob EXCEPT !.kind = "staleTargets",
                                                   !.todo = staleTargets(rows, next.totals)]
                           /\ Goto("cancel")
                      ELSE job' = [NoJob EXCEPT !.kind = "send"] /\ Goto("place")
    /\ UNCHANGED <<venue, wire, cwire, position, kill, drain, upsets>>

(* submitAllocatedTargets, one target: a matching prepared row is reused,  *)
(* any other prepared row of the target is retired.                        *)
submitAllocatedTarget ==
    /\ pc = "place"
    /\ LET open == {i \in Targets : /\ Covered(row, i) # alloc.totals[i]
                                   /\ alloc.totals[i] > TargetFilled(row)[i]}
       IN  IF open = {}
           THEN /\ EndPass(job.changed) /\ UNCHANGED row
           ELSE LET i == CHOOSE k \in open : \A l \in open : k <= l
                    wanted == alloc.totals[i] - TargetFilled(row)[i]
                    prepared == {o \in TPs : o[2] = i /\ row[o].status = "created"}
                    same == {o \in prepared : row[o].qty = wanted}
                    reused == IF same = {} THEN {} ELSE {CHOOSE o \in same : \A p \in same : o[3] <= p[3]}
                    rows == [o \in Orders |-> IF o \in prepared \ reused
                                              THEN retireUndispatchedExit(row[o]) ELSE row[o]]
                IN  \E o \in IF reused # {} THEN reused ELSE Generation(rows, Slot(<<"tp", i, 0>>)) :
                      /\ row' = [rows EXCEPT ![o] = IF o \in reused THEN @ ELSE Created(wanted, 0)]
                      /\ job' = [job EXCEPT !.cur = o]
                      /\ Goto("prepare")
    /\ UNCHANGED <<venue, wire, cwire, position, alloc, kill, drain, upsets>>

-----------------------------------------------------------------------------
(* reconcileMissingRemotePosition: the observation shows no position.      *)

OpenSiblings == {o \in Exits : row[o].status \notin TerminalOrder \cup {"none"}}
OperationsResolved == \A o \in Orders : {row[o].op, row[o].cop} \cap {"dispatching", "unresolved"} = {}

reconcileMissingRemotePosition ==
    /\ pc = "missing"
    /\ IF EntryOpen(row)
       THEN /\ drain' = IF row[Entry].seen > 0 THEN requestEntryDrain(row) ELSE drain
            /\ IF row[Entry].seen > 0 THEN EndReconcile ELSE EndPass(FALSE)
            /\ UNCHANGED position
       ELSE /\ UNCHANGED drain
            /\ IF OpenSiblings # {}
               THEN /\ job' = [NoJob EXCEPT !.kind = "siblings", !.todo = OpenSiblings]
                    /\ Goto("cancel") /\ UNCHANGED position
               ELSE IF ~OperationsResolved
               THEN EndReconcile /\ UNCHANGED position
               ELSE position' = [position EXCEPT !.status = "closed"] /\ EndPass(FALSE)
    /\ UNCHANGED <<row, venue, wire, cwire, alloc, kill, upsets>>

Crash ==
    /\ pc # "idle" /\ upsets < MaxUpsets
    /\ upsets' = upsets + 1
    /\ EndReconcile
    /\ UNCHANGED <<row, venue, wire, cwire, position, alloc, kill, drain>>

EngineStep ==
    \/ reconcileAccountOwned \/ drainRequestedEntriesOwned \/ applyRemoteState
    \/ prepareTradingOperation \/ markOrderSubmitting \/ submitOrder
    \/ stopAnswered \/ recordStopPrice \/ targetAnswered \/ reductionAnswered \/ submitTrackedOrderFailed
    \/ \E o \in Orders : claimCancelAttempt(o)
    \/ cancelMarked \/ cancelSent \/ cancelAnswered \/ cancelFailed
    \/ ensureProtectiveStop \/ slippageExceeded \/ activateAccountKillSwitch \/ requestEmergencyExit
    \/ submitEmergencyReduction \/ ensureTakeProfitCoverage \/ submitAllocatedTarget
    \/ reconcileMissingRemotePosition

Next ==
    \/ EngineStep
    \/ operatorEmergency
    \/ Crash
    \/ \E o \in Orders : VenueFill(o) \/ VenueAccepts(o) \/ VenueRefuses(o) \/ VenueCancels(o) \/ RequestLost(o)

Spec == Init /\ [][Next]_vars

-----------------------------------------------------------------------------
(* Whatever the trade holds, or may still acquire through its entry, is    *)
(* covered by one stop resting at the venue that is at least as large: no  *)
(* replacement, resize, cancellation, crash or lost answer opens a gap     *)
(* (ensureProtectiveStop, assertExitCancellationSafe).                     *)
CoverageNeverLapses ==
    Exposure + EntryRemainder > 0 =>
        \E s \in Stops : Resting(s) /\ row[s].qty - Filled(s) >= Exposure + EntryRemainder

(* No exit is placed twice, however often a request is repeated after      *)
(* timeouts and restarts: at most one emergency reduction can still        *)
(* execute, and the targets -- executed, resting and under way together -- *)
(* never exceed what the entry bought.                                     *)
ExitsAreNotRepeated ==
    /\ Cardinality({f \in Flattens : f \in wire \/ row[f].status \in {"submitting", "unknown"}}) <= 1
    /\ Sum(LAMBDA o : IF o \in wire THEN row[o].qty
                      ELSE IF Resting(o) THEN row[o].qty ELSE Filled(o), TPs) <= Filled(Entry)

(* A trade is closed only when the venue holds nothing of it and nothing   *)
(* of it can still execute (reconcileMissingRemotePosition).               *)
ClosedIsFinished ==
    position.status = "closed" =>
        /\ Exposure = 0
        /\ wire = {}
        /\ \A o \in Orders : ~Resting(o)

TypeOK ==
    /\ \A o \in Orders :
          /\ row[o].status \in ORDER_STATUSES \cup {"none"}
          /\ row[o].seen <= row[o].qty
          /\ row[o].seen <= Filled(o)
    /\ position.status \in {"opening", "open", "emergency", "closed"}
    /\ budget \in 0..MaxCancelAttempts
    /\ pass \in 1..3
    /\ Exposure \in Nat

=============================================================================
