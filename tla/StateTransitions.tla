-------------------------- MODULE StateTransitions --------------------------
(***************************************************************************)
(* The pure transition rules of trading_state_transitions.ts: which status *)
(* an intent may take next, and how one piece of order evidence (a write   *)
(* acknowledgement, a snapshot row or a history row) is merged into the    *)
(* stored order.  Quantities are natural numbers of the smallest unit; the *)
(* decimal strings of the code are compared exactly (trading_decimal.ts).  *)
(***************************************************************************)
EXTENDS Naturals

IntentStatus == {"pending", "planned", "submitting", "monitoring", "unknown",
                 "completed", "blocked", "failed"}

SettledIntent == {"completed", "blocked", "failed"}

(* INTENT_TRANSITIONS; a status outside the table has no successor.        *)
INTENT_TRANSITIONS ==
    [pending    |-> {"planned", "blocked", "failed", "unknown"},
     planned    |-> {"submitting", "blocked", "failed", "unknown"},
     submitting |-> {"monitoring", "completed", "blocked", "failed", "unknown"},
     monitoring |-> {"completed", "blocked", "failed", "unknown"},
     unknown    |-> {"monitoring", "completed", "blocked", "failed"},
     completed  |-> {},
     blocked    |-> {},
     failed     |-> {}]

canTransitionIntent(current, next) ==
    /\ current \in IntentStatus
    /\ next \in IntentStatus
    /\ current = next \/ next \in INTENT_TRANSITIONS[current]

ORDER_STATUSES == {"created", "submitting", "open", "partially_filled",
                   "cancel_pending", "filled", "cancelled", "rejected", "unknown"}

TerminalOrder == {"filled", "cancelled", "rejected"}

rejectedWithExecution(current, incoming, filled) ==
    "rejected" \in {current, incoming} /\ filled > 0

(* Applied to evidence that is not terminal: a pending cancellation is     *)
(* kept, uncertainty is taken over, any execution shows as partial.        *)
heldOrPartialStatus(current, incoming, filled) ==
    IF current = "cancel_pending" THEN current
    ELSE IF incoming \in {"unknown", "cancel_pending"} THEN incoming
    ELSE IF filled > 0 THEN "partially_filled"
    ELSE IF incoming \in {"created", "submitting"} /\ current # "created"
    THEN current
    ELSE incoming

(* Mutant: the latest answer wins over a settled status.                   *)
mergedStatusLatestWins(current, incoming, filled, quantity) ==
    IF incoming \in TerminalOrder THEN incoming
    ELSE heldOrPartialStatus(current, incoming, filled)

mergedStatus(current, incoming, filled, quantity) ==
    IF current \in {"filled", "rejected"} THEN current
    ELSE IF current = "cancelled"
    THEN IF incoming = "filled" /\ filled = quantity THEN "filled" ELSE current
    ELSE IF incoming \in TerminalOrder THEN incoming
    ELSE heldOrPartialStatus(current, incoming, filled)

selectedFilledQuantity(previous, reported) ==
    IF previous >= reported THEN previous ELSE reported

(***************************************************************************)
(* A stored order is [status, quantity, filled, averaged]; evidence is     *)
(* [status, reported, filled, averaged].  averaged stands for the average  *)
(* price: the cumulative quantity that price is the average of, 0 for      *)
(* null.  reported = FALSE is a null filledQuantity.                       *)
(***************************************************************************)
reportedQuantity(order, evidence) ==
    IF evidence.reported THEN evidence.filled ELSE order.filled

incomingAverageWins(order, evidence) ==
    evidence.reported /\ evidence.filled >= order.filled

(* Mutant: any reported average price replaces the stored one.             *)
selectedAverageAlways(order, evidence) ==
    IF evidence.averaged # 0 THEN evidence.averaged ELSE order.averaged

selectedAverage(order, evidence) ==
    IF incomingAverageWins(order, evidence) /\ evidence.averaged # 0
    THEN evidence.averaged
    ELSE order.averaged

(* mergeOrderEvidence throws, and stores nothing, unless mergeable holds.  *)
mergeable(order, evidence) ==
    LET filled == selectedFilledQuantity(order.filled, reportedQuantity(order, evidence))
    IN  /\ filled <= order.quantity
        /\ ~rejectedWithExecution(order.status, evidence.status, filled)

mergeOrderEvidence(order, evidence) ==
    LET filled == selectedFilledQuantity(order.filled, reportedQuantity(order, evidence))
    IN  [order EXCEPT
           !.status = mergedStatus(order.status, evidence.status, filled, order.quantity),
           !.filled = filled,
           !.averaged = selectedAverage(order, evidence)]
=============================================================================
