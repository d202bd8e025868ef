---------------------------- MODULE OrderEvidence ----------------------------
(***************************************************************************)
(* One exchange order and its stored row (trading_orders).  The venue      *)
(* executes the order; what it reports about it -- acknowledgements, open  *)
(* order listings, history pages -- reaches persistOrderEvidence           *)
(* (trading_order_repository.ts) late, out of order, more than once or     *)
(* never.  The engine marks the row itself around its writes, and settles  *)
(* one its journal proves unsent without asking the venue                  *)
(* (trading_recovery.ts).                                                  *)
(***************************************************************************)
EXTENDS StateTransitions, TLAPS

CONSTANT Quantity   \* the ordered quantity, in smallest units

ASSUME QuantityAssumption == Quantity \in Nat \ {0}

VARIABLES
    order,      \* the stored row
    sent,       \* its journal entry may have been dispatched
    venue,      \* the order at the venue
    history,    \* the states the venue reported from: any may still arrive
    best,       \* ghost: the largest execution delivered so far
    sawTerminal \* ghost: a terminal status was delivered, or the plan abandoned

vars == <<order, sent, venue, history, best, sawTerminal>>

VenueOrder == [status : {"absent", "open", "partially_filled", "filled",
                         "cancelled", "rejected"},
               filled : 0..Quantity]

Order == [status : ORDER_STATUSES, quantity : {Quantity},
          filled : 0..Quantity, averaged : 0..Quantity]

(* Every variable keeps its type: in particular a row never holds more     *)
(* than the ordered quantity (the checks of persistOrderEvidence).         *)
TypeOK ==
    /\ order \in Order
    /\ sent \in BOOLEAN
    /\ venue \in VenueOrder
    /\ history \in SUBSET VenueOrder
    /\ best \in 0..Quantity
    /\ sawTerminal \in BOOLEAN

Init ==
    /\ order = [status |-> "created", quantity |-> Quantity, filled |-> 0, averaged |-> 0]
    /\ sent = FALSE
    /\ venue = [status |-> "absent", filled |-> 0]
    /\ history = {}
    /\ best = 0
    /\ sawTerminal = FALSE

-----------------------------------------------------------------------------
(* The engine's own marks.                                                 *)

markAs(from, to) ==
    /\ order.status \in from
    /\ order' = [order EXCEPT !.status = to]
    /\ UNCHANGED <<sent, venue, history, best, sawTerminal>>

markOrderSubmitting == markAs({"created"}, "submitting")

(* runJournaledExchangeWrite: the entry leaves prepared, then the request  *)
(* leaves.  A process that dies in between leaves what looks sent; one     *)
(* that fails its last fence abandons the entry, which is as if unsent.    *)
runJournaledExchangeWrite ==
    /\ order.status = "submitting" /\ ~sent
    /\ sent' = TRUE
    /\ UNCHANGED <<order, venue, history, best, sawTerminal>>

(* hasUndispatchedPlanProof: only the journal tells, no remote lookup.     *)
recoverUndispatchedPlan == ~sent /\ markAs({"submitting"}, "created")

abandonUndispatchedPlan ==
    /\ ~sent /\ order.status \in {"created", "submitting"}
    /\ order' = [order EXCEPT !.status = "cancelled"]
    /\ sawTerminal' = TRUE
    /\ UNCHANGED <<sent, venue, history, best>>

(* beforeDispatch of cancelTrackedOrder.                                   *)
cancelTrackedOrder ==
    markAs({"open", "partially_filled", "submitting", "unknown", "cancel_pending"},
         "cancel_pending")

(* submitTrackedOrder failed after the request was handed off.             *)
submitTrackedOrderFailed == sent /\ markAs({"submitting", "unknown"}, "unknown")

(* A failed cancellation of an entry.                                      *)
cancelEntryRowFailed ==
    markAs({"submitting", "open", "partially_filled", "cancel_pending", "unknown"}, "unknown")

(* persistOrderEvidence: evidence the merge rejects changes nothing.       *)
persistOrderEvidence(evidence) ==
    /\ mergeable(order, evidence)
    /\ order' = mergeOrderEvidence(order, evidence)
    /\ best' = IF evidence.reported /\ evidence.filled > best THEN evidence.filled ELSE best
    /\ sawTerminal' = (sawTerminal \/ evidence.status \in TerminalOrder)
    /\ UNCHANGED <<sent, venue, history>>

-----------------------------------------------------------------------------
(* The venue.  A fill can surface after the cancellation ("cancelled       *)
(* orders can acquire late fills").                                        *)

(* What an answer about venue state v looks like: the status or an unclear *)
(* one, with or without the cumulative quantity and the average price.     *)
answers(v) ==
    {[status |-> s, reported |-> r, filled |-> IF r THEN v.filled ELSE 0,
      averaged |-> IF r /\ p THEN v.filled ELSE 0] :
         s \in {v.status, "unknown", "cancel_pending"}, r \in BOOLEAN, p \in BOOLEAN}

venueMove(v) ==
    /\ venue' = v
    /\ history' = history \cup {v}
    /\ UNCHANGED <<order, sent, best, sawTerminal>>

venueAccepts ==
    /\ venue.status = "absent" /\ sent
    /\ \E s \in {"open", "rejected"} : venueMove([venue EXCEPT !.status = s])

venueExecutes ==
    /\ venue.status \in {"open", "partially_filled", "cancelled"}
    /\ venue.filled < Quantity
    /\ LET n == venue.filled + 1
       IN  venueMove([status |-> IF n = Quantity THEN "filled"
                                 ELSE IF venue.status = "cancelled" THEN "cancelled"
                                 ELSE "partially_filled",
                      filled |-> n])

venueCancels ==
    /\ venue.status \in {"open", "partially_filled"}
    /\ venueMove([venue EXCEPT !.status = "cancelled"])

Next ==
    \/ markOrderSubmitting
    \/ runJournaledExchangeWrite
    \/ recoverUndispatchedPlan
    \/ abandonUndispatchedPlan
    \/ cancelTrackedOrder
    \/ submitTrackedOrderFailed
    \/ cancelEntryRowFailed
    \/ \E v \in history : \E evidence \in answers(v) : persistOrderEvidence(evidence)
    \/ venueAccepts
    \/ venueExecutes
    \/ venueCancels

Spec == Init /\ [][Next]_vars

-----------------------------------------------------------------------------
(* The row never claims more than the venue did: no more execution, and no *)
(* terminal status the venue never had.  The one the engine decides        *)
(* itself, abandonUndispatchedPlan, is of an order that never left and     *)
(* that the venue therefore never gets.                                    *)
NoOverclaim ==
    /\ order.filled <= venue.filled
    /\ order.averaged <= order.filled
    /\ order.status \in {"filled", "rejected"} => venue.status = order.status
    /\ order.status = "cancelled" /\ sent => \E v \in history : v.status = "cancelled"
    /\ ~sent => venue.status = "absent"

(* What was delivered decides, not the order it arrived in: the row holds  *)
(* the largest execution ever delivered, and is terminal exactly when some *)
(* delivered answer was or the unsent plan was abandoned, whatever older   *)
(* answers or failed writes follow.                                        *)
OrderIndependent ==
    /\ order.filled = best
    /\ order.status \in TerminalOrder <=> sawTerminal

(* No true answer is refused, however late: mergeOrderEvidence throwing on *)
(* one would make every later reconciliation of the account fail.          *)
HonestAnswersMerge ==
    \A v \in history : \A evidence \in answers(v) : mergeable(order, evidence)

(* A step never loses execution, never replaces an average price by that   *)
(* of a smaller execution, and leaves a terminal status only from          *)
(* cancelled to filled on proof of full execution.                         *)
SettledOrdersStay ==
    [][/\ order'.filled >= order.filled
       /\ order'.averaged >= order.averaged
       /\ order.status \in TerminalOrder /\ order'.status # order.status
            => order.status = "cancelled" /\ order'.status = "filled"
               /\ order'.filled = Quantity]_vars

-----------------------------------------------------------------------------
(* What the venue reported stays true of it: its execution only grows, a   *)
(* rejected order never executes, and a full or cancelled one stays so.    *)
VenueAgrees ==
    /\ venue.status = "absent" => history = {} /\ venue.filled = 0
    /\ venue.status \in {"open", "rejected"} => venue.filled = 0
    /\ venue.filled = Quantity <=> venue.status = "filled"
    /\ \A v \in history :
         /\ v.filled <= venue.filled
         /\ v.status # "absent"
         /\ "rejected" \in {v.status, venue.status} => venue.status = v.status
         /\ v.status = "filled" => venue.status = "filled"
         /\ v.status = "filled" <=> v.filled = Quantity
         /\ v.status = "cancelled" => venue.status \in {"cancelled", "filled"}

(* The inductive invariant of the row.                                     *)
EvidenceInv == TypeOK /\ VenueAgrees /\ NoOverclaim /\ OrderIndependent

\* An answer about a reported state claims no more than that state
\* (the answers of the venue to persistOrderEvidence).
LEMMA AnswersClaim ==
  ASSUME TypeOK, NEW v \in history, NEW evidence \in answers(v)
  PROVE  /\ evidence.status \in {v.status, "unknown", "cancel_pending"}
         /\ evidence.reported \in BOOLEAN
         /\ evidence.filled \in 0..Quantity /\ evidence.averaged \in 0..Quantity
         /\ evidence.reported => evidence.filled = v.filled /\ evidence.averaged \in {0, v.filled}
         /\ ~evidence.reported => evidence.filled = 0 /\ evidence.averaged = 0
         /\ v \in VenueOrder
<1>1. v \in VenueOrder /\ v.filled \in 0..Quantity
  BY DEF TypeOK, VenueOrder
<1>2. PICK s \in {v.status, "unknown", "cancel_pending"}, r \in BOOLEAN, p \in BOOLEAN :
        evidence = [status |-> s, reported |-> r, filled |-> IF r THEN v.filled ELSE 0,
                    averaged |-> IF r /\ p THEN v.filled ELSE 0]
  BY DEF answers
<1>3. 0 \in 0..Quantity
  BY QuantityAssumption
<1> QED
  BY <1>1, <1>2, <1>3

\* The merged status is terminal exactly when one of the two was, and a
\* terminal one changes only from cancelled to filled on full execution
\* (mergeOrderEvidence).
LEMMA MergedStatusSettles ==
  ASSUME NEW current \in ORDER_STATUSES, NEW incoming \in ORDER_STATUSES, NEW filled, NEW quantity
  PROVE  LET merged == mergedStatus(current, incoming, filled, quantity)
         IN  /\ merged \in ORDER_STATUSES
             /\ merged \in TerminalOrder <=> current \in TerminalOrder \/ incoming \in TerminalOrder
             /\ merged \in TerminalOrder => merged \in {current, incoming}
             /\ current \in TerminalOrder /\ merged # current
                  => current = "cancelled" /\ merged = "filled" /\ filled = quantity
  BY DEF mergedStatus, heldOrPartialStatus, ORDER_STATUSES, TerminalOrder

\* No true answer is refused, however late it arrives (mergeOrderEvidence
\* throws on an impossible one only).
LEMMA HonestMerges ==
  ASSUME EvidenceInv, NEW v \in history, NEW evidence \in answers(v)
  PROVE  mergeable(order, evidence)
<1>1. /\ order.filled \in 0..Quantity /\ order.quantity = Quantity /\ venue.filled \in 0..Quantity
      /\ order.status \in ORDER_STATUSES
  BY DEF EvidenceInv, TypeOK, Order, VenueOrder
<1>2. /\ evidence.status \in {v.status, "unknown", "cancel_pending"}
      /\ evidence.reported => evidence.filled = v.filled
      /\ evidence.reported \in BOOLEAN /\ v.filled \in 0..Quantity
  BY AnswersClaim DEF EvidenceInv, VenueOrder
<1>3. /\ v.filled <= venue.filled /\ order.filled <= venue.filled
      /\ "rejected" \in {order.status, evidence.status} => venue.filled = 0
  BY <1>2 DEF EvidenceInv, VenueAgrees, NoOverclaim
<1> DEFINE filled == selectedFilledQuantity(order.filled, reportedQuantity(order, evidence))
<1>4. filled \in Nat /\ filled <= venue.filled
  BY <1>1, <1>2, <1>3 DEF selectedFilledQuantity, reportedQuantity
<1>5. mergeable(order, evidence) <=>
        filled <= order.quantity /\ ~("rejected" \in {order.status, evidence.status} /\ filled > 0)
  BY DEF mergeable, rejectedWithExecution
<1> HIDE DEF filled
<1> QED
  BY <1>1, <1>3, <1>4, <1>5, QuantityAssumption

\* What persistOrderEvidence leaves in the row: the larger execution, an average
\* price of it, and a status the row or the answer had.
LEMMA MergedRow ==
  ASSUME EvidenceInv, NEW v \in history, NEW evidence \in answers(v),
         persistOrderEvidence(evidence)
  PROVE  /\ order'.filled = IF evidence.reported /\ v.filled > order.filled THEN v.filled ELSE order.filled
         /\ order'.averaged \in {order.averaged, v.filled}
         /\ order'.averaged # order.averaged => order'.filled = v.filled
         /\ order'.averaged <= order'.filled
         /\ order'.averaged >= order.averaged
         /\ order'.quantity = Quantity
         /\ order'.status = mergedStatus(order.status, evidence.status, order'.filled, Quantity)
         /\ order' = [status |-> order'.status, quantity |-> order'.quantity,
                      filled |-> order'.filled, averaged |-> order'.averaged]
<1> DEFINE filled == selectedFilledQuantity(order.filled, reportedQuantity(order, evidence))
<1>1. /\ order \in Order /\ order.filled \in 0..Quantity /\ order.averaged \in 0..Quantity
      /\ order.averaged <= order.filled /\ order.quantity = Quantity
  BY DEF EvidenceInv, TypeOK, Order, NoOverclaim
<1>2. /\ evidence.reported \in BOOLEAN /\ v.filled \in 0..Quantity
      /\ evidence.reported => evidence.filled = v.filled /\ evidence.averaged \in {0, v.filled}
      /\ ~evidence.reported => evidence.averaged = 0
  BY AnswersClaim DEF EvidenceInv, VenueOrder
<1>3. order' = [order EXCEPT
                  !.status = mergedStatus(order.status, evidence.status, filled, order.quantity),
                  !.filled = filled, !.averaged = selectedAverage(order, evidence)]
  BY DEF persistOrderEvidence, mergeOrderEvidence
<1>4. /\ order'.filled = filled /\ order'.averaged = selectedAverage(order, evidence)
      /\ order'.quantity = order.quantity
      /\ order'.status = mergedStatus(order.status, evidence.status, filled, order.quantity)
      /\ order' = [status |-> order'.status, quantity |-> order'.quantity,
                   filled |-> order'.filled, averaged |-> order'.averaged]
  BY <1>1, <1>3 DEF Order
<1>5. filled = IF evidence.reported /\ v.filled > order.filled THEN v.filled ELSE order.filled
  BY <1>1, <1>2 DEF selectedFilledQuantity, reportedQuantity
<1>6. /\ order'.averaged \in {order.averaged, v.filled}
      /\ order'.averaged # order.averaged => order'.filled = v.filled
      /\ order'.averaged <= order'.filled
      /\ order'.averaged >= order.averaged
  BY <1>1, <1>2, <1>4, <1>5 DEF selectedAverage, incomingAverageWins
<1> QED
  BY <1>1, <1>4, <1>5, <1>6

\* The engine's own marks leave the execution alone and never set, or leave, a
\* terminal status (markOrderSubmitting, cancelTrackedOrder, cancelEntryRow).
LEMMA MarksKeep ==
  ASSUME EvidenceInv, NEW from, from \subseteq ORDER_STATUSES \ TerminalOrder,
         NEW to \in ORDER_STATUSES \ TerminalOrder, markAs(from, to)
  PROVE  /\ EvidenceInv'
         /\ order.status \notin TerminalOrder
         /\ order'.filled = order.filled /\ order'.averaged = order.averaged
<1>1. order' = [order EXCEPT !.status = to] /\ UNCHANGED <<sent, venue, history, best, sawTerminal>>
  BY DEF markAs
<1>2. /\ order.status \notin TerminalOrder /\ order'.status = to
      /\ order'.filled = order.filled /\ order'.averaged = order.averaged
  BY <1>1 DEF markAs, EvidenceInv, TypeOK, Order
<1>3. TypeOK'
  BY <1>1 DEF EvidenceInv, TypeOK, Order
<1>4. VenueAgrees'
  BY <1>1 DEF EvidenceInv, VenueAgrees
<1>5. NoOverclaim' /\ OrderIndependent'
  BY <1>1, <1>2 DEF EvidenceInv, NoOverclaim, OrderIndependent, TerminalOrder
<1> QED
  BY <1>2, <1>3, <1>4, <1>5 DEF EvidenceInv

\* A move of the venue keeps what it reported before true of it.
LEMMA VenueKeeps ==
  ASSUME EvidenceInv, venueAccepts \/ venueExecutes \/ venueCancels
  PROVE  EvidenceInv' /\ UNCHANGED order
<1>0. /\ venue.status \in {"absent", "open", "partially_filled", "filled", "cancelled", "rejected"}
      /\ venue.filled \in 0..Quantity /\ order.filled \in 0..Quantity
      /\ \A v \in history : v \in VenueOrder /\ v.filled \in 0..Quantity
  BY DEF EvidenceInv, TypeOK, VenueOrder, Order
<1>1. /\ history' = history \cup {venue'} /\ UNCHANGED <<order, sent, best, sawTerminal>>
      /\ sent
      /\ venue' \in VenueOrder
      /\ venue'.filled \in {venue.filled, venue.filled + 1}
      /\ \/ /\ venue.status = "absent" /\ venue'.status \in {"open", "rejected"}
            /\ venue'.filled = venue.filled
         \/ /\ venue.status \in {"open", "partially_filled", "cancelled"}
            /\ venue'.filled = venue.filled + 1
            /\ venue'.status = IF venue'.filled = Quantity THEN "filled"
                               ELSE IF venue.status = "cancelled" THEN "cancelled"
                               ELSE "partially_filled"
         \/ /\ venue.status \in {"open", "partially_filled"} /\ venue'.status = "cancelled"
            /\ venue'.filled = venue.filled
  <2>1. CASE venueAccepts
    BY <1>0, <2>1 DEF venueAccepts, venueMove, EvidenceInv, TypeOK, VenueOrder
  <2>2. CASE venueExecutes
    <3> DEFINE n == venue.filled + 1
               s == IF n = Quantity THEN "filled"
                    ELSE IF venue.status = "cancelled" THEN "cancelled" ELSE "partially_filled"
    <3>1. venue' = [status |-> s, filled |-> n] /\ n \in 0..Quantity
      BY <1>0, <2>2, QuantityAssumption DEF venueExecutes, venueMove
    <3> QED
      BY <1>0, <2>2, <3>1 DEF venueExecutes, venueMove, VenueOrder, EvidenceInv, NoOverclaim
  <2>3. CASE venueCancels
    BY <1>0, <2>3 DEF venueCancels, venueMove, EvidenceInv, TypeOK, VenueOrder, NoOverclaim
  <2> QED
    BY <2>1, <2>2, <2>3
<1>2. TypeOK'
  BY <1>1 DEF EvidenceInv, TypeOK
<1>3. venue'.filled >= venue.filled
  BY <1>0, <1>1
<1>4. VenueAgrees'
  <2>1. /\ venue'.status = "absent" => history' = {} /\ venue'.filled = 0
        /\ venue'.status \in {"open", "rejected"} => venue'.filled = 0
        /\ venue'.filled = Quantity <=> venue'.status = "filled"
    BY <1>0, <1>1, QuantityAssumption DEF EvidenceInv, VenueAgrees
  <2>2. ASSUME NEW v \in history
        PROVE  /\ v.filled <= venue'.filled
               /\ v.status # "absent"
               /\ "rejected" \in {v.status, venue'.status} => venue'.status = v.status
               /\ v.status = "filled" => venue'.status = "filled"
               /\ v.status = "filled" <=> v.filled = Quantity
               /\ v.status = "cancelled" => venue'.status \in {"cancelled", "filled"}
    BY <1>0, <1>1, <1>3 DEF EvidenceInv, VenueAgrees
  <2>3. venue'.status # "absent"
    BY <1>1
  <2> QED
    BY <1>0, <1>1, <2>1, <2>2, <2>3 DEF VenueAgrees
<1>5. NoOverclaim' /\ OrderIndependent'
  BY <1>0, <1>1, <1>3 DEF EvidenceInv, NoOverclaim, OrderIndependent, VenueAgrees
<1> QED
  BY <1>1, <1>2, <1>4, <1>5 DEF EvidenceInv

\* Storing an answer keeps the row honest, and complete: the largest execution
\* delivered, terminal exactly when an answer was (persistOrderEvidence).
LEMMA MergeKeeps ==
  ASSUME EvidenceInv, NEW v \in history, NEW evidence \in answers(v),
         persistOrderEvidence(evidence)
  PROVE  EvidenceInv'
<1>1. /\ UNCHANGED <<sent, venue, history>>
      /\ best' = IF evidence.reported /\ evidence.filled > best THEN evidence.filled ELSE best
      /\ sawTerminal' = (sawTerminal \/ evidence.status \in TerminalOrder)
  BY DEF persistOrderEvidence
<1>2. /\ order.filled \in 0..Quantity /\ order.averaged \in 0..Quantity
      /\ order.status \in ORDER_STATUSES /\ venue.filled \in 0..Quantity
      /\ best = order.filled /\ sawTerminal \in BOOLEAN
  BY DEF EvidenceInv, TypeOK, Order, VenueOrder, OrderIndependent
<1>3. /\ evidence.status \in {v.status, "unknown", "cancel_pending"}
      /\ evidence.reported \in BOOLEAN /\ v.filled \in 0..Quantity
      /\ evidence.reported => evidence.filled = v.filled
      /\ v.status \in {"open", "partially_filled", "filled", "cancelled", "rejected"}
  BY AnswersClaim DEF EvidenceInv, VenueAgrees, VenueOrder
<1>4. evidence.status \in ORDER_STATUSES
  BY <1>3 DEF ORDER_STATUSES
<1>5. /\ order'.status \in ORDER_STATUSES
      /\ order'.status \in TerminalOrder
           <=> order.status \in TerminalOrder \/ evidence.status \in TerminalOrder
      /\ order'.status \in TerminalOrder => order'.status \in {order.status, evidence.status}
  BY <1>2, <1>4, MergedRow, MergedStatusSettles
<1>6. order'.filled \in 0..Quantity /\ order'.averaged \in 0..Quantity /\ best' = order'.filled
  BY <1>1, <1>2, <1>3, MergedRow
<1>7. TypeOK'
  <2>1. order' \in Order
    BY <1>5, <1>6, MergedRow DEF Order
  <2> QED
    BY <1>1, <1>2, <1>6, <2>1 DEF EvidenceInv, TypeOK
<1>8. VenueAgrees'
  BY <1>1 DEF EvidenceInv, VenueAgrees
<1>9. NoOverclaim'
  <2>1. order'.filled <= venue'.filled /\ order'.averaged <= order'.filled
    BY <1>1, <1>2, <1>3, MergedRow DEF EvidenceInv, NoOverclaim, VenueAgrees
  <2>2. order'.status \in {"filled", "rejected"} => venue'.status = order'.status
    BY <1>1, <1>3, <1>5 DEF EvidenceInv, NoOverclaim, VenueAgrees, TerminalOrder
  <2>3. /\ order'.status = "cancelled" /\ sent' => \E w \in history' : w.status = "cancelled"
        /\ ~sent' => venue'.status = "absent"
    BY <1>1, <1>3, <1>5 DEF EvidenceInv, NoOverclaim, TerminalOrder
  <2> QED
    BY <2>1, <2>2, <2>3 DEF NoOverclaim
<1>10. OrderIndependent'
  BY <1>1, <1>2, <1>5, <1>6 DEF EvidenceInv, OrderIndependent
<1> QED
  BY <1>7, <1>8, <1>9, <1>10 DEF EvidenceInv

\* Sending a row, or settling one its journal proves unsent, keeps the agreement:
\* the venue has no order yet, and gets none from an abandoned row
\* (runJournaledExchangeWrite, abandonUndispatchedPlan).
LEMMA LocalStepsKeep ==
  ASSUME EvidenceInv, runJournaledExchangeWrite \/ abandonUndispatchedPlan
  PROVE  /\ EvidenceInv'
         /\ order.status \notin TerminalOrder
         /\ order'.filled = order.filled /\ order'.averaged = order.averaged
<1>1. /\ order \in Order /\ ~sent /\ order.status \in {"created", "submitting"}
      /\ UNCHANGED <<venue, history, best>> /\ venue.status = "absent"
      /\ order.status \notin TerminalOrder
  BY DEF runJournaledExchangeWrite, abandonUndispatchedPlan, EvidenceInv, TypeOK, NoOverclaim, TerminalOrder
<1>2. \/ order' = order /\ sent' = TRUE /\ sawTerminal' = sawTerminal
      \/ order' = [order EXCEPT !.status = "cancelled"] /\ sent' = sent /\ sawTerminal' = TRUE
  BY DEF runJournaledExchangeWrite, abandonUndispatchedPlan
<1>3. /\ order'.filled = order.filled /\ order'.averaged = order.averaged /\ order' \in Order
      /\ order'.status = order.status \/ (order'.status = "cancelled" /\ ~sent')
  BY <1>1, <1>2 DEF Order, ORDER_STATUSES
<1>4. TypeOK' /\ VenueAgrees'
  BY <1>1, <1>2, <1>3 DEF EvidenceInv, TypeOK, VenueAgrees
<1>5. NoOverclaim'
  BY <1>1, <1>2, <1>3 DEF EvidenceInv, NoOverclaim
<1>6. OrderIndependent'
  BY <1>1, <1>2, <1>3 DEF EvidenceInv, OrderIndependent, TerminalOrder, Order
<1> QED
  BY <1>1, <1>3, <1>4, <1>5, <1>6 DEF EvidenceInv

\* A fresh row and an absent order agree.
LEMMA EvidenceStarts == Init => EvidenceInv
<1> SUFFICES ASSUME Init PROVE EvidenceInv
  OBVIOUS
<1>1. 0 \in 0..Quantity /\ Quantity # 0
  BY QuantityAssumption
<1>2. TypeOK
  BY <1>1 DEF Init, TypeOK, Order, VenueOrder, ORDER_STATUSES
<1>3. VenueAgrees
  BY <1>1 DEF Init, VenueAgrees
<1>4. NoOverclaim /\ OrderIndependent
  BY DEF Init, NoOverclaim, OrderIndependent, TerminalOrder
<1> QED
  BY <1>2, <1>3, <1>4 DEF EvidenceInv

\* No mark, no answer and no move of the venue breaks the agreement of the row
\* with the venue, and none loses an execution or reopens a terminal row.
LEMMA EvidenceSteps ==
  ASSUME EvidenceInv, [Next]_vars
  PROVE  /\ EvidenceInv'
         /\ order'.filled >= order.filled
         /\ order'.averaged >= order.averaged
         /\ order.status \in TerminalOrder /\ order'.status # order.status
              => order.status = "cancelled" /\ order'.status = "filled" /\ order'.filled = Quantity
<1>0. /\ order.filled \in 0..Quantity /\ order.averaged \in 0..Quantity
      /\ order.status \in ORDER_STATUSES
  BY DEF EvidenceInv, TypeOK, Order
<1>1. CASE markOrderSubmitting \/ recoverUndispatchedPlan \/ cancelTrackedOrder
           \/ submitTrackedOrderFailed \/ cancelEntryRowFailed
  <2>1. /\ EvidenceInv' /\ order.status \notin TerminalOrder
        /\ order'.filled = order.filled /\ order'.averaged = order.averaged
    BY <1>1, MarksKeep DEF markOrderSubmitting, recoverUndispatchedPlan, cancelTrackedOrder,
       submitTrackedOrderFailed, cancelEntryRowFailed, ORDER_STATUSES, TerminalOrder
  <2> QED
    BY <1>0, <2>1
<1>2. ASSUME NEW v \in history, NEW evidence \in answers(v), persistOrderEvidence(evidence)
      PROVE  /\ EvidenceInv'
             /\ order'.filled >= order.filled
             /\ order'.averaged >= order.averaged
             /\ order.status \in TerminalOrder /\ order'.status # order.status
                  => order.status = "cancelled" /\ order'.status = "filled"
                     /\ order'.filled = Quantity
  <2>1. v.filled \in 0..Quantity /\ evidence.status \in ORDER_STATUSES
    BY AnswersClaim DEF EvidenceInv, VenueAgrees, VenueOrder, ORDER_STATUSES
  <2>2. order'.filled >= order.filled /\ order'.averaged >= order.averaged
    BY <1>0, <1>2, <2>1, MergedRow
  <2>3. order.status \in TerminalOrder /\ order'.status # order.status
          => order.status = "cancelled" /\ order'.status = "filled" /\ order'.filled = Quantity
    BY <1>0, <1>2, <2>1, MergedRow, MergedStatusSettles
  <2> QED
    BY <1>2, <2>2, <2>3, MergeKeeps
<1>3. CASE venueAccepts \/ venueExecutes \/ venueCancels
  BY <1>0, <1>3, VenueKeeps
<1>4. CASE UNCHANGED vars
  BY <1>0, <1>4 DEF vars, EvidenceInv, TypeOK, VenueAgrees, NoOverclaim, OrderIndependent
<1>5. CASE runJournaledExchangeWrite \/ abandonUndispatchedPlan
  BY <1>0, <1>5, LocalStepsKeep
<1> QED
  BY <1>1, <1>2, <1>3, <1>4, <1>5 DEF Next

\* Whatever arrives late, twice, out of order or never: the row claims no more
\* than the venue did, holds the largest execution delivered and is terminal
\* exactly when an answer was or it was abandoned unsent, for every ordered
\* quantity (persistOrderEvidence, abandonUndispatchedPlan).
THEOREM OrderRowIsHonest == Spec => [](TypeOK /\ NoOverclaim /\ OrderIndependent)
<1>1. EvidenceInv /\ [Next]_vars => EvidenceInv'
  BY EvidenceSteps
<1>2. EvidenceInv => TypeOK /\ NoOverclaim /\ OrderIndependent
  BY DEF EvidenceInv
<1> QED
  BY EvidenceStarts, <1>1, <1>2, PTL DEF Spec

\* No true answer is ever refused, so that a reconciliation cannot be stuck on
\* one (mergeOrderEvidence).
THEOREM NoAnswerIsRefused == Spec => []HonestAnswersMerge
<1>1. EvidenceInv /\ [Next]_vars => EvidenceInv'
  BY EvidenceSteps
<1>2. EvidenceInv => HonestAnswersMerge
  BY HonestMerges DEF HonestAnswersMerge
<1> QED
  BY EvidenceStarts, <1>1, <1>2, PTL DEF Spec

\* No step loses an execution, lowers the quantity its average price stands for
\* or reopens a terminal row (mergeOrderEvidence and the engine's marks).
THEOREM SettledRowsStay == Spec => SettledOrdersStay
<1>1. EvidenceInv /\ [Next]_vars => EvidenceInv'
  BY EvidenceSteps
<1>2. EvidenceInv /\ [Next]_vars =>
        [/\ order'.filled >= order.filled
         /\ order'.averaged >= order.averaged
         /\ order.status \in TerminalOrder /\ order'.status # order.status
              => order.status = "cancelled" /\ order'.status = "filled"
                 /\ order'.filled = Quantity]_vars
  BY EvidenceSteps
<1> QED
  BY EvidenceStarts, <1>1, <1>2, PTL DEF Spec, SettledOrdersStay
=============================================================================
