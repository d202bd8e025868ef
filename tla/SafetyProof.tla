---------------------------- MODULE SafetyProof ----------------------------
(***************************************************************************)
(* The safety proof behind a kill-switch release, a drain, a protected or  *)
(* a closed trade (trading_safety_proof.ts, evidence collected by          *)
(* trading_safety_repository.ts).  The world is what really is at the      *)
(* exchange; the rows are what the database says; an acquisition sees the  *)
(* world through three sources, each complete or not, and may be older     *)
(* than the request.  Quantities are small counts of one trade.            *)
(***************************************************************************)
EXTENDS Naturals, FiniteSets

VARIABLES truth,    \* at the exchange: entry live, stop and position quantities, foreign exposure
          rows,     \* the trade's rows
          proof     \* the purposes evaluateTradingSafety answered "safe"

proofVars == <<truth, rows, proof>>

Purposes == {"entriesDrained", "positionProtected", "tradeClosed", "accountRelease"}
Sources == {"orders", "positions", "fills"}
terminal(status) == status \in {"none", "filled", "cancelled"}
unproved == 9

\* What the rows of one trade can be while the exchange is as it is: a
\* terminal row is not live (module OrderEvidence), an open row may have
\* gone since.
Init ==
  /\ truth \in [entry : BOOLEAN, stop : 0..2, position : 0..2, foreign : BOOLEAN]
  /\ rows \in [entry : {"none", "created", "open", "unknown", "filled", "cancelled"},
               stop : {"none", "open", "unknown", "cancelled"}, stopQuantity : 1..2,
               position : {unproved, 0, 1, 2}, pending : BOOLEAN]
  /\ truth.entry => rows.entry \in {"open", "unknown"} \/ (rows.entry = "created" /\ rows.pending)
  /\ truth.stop > 0 => rows.stop \in {"open", "unknown"} /\ truth.stop = rows.stopQuantity
  /\ truth.position > 0 => rows.entry \in {"open", "unknown", "filled", "cancelled"}
  /\ proof = {}

\* openState with its acquisition evidence: a complete source reports the
\* truth, an incomplete one may miss some of it, and an acquisition from
\* before the request may have seen an empty account.  An ownership proof
\* exists only where the fills add up.
Acquired ==
  LET Stale == [fresh |-> FALSE, complete |-> Sources, entry |-> FALSE, stop |-> 0, position |-> 0,
                foreign |-> FALSE, ledger |-> 0]
      Seen(complete) ==
        [fresh : {TRUE}, complete : {complete},
         entry : IF "orders" \in complete THEN {truth.entry} ELSE {truth.entry, FALSE},
         stop : IF "orders" \in complete THEN {truth.stop} ELSE {truth.stop, 0},
         position : IF "positions" \in complete THEN {truth.position} ELSE {truth.position, 0},
         foreign : IF {"orders", "positions"} \subseteq complete THEN {truth.foreign} ELSE {truth.foreign, FALSE},
         ledger : IF "fills" \in complete THEN {unproved, truth.position} ELSE {unproved, 0, 1, 2}]
  IN  {Stale} \cup UNION {Seen(complete) : complete \in SUBSET Sources}

-----------------------------------------------------------------------------
acquisitionComplete(seen) == seen.fresh /\ seen.complete = Sources

\* foreignOrders and foreignPositions: live orders without a row and
\* positions of a symbol without an open position row.
remoteUnderstood(seen) ==
  /\ ~seen.foreign
  /\ seen.entry => rows.entry # "none"
  /\ seen.position > 0 => rows.position # unproved

remoteConfirms(row, live) == (row = "open") => live
localOrdersResolved(seen) ==
  /\ "unknown" \notin {rows.entry, rows.stop}
  /\ remoteConfirms(rows.entry, seen.entry) /\ remoteConfirms(rows.stop, seen.stop = rows.stopQuantity)

commitmentsSettled(allExits) == terminal(rows.entry) /\ (allExits => terminal(rows.stop))

requiredStopQuantity(seen) == seen.ledger + (IF terminal(rows.entry) THEN 0 ELSE 1)

\* safetyPositions and positionReasons: the ledger must match the exchange;
\* an open position needs a stop the exchange confirms, large enough.
positionProved(seen, closed) ==
  rows.position # unproved =>
    /\ seen.ledger # unproved /\ seen.ledger = seen.position
    /\ IF closed THEN seen.ledger = 0
       ELSE /\ rows.position = seen.ledger
            /\ requiredStopQuantity(seen) > 0 =>
                 /\ rows.stop = "open" /\ seen.stop = rows.stopQuantity
                 /\ rows.stopQuantity >= requiredStopQuantity(seen)

\* A trade whose position row is closed, or that has none, must be flat by
\* its own ledger before entries are admitted again.
historicalTradesFlat(seen) ==
  (rows.position = unproved /\ rows.entry # "none") => seen.ledger = 0

\* reviewRequiredIntents: active orders without a position row.
nothingOrphaned == (rows.position = unproved) => terminal(rows.entry) /\ terminal(rows.stop)

purposeMet(seen, purpose) ==
  /\ purpose \in {"tradeClosed", "positionProtected"} => rows.position # unproved
  /\ purpose \in {"tradeClosed", "entriesDrained"} => rows.entry # "none"
  /\ purpose # "positionProtected" => ~rows.pending
  /\ purpose # "positionProtected" => commitmentsSettled(purpose = "tradeClosed")
  /\ purpose # "entriesDrained" => positionProved(seen, purpose = "tradeClosed")
  /\ purpose = "accountRelease" => historicalTradesFlat(seen) /\ nothingOrphaned

evaluateTradingSafety(seen, purpose) ==
  acquisitionComplete(seen) /\ remoteUnderstood(seen) /\ purposeMet(seen, purpose) /\ localOrdersResolved(seen)

evaluate ==
  /\ proof = {}
  /\ \E seen \in Acquired : proof' = {purpose \in Purposes : evaluateTradingSafety(seen, purpose)}
  /\ proof' # {}
  /\ UNCHANGED <<truth, rows>>

Next == evaluate
Spec == Init /\ [][Next]_proofVars

-----------------------------------------------------------------------------
\* A proof answered "safe" is true of the exchange, not only of the rows: no
\* entry of ours is live and nothing foreign is there, a closed trade is flat
\* with no order left, and after a release every position is covered by a
\* stop that really works at the exchange, including what a live entry may
\* still add.
ProofsAreTrue ==
  /\ proof \cap {"entriesDrained", "tradeClosed", "accountRelease"} # {} => ~truth.entry /\ ~truth.foreign
  /\ "tradeClosed" \in proof => truth.position = 0 /\ truth.stop = 0
  /\ "accountRelease" \in proof => truth.position <= truth.stop
  /\ "positionProtected" \in proof => truth.position + (IF truth.entry THEN 1 ELSE 0) <= truth.stop
=============================================================================
