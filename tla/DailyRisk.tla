----------------------------- MODULE DailyRisk ------------------------------
(***************************************************************************)
(* The daily-loss budget of one account: a new entry is dispatched only if *)
(* today's loss, what every running trade may still lose down to its stop  *)
(* and the candidate's own risk fit the budget (trading_risk_admission.ts, *)
(* _repository, _sources, _reservations, _reconciliation,                  *)
(* trading_money_risk.ts).  The evidence is gathered in awaited steps:     *)
(* reconciliation observes the exchange, the balance is read, admission    *)
(* computes a proof in a transaction, and the proof is verified again under*)
(* the dispatch fence, where no other database call runs.                  *)
(*                                                                         *)
(* Trades are long and of one unit, entered at the limit Price; a mark is  *)
(* the price the exchange reports.  Money is exact here and in the         *)
(* reporting currency: bounded intervals and conversions only refuse more. *)
(***************************************************************************)
EXTENDS Integers, FiniteSets, FiniteSetsExt

CONSTANTS
    Trade,
    Price, StopPrices,    \* entry limit and the stops a trade may have
    Marks,                \* prices the exchange may report
    Budget,
    MaxFees, MaxMoves, MaxEpochs, MaxDays

VARIABLES
    rows,        \* what the database holds of a trade
    remote,      \* what is true on the exchange
    mark,        \* the price there now
    ledger,      \* today's valued loss, and losses recorded but not valued yet
    observation, \* trading_risk_current
    prep,        \* the entry in preparation (one at a time: the account's queue)
    epoch, fees, moves, days

riskVars == <<rows, remote, mark, ledger, observation, prep, epoch, fees, moves, days>>

NoObservation == [fresh |-> FALSE, epoch |-> 0, mark |-> 0, sources |-> <<>>, held |-> {}]
NoPrep == [pc |-> "idle", trade |-> "none", epoch |-> 0, balance |-> 0, fresh |-> FALSE,
           value |-> 0, sources |-> <<>>, hash |-> <<>>, agree |-> FALSE]

NoRow == [phase |-> "none", stop |-> 0, drain |-> FALSE]

(***************************************************************************)
(* loadRiskSources: a trade counts as long as it has an open position, a   *)
(* live entry order or an operation whose outcome is not known.            *)
(***************************************************************************)
Obligations(excluded) == {t \in Trade \ {excluded} : rows[t].phase \in {"dispatching", "unknown", "open", "held"}}

loadRiskSources(excluded) == [t \in Obligations(excluded) |-> rows[t]]

(* remainingQuantity: an unresolved operation or a requested drain.        *)
Unresolved(row) == row.phase \in {"dispatching", "unknown"} \/ (row.phase = "open" /\ row.drain)

lossToStop(reference, stop) == IF reference > stop THEN reference - stop ELSE 0

(* provedReservation: what is owned from the mark to the stop, what is     *)
(* still pending from its limit.                                           *)
Reservation(row, at) == lossToStop(IF row.phase = "held" THEN at ELSE Price, row.stop)

Total(f) == MapThenSumSet(LAMBDA t : f[t], DOMAIN f)

(* calculateMonetaryDailyRisk: profits of the day offset losses of the day *)
(* but nothing else.                                                       *)
consumedLoss(loss, unrealized) == IF loss - unrealized > 0 THEN loss - unrealized ELSE 0

Held == {t \in Trade : remote[t] = "held"}

Unrealized(at) == (at - Price) * Cardinality(Held)

withinBudget(loss, unrealized, existing, candidate) ==
    consumedLoss(loss, unrealized) + existing + candidate <= Budget

(***************************************************************************)
(* Reconciliation.  The database takes over what the exchange shows, a     *)
(* stopped-out trade's loss is recorded (and valued later), a break-even   *)
(* step may raise a stop, and the risk of every obligation is observed.    *)
(***************************************************************************)
Reconciled(t, raised) ==
    LET row == rows[t]
    IN  CASE row.phase \in {"unknown", "open", "held"} /\ remote[t] = "held" ->
               [row EXCEPT !.phase = "held", !.stop = IF raised > @ THEN raised ELSE @]
          [] row.phase \in {"unknown", "open"} /\ remote[t] = "resting" -> [row EXCEPT !.phase = "open"]
          [] row.phase \in {"unknown", "open", "held"} /\ remote[t] \in {"none", "stopped"} -> [row EXCEPT !.phase = "closed"]
          [] OTHER -> row

StoppedOut(t) == rows[t].phase \in {"unknown", "open", "held"} /\ remote[t] = "stopped"

observeRiskReservations(sources) == [fresh |-> TRUE, epoch |-> epoch, mark |-> mark, sources |-> sources, held |-> Held]

(* reconciledRiskStatus: when even without a new entry the budget is       *)
(* exceeded, the entries still resting are to be drained.                  *)
Exceeded(sources) ==
    /\ \A t \in DOMAIN sources : ~Unresolved(sources[t])
    /\ ledger.unvalued = 0
    /\ ~withinBudget(ledger.loss, Unrealized(mark), Total([t \in DOMAIN sources |-> Reservation(sources[t], mark)]), 0)

refreshReconciledRisk ==
    \E raised \in StopPrices :
        LET next == [t \in Trade |-> Reconciled(t, raised)]
            kept == {t \in Trade : next[t].phase \in {"dispatching", "unknown", "open", "held"}}
            sources == [t \in kept |-> next[t]]
            newly == {t \in Trade : StoppedOut(t)}
        IN  /\ observation' = observeRiskReservations(sources)
            /\ rows' = IF newly = {} /\ Exceeded(sources)
                       THEN [t \in Trade |-> IF next[t].phase = "open" THEN [next[t] EXCEPT !.drain = TRUE] ELSE next[t]]
                       ELSE next
            /\ ledger' = [ledger EXCEPT !.unvalued = @ + Total([t \in newly |-> lossToStop(Price, rows[t].stop)])]

reconcileAccount ==
    /\ prep = NoPrep
    /\ refreshReconciledRisk
    /\ UNCHANGED <<remote, mark, prep, epoch, fees, moves, days>>

(* The lifecycle pass cancels an entry whose drain was requested.          *)
cancelDrained(t) ==
    /\ prep = NoPrep /\ rows[t].phase = "open" /\ rows[t].drain /\ remote[t] = "resting"
    /\ remote' = [remote EXCEPT ![t] = "none"]
    /\ rows' = [rows EXCEPT ![t].phase = "closed"]
    /\ UNCHANGED <<mark, ledger, observation, prep, epoch, fees, moves, days>>

(***************************************************************************)
(* preparePendingIntent: reconcile, read the balance, create the proof.    *)
(***************************************************************************)
reconcileEntryCandidate(t) ==
    /\ prep = NoPrep /\ rows[t] = NoRow
    /\ refreshReconciledRisk
    /\ prep' = [NoPrep EXCEPT !.pc = "balance", !.trade = t, !.epoch = epoch, !.fresh = TRUE]
    /\ UNCHANGED <<remote, mark, epoch, fees, moves, days>>

accountSnapshot ==
    /\ prep.pc = "balance"
    /\ prep' = [prep EXCEPT !.pc = "admit", !.balance = Unrealized(mark),
                             !.agree = (mark = observation.mark /\ Held = observation.held)]
    /\ UNCHANGED <<rows, remote, mark, ledger, observation, epoch, fees, moves, days>>

(* existingRiskCommitment: no obligations need no observation; otherwise   *)
(* the current one must be fresh, of this epoch, and about these rows.     *)
existingRiskCommitment(t) ==
    LET sources == loadRiskSources(t)
    IN  \/ Obligations(t) = {}
        \/ /\ observation.fresh /\ observation.epoch = prep.epoch
           /\ \A u \in Obligations(t) : /\ u \in DOMAIN observation.sources
                                        /\ observation.sources[u] = sources[u]
                                        /\ ~Unresolved(sources[u])

ExistingValue(t) == Total([u \in Obligations(t) |-> Reservation(rows[u], observation.mark)])

refuse == prep' = NoPrep

(* createRiskAdmission, and the plan with its orders is saved.             *)
createRiskAdmission ==
    /\ prep.pc = "admit"
    /\ \E stop \in StopPrices :
         LET t == prep.trade
         IN  IF /\ prep.fresh /\ ledger.unvalued = 0 /\ existingRiskCommitment(t) /\ stop < Price
                /\ withinBudget(ledger.loss, prep.balance, ExistingValue(t), Price - stop)
             THEN /\ prep' = [prep EXCEPT !.pc = "dispatch", !.value = ExistingValue(t), !.sources = loadRiskSources(t),
                                          !.hash = ledger]
                  /\ rows' = [rows EXCEPT ![t] = [phase |-> "planned", stop |-> stop, drain |-> FALSE]]
             ELSE refuse /\ UNCHANGED rows
    /\ UNCHANGED <<remote, mark, ledger, observation, epoch, fees, moves, days>>

(* The operation is journalled before anything is sent.                    *)
journalDispatch ==
    /\ prep.pc = "dispatch"
    /\ rows' = [rows EXCEPT ![prep.trade].phase = "dispatching"]
    /\ prep' = [prep EXCEPT !.pc = "verify"]
    /\ UNCHANGED <<remote, mark, ledger, observation, epoch, fees, moves, days>>

(* verifyRiskAdmission and assertRiskAdmissionFresh, with the epoch guard  *)
(* of commitDispatch: under the fence nothing is written in between.       *)
verifyRiskAdmission ==
    /\ prep.fresh /\ prep.epoch = epoch
    /\ loadRiskSources(prep.trade) = prep.sources
    /\ ledger.unvalued = 0 /\ ledger = prep.hash
    /\ withinBudget(ledger.loss, prep.balance, prep.value, Price - rows[prep.trade].stop)

(* The entry leaves; its answer may be lost.                               *)
commitDispatch ==
    /\ prep.pc = "verify" /\ verifyRiskAdmission
    /\ remote' = [remote EXCEPT ![prep.trade] = "resting"]
    /\ \E answer \in {"open", "unknown"} : rows' = [rows EXCEPT ![prep.trade].phase = answer]
    /\ prep' = NoPrep
    /\ UNCHANGED <<mark, ledger, observation, epoch, fees, moves, days>>

(* A proof that does not hold any more: nothing was sent.                  *)
dispatchRefused ==
    /\ prep.pc = "verify" /\ ~verifyRiskAdmission
    /\ rows' = [rows EXCEPT ![prep.trade].phase = "closed"]
    /\ refuse
    /\ UNCHANGED <<remote, mark, ledger, observation, epoch, fees, moves, days>>

-----------------------------------------------------------------------------
(***************************************************************************)
(* What happens meanwhile: the exchange fills entries and stops, prices    *)
(* move, the account log brings late fees and funding, losses get valued,  *)
(* evidence outlives its minute, the UTC day ends, the epoch advances.     *)
(***************************************************************************)
entryFills(t) ==
    /\ remote[t] = "resting" /\ mark <= Price
    /\ remote' = [remote EXCEPT ![t] = "held"]
    /\ UNCHANGED <<rows, mark, ledger, observation, prep, epoch, fees, moves, days>>

stopFills(t) ==
    /\ remote[t] = "held" /\ mark <= rows[t].stop
    /\ remote' = [remote EXCEPT ![t] = "stopped"]
    /\ UNCHANGED <<rows, mark, ledger, observation, prep, epoch, fees, moves, days>>

priceMoves ==
    /\ moves < MaxMoves
    /\ mark' \in Marks \ {mark}
    /\ moves' = moves + 1
    /\ UNCHANGED <<rows, remote, ledger, observation, prep, epoch, fees, days>>

lateFee ==
    /\ fees < MaxFees
    /\ ledger' = [ledger EXCEPT !.loss = @ + 1]
    /\ fees' = fees + 1
    /\ UNCHANGED <<rows, remote, mark, observation, prep, epoch, moves, days>>

valueEvents ==
    /\ ledger.unvalued > 0
    /\ ledger' = [loss |-> ledger.loss + ledger.unvalued, unvalued |-> 0]
    /\ UNCHANGED <<rows, remote, mark, observation, prep, epoch, fees, moves, days>>

(* assertRiskFresh: a minute after the observation, or on another day.     *)
Aged == [observation EXCEPT !.fresh = FALSE]

evidenceExpires ==
    /\ observation.fresh
    /\ observation' = Aged
    /\ prep' = IF prep.pc = "idle" THEN prep ELSE [prep EXCEPT !.fresh = FALSE]
    /\ UNCHANGED <<rows, remote, mark, ledger, epoch, fees, moves, days>>

dayEnds ==
    /\ days < MaxDays
    /\ days' = days + 1
    /\ ledger' = [ledger EXCEPT !.loss = 0]
    /\ observation' = Aged
    /\ prep' = IF prep.pc = "idle" THEN prep ELSE [prep EXCEPT !.fresh = FALSE]
    /\ UNCHANGED <<rows, remote, mark, epoch, fees, moves>>

epochAdvances ==
    /\ epoch < MaxEpochs
    /\ epoch' = epoch + 1
    /\ UNCHANGED <<rows, remote, mark, ledger, observation, prep, fees, moves, days>>

RiskInit ==
    /\ rows = [t \in Trade |-> NoRow]
    /\ remote = [t \in Trade |-> "none"]
    /\ mark = Price
    /\ ledger = [loss |-> 0, unvalued |-> 0]
    /\ observation = NoObservation /\ prep = NoPrep
    /\ epoch = 1 /\ fees = 0 /\ moves = 0 /\ days = 0

RiskNext ==
    \/ reconcileAccount \/ accountSnapshot \/ createRiskAdmission \/ journalDispatch \/ commitDispatch \/ dispatchRefused
    \/ \E t \in Trade : cancelDrained(t) \/ reconcileEntryCandidate(t) \/ entryFills(t) \/ stopFills(t)
    \/ priceMoves \/ lateFee \/ valueEvents \/ evidenceExpires \/ dayEnds \/ epochAdvances

-----------------------------------------------------------------------------
(***************************************************************************)
(* Whenever an entry is sent, the day can end no worse than the budget:    *)
(* the losses already recorded, plus every trade that is held, resting or  *)
(* in doubt on the exchange losing down to its stop, the new one included; *)
(* whatever filled, was stopped, charged or raised since.  It takes that   *)
(* the observation and the balance, two reads of the exchange, saw the     *)
(* same prices and positions: nothing in the code ties them together.      *)
(***************************************************************************)
Exposed(r) == {t \in Trade : r[t] \in {"resting", "held", "stopped"} /\ rows[t].phase # "closed"}

WorstCase(r) ==
    ledger.loss + ledger.unvalued + Total([t \in Exposed(r) |-> lossToStop(Price, rows[t].stop)])

Sent(r, s) == \E t \in Trade : r[t] = "none" /\ s[t] = "resting"

SentWithinBudget == Sent(remote, remote') /\ prep.agree => WorstCase(remote') <= Budget
=============================================================================
