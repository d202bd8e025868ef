----------------------------- MODULE MCExchange -----------------------------
(***************************************************************************)
(* Between the engine and the venue: the evidence of one order, the exits  *)
(* and stops of one position, the budgets of its targets, the simulated    *)
(* venue, the accounting of its fills, the event stream, the history       *)
(* traversal and the proof an operator's release rests on. The components  *)
(* share no variable, so one is explored at a time: part never changes.    *)
(***************************************************************************)
EXTENDS OrderEvidence, Integers, TLC

CONSTANTS Parts, EntryQuantity, Percents, MaxStops, MaxTargets, MaxFlattens,
    MaxCancelAttempts, MaxUpsets, Scale, Strategies, Signals, Markets, Snapshots,
    Adaptive, RiskAccount, Traded, Tiers, WeakWeeks, Configurations, Result, MaxWeeks,
    MaxPolicies, MaxSourceChanges, Trade, Price, StopPrices, Marks, Budget, MaxFees,
    MaxRiskMoves, MaxEpochs, MaxRiskDays, Request, Symbol, Prices, Equity,
    maximumFillQuantity, Retain, MaxMoves, AccountOf, Fills, Reports, OrderQuantity,
    Funding, Currency, Rates, Channel, StateChanging, MaxBuffered, MaxPerPoll,
    MaxAttempts, MaxEvents, MaxUpheavals, MaxLosses, Profile, LIMIT, RETENTION, Width,
    OVERLAP, MaxTime, MaxFills

VARIABLES
    part, targets,
    row, exchange, wire, cwire, position, alloc, kill, drain, pc, snap, job, pass,
    budget, upsets,
    strategyOf, plan,
    policy, evaluations, path, state, pathEvaluations, closed, week, resolver, policies,
    saving, sourceChanges,
    trades, remote, markPrice, lossLedger, observation, prep, epoch, fees, riskMoves,
    days,
    book, marks, offset, moves,
    account, fills, filled, binding, ledger, pending, projection, told,
    stream, rotated, failures, retries, faulted, produced, request, answer, attempts,
    cursor, dirty, stored, status, cycle, owed, unseen, excused, upheavals, losses,
    profile, now, executions, required, checkpoint, acquisition, delivered,
    truth, rows, proof

Protect == INSTANCE Protection WITH venue <- exchange
Planner == INSTANCE TradingPlan
Tiered == INSTANCE AdaptiveRisk WITH Account <- RiskAccount,
    MaxChanges <- MaxSourceChanges

Daily == INSTANCE DailyRisk WITH mark <- markPrice, rows <- trades, moves <- riskMoves,
    ledger <- lossLedger, MaxDays <- MaxRiskDays, MaxMoves <- MaxRiskMoves

Paper == INSTANCE PaperExchange
Money == INSTANCE MoneyLedger
Stream == INSTANCE ExchangeStream
Past == INSTANCE History WITH fills <- executions
Release == INSTANCE SafetyProof

(* Strategies, signals, markets and account snapshots of the plans.        *)
Strategy1 ==
    [schemas |-> {"a"}, symbols |-> {}, sides |-> {"LONG", "SHORT"}, orderType |-> "limit",
     rangePrice |-> "midpoint", postOnly |-> FALSE, mode |-> "risk_percent", risk |-> 20,
     maxAdaptiveRisk |-> 50, maxNotional |-> 4000, defaultLeverage |-> 3, maxLeverage |-> 5,
     allocationMode |-> "manual", allocations |-> <<600, 400>>, breakEvenAfter |-> 1,
     closeRemainder |-> TRUE, protectiveStop |-> TRUE, dailyLoss |-> 100,
     dailyLossMode |-> "absolute", slippage |-> 25, ttl |-> 900]

MCStrategies ==
    {[Strategy1 EXCEPT !.mode = m, !.orderType = o, !.allocationMode = a, !.rangePrice = "far"] :
        m \in {"risk_percent", "equity_percent_notional", "equity_percent_margin"},
        o \in {"market", "limit"}, a \in {"manual", "adaptive_halving"}}
    \cup {Strategy1, [Strategy1 EXCEPT !.rangePrice = "near"],
          [Strategy1 EXCEPT !.symbols = {"other"}], [Strategy1 EXCEPT !.maxAdaptiveRisk = 10],
          [Strategy1 EXCEPT !.allocations = <<600, 300>>],
          [Strategy1 EXCEPT !.orderType = "market", !.postOnly = TRUE],
          [Strategy1 EXCEPT !.defaultLeverage = 6], [Strategy1 EXCEPT !.protectiveStop = FALSE]}

SignalsOf(action, stops, targetLists) ==
    {[action |-> action, entry |-> e, range |-> [min |-> 101, max |-> 108], stop |-> s,
      targets |-> t, leverage |-> l[1], risk |-> l[2], schema |-> "a", symbol |-> "s"] :
        e \in {"market", "range"}, s \in stops, t \in targetLists, l \in {<<0, 0>>, <<10, 11>>}}

MCSignals == SignalsOf("LONG", {93, 107}, {<<112, 117>>, <<112, 117, 121, 131, 140>>})
             \cup SignalsOf("SHORT", {117, 103}, {<<91, 87>>, <<93, 87, 81, 71, 66>>})

Tier(lower, upper, maximum) == [lower |-> lower, upper |-> upper, max |-> maximum]
ThreeTiers == <<Tier(0, 900, 5), Tier(900, 2000, 2), Tier(2000, 3000, 1)>>
OpenTiers == <<Tier(0, 700, 3), Tier(900, 0, 2)>>
MarketOf(at, tick, tiers) ==
    [mark |-> at, tick |-> tick, step |-> 3, minimum |-> 6, minimumNotional |-> 50,
     maxLeverage |-> 4, tiers |-> tiers]

MCMarkets == {MarketOf(104, 2, <<>>), MarketOf(99, 2, ThreeTiers), MarketOf(104, 2, ThreeTiers)}
             \cup {MarketOf(104, 5, tiers) : tiers \in {<<>>, ThreeTiers, OpenTiers}}

MCSnapshots == [equity : {3333}, available : {3000}, rate : {<<1, 1>>, <<7, 3>>}]
               \cup [equity : {3333}, available : {700}, rate : {<<1, 1>>}]

(* Adaptive-risk policies: one that acts and one that only watches.        *)
Policy(mode, start, locked) == [mode |-> mode, start |-> start, locked |-> locked, manual |-> FALSE]
MCConfigurations == {Policy("automatic", 1, 2), Policy("shadow", 0, 1)}

OrderRequest(symbol, role, side, type, quantity, limit, trigger, reduceOnly, ioc) ==
    [symbol |-> symbol, role |-> role, side |-> side, type |-> type, quantity |-> quantity,
     price |-> limit, trigger |-> trigger, reduceOnly |-> reduceOnly, ioc |-> ioc,
     leverage |-> 1]

PaperRequests ==
    [e1 |-> OrderRequest("A", "entry", "buy", "limit", 2, 3, 0, FALSE, FALSE),
     s1 |-> OrderRequest("A", "stop_loss", "sell", "stop_market", 2, 0, 2, TRUE, FALSE),
     p1 |-> OrderRequest("A", "take_profit", "sell", "limit", 1, 4, 0, TRUE, FALSE),
     f1 |-> OrderRequest("A", "flatten", "sell", "market", 2, 0, 0, TRUE, FALSE),
     e2 |-> OrderRequest("B", "entry", "sell", "limit", 1, 3, 0, FALSE, TRUE)]

TwoTargets == <<50, 50>>

(* Two entry fills and one exit fill of a paper short or a live long; the  *)
(* market is reported late for one fill and differently for another, and   *)
(* one funding payment is reported with either sign.                       *)
FillOf(o, time, at, quantity, fee, asset) ==
    [order |-> o, time |-> time, price |-> at, quantity |-> quantity, fee |-> fee,
     asset |-> asset]

MCFills == [e1 |-> FillOf("entry", 1, 2, 1, 1, "U"), e2 |-> FillOf("entry", 2, 4, 1, 1, "B"),
            x1 |-> FillOf("exit", 3, 5, 2, 0, "B")]

MCReports == [e1 |-> {"m1"}, e2 |-> {"none", "m1"}, x1 |-> {"m1", "m2"}]
MCOrderQuantity == [entry |-> 2, exit |-> 2]
MCAccountOf == {[paper |-> TRUE, side |-> "SHORT"], [paper |-> FALSE, side |-> "LONG"]}
MCFunding == [n1 |-> {1, -1}]

(***************************************************************************)
(* The target budgets are a pure function: every bounded input is an       *)
(* initial state, and there is nothing to step.                            *)
(***************************************************************************)
NoTargets == [previous |-> <<>>, filled |-> <<>>, net |-> 0, step |-> 1]
TargetInputs == [previous : [1..3 -> 0..3], filled : [1..3 -> 0..1], net : 0..4, step : 1..2]

-----------------------------------------------------------------------------
\* The variables of a component that is not explored.
Unused == "unused"

protectionVars == <<row, exchange, wire, cwire, position, alloc, kill, drain, pc, snap,
    job, pass, budget, upsets>>

planVars == <<strategyOf, plan>>
adaptiveVars == <<policy, evaluations, path, state, pathEvaluations, closed, week,
    resolver, policies, saving, sourceChanges>>

budgetVars == <<trades, remote, markPrice, lossLedger, observation, prep, epoch, fees,
    riskMoves, days>>

paperVars == <<book, marks, offset, moves>>
accountingVars == <<account, fills, filled, binding, ledger, pending, projection, told>>
streamVars == <<stream, rotated, failures, retries, faulted, produced, request, answer,
    attempts, cursor, dirty, stored, status, cycle, owed, unseen, excused, upheavals,
    losses>>

historyVars == <<profile, now, executions, required, checkpoint, acquisition,
    delivered>>

releaseVars == <<truth, rows, proof>>

ExchangeInit ==
    /\ part \in Parts
    /\ Init
    /\ IF part = "protection" THEN Protect!Init
       ELSE row = Unused /\ exchange = Unused /\ wire = Unused /\ cwire = Unused /\
            position = Unused /\ alloc = Unused /\ kill = Unused /\ drain = Unused /\
            pc = Unused /\ snap = Unused /\ job = Unused /\ pass = Unused /\
            budget = Unused /\ upsets = Unused
    /\ IF part = "plan" THEN Planner!PlanInit
       ELSE strategyOf = Unused /\ plan = Unused
    /\ IF part = "adaptive" THEN Tiered!AdaptiveInit
       ELSE policy = Unused /\ evaluations = Unused /\ path = Unused /\ state = Unused /\
            pathEvaluations = Unused /\ closed = Unused /\ week = Unused /\
            resolver = Unused /\ policies = Unused /\ saving = Unused /\ sourceChanges = Unused
    /\ IF part = "budget" THEN Daily!RiskInit
       ELSE trades = Unused /\ remote = Unused /\ markPrice = Unused /\
            lossLedger = Unused /\ observation = Unused /\ prep = Unused /\
            epoch = Unused /\ fees = Unused /\ riskMoves = Unused /\ days = Unused
    /\ IF part = "paper" THEN Paper!PaperInit
       ELSE book = Unused /\ marks = Unused /\ offset = Unused /\ moves = Unused
    /\ IF part = "accounting" THEN Money!LedgerInit
       ELSE account = Unused /\ fills = Unused /\ filled = Unused /\ binding = Unused /\
            ledger = Unused /\ pending = Unused /\ projection = Unused /\ told = Unused
    /\ IF part = "stream" THEN Stream!StreamInit
       ELSE stream = Unused /\ rotated = Unused /\ failures = Unused /\
            retries = Unused /\ faulted = Unused /\ produced = Unused /\
            request = Unused /\ answer = Unused /\ attempts = Unused /\ cursor = Unused /\
            dirty = Unused /\ stored = Unused /\ status = Unused /\ cycle = Unused /\
            owed = Unused /\ unseen = Unused /\ excused = Unused /\ upheavals = Unused /\
            losses = Unused
    /\ IF part = "history" THEN Past!HistoryInit
       ELSE profile = Unused /\ now = Unused /\ executions = Unused /\
            required = Unused /\ checkpoint = Unused /\ acquisition = Unused /\
            delivered = Unused
    /\ IF part = "release" THEN Release!Init
       ELSE truth = Unused /\ rows = Unused /\ proof = Unused
    /\ targets \in IF part = "targets" THEN TargetInputs ELSE {NoTargets}

ExchangeNext ==
    \/ /\ part = "order" /\ Next
       /\ UNCHANGED <<part, protectionVars, planVars, adaptiveVars, budgetVars,
                      paperVars, accountingVars, streamVars, historyVars, releaseVars,
                      targets>>
    \/ /\ part = "protection" /\ Protect!Next
       /\ UNCHANGED <<part, vars, planVars, adaptiveVars, budgetVars, paperVars,
                      accountingVars, streamVars, historyVars, releaseVars, targets>>
    \/ /\ part = "plan" /\ Planner!PlanNext
       /\ UNCHANGED <<part, vars, protectionVars, adaptiveVars, budgetVars, paperVars,
                      accountingVars, streamVars, historyVars, releaseVars, targets>>
    \/ /\ part = "adaptive" /\ Tiered!AdaptiveNext
       /\ UNCHANGED <<part, vars, protectionVars, planVars, budgetVars, paperVars,
                      accountingVars, streamVars, historyVars, releaseVars, targets>>
    \/ /\ part = "budget" /\ Daily!RiskNext
       /\ UNCHANGED <<part, vars, protectionVars, planVars, adaptiveVars, paperVars,
                      accountingVars, streamVars, historyVars, releaseVars, targets>>
    \/ /\ part = "paper" /\ Paper!PaperNext
       /\ UNCHANGED <<part, vars, protectionVars, planVars, adaptiveVars, budgetVars,
                      accountingVars, streamVars, historyVars, releaseVars, targets>>
    \/ /\ part = "accounting" /\ Money!LedgerNext
       /\ UNCHANGED <<part, vars, protectionVars, planVars, adaptiveVars, budgetVars,
                      paperVars, streamVars, historyVars, releaseVars, targets>>
    \/ /\ part = "stream" /\ Stream!StreamNext
       /\ UNCHANGED <<part, vars, protectionVars, planVars, adaptiveVars, budgetVars,
                      paperVars, accountingVars, historyVars, releaseVars, targets>>
    \/ /\ part = "history" /\ Past!HistoryNext
       /\ UNCHANGED <<part, vars, protectionVars, planVars, adaptiveVars, budgetVars,
                      paperVars, accountingVars, streamVars, releaseVars, targets>>
    \/ /\ part = "release" /\ Release!Next
       /\ UNCHANGED <<part, vars, protectionVars, planVars, adaptiveVars, budgetVars,
                      paperVars, accountingVars, streamVars, historyVars, targets>>

exchangeVars == <<part, vars, protectionVars, planVars, adaptiveVars, budgetVars,
    paperVars, accountingVars, streamVars, historyVars, releaseVars, targets>>

ExchangeSpec == ExchangeInit /\ [][ExchangeNext]_exchangeVars

-----------------------------------------------------------------------------
(* The recorded order never claims more than the venue executed, does not  *)
(* depend on the order in which answers arrive, and takes every answer the *)
(* venue honestly gives (mergeOrderEvidence of trading_order_repository.ts *)
(* and trading_state_transitions.ts); one abandoned unsent stays unsent.   *)
EvidenceIsHonest ==
    part = "order" => TypeOK /\ NoOverclaim /\ OrderIndependent /\ HonestAnswersMerge

(* While a position is open its stop covers what is owned, no exit order   *)
(* is sent again while its fate is open, and a trade recorded as closed    *)
(* has nothing left at the venue (ensureProtectiveStop, flattenPosition,   *)
(* applyRemoteState of trading_engine.ts).                                 *)
PositionsStayProtected ==
    part = "protection" => /\ Protect!TypeOK
                           /\ Protect!CoverageNeverLapses
                           /\ Protect!ExitsAreNotRepeated
                           /\ Protect!ClosedIsFinished

(* The target budgets equal those of the loop that hands what rounding     *)
(* lost to the last targets first; they never promise more than is owned,  *)
(* never raise a target that is being shrunk, and never give anything to a *)
(* target that is already done (resizeTargetTotals,                        *)
(* trading_take_profit.ts).                                                *)
TargetsFitTheRest ==
    Protect!resizable(targets.previous, targets.filled, targets.net, targets.step) =>
        LET weights == Protect!targetWeights(targets.previous, targets.filled)
            available == Protect!quantizeDown(targets.net, targets.step)
            share == Protect!proportional(weights, available, targets.step)
            room == Protect!roundingRoom(weights, share, available, targets.step)
            left[i \in 1..4] ==
                IF i = 4 THEN available - Protect!Total(share)
                ELSE left[i + 1] - Protect!least(room[i], left[i + 1])
            remaining == Protect!remainingTargets(targets.previous, targets.filled, targets.net,
                                             targets.step)
        IN  /\ \A i \in 1..3 : remaining[i] = share[i] + left[i + 1] - left[i]
            /\ Protect!Total(remaining) <= available
            /\ \A i \in 1..3 : /\ weights[i] = 0 => remaining[i] = 0
                               /\ available <= Protect!Total(weights) => remaining[i] <= weights[i]

(* A plan keeps the risk limit of its strategy at the price it is sent     *)
(* with and the others at the price it was sized at, its leverage fits the *)
(* tier its notional falls into, its exits close exactly the entry, and    *)
(* the tier solver always ends                                             *)
(* (createTradingPlan of trading_risk.ts, trading_leverage_tiers.ts); what *)
(* is left of a trade is divided over its targets as the code's loop would *)
(* (trading_take_profit.ts).                                               *)
PlansStayWithinLimits ==
    /\ part = "plan" => /\ Planner!PlansStayWithinLimits
                        /\ Planner!ExitsFitTheEntry
                        /\ Planner!SolverSettles
    /\ part = "targets" => TargetsFitTheRest

(* A week is counted once however many resolvers meet, a tier along a      *)
(* workflow path rests on evidence proved for it, a block is lifted only   *)
(* by an evaluation or an operator, and what is sent stays within the      *)
(* day's loss budget (trading_channel_risk.ts, trading_risk.ts,            *)
(* trading_risk_admission.ts).                                             *)
RiskStaysBounded ==
    /\ [](part = "adaptive" => Tiered!WeeksCountOnce /\ Tiered!PathGrantsAreProved)
    /\ [][part = "adaptive" => Tiered!AdaptiveBlocksHold]_exchangeVars
    /\ [][part = "budget" => Daily!SentWithinBudget]_exchangeVars

(* The simulated venue books what its fills explain, whatever orders one   *)
(* price change settles and however often a request is repeated, and a     *)
(* reduce-only order never outlives its position (settleOpenOrders and     *)
(* applyFill of paper_exchange.ts).  Money reported as complete is exactly *)
(* what fills, fees and funding add up to, and a fact the venue later      *)
(* contradicts is never part of a total (trading_money_ledger.ts).         *)
MoneyAddsUp ==
    /\ [](part = "paper" => Paper!TypeOK /\ Paper!FillsExplainTheAccount)
    /\ [][part = "paper" => Paper!ExitsFollowThePosition]_exchangeVars
    /\ [](part = "accounting" => /\ Money!LedgerTypeOK
                                 /\ Money!CompleteMeansExact
                                 /\ Money!TotalsAreUncontested)

(* A stored state change is reconciled, a gap the answer reports is        *)
(* noticed, and a channel whose data is at fault stays faulted until data  *)
(* arrives (stream_hub.py, exchange_stream_repository.ts,                  *)
(* trading_runtime.ts).  What a checkpoint calls covered, and an answer    *)
(* calls complete, misses no fill: neither page limits nor a provider      *)
(* dropping old fills nor an interrupted acquisition leaves a hole behind  *)
(* the claim (history_pagination.py, hyperliquid_retention.py).  A proof   *)
(* answered "safe" is true of the venue, not only of the rows              *)
(* (evaluateTradingSafetyProof of trading_safety_proof.ts).                *)
NothingIsMissed ==
    /\ part = "stream" => /\ Stream!StreamTypeOK
                          /\ Stream!StoredChangesAreReconciled
                          /\ Stream!GapsAreNoticed
                          /\ Stream!FaultsNeedData
    /\ part = "history" => /\ Past!HistoryTypeOK
                           /\ Past!CoveredIsDelivered
                           /\ Past!CompleteMissesNothing
    /\ part = "release" => Release!ProofsAreTrue
=============
