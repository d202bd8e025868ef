---------------------------- MODULE TradingPlan ----------------------------
(***************************************************************************)
(* How a signal becomes an order plan: trading_strategy.ts (what a         *)
(* strategy may say), trading_risk.ts (prices, sizing, targets, stops),    *)
(* trading_leverage_tiers.ts and trading_fx_sizing.ts.                     *)
(*                                                                         *)
(* A decimal is the number of its smallest units; Scale of them make one   *)
(* (the code has 10^18, and drops what lies below, as \div does here).     *)
(* A refused plan is Refused: the code throws a TradingRiskError.          *)
(***************************************************************************)
EXTENDS Integers, Sequences, SequencesExt

CONSTANTS Scale, Strategies, Signals, Markets, Snapshots, Adaptive

VARIABLES strategyOf, plan

planVars == <<strategyOf, plan>>

Nothing == [ok |-> FALSE, at |-> "none"]
Refused == [ok |-> FALSE, at |-> "refused"]

One == Scale
Hundred == 100 * Scale

multiplyDecimal(a, b) == (a * b) \div Scale
divideDecimal(a, b) == (a * Scale) \div b
least(a, b) == IF a <= b THEN a ELSE b
quantizeDown(value, step) == value - (value % step)
Total(shares) == MapThenSumSet(LAMBDA i : shares[i], DOMAIN shares)
midpointDecimal(range) == divideDecimal(range.min + range.max, 2 * One)
quantizeDecimalUp(value, increment) ==
    LET down == quantizeDown(value, increment)
    IN  IF down = value THEN down ELSE down + increment

ceiling(n, d) == (n + d - 1) \div d
larger(a, b) == IF a >= b THEN a ELSE b
Least(values) == CHOOSE v \in values : \A w \in values : v <= w

(***************************************************************************)
(* validateStrategyConfiguration: what is accepted for a new version.      *)
(***************************************************************************)
validateAccess(s) ==
    /\ s.schemas # {}
    /\ s.sides # {} /\ s.sides \subseteq {"LONG", "SHORT"}

validateEntry(s) ==
    /\ s.orderType \in {"market", "limit"}
    /\ s.rangePrice \in {"near", "midpoint", "far"}
    /\ ~(s.orderType = "market" /\ s.postOnly)

validateSizing(s) ==
    /\ s.mode \in {"risk_percent", "equity_percent_notional", "equity_percent_margin"}
    /\ s.risk \in 1..(10 * One)
    /\ s.maxAdaptiveRisk \in s.risk..(10 * One)
    /\ s.maxNotional > 0
    /\ s.maxLeverage \in 1..50
    /\ s.defaultLeverage \in 1..s.maxLeverage

validateExits(s) ==
    /\ s.allocationMode \in {"manual", "adaptive_halving"}
    /\ Len(s.allocations) \in 1..20
    /\ \A i \in DOMAIN s.allocations : s.allocations[i] \in 1..Hundred
    /\ Total(s.allocations) = Hundred
    /\ s.breakEvenAfter \in 0..Len(s.allocations)
    /\ s.closeRemainder

validateSafety(s) ==
    /\ s.protectiveStop
    /\ s.dailyLoss > 0
    /\ s.dailyLossMode = "equity_percent" => s.dailyLoss <= Hundred
    /\ s.slippage \in 1..(5 * One)
    /\ s.ttl \in 10..86400

validateStrategyConfiguration(s) ==
    /\ validateAccess(s)
    /\ validateEntry(s)
    /\ validateSizing(s)
    /\ validateExits(s)
    /\ validateSafety(s)

(***************************************************************************)
(* Prices.  A market entry becomes an IOC limit at the slippage boundary   *)
(* of its reference price; ordinary limits are rounded so that they do not *)
(* cross the requested bound, and the stop to the adverse tick.            *)
(***************************************************************************)
isMarket(signal, s) == s.orderType = "market" \/ signal.entry = "market"

createEntryPriceBoundary(side, reference, tick, slippage) ==
    LET factor == IF side = "LONG" THEN Hundred + slippage ELSE Hundred - slippage
        ticks == IF side = "LONG"
                 THEN (reference * factor) \div (Hundred * tick)
                 ELSE ceiling(reference * factor, Hundred * tick)
    IN  [reference |-> reference, slippage |-> slippage, tick |-> tick, limit |-> ticks * tick]

NoBoundary == [reference |-> 0, slippage |-> 0, tick |-> 0, limit |-> 0]

(* The boundary of the first planning stands; it is never taken again.     *)
planPriceBoundary(signal, s, market, original) ==
    IF ~isMarket(signal, s) THEN NoBoundary
    ELSE IF original # NoBoundary THEN original
    ELSE createEntryPriceBoundary(signal.action, market.mark, market.tick, s.slippage)

boundaryHolds(signal, s, market, boundary) ==
    boundary # NoBoundary =>
        /\ boundary = createEntryPriceBoundary(signal.action, boundary.reference, boundary.tick, s.slippage)
        /\ boundary.tick = market.tick

entryPrice(signal, s, mark) ==
    CASE isMarket(signal, s) -> mark
      [] ~isMarket(signal, s) /\ s.rangePrice = "midpoint" -> midpointDecimal(signal.range)
      [] OTHER -> IF (s.rangePrice = "near") = (signal.action = "LONG")
                  THEN signal.range.max ELSE signal.range.min

quantizedEntryPrice(signal, s, market, mark) ==
    LET raw == entryPrice(signal, s, mark)
    IN  IF (signal.action = "LONG") = isMarket(signal, s)
        THEN quantizeDecimalUp(raw, market.tick)
        ELSE quantizeDown(raw, market.tick)

quantizedStopPrice(signal, market) ==
    IF signal.action = "LONG" THEN quantizeDown(signal.stop, market.tick)
                              ELSE quantizeDecimalUp(signal.stop, market.tick)

(* Distance from the worst entry to the stop; not positive: INVALID_STOP.  *)
riskDistance(signal, stop, price) ==
    IF signal.action = "LONG" THEN price - stop ELSE stop - price

targetPrice(signal, i, market) ==
    IF signal.action = "LONG" THEN quantizeDown(signal.targets[i], market.tick)
                              ELSE quantizeDecimalUp(signal.targets[i], market.tick)

assertStrategyAllows(signal, s) ==
    /\ signal.schema \in s.schemas
    /\ signal.action \in s.sides
    /\ s.symbols # {} => signal.symbol \in s.symbols

(***************************************************************************)
(* Sizing.  suggestedLeverage and suggestedRisk are 0 when the signal has  *)
(* none; adaptive is the tier's percentage, 0 when there is none.          *)
(***************************************************************************)
resolveLeverageDecision(signal, s, market) ==
    Least({IF signal.leverage > 0 THEN signal.leverage ELSE s.defaultLeverage,
           s.maxLeverage, market.maxLeverage, 50})

configuredPlanRisk(signal, s, adaptive) ==
    LET selected == IF adaptive > 0 THEN least(adaptive, s.maxAdaptiveRisk) ELSE s.risk
    IN  IF s.mode = "risk_percent" /\ signal.risk > 0 THEN least(selected, signal.risk) ELSE selected

(* A conversion rate is a pair <<n, d>>: one settlement unit is n/d of the *)
(* reporting currency.  The native case divides decimals, step by step.    *)
Native == <<1, 1>>

positionQuantity(s, snapshot, entry, percent, distance, leverage) ==
    LET capital == divideDecimal(multiplyDecimal(snapshot.equity, percent), Hundred)
        power == snapshot.available * leverage
        ofNotional == Least({s.maxNotional, power,
                             CASE s.mode = "equity_percent_notional" -> capital
                               [] s.mode = "equity_percent_margin" -> capital * leverage
                               [] OTHER -> power})
    IN  Least({divideDecimal(ofNotional, entry),
               IF s.mode = "risk_percent" THEN divideDecimal(capital, distance)
                                          ELSE divideDecimal(ofNotional, entry)})

(* fxSizedQuantity: exact fractions of the converted amounts, one rounding.*)
fxSizedQuantity(s, snapshot, entry, percent, distance, leverage) ==
    LET n == snapshot.rate[1]
        d == snapshot.rate[2]
        Floor(amount, of, price) == (amount * Scale) \div (of * price)
        power == Floor(snapshot.available * leverage * d, n, entry)
        capital == snapshot.equity * percent * d
    IN  Least({Floor(s.maxNotional, 1, entry), power,
               CASE s.mode = "equity_percent_notional" -> Floor(capital, n * Hundred, entry)
                 [] s.mode = "equity_percent_margin" -> Floor(capital * leverage, n * Hundred, entry)
                 [] OTHER -> Floor(capital, n * Hundred, distance)})

(* Zero stands for the refusal below the exchange's minimum.               *)
quantityForPlan(s, snapshot, market, entry, percent, distance, leverage) ==
    LET sized == IF snapshot.rate = Native
                 THEN positionQuantity(s, snapshot, entry, percent, distance, leverage)
                 ELSE fxSizedQuantity(s, snapshot, entry, percent, distance, leverage)
        quantity == quantizeDown(sized, market.step)
    IN  IF quantity >= market.minimum /\ multiplyDecimal(quantity, entry) >= market.minimumNotional
        THEN quantity ELSE 0

(***************************************************************************)
(* Leverage tiers: consecutive notional ranges with falling maxima (an     *)
(* upper bound of 0 is unlimited).  The solver lowers the leverage to the  *)
(* maximum of the tier its quantity falls in, and never raises it again.   *)
(***************************************************************************)
validateTierTable(tiers) ==
    /\ tiers # <<>>
    /\ \A i \in DOMAIN tiers :
         /\ tiers[i].lower = IF i = 1 THEN 0 ELSE tiers[i - 1].upper
         /\ tiers[i].max \in 1..(IF i = 1 THEN 50 ELSE tiers[i - 1].max)
         /\ IF tiers[i].upper = 0 THEN i = Len(tiers) ELSE tiers[i].upper > tiers[i].lower

(* The product keeps every digit: no rounding into a cheaper tier.         *)
tierForQuantity(tiers, quantity, mark) ==
    LET Holds(i) == /\ quantity * mark >= tiers[i].lower * Scale
                    /\ tiers[i].upper = 0 \/ quantity * mark < tiers[i].upper * Scale
    IN  SelectInSeq([i \in DOMAIN tiers |-> i], Holds)

solveTierQuantity(tiers, requested, mark, sized) ==
    LET first == [state |-> "again", leverage |-> Least({requested, 50, tiers[1].max}), quantity |-> 0, tier |-> 0]
        Round(at) ==
            LET quantity == sized[at.leverage]
                tier == tierForQuantity(tiers, quantity, mark)
                maximum == tiers[IF tier = 0 THEN Len(tiers) ELSE tier].max
            IN  IF quantity = 0 \/ (tier = 0 /\ at.leverage <= maximum)
                THEN [at EXCEPT !.state = "refused"]
                ELSE IF at.leverage <= maximum
                THEN [state |-> "solved", leverage |-> at.leverage, quantity |-> quantity, tier |-> tier]
                ELSE [at EXCEPT !.leverage = maximum]
        after[i \in 0..(Len(tiers) + 1)] ==
            IF i = 0 THEN first
            ELSE IF after[i - 1].state = "again" THEN Round(after[i - 1]) ELSE after[i - 1]
    IN  after[Len(tiers) + 1]

solvePlanSizing(signal, s, snapshot, market, adaptive, price, distance, limitPrice) ==
    LET percent == configuredPlanRisk(signal, s, adaptive)
        leverage == resolveLeverageDecision(signal, s, market)
        sizingPrice == IF market.tiers = <<>> THEN price ELSE larger(market.mark, limitPrice)
        Sized(l) == quantityForPlan(s, snapshot, market, sizingPrice, percent, distance, l)
    IN  IF market.tiers # <<>>
        THEN solveTierQuantity(market.tiers, leverage, market.mark, [l \in 1..leverage |-> Sized(l)])
        ELSE [state |-> IF Sized(leverage) > 0 THEN "solved" ELSE "refused",
              leverage |-> leverage, quantity |-> Sized(leverage), tier |-> 0]

(***************************************************************************)
(* Exits.  Adaptive halving gives each target half of what is left; the    *)
(* last one takes the rest.                                                *)
(***************************************************************************)
adaptiveTargetAllocations(count) ==
    LET left[i \in 0..count] == IF i = 0 THEN Hundred ELSE left[i - 1] - left[i - 1] \div 2
    IN  [i \in 1..count |-> IF i = count THEN left[count - 1] ELSE left[i - 1] \div 2]

resolveTargetAllocations(s, count) ==
    IF s.allocationMode = "adaptive_halving" THEN adaptiveTargetAllocations(count) ELSE s.allocations

targetQuantities(quantity, allocations, step) ==
    LET Share(i) == quantizeDown(divideDecimal(multiplyDecimal(quantity, allocations[i]), Hundred), step)
        Before(i) == MapThenSumSet(Share, 1..(i - 1))
    IN  [i \in DOMAIN allocations |-> IF i < Len(allocations) THEN Share(i) ELSE quantity - Before(i)]

breakEvenStopPrice(side, average, tick) ==
    IF side = "LONG" THEN quantizeDecimalUp(average, tick) ELSE quantizeDown(average, tick)

(* The stop after `filled` targets: the plan's stop, break-even after the  *)
(* first two, then the target two before; a complete ladder counts as all  *)
(* but its last target.                                                    *)
adaptiveStopLossDecision(p, filled, breakEven) ==
    LET count == Len(p.targets)
        managed == IF filled >= count THEN count - 1 ELSE filled
    IN  IF managed <= 0 THEN p.stop
        ELSE IF managed <= 2 THEN breakEven
        ELSE p.targets[managed - 2]

(* A later planning of the same intent never moves the deadline back.      *)
resolveEntryExpiresAt(origin, ttl, earlier) ==
    IF earlier = 0 THEN origin + ttl ELSE least(origin + ttl, earlier)

(* Mutant: the distance is taken from the reference price.                 *)
worstEntryReference(boundary, price) == price

worstEntry(boundary, price) == IF boundary # NoBoundary THEN boundary.limit ELSE price

createTradingPlan(signal, s, snapshot, market, adaptive, original, earlier, now) ==
    LET boundary == planPriceBoundary(signal, s, market, original)
        mark == IF boundary # NoBoundary THEN boundary.reference ELSE market.mark
        price == quantizedEntryPrice(signal, s, market, mark)
        stop == quantizedStopPrice(signal, market)
        limitPrice == worstEntry(boundary, price)
        distance == riskDistance(signal, stop, limitPrice)
        sizing == solvePlanSizing(signal, s, snapshot, market, adaptive, price, distance, limitPrice)
        allocations == resolveTargetAllocations(s, Len(signal.targets))
        quantities == targetQuantities(sizing.quantity, allocations, market.step)
    IN  IF \/ ~assertStrategyAllows(signal, s)
           \/ Len(allocations) # Len(signal.targets)
           \/ ~boundaryHolds(signal, s, market, boundary)
           \/ market.tiers # <<>> /\ ~validateTierTable(market.tiers)
           \/ price = 0 \/ distance <= 0
        THEN Refused
        ELSE IF sizing.state # "solved" THEN [ok |-> FALSE, at |-> sizing.state]
        ELSE IF \E i \in 1..(Len(quantities) - 1) : quantities[i] = 0 THEN Refused
        ELSE [ok |-> TRUE, at |-> "planned", side |-> signal.action, price |-> price, stop |-> stop,
              boundary |-> boundary, quantity |-> sizing.quantity,
              leverage |-> sizing.leverage, tier |-> sizing.tier,
              percent |-> configuredPlanRisk(signal, s, adaptive),
              riskAmount |-> IF s.mode = "risk_percent"
                             THEN divideDecimal(multiplyDecimal(snapshot.equity, configuredPlanRisk(signal, s, adaptive)), Hundred)
                             ELSE multiplyDecimal(sizing.quantity, distance),
              quantities |-> quantities,
              targets |-> [i \in DOMAIN signal.targets |-> targetPrice(signal, i, market)],
              expires |-> resolveEntryExpiresAt(now, s.ttl, earlier), created |-> now,
              signal |-> signal, snapshot |-> snapshot, market |-> market, adaptive |-> adaptive]

-----------------------------------------------------------------------------
Unpublished == [mode |-> "unpublished"]

PlanInit == strategyOf = Unpublished /\ plan = Nothing

(* createStrategyVersion: a configuration that does not validate is        *)
(* refused and leaves no version.                                          *)
createStrategyVersion ==
    /\ strategyOf = Unpublished
    /\ \E s \in Strategies : validateStrategyConfiguration(s) /\ strategyOf' = s
    /\ UNCHANGED plan

prepare ==
    /\ strategyOf # Unpublished /\ plan = Nothing
    /\ \E signal \in Signals, snapshot \in Snapshots, market \in Markets, adaptive \in Adaptive :
         plan' = createTradingPlan(signal, strategyOf, snapshot, market, adaptive, NoBoundary, 0, 1)
    /\ UNCHANGED strategyOf

(* A restart plans the pending intent again from newer evidence, with the  *)
(* boundary, the deadline and the creation time of the first plan; what it *)
(* gets must be that plan (PREPARED_PLAN_NO_LONGER_VALID otherwise).       *)
persistRevalidatedEntryDeadline(original, again) ==
    LET Decided(p) == <<p.price, p.stop, p.boundary, p.quantity, p.leverage, p.tier, p.riskAmount,
                        p.quantities, p.targets, p.created>>
    IN  IF again.ok => Decided(original) = Decided(again) THEN again ELSE Refused

revalidate ==
    /\ plan.ok
    /\ \E snapshot \in Snapshots, market \in Markets, adaptive \in Adaptive :
         plan' = persistRevalidatedEntryDeadline(plan,
                     createTradingPlan(plan.signal, strategyOf, snapshot, market, adaptive,
                                       plan.boundary, plan.expires, plan.created))
    /\ UNCHANGED strategyOf

PlanNext == createStrategyVersion \/ prepare \/ revalidate

-----------------------------------------------------------------------------
(***************************************************************************)
(* The sizing contract of createTradingPlan.  Filled at its worst price    *)
(* and stopped out, a risk-sized plan loses no more than its percentage of *)
(* the equity; no plan spends more than the available balance times its    *)
(* leverage, nor exceeds the strategy's notional at the price it was sized *)
(* at; the leverage is one the tier of its notional allows.                *)
(***************************************************************************)
submittedPrice(p) == IF p.boundary = NoBoundary THEN p.price ELSE p.boundary.limit
sizedPrice(p) == IF p.market.tiers = <<>> THEN p.price ELSE larger(p.market.mark, submittedPrice(p))

PlansStayWithinLimits ==
    plan.ok =>
        LET p == plan
            n == p.snapshot.rate[1]
            d == p.snapshot.rate[2]
            loss == p.quantity * riskDistance(p.signal, p.stop, submittedPrice(p))
        IN  /\ strategyOf.mode = "risk_percent" =>
                 loss * Hundred * n <= p.snapshot.equity * p.percent * Scale * d
            /\ p.quantity * sizedPrice(p) <= strategyOf.maxNotional * Scale
            /\ p.quantity * sizedPrice(p) * n <= p.snapshot.available * p.leverage * Scale * d
            /\ p.leverage <= strategyOf.maxLeverage
            /\ p.market.tiers # <<>> =>
                 /\ p.leverage <= p.market.tiers[p.tier].max
                 /\ p.tier = tierForQuantity(p.market.tiers, p.quantity, p.market.mark)
            /\ p.percent <= strategyOf.maxAdaptiveRisk

(***************************************************************************)
(* The exits of a plan fit its entry: the targets close exactly the        *)
(* entered quantity, every one of them a positive part, and as targets     *)
(* fill the adaptive stop only moves towards profit.                       *)
(***************************************************************************)
ExitsFitTheEntry ==
    plan.ok =>
        LET p == plan
            breakEven == breakEvenStopPrice(p.side, p.price, p.market.tick)
            Stop(k) == adaptiveStopLossDecision(p, k, breakEven)
            Profit(a, b) == IF p.side = "LONG" THEN a <= b ELSE b <= a
        IN  /\ Total(p.quantities) = p.quantity
            /\ \A i \in DOMAIN p.quantities : p.quantities[i] > 0
            /\ (Profit(breakEven, p.targets[1])
                  /\ \A i \in 1..(Len(p.targets) - 1) : Profit(p.targets[i], p.targets[i + 1])) =>
                 \A k \in 0..(Len(p.targets) - 1) : Profit(Stop(k), Stop(k + 1))

(* solveTierQuantity's "exceeded its monotone bound" is unreachable.       *)
SolverSettles == plan.at # "again"
=============================================================================
