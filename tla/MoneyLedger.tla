----------------------------- MODULE MoneyLedger -----------------------------
(****************************************************************************)
(* The monetary ledger of one account with one trade:                       *)
(* trading_fill_accounting.ts turns the stored fills into fee and profit    *)
(* events, trading_money_ledger.ts keeps them, their valuations and the     *)
(* contradictions it met, and the triggers of db.ts put the trade back on   *)
(* the list of projections to repeat whenever one of its sources changes.   *)
(*                                                                          *)
(* The exchange reports fills, cumulative order quantities and funding in   *)
(* any order, late, twice, and sometimes with a different content the       *)
(* second time.  Every exported function is one database transaction.       *)
(* Stored JSON is what the code compares it for: an event is its economic   *)
(* content and its derivation (the fills its cost basis was taken from).    *)
(* The replay limits (100 projections, 1000 events) are not reached by one  *)
(* trade; the FX proofs of live accounts are not modelled.                  *)
(****************************************************************************)
EXTENDS Integers, Sequences, FiniteSets, FiniteSetsExt, SequencesExt

CONSTANTS
    AccountOf,      \* the trades looked at: records [paper, side]
    Fills,          \* fill -> [order, time, price, quantity, fee, asset]
    Reports,        \* fill -> the market contracts its reports may carry
    OrderQuantity,  \* order -> its quantity; the order "entry" opens the trade
    Funding,        \* funding event -> the amounts its reports may carry
    Currency,       \* the reporting currencies an account may be bound to
    Rates           \* the rates an event-time quote may carry

VARIABLES
    account,     \* [paper, side]: fixed when the trade is made
    fills,       \* trading_fills: stored fill -> [market, conflict]
    filled,      \* trading_orders.filled_quantity
    binding,     \* trading_money_bindings: the reporting currency, or "none"
    ledger,      \* [events, valuations, conflicts]: the three money tables
    pending,     \* trading_accounting_pending holds the trade
    projection,  \* trading_accounting_projections: [status, amount]
    told         \* the amounts reported so far for each funding event

moneyVars == <<account, fills, filled, binding, ledger, pending, projection, told>>

Fill == DOMAIN Fills
Order == DOMAIN OrderQuantity
MarketIds == {"none", "m1", "m2"}
Settlement == "U"
IsEntry(f) == Fills[f].order = "entry"
EventKey == (Fill \X {"fee", "pnl"}) \cup ((DOMAIN Funding) \X {"funding"})
Empty == [k \in {} |-> 0]
With(table, key, value) == [k \in DOMAIN table \cup {key} |->
                              IF k \in DOMAIN table THEN table[k] ELSE value]
SumOver(S, value(_)) == MapThenSumSet(value, S)

----------------------------------------------------------------------------
(* Events, valuations and contradictions *)

\* A fill's event may be reported by another transport, never with another
\* amount, asset or derivation; a provider's event must be the same text.
sameMoneyOriginalLoose(original, clean) == TRUE
sameMoneyOriginal(original, clean) == original = clean

recordConflict(l, key) == [l EXCEPT !.conflicts = @ \cup {key}]

appendValuation(l, key, valuation) ==
    IF key \in DOMAIN l.valuations /\ l.valuations[key] # valuation
    THEN recordConflict(l, key)
    ELSE [l EXCEPT !.valuations = With(@, key, valuation)]

nativeValuation(l, key) ==
    LET event == l.events[key]
    IN IF binding = "none" \/ (event.amount # 0 /\ event.asset # binding)
       THEN l
       ELSE appendValuation(l, key, [route |-> "native", rate |-> 1])

Refuses(l, key, clean) ==
    key \in DOMAIN l.events /\ ~sameMoneyOriginal(l.events[key], clean)

recordMoneyEvent(l, key, clean) ==
    IF Refuses(l, key, clean)
    THEN recordConflict(l, key)
    ELSE nativeValuation([l EXCEPT !.events = With(@, key, clean)], key)

\* decodeMoneyRow: a contested or unvalued event has no value.
Valued(l, key) == key \in DOMAIN l.valuations /\ key \notin l.conflicts
ReportingValue(l, key) == l.events[key].amount * l.valuations[key].rate
sumMoneyEventValues(l, keys) ==
    LET value(key) == ReportingValue(l, key) IN SumOver(keys, value)

IntentEvents(l) == {key \in DOMAIN l.events : key[2] # "funding"}

----------------------------------------------------------------------------
(* The projection of a trade's fills *)

\* ORDER BY filled_at, entries first, fill identity.
Before(f, g) ==
    \/ Fills[f].time < Fills[g].time
    \/ Fills[f].time = Fills[g].time /\ IsEntry(f) /\ ~IsEntry(g)

readSource == SetToSortSeq(DOMAIN fills, Before)

QuantityOf(S) == LET q(f) == Fills[f].quantity IN SumOver(S, q)
Entries == {f \in DOMAIN fills : IsEntry(f)}
Exits == DOMAIN fills \ Entries

proveOwnedQuantity ==
    /\ \A o \in Order :
          LET executed == QuantityOf({f \in DOMAIN fills : Fills[f].order = o})
          IN executed <= OrderQuantity[o] /\ executed = filled[o]
    /\ QuantityOf(Exits) <= QuantityOf(Entries)

\* Entries and exits of the same instant have no provable order, unless the
\* only entry so far is the one of that instant.
assertChronologicalCostBasis ==
    \A f \in Entries, g \in Exits : Fills[f].time = Fills[g].time =>
        \A e \in Entries : Fills[e].time <= Fills[f].time => e = f

fillMarket(f) == fills[f].market # "none" /\ ~fills[f].conflict
SameMarket == \A f, g \in DOMAIN fills : fills[f].market = fills[g].market

postFee(l, f) ==
    recordMoneyEvent(l, <<f, "fee">>,
        [amount |-> -Fills[f].fee, asset |-> Fills[f].asset, derivation |-> {}])

postFees(l) == FoldLeft(postFee, l, readSource)
FeeRefused(l, f) == Refuses(l, <<f, "fee">>,
    [amount |-> -Fills[f].fee, asset |-> Fills[f].asset, derivation |-> {}])

\* One fill of the moving-average walk; the walk ends at the first fill it
\* cannot post, and what it posted before stays.
PostPrice(walk, f) ==
    LET fill == Fills[f]
        notional == fill.price * fill.quantity
        allocated == (walk.cost * fill.quantity) \div walk.quantity
        profit == IF account.side = "LONG" THEN notional - allocated
                                           ELSE allocated - notional
        event == [amount |-> profit, asset |-> Settlement,
                  derivation |-> walk.basis]
        next == [walk EXCEPT !.basis = @ \cup {f}]
    IN IF ~walk.going THEN walk
       ELSE IF IsEntry(f)
       THEN [next EXCEPT !.quantity = @ + fill.quantity, !.cost = @ + notional]
       ELSE IF fill.quantity > walk.quantity
                \/ (walk.cost * fill.quantity) % walk.quantity # 0
       THEN [walk EXCEPT !.going = FALSE]
       ELSE [next EXCEPT !.quantity = @ - fill.quantity, !.cost = @ - allocated,
                         !.going = ~Refuses(walk.ledger, <<f, "pnl">>, event),
                         !.ledger = recordMoneyEvent(@, <<f, "pnl">>, event)]

postPricePnl(l) ==
    LET start == [ledger |-> l, quantity |-> 0, cost |-> 0, basis |-> {},
                  going |-> proveOwnedQuantity /\ assertChronologicalCostBasis
                            /\ (\A f \in DOMAIN fills : fillMarket(f)) /\ SameMarket]
    IN FoldLeft(PostPrice, start, readSource)

projectionResult(l, reasons) ==
    IF reasons \/ binding = "none" \/ (\E key \in IntentEvents(l) : ~Valued(l, key))
    THEN [status |-> "unresolved", amount |-> 0]
    ELSE [status |-> "complete", amount |-> sumMoneyEventValues(l, IntentEvents(l))]

\* projectAccountFillAccounting works off the pending trades.
projectIntent ==
    /\ pending
    /\ LET fees == postFees(ledger)
           price == postPricePnl(fees)
           reasons == ~price.going \/ \E f \in DOMAIN fills : FeeRefused(ledger, f)
       IN /\ ledger' = price.ledger
          /\ projection' = projectionResult(price.ledger, reasons)
    /\ pending' = FALSE
    /\ UNCHANGED <<account, fills, filled, binding, told>>

----------------------------------------------------------------------------
(* What arrives *)

\* correlateFill and captureFillAccounting: a fill is stored once; a later
\* report may complete its market contract and may not change it.
captureFillAccounting(f, market) ==
    LET row == IF f \in DOMAIN fills THEN fills[f] ELSE [market |-> market, conflict |-> FALSE]
        contradicts == row.market # "none" /\ market # "none" /\ row.market # market
        new == [market |-> IF row.market = "none" THEN market ELSE row.market,
                conflict |-> row.conflict \/ contradicts]
    IN /\ account.paper => market = "m1"
       /\ f \notin DOMAIN fills \/ new # row
       /\ fills' = [g \in DOMAIN fills \cup {f} |-> IF g = f THEN new ELSE fills[g]]
       /\ pending' = TRUE    \* trading_accounting_fill_insert, _fill_update
       /\ UNCHANGED <<account, filled, binding, ledger, projection, told>>

acknowledgeOrder(o, quantity) ==
    /\ quantity > filled[o]
    /\ quantity <= QuantityOf({f \in Fill : Fills[f].order = o})
    /\ filled' = [filled EXCEPT ![o] = quantity]
    /\ pending' = TRUE       \* trading_accounting_order_update
    /\ UNCHANGED <<account, fills, binding, ledger, projection, told>>

\* The first binding stands; a different one is refused.
bindAccountReportingCurrency(currency) ==
    /\ binding = "none"
    /\ binding' = currency
    /\ pending' = TRUE       \* trading_accounting_binding_insert
    /\ UNCHANGED <<account, fills, filled, ledger, projection, told>>

\* valueNativeAccountMoney: events recorded before the binding.
valueNativeAccountMoney ==
    LET late == {key \in DOMAIN ledger.events \ DOMAIN ledger.valuations :
                    ledger.events[key].amount = 0 \/ ledger.events[key].asset = binding}
        value(key, l) == nativeValuation(l, key)
    IN /\ binding # "none" /\ late # {}
       /\ ledger' = FoldSet(value, ledger, late)
       /\ pending' = (pending \/ \E key \in late : key[2] # "funding")
       /\ UNCHANGED <<account, fills, filled, binding, projection, told>>

\* bindAccountFundingEvidence records each funding event in its own transaction.
recordFunding(id, amount) ==
    /\ ~account.paper
    /\ told' = [told EXCEPT ![id] = @ \cup {amount}]
    /\ ledger' = recordMoneyEvent(ledger, <<id, "funding">>,
                    [amount |-> amount, asset |-> Settlement, derivation |-> {}])
    /\ ledger' # ledger
    /\ UNCHANGED <<account, fills, filled, binding, pending, projection>>

\* valueMoneyEvent: quotes of the caller are accepted for paper accounts only.
valueMoneyEvent(key, rate) ==
    /\ account.paper /\ binding # "none"
    /\ key \in DOMAIN ledger.events
    /\ ledger.events[key].asset # binding
    /\ ledger' = appendValuation(ledger, key, [route |-> "quote", rate |-> rate])
    /\ ledger' # ledger
    /\ pending' = TRUE       \* trading_accounting_valuation_insert, _conflict_insert
    /\ UNCHANGED <<account, fills, filled, binding, projection, told>>

----------------------------------------------------------------------------
LedgerInit ==
    /\ account \in AccountOf
    /\ fills = Empty
    /\ filled = [o \in Order |-> 0]
    /\ binding = "none"
    /\ ledger = [events |-> Empty, valuations |-> Empty, conflicts |-> {}]
    /\ pending = FALSE
    /\ projection = [status |-> "none", amount |-> 0]
    /\ told = [id \in DOMAIN Funding |-> {}]

LedgerNext ==
    \/ projectIntent
    \/ \E f \in Fill : \E market \in Reports[f] : captureFillAccounting(f, market)
    \/ \E o \in Order : \E quantity \in 1..OrderQuantity[o] : acknowledgeOrder(o, quantity)
    \/ \E currency \in Currency : bindAccountReportingCurrency(currency)
    \/ valueNativeAccountMoney
    \/ \E id \in DOMAIN Funding : \E amount \in Funding[id] : recordFunding(id, amount)
    \/ \E key \in EventKey, rate \in Rates : valueMoneyEvent(key, rate)

LedgerSpec == LedgerInit /\ [][LedgerNext]_moneyVars

----------------------------------------------------------------------------
(* moneyLedgerSnapshot: what admission of an entry, the telemetry and the   *)
(* journal read.                                                            *)

snapshotReadiness ==
    /\ binding # "none"
    /\ ledger.conflicts \cap DOMAIN ledger.events = {}
    /\ ~pending
    /\ projection.status \in {"none", "complete"}

SnapshotValued ==
    snapshotReadiness /\ \A key \in DOMAIN ledger.events : Valued(ledger, key)

SnapshotAmount == sumMoneyEventValues(ledger, DOMAIN ledger.events)

LedgerTypeOK ==
    /\ DOMAIN fills \subseteq Fill
    /\ \A f \in DOMAIN fills : fills[f] \in [market : MarketIds, conflict : BOOLEAN]
    /\ \A o \in Order : filled[o] \in 0..OrderQuantity[o]
    /\ binding \in Currency \cup {"none"}
    /\ DOMAIN ledger.events \subseteq EventKey
    /\ DOMAIN ledger.valuations \subseteq DOMAIN ledger.events
    /\ ledger.conflicts \subseteq DOMAIN ledger.events
    /\ pending \in BOOLEAN
    /\ projection.status \in {"none", "complete", "unresolved"} /\ projection.amount \in Int

\* A closed trade reported as complete made exactly the cash that flowed: what
\* the exits paid, less what the entries cost, less the valued fees, in
\* whatever order, how often and how late the fills were reported.  The
\* right-hand side knows nothing of cost bases or of the posted profits.
CashFlow ==
    LET notional(f) == Fills[f].price * Fills[f].quantity
        fee(f) == Fills[f].fee * ledger.valuations[<<f, "fee">>].rate
        price == SumOver(Exits, notional) - SumOver(Entries, notional)
    IN (IF account.side = "LONG" THEN price ELSE -price) - SumOver(DOMAIN fills, fee)

CompleteMeansExact ==
    (~pending /\ projection.status = "complete" /\ QuantityOf(Exits) = QuantityOf(Entries))
        => projection.amount = CashFlow

\* The account's total that admits entries is the trade's projected profit and
\* each reported funding event once; a funding event two reports disagree on
\* leaves it without a total.
TotalsAreUncontested ==
    SnapshotValued =>
        /\ \A id \in DOMAIN Funding : Cardinality(told[id]) <= 1
        /\ LET paid(id) == SumOver(told[id], LAMBDA amount : amount)
           IN SnapshotAmount = projection.amount + SumOver(DOMAIN Funding, paid)
=============================================================================
