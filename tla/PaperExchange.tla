---------------------------- MODULE PaperExchange ----------------------------
(***************************************************************************)
(* The simulated exchange (src/src/paper_exchange.ts) of one paper account.*)
(* Every adapter call is one database transaction: an exception rolls all  *)
(* of it back, so a call that throws is a call that cannot be taken.  The  *)
(* rows of the four tables are the record `book`; the operators below take *)
(* a book and return the book the statements leave.  Prices and quantities *)
(* are integers and divideDecimal rounds down.                             *)
(***************************************************************************)
EXTENDS Integers, Sequences, FiniteSets, FiniteSetsExt, SequencesExt

CONSTANTS
    Request,            \* [client order id -> what the engine may submit]
    Symbol,
    Prices,             \* marks prices an operator may set
    Equity,             \* the account's first balance
    maximumFillQuantity,\* simulated liquidity per fill
    Retain,             \* reduceOnlyRemainder = 'retain'
    MaxMoves            \* bound on price and balance changes

VARIABLES
    book,           \* the paper tables
    marks,           \* [Symbol -> marks price]
    offset,         \* equity - available - margins as the operator last set it
    moves

paperVars == <<book, marks, offset, moves>>

OrderId == DOMAIN Request
Class(o) == IF Request[o].role \in {"stop_loss", "take_profit"} THEN Request[o].role ELSE "other"
Open == {"open", "partially_filled"}
Flat == [side |-> "none", quantity |-> 0, average |-> 0, margin |-> 0]

PaperInit ==
    /\ book = [orders |-> [o \in OrderId |-> [status |-> "none", filled |-> 0]],
               created |-> [s \in Symbol, c \in {"stop_loss", "take_profit", "other"} |-> <<>>],
               positions |-> [s \in Symbol |-> Flat],
               equity |-> Equity, available |-> Equity, realized |-> 0,
               fills |-> [o \in OrderId |-> 0],
               thrown |-> FALSE]
    /\ marks = [s \in Symbol |-> Min(Prices)]
    /\ offset = 0
    /\ moves = 0

Throw(b) == [b EXCEPT !.thrown = TRUE]

orderCanFill(b, o, price) ==
    LET r == Request[o] IN
    CASE r.type = "market" -> TRUE
      [] r.type = "stop_market" ->
           \/ b.orders[o].filled > 0
           \/ IF r.side = "sell" THEN price <= r.trigger ELSE price >= r.trigger
      [] OTHER -> IF r.side = "buy" THEN price <= r.price ELSE price >= r.price

-----------------------------------------------------------------------------
(* Positions.                                                              *)

updateOpeningPosition(b, o, quantity, price) ==
    LET r == Request[o]
        p == b.positions[r.symbol]
        side == IF r.side = "buy" THEN "LONG" ELSE "SHORT"
        margin == (quantity * price) \div r.leverage
        total == p.quantity + quantity
    IN  IF b.available < margin \/ p.side \notin {"none", side} THEN Throw(b)
        ELSE [b EXCEPT
               !.positions[r.symbol] =
                   [side |-> side, quantity |-> total,
                    average |-> (p.quantity * p.average + quantity * price) \div total,
                    margin |-> p.margin + margin],
               !.available = @ - margin]

cancelOrphanedReduceOrders(b, symbol) ==
    [b EXCEPT !.orders =
        [o \in OrderId |->
            IF Request[o].symbol = symbol /\ Request[o].reduceOnly
               /\ b.orders[o].status \in Open
            THEN [b.orders[o] EXCEPT !.status = "cancelled"] ELSE b.orders[o]]]

\* What a closing order may take from the position.
closable(b, o, requested) ==
    LET p == b.positions[Request[o].symbol]
    IN  IF p.quantity < requested THEN p.quantity ELSE requested

\* Mutant: a reduce-only order fills in full.

updateClosingPosition(b, o, quantity, price) ==
    LET s == Request[o].symbol
        p == b.positions[s]
        pnl == IF p.side = "LONG" THEN (price - p.average) * quantity
               ELSE (p.average - price) * quantity
        released == (p.margin * quantity) \div p.quantity
        paid == [b EXCEPT !.equity = @ + pnl,
                          !.available = @ + released + pnl,
                          !.realized = @ + pnl]
    IN  IF p.side = "none" THEN b
        ELSE IF Request[o].side # (IF p.side = "LONG" THEN "sell" ELSE "buy") THEN Throw(b)
        ELSE IF quantity = p.quantity
        THEN LET closed == [paid EXCEPT !.positions[s] = Flat]
             IN  IF Retain THEN closed ELSE cancelOrphanedReduceOrders(closed, s)
        ELSE [paid EXCEPT !.positions[s].quantity = @ - quantity,
                          !.positions[s].margin = @ - released]

-----------------------------------------------------------------------------
(* Orders.                                                                 *)

statusAfter(r, cumulative, flat) ==
    CASE cumulative = r.quantity -> "filled"
      [] flat /\ ~Retain -> "cancelled"
      [] cumulative = 0 -> "open"
      [] OTHER -> "partially_filled"

fillOrder(b, o, price) ==
    LET r == Request[o]
        filled == b.orders[o].filled
        requested == Min({r.quantity - filled, maximumFillQuantity})
        quantity == IF r.reduceOnly THEN closable(b, o, requested) ELSE requested
        moved == IF r.reduceOnly THEN updateClosingPosition(b, o, quantity, price)
                 ELSE updateOpeningPosition(b, o, quantity, price)
        flat == r.reduceOnly /\ moved.positions[r.symbol] = Flat
    IN  IF moved.thrown THEN moved
        ELSE [moved EXCEPT
               !.orders[o] = [status |-> statusAfter(r, filled + quantity, flat),
                              filled |-> filled + quantity],
               !.fills[o] = @ + quantity]

\* Limit orders fill at their price, everything else at the marks.
fillPrice(o, price) == IF Request[o].type = "limit" THEN Request[o].price ELSE price

\* Stops first, then take profits, then the rest, each in order of creation.
settlementOrder(b, symbol) ==
    LET Of(class) == SelectSeq(b.created[symbol, class],
                               LAMBDA o : b.orders[o].status \in Open)
    IN  Of("stop_loss") \o Of("take_profit") \o Of("other")

settleOpenOrders(b, symbol, price) ==
    LET Settle(c, o) ==
            IF ~c.thrown /\ c.orders[o].status \in Open /\ orderCanFill(c, o, price)
            THEN fillOrder(c, o, fillPrice(o, price)) ELSE c
    IN  FoldLeft(Settle, b, settlementOrder(b, symbol))

\* A client order id that is known is answered with its row.
alreadyPlaced(b, o) == b.orders[o].status # "none"

\* submitOrder inside its transaction: insert, fill what the marks allows, and
\* cancel what an immediate-or-cancel order leaves.
Submitted(b, o) ==
    LET r == Request[o]
        price == marks[r.symbol]
        placed == [b EXCEPT !.orders[o] = [status |-> "open", filled |-> 0],
                            !.created[r.symbol, Class(o)] = Append(@, o)]
        run == IF orderCanFill(placed, o, price)
               THEN fillOrder(placed, o, IF r.ioc THEN price ELSE fillPrice(o, price))
               ELSE placed
    IN  IF b.thrown \/ alreadyPlaced(b, o) THEN b
        ELSE IF r.ioc /\ ~run.thrown /\ run.orders[o].status \in Open
        THEN [run EXCEPT !.orders[o].status = "cancelled"]
        ELSE run

\* A call commits when nothing in it threw.
Commit(b) == ~b.thrown /\ book' = b

submitOrder(o) ==
    /\ Commit(Submitted(book, o))
    /\ UNCHANGED <<marks, offset, moves>>

\* The entry and its stop in one transaction.
submitProtectedEntry(entry, stop) ==
    /\ Request[entry].role = "entry" /\ Request[stop].role = "stop_loss"
    /\ Request[entry].symbol = Request[stop].symbol /\ Request[stop].reduceOnly
    /\ Commit(Submitted(Submitted(book, entry), stop))
    /\ UNCHANGED <<marks, offset, moves>>

cancelOrder(o) ==
    /\ book.orders[o].status # "none"
    /\ book' = IF book.orders[o].status \in Open
               THEN [book EXCEPT !.orders[o].status = "cancelled"] ELSE book
    /\ UNCHANGED <<marks, offset, moves>>

\* The marks moves and open orders settle, or neither.
setMarket(s, price) ==
    /\ moves < MaxMoves /\ price # marks[s]
    /\ Commit(settleOpenOrders(book, s, price))
    /\ marks' = [marks EXCEPT ![s] = price]
    /\ moves' = moves + 1
    /\ UNCHANGED offset

Margins(b) == MapThenSumSet(LAMBDA s : b.positions[s].margin, Symbol)

\* An operator sets the balance, with or without open positions.
setBalance(equity, available) ==
    /\ moves < MaxMoves
    /\ available <= equity
    /\ book' = [book EXCEPT !.equity = equity, !.available = available]
    /\ offset' = equity - available - Margins(book)
    /\ moves' = moves + 1
    /\ UNCHANGED marks

PaperNext ==
    \/ \E o \in OrderId : submitOrder(o) \/ cancelOrder(o)
    \/ \E entry, stop \in OrderId : submitProtectedEntry(entry, stop)
    \/ \E s \in Symbol, price \in Prices : setMarket(s, price)
    \/ setBalance(Equity, Equity)

-----------------------------------------------------------------------------
TypeOK ==
    /\ \A o \in OrderId : /\ book.orders[o].status \in Open \cup {"none", "filled", "cancelled"}
                          /\ book.orders[o].filled \in 0..Request[o].quantity
    /\ \A s \in Symbol : book.positions[s].side \in {"none", "LONG", "SHORT"}
    /\ marks \in [Symbol -> Prices]
    /\ moves \in 0..MaxMoves

Filled(s, reducing) ==
    MapThenSumSet(LAMBDA o : book.fills[o],
                  {o \in OrderId : Request[o].symbol = s /\ Request[o].reduceOnly = reducing})

\* Fills explain the account: through partial fills, repeated submissions,
\* cancels and several orders settled by one price change, every position is
\* what was opened less what was closed, no order fills beyond its quantity,
\* and equity and free balance differ by exactly the margins in use (and what
\* an operator set).
FillsExplainTheAccount ==
    /\ \A s \in Symbol : /\ book.positions[s].quantity = Filled(s, FALSE) - Filled(s, TRUE)
                         /\ book.positions[s].quantity >= 0
                         /\ book.positions[s].quantity = 0 <=> book.positions[s] = Flat
    /\ \A o \in OrderId : book.fills[o] = book.orders[o].filled
    /\ book.equity - book.available = Margins(book) + offset

\* Closing a position takes the other exits of the symbol with it, also those
\* the same price change was about to settle: an exit left over would later
\* meet a position it was not meant for.
ExitsFollowThePosition ==
    \A s \in Symbol :
      ~Retain /\ book.positions[s] # Flat /\ book'.positions[s] = Flat =>
        \A o \in OrderId :
          Request[o].symbol = s /\ Request[o].reduceOnly => book'.orders[o].status \notin Open
=============================================================================
