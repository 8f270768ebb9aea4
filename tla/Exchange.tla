------------------------------ MODULE Exchange ------------------------------
(***************************************************************************)
(* The exchange of crates/fehu/src/exchange.rs around one book: the order  *)
(* entry that turns a market order into a collared one, the synthetic      *)
(* ladder that is withdrawn and quoted again around the reference price,   *)
(* and the synthetic prints.  Operators on [book, reference, synthetic].   *)
(* The price process, the random sizes and the impact of flow on the price *)
(* are left out: the next price, the ladder and the prints are arguments.  *)
(***************************************************************************)
EXTENDS Book

CONSTANT COLLAR_PCT     \* LiquidityParams::market_collar, in per cent
ASSUME ExchangeAssumption == COLLAR_PCT \in 0 .. 99

FloorPrice(price) ==
    IF TICK_CENTS = 1 THEN price
    ELSE Max({price - (price % TICK_CENTS), TICK_CENTS})
CeilPrice(price) == FloorPrice(price + TICK_CENTS - 1)

\* How far from the reference a market order may reach.
Collar(side, reference) ==
    IF side = "Buy"
    THEN -((-reference * (100 + COLLAR_PCT)) \div 100)
    ELSE (reference * (100 - COLLAR_PCT)) \div 100

CollarLimit(side, reference) ==
    IF side = "Buy" THEN FloorPrice(Collar(side, reference))
    ELSE CeilPrice(Collar(side, reference))

PreviewMarket(x, side, qty) ==
    Preview(x.book, side, qty, CollarLimit(side, x.reference))

\* A market order becomes an immediate-or-cancel limit order at the collar.
Collared(x, order) ==
    IF order.kind = "Limit" THEN order
    ELSE [order EXCEPT
            !.kind = "Limit",
            !.price = Min({Max({CollarLimit(order.side, x.reference), 1}),
                           MAX_PRICE_CENTS}),
            !.tif = IF @ = "Fok" THEN "Fok" ELSE "Ioc"]

SubmitOrder(x, order, display) ==
    SubmitToBook(x.book, Collared(x, order), display)

-----------------------------------------------------------------------------
SyntheticOrder(kind, side, price, qty) ==
    [owner |-> "Synthetic", side |-> side, kind |-> kind, price |-> price,
     qty |-> qty, tif |-> IF kind = "Market" THEN "Ioc" ELSE "Gtc"]

\* Submit synthetic orders one after another: the exchange and its trades.
SubmitAll(x, orders) ==
    LET add(s, p) == [x |-> [s.x EXCEPT !.book = p.book],
                      trades |-> s.trades \o p.trades]
    IN  FoldLeft(LAMBDA s, order :
                   add(s, SubmitToBook(s.x.book, order, NoDisplay)),
                 [x |-> x, trades |-> <<>>], orders)

\* One synthetic print.  What the book cannot absorb prints against hidden
\* liquidity, synthetic on both sides: nobody's.
Prints(x, prints) ==
    SubmitAll(x, [i \in DOMAIN prints |->
                    SyntheticOrder("Market", prints[i].side, 0, prints[i].qty)])

\* A rung `offset` cents from the reference, on the grid, away from it.
Rung(reference, q) ==
    IF q.side = "Buy" THEN FloorPrice(reference - q.offset)
    ELSE CeilPrice(reference + q.offset)

Requote(x, ladder) ==
    IF ~x.synthetic THEN [x |-> x, trades |-> <<>>]
    ELSE LET rungs == SelectSeq(ladder,
                 LAMBDA q : Rung(x.reference, q) \in 1 .. MAX_PRICE_CENTS)
         IN  SubmitAll([x EXCEPT !.book = Withdraw(@, OrdersOf(@, "Synthetic"))],
               [i \in DOMAIN rungs |->
                  SyntheticOrder("Limit", rungs[i].side,
                                 Rung(x.reference, rungs[i]), rungs[i].qty)])

\* A tick: print its volume against the old ladder, then quote the new one.
Tick(x, prints, reference, ladder) ==
    LET quoted(p) == Requote([p.x EXCEPT !.reference = reference], ladder)
        both(p, r) == [x |-> r.x, trades |-> p.trades \o r.trades]
        moved(p) == both(p, quoted(p))
    IN  moved(Prints(x, IF x.synthetic THEN prints ELSE <<>>))

\* While trading is halted the price moves and the book does not.
TickWithoutMatching(x, reference) ==
    [x |-> [x EXCEPT !.reference = reference], trades |-> <<>>]
=============================================================================
