----------------------------- MODULE MCTrading ------------------------------
(* Trading.tla on small instances. *)
EXTENDS Trading

CONSTANTS alice, bob, carol, main, other    \* traders and accounts

\* alice and carol trade on one account.
MCTraders   == {alice, bob, carol}
MCAccounts  == {main, other}
MCAccountOf == (alice :> main) @@ (bob :> other) @@ (carol :> main)
MCCash      == (main :> 4) @@ (other :> 10)
MCHeld      == (alice :> 2) @@ (bob :> 0) @@ (carol :> 1)

Limit(owner, side, price, qty) ==
    [owner |-> owner, side |-> side, kind |-> "Limit", price |-> price,
     qty |-> qty, tif |-> "Gtc", post_only |-> FALSE, client |-> NoClient,
     display |-> NoDisplay, expires |-> FALSE]
Market(owner, side, qty) ==
    [Limit(owner, side, 0, qty) EXCEPT !.kind = "Market", !.tif = "Ioc"]
Iceberg(owner, side, price, qty) ==
    [Limit(owner, side, price, qty) EXCEPT !.display = 1]
Stop(trader, side, qty, trigger, limit) ==
    [trader |-> trader, side |-> side, qty |-> qty, trigger |-> trigger,
     limit |-> limit, tif |-> "Gtc", client |-> NoClient]
Amendment(price, qty, post_only) ==
    [price |-> price, qty |-> qty, post_only |-> post_only, client |-> NoClient]

Quote(side, offset, qty) == [side |-> side, offset |-> offset, qty |-> qty]

\* Players only.  Icebergs on both sides, sells at market.
Icebergs ==
    [orders |-> {Iceberg(alice, "Sell", 4, 2), Limit(carol, "Sell", 4, 1),
                 Limit(bob, "Buy", 4, 2), Iceberg(bob, "Buy", 2, 2),
                 Market(alice, "Sell", 2), Limit(carol, "Buy", 4, 1)},
     amendments |-> {Amendment(KeepPrice, 1, TRUE)},
     stops |-> {}, transfers |-> {}, statuses |-> {"Frozen", "Active"},
     max_id |-> 4, synthetic |-> FALSE, ladders |-> {<<>>}, prints |-> {<<>>}]

\* Players only.  Every time in force, client ids, deadlines and stops.
Retries ==
    [orders |-> {[Limit(alice, "Sell", 4, 2) EXCEPT !.client = "c"],
                 [Limit(carol, "Sell", 2, 1) EXCEPT !.expires = TRUE],
                 [Limit(bob, "Buy", 4, 2) EXCEPT !.tif = "Fok"],
                 [Limit(bob, "Buy", 2, 1) EXCEPT !.client = "c"],
                 Market(bob, "Buy", 2), [Limit(carol, "Buy", 4, 1) EXCEPT !.tif = "Ioc"]},
     amendments |-> {}, stops |-> {[Stop(alice, "Sell", 1, 2, NoLimit) EXCEPT !.client = "c"]},
     transfers |-> {}, statuses |-> {"Frozen", "Active"},
     max_id |-> 4, synthetic |-> FALSE, ladders |-> {<<>>}, prints |-> {<<>>}]

\* A ladder quotes around the price and prints against the book.
Ladder ==
    [orders |-> {Limit(alice, "Sell", 4, 2), Limit(bob, "Buy", 4, 1),
                 Limit(bob, "Buy", 2, 2)},
     amendments |-> {}, stops |-> {Stop(bob, "Buy", 1, 4, 4)},
     transfers |-> {}, statuses |-> {"Frozen", "Active"},
     max_id |-> 8, synthetic |-> TRUE,
     ladders |-> {<<Quote("Buy", 1, 1), Quote("Sell", 1, 1)>>},
     prints |-> {<<>>, <<[side |-> "Sell", qty |-> 2]>>}]

\* An account is emptied and closed; nothing of its traders can be for sale.
Closing ==
    [orders |-> {Limit(bob, "Buy", 4, 1), Limit(bob, "Buy", 2, 2)},
     amendments |-> {}, stops |-> {Stop(bob, "Buy", 1, 4, 4)},
     transfers |-> {5}, statuses |-> {"Frozen", "Active", "Closed"},
     synthetic |-> TRUE, max_id |-> 5, ladders |-> {<<Quote("Sell", 1, 1)>>},
     prints |-> {<<>>}]

\* No orders but those named, and nothing else.
Quiet ==
    [orders |-> {}, amendments |-> {}, stops |-> {}, transfers |-> {},
     statuses |-> {}, synthetic |-> FALSE, max_id |-> 4,
     ladders |-> {<<>>}, prints |-> {<<>>}]

\* Replacements with an id of their own, one another order has, and none.
Renamings ==
    [Quiet EXCEPT !.orders = {[Limit(alice, "Sell", 4, 2) EXCEPT !.client = "c"],
                              [Limit(alice, "Sell", 4, 1) EXCEPT !.client = "d"],
                              [Limit(bob, "Buy", 2, 1) EXCEPT !.client = "e"],
                              Market(bob, "Buy", 1)},
                  !.amendments = {[Amendment(KeepPrice, 1, FALSE) EXCEPT !.client = "d"],
                                  [Amendment(KeepPrice, 1, FALSE) EXCEPT !.client = "f"],
                                  Amendment(KeepPrice, KeepQty, FALSE)}]

\* A market buy, sent or fired by a stop, into what an iceberg hides.
MarketIntoIceberg ==
    [Quiet EXCEPT !.orders = {Iceberg(alice, "Sell", 4, 2), Market(bob, "Buy", 2),
                              Limit(bob, "Buy", 4, 2)},
                  !.stops = {Stop(bob, "Buy", 2, 4, NoLimit)}, !.transfers = {4}]

\* An account without cash is closed under a resting sell.
SellerCloses ==
    [Quiet EXCEPT !.orders = {Limit(alice, "Sell", 4, 1), Limit(bob, "Buy", 4, 1),
                              Market(bob, "Buy", 1)},
                  !.transfers = {4}, !.statuses = {"Closed"}]

MCFlows ==
    {Icebergs, Retries, Ladder, Closing, Renamings, MarketIntoIceberg, SellerCloses}
MCPrices == {2, 4}

\* An amendment that moves a bid up to a price its trader may not rest at,
\* which the code does not stand up to.
PostOnlyAmendment ==
    [Quiet EXCEPT !.orders = {Limit(alice, "Sell", 4, 1), Limit(bob, "Buy", 2, 1)},
                  !.amendments = {Amendment(4, KeepQty, TRUE)}]

MCPostOnlyAmendment == {PostOnlyAmendment}
=============================================================================
