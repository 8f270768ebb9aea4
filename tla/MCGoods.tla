------------------------------ MODULE MCGoods -------------------------------
(* Goods.tla on a small instance. *)
EXTENDS Goods, TLC

CONSTANTS alice, smith, miner   \* traders; each has an account of its own name

MCAccountOf == [t \in {alice, smith, miner} |-> t]
MCCash == (alice :> 3) @@ (smith :> 0) @@ (miner :> 0)
MCNpcs == <<smith, miner>>

Line(sym, price, available) == [symbol |-> sym, price |-> price, available |-> available]

Smelt(out, cost, refund) ==
    [id |-> "SMELT", inputs |-> "ORE" :> 1, needs |-> <<"ORE">>, outputs |-> "INGOT" :> out, first |-> "INGOT",
     cost |-> cost, duration |-> 1, refund |-> refund]

Units(t, sym, qty) == [trader |-> t, symbol |-> sym, qty |-> qty]

Pull(effect, delta, delay, secs) ==
    [effect |-> effect, symbols |-> {"INGOT"}, delta |-> delta, delay |-> delay, secs |-> secs]

Moves(by) == {("ORE" :> 0) @@ ("INGOT" :> cents) : cents \in by}

Quiet == [noise |-> Moves({0}), catalog |-> {}, purchases |-> {}, consumes |-> {}, recipes |-> {},
          forgetful |-> FALSE, starts |-> {}, events |-> {}, npcs |-> {}, productions |-> {},
          switches |-> {}, takers |-> {}, halts |-> {}, freezes |-> {}]

\* A player buys ore, smelts it while the recipe and the yield change, and
\* consumes what comes out.
Furnace ==
    [Quiet EXCEPT !.catalog = {Line("ORE", 1, 2)},
                  !.purchases = {Units(alice, "ORE", 1)},
                  !.consumes = {Units(alice, "INGOT", 1)},
                  !.recipes = {Smelt(2, 1, 5000), Smelt(4, 0, 10000)},
                  !.forgetful = TRUE,
                  !.starts = {[trader |-> alice, recipe |-> "SMELT", runs |-> r] : r \in 1 .. 2},
                  !.events = {Pull("Production", -5000, delay, 2) : delay \in 0 .. 1}]

Maker(levels, requote) ==
    [half_spread |-> 2500, levels |-> levels, level_step |-> 5000, size |-> 1, requote |-> requote]

Merchant(sym, levels, production, cash, inventory) ==
    [symbol |-> sym, policy |-> Maker(levels, 4000), production |-> production,
     cash |-> cash, inventory |-> inventory]

Plan == [recipe |-> "SMELT", restock_below |-> 0, runs |-> 2, max_running |-> 1]

\* Two merchants in one good, a player who trades with them, a price that
\* moves, and a world that soon wants three times as much for one step and
\* twice as much for the next: quotes of one unit grow to three, are taken in
\* part, and are drawn smaller again.
Merchants ==
    [Quiet EXCEPT !.noise = Moves({-1, 0, 1}),
                  !.npcs = {Merchant("INGOT", 2, <<>>, 3, 3)},
                  !.takers = {alice},
                  !.events = {Pull("Demand", 20000, 1, 2)},
                  !.halts = {"INGOT"}]

\* The same, and merchants are switched off and on, or have their cash frozen.
Closing ==
    [Merchants EXCEPT !.noise = Moves({0, 1}),
                      !.switches = {TRUE, FALSE},
                      !.freezes = {smith}]

\* Producers that buy their ore, smelt it and sell the ingots, when the
\* catalogue has enough of it.
Producers ==
    [Quiet EXCEPT !.catalog = {Line("ORE", 1, 1), Line("ORE", 1, Unlimited)},
                  !.recipes = {Smelt(1, 1, 0)},
                  !.npcs = {Merchant("INGOT", 1, <<Plan>>, 5, 0), Merchant("INGOT", 1, <<>>, 5, 0)},
                  !.productions = {<<>>, <<Plan>>},
                  !.takers = {alice},
                  !.freezes = {smith}]

MCFlows == {Furnace, Merchants, Closing, Producers}
=============================================================================
