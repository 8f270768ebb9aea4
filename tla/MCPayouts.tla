----------------------------- MODULE MCPayouts ------------------------------
(* Payouts.tla on a small instance. *)
EXTENDS Payouts, TLC

CONSTANTS alice, bob, carol, main, other    \* traders and accounts

\* alice and carol trade on one account.
MCTraders   == {alice, bob, carol}
MCAccounts  == {main, other}
MCAccountOf == (alice :> main) @@ (bob :> other) @@ (carol :> main)
MCCash      == (main :> 1) @@ (other :> 0)
MCHeld      == (alice :> 1) @@ (bob :> 1) @@ (carol :> 1)

Order(trader, side, qty, price) ==
    [trader |-> trader, side |-> side, qty |-> qty, price |-> price]

\* Two companies that come and go, with orders resting on them.
Companies ==
    [requests |-> {Order(alice, "Sell", 1, 3), Order(carol, "Buy", 1, 1)},
     noise |-> {0, 1}, listings |-> {"ACME", "BOLT"}, prices |-> {1}, sweeps |-> {},
     transfers |-> {}, freezes |-> {}, closures |-> {}]

\* One company whose holders are frozen, emptied and closed.
Closures ==
    [requests |-> {Order(alice, "Sell", 1, 2), Order(bob, "Sell", 1, 3)},
     noise |-> {-1, 1}, listings |-> {}, prices |-> {0, 1}, sweeps |-> {1},
     transfers |-> {1, 2}, freezes |-> {main}, closures |-> {other}]

MCFlows == {Companies, Closures}
=============================================================================
