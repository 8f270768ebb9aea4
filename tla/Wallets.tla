------------------------------ MODULE Wallets -------------------------------
(***************************************************************************)
(* What the market lets its own jobs do with wallets: the checks of        *)
(* crates/fehu/src/ledger.rs on a function from wallets to [balance,       *)
(* reserved, status], for the modules in which money is one part of the    *)
(* state.  Ledger.tla is the ledger itself.  A draft is its net effect on  *)
(* the wallets it names.  One wallet, "Synthetic", may owe.                *)
(***************************************************************************)
EXTENDS Integers, FiniteSetsExt, Functions

CONSTANT MAX_WALLET_CENTS
ASSUME WalletsAssumption == MAX_WALLET_CENTS \in Nat

Opened(cents) == [balance |-> cents, reserved |-> 0, status |-> "Active"]

AvailableCents(w) == Max({w.balance - w.reserved, 0})

CanPost(wallets, net) ==
    \A a \in DOMAIN net :
        LET w == wallets[a]  balance == w.balance + net[a] IN
        /\ net[a] < 0 => /\ w.status = "Active"
                         /\ a = "Synthetic" \/ balance >= w.reserved
        /\ net[a] > 0 => w.status # "Closed" /\ balance <= MAX_WALLET_CENTS

Pay(wallets, net) ==
    [a \in DOMAIN wallets |->
       IF a \in DOMAIN net THEN [wallets[a] EXCEPT !.balance = @ + net[a]]
       ELSE wallets[a]]

\* A reservation the wallet cannot back is simply not taken.
ReserveCash(wallets, a, cents) ==
    IF wallets[a].status = "Active" /\ wallets[a].reserved + cents <= wallets[a].balance
    THEN [wallets EXCEPT ![a].reserved = @ + cents]
    ELSE wallets

ReleaseCash(wallets, a, cents) ==
    [wallets EXCEPT ![a].reserved = Max({@ - cents, 0})]

\* What "take cents out of one, put them into the other" nets to.
Movement(from, to, cents) ==
    [w \in {from, to} |-> IF from = to THEN 0 ELSE IF w = to THEN cents ELSE -cents]
=============================================================================
