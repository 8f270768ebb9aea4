------------------------------ MODULE Payouts -------------------------------
(***************************************************************************)
(* What a company owes its holders: listing, issuer wallets, dividends,    *)
(* delisting with a buyout, and the sweep of takings back to the treasury  *)
(* (crates/fehu-economy/src/market.rs with symbol.rs), over several        *)
(* symbols, with orders resting on them and accounts frozen and closed in  *)
(* between.  Every action is one job of the market actor.                  *)
(*                                                                         *)
(* Orders here rest, are withdrawn, or fill whole against the ladder when  *)
(* a step takes the price to them; orders that trade on arrival, slices,   *)
(* stops and fees are Trading.tla's.  A request the market refuses before  *)
(* it changes anything is a stuttering step.                               *)
(***************************************************************************)
EXTENDS Wallets, Sequences, FiniteSets, SequencesExt

CONSTANTS
    Tickers, Goods,         \* what may be listed; the ones that are goods
    Floated,                \* the stock the world starts with
    Accounts, Traders, AccountOf,
    Cash, Held,             \* what accounts and traders start with
    TREASURY, ISSUER_FLOAT, \* Options::issuer_float_cents
    OUTSTANDING,            \* units_outstanding of each symbol
    MAX_SYMBOLS,
    START_PRICE,
    Flows,                  \* what the participants of a behaviour may send
    MaxPrice, MaxOrders,    \* bounds: the price, and the order ids
    MaxPending              \* bound: dividends declared between two ticks

VARIABLES
    market,
    flow        \* an element of Flows, the same throughout a behaviour

vars == <<market, flow>>

Request == [trader : Traders, side : {"Buy", "Sell"}, qty : Nat, price : Nat]

ASSUME PayoutsAssumption ==
    /\ IsFiniteSet(Tickers) /\ IsFiniteSet(Traders) /\ IsFiniteSet(Accounts)
    /\ Goods \subseteq Tickers /\ Floated \in Tickers \ Goods
    /\ AccountOf \in [Traders -> Accounts]
    /\ Cash \in [Accounts -> Nat] /\ Held \in [Traders -> Nat]
    /\ {TREASURY, ISSUER_FLOAT, OUTSTANDING, MAX_SYMBOLS} \subseteq Nat
    /\ MaxPrice \in Nat /\ START_PRICE \in 1 .. MaxPrice /\ MAX_SYMBOLS > 0
    /\ {"Treasury", "Venue", "Synthetic"} \cap Tickers = {}
    /\ Accounts \cap (Tickers \cup {"Treasury", "Venue", "Synthetic"}) = {}

\* No order is for a fraction and nobody names a price below nothing.
ASSUME FlowsAssumption ==
    \A f \in Flows :
        /\ f.requests \subseteq Request /\ f.noise \subseteq Int
        /\ f.listings \subseteq Tickers /\ f.prices \subseteq 0 .. MaxPrice
        /\ f.sweeps \subseteq Nat /\ f.transfers \subseteq Nat
        /\ f.freezes \subseteq Accounts /\ f.closures \subseteq Accounts

Purses == Accounts \cup Tickers \cup {"Treasury", "Venue", "Synthetic"}

-----------------------------------------------------------------------------
(* Who holds what *)

TradersOn(a) == {t \in Traders : AccountOf[t] = a}

Holding(m, sym, a) == SumFunction([t \in TradersOn(a) |-> m.held[t][sym]])

HeldShares(m, sym) == SumFunction([t \in Traders |-> m.held[t][sym]])

\* Mutant of FreeShares: what resting sells have promised is free again.
FreeSharesHeld(m, t, sym) == m.held[t][sym]

FreeShares(m, t, sym) == Max({m.held[t][sym] - m.reserved_shares[t][sym], 0})

IsListed(m, sym) == sym \in m.listed

\* What `ask_listed` answers to.
IsQuoted(m, sym) == IsListed(m, sym) /\ ~m.symbols[sym].delisted

-----------------------------------------------------------------------------
(* Orders, as far as a payout meets them *)

\* Mutant of AllocateOrderId: the symbol's own book numbers its orders.
AllocateFromBook(m, sym) == m.symbols[sym].next_id

AllocateOrderId(m, sym) == Max({m.next_order_id, m.symbols[sym].next_id})

\* The books of all the symbols are one set of orders.
BookOf(m, sym) == {o \in m.book : o.symbol = sym}

BidShares(m, sym) == SumFunction([o \in {b \in BookOf(m, sym) : b.side = "Buy"} |-> o.qty])

Crossing(m, sym, r) ==
    {o \in BookOf(m, sym) :
       /\ o.side # r.side
       /\ IF r.side = "Buy" THEN o.price <= r.price ELSE o.price >= r.price}

\* An order that rests: it reaches neither the ladder nor another order.
Accepts(m, sym, r) ==
    LET w == m.wallets[AccountOf[r.trader]]  price == m.symbols[sym].price IN
    /\ IsQuoted(m, sym)
    /\ w.status = "Active"
    /\ Crossing(m, sym, r) = {}
    /\ IF r.side = "Buy"
       THEN /\ r.price < price /\ r.qty * r.price <= AvailableCents(w)
            /\ sym \notin Goods =>
                 r.qty <= OUTSTANDING - HeldShares(m, sym) - BidShares(m, sym)
       ELSE r.price > price /\ r.qty <= FreeShares(m, r.trader, sym)

Reserve(m, sym, r) ==
    IF r.side = "Buy"
    THEN [m EXCEPT !.wallets = ReserveCash(@, AccountOf[r.trader], r.qty * r.price)]
    ELSE [m EXCEPT !.reserved_shares[r.trader][sym] = @ + r.qty]

Rest(m, sym, r, id) ==
    [Reserve(m, sym, r) EXCEPT
        !.book = @ \cup {[id |-> id, trader |-> r.trader, symbol |-> sym, side |-> r.side,
                          qty |-> r.qty, price |-> r.price]},
        !.symbols[sym].next_id = id + 1,
        !.next_order_id = id + 1,
        !.orders = [i \in DOMAIN @ \cup {id} |->
                      IF i = id THEN [trader |-> r.trader, symbol |-> sym, live |-> TRUE]
                      ELSE @[i]]]

\* What a set of orders holds back of an account's cash, of a trader's shares.
BidCents(orders, a) ==
    SumFunction([o \in {b \in orders : b.side = "Buy" /\ AccountOf[b.trader] = a} |->
                   o.qty * o.price])

AskShares(orders, t, sym) ==
    SumFunction([o \in {s \in orders : s.side = "Sell" /\ s.trader = t /\ s.symbol = sym} |->
                   o.qty])

\* Market::release, for each of a set of orders that rest no more.
Release(m, orders) ==
    [m EXCEPT
        !.wallets = [w \in Purses |->
                       [m.wallets[w] EXCEPT !.reserved = Max({@ - BidCents(orders, w), 0})]],
        !.reserved_shares = [t \in Traders |-> [sym \in Tickers |->
                               Max({m.reserved_shares[t][sym] - AskShares(orders, t, sym), 0})]],
        !.orders = [id \in DOMAIN m.orders |->
                      IF \E o \in orders : o.id = id THEN [m.orders[id] EXCEPT !.live = FALSE]
                      ELSE m.orders[id]]]

Withdraw(m, orders) == [Release(m, orders) EXCEPT !.book = @ \ orders]

\* A fill whose money the ledger refuses moves no shares.
Fill(m, o) ==
    LET freed == Withdraw(m, {o})
        a     == AccountOf[o.trader]
        net   == IF o.side = "Buy" THEN Movement(a, "Synthetic", o.qty * o.price)
                 ELSE Movement("Synthetic", a, o.qty * o.price)
        shares == IF o.side = "Buy" THEN o.qty ELSE -o.qty
    IN  IF CanPost(freed.wallets, net)
        THEN [freed EXCEPT !.wallets = Pay(@, net), !.held[o.trader][o.symbol] = @ + shares]
        ELSE freed

FillAll(m, queue) ==
    LET after[n \in 0 .. Len(queue)] == IF n = 0 THEN m ELSE Fill(after[n - 1], queue[n])
    IN  after[Len(queue)]

-----------------------------------------------------------------------------
(* The price: what a dividend takes off it waits for the next tick *)

\* EventKind::Jump(-cents / declared), declared being the price it was
\* declared against.
Jump(price, event) == price - (price * event.cents) \div event.declared

ExDividend(price, pending) ==
    LET after[n \in 0 .. Len(pending)] == IF n = 0 THEN price ELSE Jump(after[n - 1], pending[n])
    IN  after[Len(pending)]

PriceAfter(m, sym, noise) ==
    Max({ExDividend(m.symbols[sym].price, m.symbols[sym].pending) + noise, 1})

Ticked(m, sym, noise) ==
    [m EXCEPT !.symbols[sym].price = PriceAfter(m, sym, noise),
              !.symbols[sym].pending = <<>>]

-----------------------------------------------------------------------------
(* Listing and the issuer's wallet *)

NewSymbol == [price |-> START_PRICE, pending |-> <<>>, delisted |-> FALSE, next_id |-> 1]

\* A symbol's state begins, and ends, with nothing on its book.
Renewed(m, sym) ==
    [m EXCEPT !.symbols[sym] = NewSymbol, !.book = {o \in @ : o.symbol # sym}]

FundIssuer(m, sym, float) ==
    LET cents == Min({float, AvailableCents(m.wallets["Treasury"])})
        net   == Movement("Treasury", sym, cents)
    IN  IF float = 0 THEN m
        ELSE IF cents > 0 /\ CanPost(m.wallets, net)
        THEN [m EXCEPT !.issuers = @ \cup {sym}, !.wallets = Pay(@, net)]
        ELSE [m EXCEPT !.issuers = @ \cup {sym}]

List(m, sym) ==
    FundIssuer([Renewed(m, sym) EXCEPT !.listed = @ \cup {sym}],
               sym, IF sym \in Goods THEN 0 ELSE ISSUER_FLOAT)

-----------------------------------------------------------------------------
(* Payouts: one transaction from the issuer to every holder *)

\* Mutant of Owed: a frozen holder is passed over.
OwedUnlessFrozen(m, sym, cents) ==
    [a \in {a \in Accounts : Holding(m, sym, a) > 0 /\ m.wallets[a].status = "Active"} |->
       cents * Holding(m, sym, a)]

Owed(m, sym, cents) ==
    [a \in {a \in Accounts : Holding(m, sym, a) > 0} |-> cents * Holding(m, sym, a)]

\* The draft: what is owed to each, and all of it out of one wallet.
PayoutDraft(owed, sym) ==
    [w \in DOMAIN owed \cup {sym} |-> IF w = sym THEN -SumFunction(owed) ELSE owed[w]]

\* Nobody to pay, and a payout of nothing, post nothing and are not refused.
\* The issuer's wallet is opened for the draft, whatever becomes of it.
PayHolders(m, sym, owed) ==
    LET open == [m EXCEPT !.issuers = @ \cup {sym}]
        net  == PayoutDraft(owed, sym)
    IN  IF SumFunction(owed) = 0 THEN [paid |-> TRUE, market |-> m]
        ELSE IF CanPost(m.wallets, net)
        THEN [paid |-> TRUE, market |-> [open EXCEPT !.wallets = Pay(@, net)]]
        ELSE [paid |-> FALSE, market |-> open]

\* Market::pay_dividend: pay first, then send the price ex.
PayDividend(m, sym, cents) ==
    LET event == [cents |-> cents, declared |-> m.symbols[sym].price]
        exDividend(p) == IF p.paid
                         THEN [p.market EXCEPT !.symbols[sym].pending = Append(@, event)]
                         ELSE p.market
    IN  exDividend(PayHolders(m, sym, Owed(m, sym, cents)))

\* Market::check_buyout, which only a named price is put to.
CheckBuyout(m, sym, cents) ==
    IF sym \in m.issuers
    THEN cents * HeldShares(m, sym) <= AvailableCents(m.wallets[sym])
    ELSE cents = 0 \/ HeldShares(m, sym) = 0

\* SymbolState::wind_up and the release of what the withdrawn orders held.
WindUp(m, sym) ==
    [Withdraw(m, BookOf(m, sym)) EXCEPT !.symbols[sym].delisted = TRUE]

\* The shares go either way; the counter outlives the book.
Unlist(m, sym) ==
    [Renewed(m, sym) EXCEPT
        !.held = [t \in Traders |-> [m.held[t] EXCEPT ![sym] = 0]],
        !.reserved_shares = [t \in Traders |-> [m.reserved_shares[t] EXCEPT ![sym] = 0]],
        !.next_order_id = Max({@, m.symbols[sym].next_id}),
        !.listed = @ \ {sym}]

\* Market::delist, the refusal after the winding up included.
Delist(m, sym, cents) ==
    LET settle(p) == IF p.paid THEN Unlist(p.market, sym) ELSE p.market
        wound == WindUp(m, sym)
    IN  settle(PayHolders(wound, sym, Owed(wound, sym, cents)))

-----------------------------------------------------------------------------
(* The jobs *)

\* A job ends in market m.
End(m) == market' = m /\ UNCHANGED flow

PlaceOrder ==
    \E sym \in Tickers, r \in flow.requests :
        /\ IsListed(market, sym) /\ AllocateOrderId(market, sym) <= MaxOrders
        /\ Accepts(market, sym, r)
        /\ End(Rest(market, sym, r, AllocateOrderId(market, sym)))

CancelOrder == \E o \in market.book : End(Withdraw(market, {o}))

Reached(sym, price) ==
    {o \in BookOf(market, sym) :
       IF o.side = "Buy" THEN o.price >= price ELSE o.price <= price}

\* A step of one symbol: the tick, and the orders the ladder then reaches, in
\* whatever order it reaches them.
Step ==
    \E sym \in Tickers, noise \in flow.noise :
        LET price == PriceAfter(market, sym, noise) IN
        /\ IsListed(market, sym) /\ price <= MaxPrice
        /\ \E filled \in SUBSET Reached(sym, price) : \E queue \in SetToSeqs(filled) :
             End(FillAll(Ticked(market, sym, noise), queue))

ListSymbol ==
    \E sym \in flow.listings :
        /\ ~IsListed(market, sym) /\ Cardinality(market.listed) < MAX_SYMBOLS
        /\ End(List(market, sym))

Dividend ==
    \E sym \in Tickers, cents \in flow.prices :
        /\ sym \notin Goods /\ IsQuoted(market, sym)
        /\ Len(market.symbols[sym].pending) < MaxPending
        /\ cents > 0 /\ cents < market.symbols[sym].price
        /\ End(PayDividend(market, sym, cents))

DelistAtPrice ==
    \E sym \in Tickers, cents \in flow.prices :
        /\ sym \notin Goods /\ IsListed(market, sym)
        /\ CheckBuyout(market, sym, cents)
        /\ End(Delist(market, sym, cents))

\* No price named: the last one, and no check before the winding up.
DelistAtLast ==
    \E sym \in Tickers :
        /\ sym \notin Goods /\ IsListed(market, sym)
        /\ End(Delist(market, sym, market.symbols[sym].price))

\* All that is available, or a sum named.
Sweep ==
    \E takings \in market.issuers \cup {"Venue"} :
        \E cents \in flow.sweeps \cup {AvailableCents(market.wallets[takings])} :
            LET net == Movement(takings, "Treasury", cents) IN
            /\ cents > 0
            /\ CanPost(market.wallets, net)
            /\ End([market EXCEPT !.wallets = Pay(@, net)])

Transfer ==
    \E from, to \in Accounts, cents \in flow.transfers :
        LET net == Movement(from, to, cents) IN
        /\ from # to /\ cents > 0
        /\ CanPost(market.wallets, net)
        /\ End([market EXCEPT !.wallets = Pay(@, net)])

\* Its orders go first, on every symbol, whether or not the ledger agrees.
FreezeAccount ==
    \E a \in flow.freezes :
        LET quiet == Withdraw(market, {o \in market.book : AccountOf[o.trader] = a})
        IN  End(IF market.wallets[a].status = "Closed" THEN quiet
                ELSE [quiet EXCEPT !.wallets[a].status = "Frozen"])

UnfreezeAccount ==
    \E a \in flow.freezes :
        /\ market.wallets[a].status # "Closed"
        /\ End([market EXCEPT !.wallets[a].status = "Active"])

CloseAccount ==
    \E a \in flow.closures :
        /\ market.wallets[a].balance = 0 /\ market.wallets[a].reserved = 0
        /\ End([market EXCEPT !.wallets[a].status = "Closed"])

Init ==
    LET purse(w) == IF w \in Accounts THEN Cash[w]
                    ELSE IF w = "Treasury" THEN TREASURY ELSE 0
        holding(t, sym) == IF sym = Floated THEN Held[t] ELSE 0
    IN  /\ flow \in Flows
        /\ market =
          List([wallets |-> [w \in Purses |-> Opened(purse(w))],
                issuers |-> {}, listed |-> {}, book |-> {},
                symbols |-> [sym \in Tickers |-> NewSymbol],
                held |-> [t \in Traders |-> [sym \in Tickers |-> holding(t, sym)]],
                reserved_shares |-> [t \in Traders |-> [sym \in Tickers |-> 0]],
                next_order_id |-> 1, orders |-> <<>>],
               Floated)

Next ==
    \/ PlaceOrder \/ CancelOrder \/ Step
    \/ ListSymbol \/ Dividend \/ DelistAtPrice \/ DelistAtLast \/ Sweep
    \/ Transfer \/ FreezeAccount \/ UnfreezeAccount \/ CloseAccount

Spec == Init /\ [][Next]_vars

-----------------------------------------------------------------------------
(* Properties *)

OrderType == [id : Nat, trader : Traders, symbol : Tickers, side : {"Buy", "Sell"},
              qty : Nat, price : Nat]

TypeOK ==
    /\ market.wallets \in [Purses -> [balance : Int, reserved : Nat,
                                      status : {"Active", "Frozen", "Closed"}]]
    /\ market.issuers \subseteq Tickers
    /\ market.listed \subseteq Tickers /\ Cardinality(market.listed) <= MAX_SYMBOLS
    /\ market.book \subseteq OrderType
    /\ \A sym \in Tickers :
         /\ market.symbols[sym].price \in 1 .. MaxPrice
         /\ market.symbols[sym].delisted => BookOf(market, sym) = {} /\ IsListed(market, sym)
    /\ \A t \in Traders, sym \in Tickers :
         market.held[t][sym] \in Nat /\ market.reserved_shares[t][sym] \in Nat

\* Nothing is held back for a symbol that is gone: across dividends, freezes
\* and delistings, an account's reserved cash is the worth of its bids on all
\* the books together, a trader's reserved shares are its asks on each, and
\* neither a share nor an order is left in a symbol that is not listed.
PromisesMatchBooks ==
    /\ \A a \in Accounts : market.wallets[a].reserved = BidCents(market.book, a)
    /\ \A t \in Traders, sym \in Tickers :
         /\ market.reserved_shares[t][sym] = AskShares(market.book, t, sym)
         /\ market.reserved_shares[t][sym] <= market.held[t][sym]
         /\ ~IsListed(market, sym) => BookOf(market, sym) = {} /\ market.held[t][sym] = 0

\* An order id names one order for good: what rests on a book is what the
\* log says is live under that symbol, though symbols are delisted and listed
\* again with a book that counts from one.
LogNamesTheBooks ==
    /\ \A id \in DOMAIN market.orders :
         market.orders[id].live => \E o \in market.book : o.id = id
    /\ \A o \in market.book :
         /\ o.id \in DOMAIN market.orders
         /\ market.orders[o.id] = [trader |-> o.trader, symbol |-> o.symbol, live |-> TRUE]
         /\ \A p \in market.book : p.id = o.id => p = o

\* Listings come and go, and neither what is promised nor what is remembered
\* of an order outlives its symbol or names another.
PromisesFollowListings == PromisesMatchBooks /\ LogNamesTheBooks

PaidPerShare(sym, cents) ==
    /\ market'.wallets[sym].balance =
         market.wallets[sym].balance - cents * HeldShares(market, sym)
    /\ \A a \in Accounts :
         market'.wallets[a].balance =
           market.wallets[a].balance + cents * Holding(market, sym, a)

\* "Nothing is paid to some holders and not others" (PayoutError): whenever
\* an issuer pays out, and whenever a symbol leaves the market, one price per
\* share is paid on every share held, by frozen holders too, in that step.
HoldersPaidAlike ==
    [][\A sym \in Tickers :
         LET paid == market'.wallets[sym].balance < market.wallets[sym].balance
                     /\ market'.wallets["Treasury"] = market.wallets["Treasury"]
             left == IsListed(market, sym) /\ ~IsListed(market', sym)
         IN  paid \/ left => \E cents \in 0 .. MaxPrice : PaidPerShare(sym, cents)]_vars

\* "A symbol whose issuer cannot buy its holders out must stay listed"
\* (Market::delist): a refused delisting leaves a symbol that still trades.
RefusedDelistingKeepsTrading ==
    \A sym \in Tickers : IsListed(market, sym) => ~market.symbols[sym].delisted
=============================================================================
