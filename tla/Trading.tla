------------------------------ MODULE Trading -------------------------------
(***************************************************************************)
(* The trading half of the market actor, for one listed symbol:            *)
(* crates/fehu-economy/src/market.rs with symbol.rs and trading.rs.  Every *)
(* action is one job of the actor, which runs one at a time (actor.rs);    *)
(* inside a job the book trades first and the money follows, so what can   *)
(* go wrong is a reservation, a position or a record left behind.          *)
(*                                                                         *)
(* A job is an operator from market to market, because jobs call jobs: a   *)
(* step places the stops it fired, an amendment places its replacement.    *)
(***************************************************************************)
EXTENDS Exchange, Wallets, TLC

CONSTANTS
    Accounts, AccountOf,    \* traders may share an account
    Cash, Held,             \* what accounts and traders start with
    OUTSTANDING,            \* units_outstanding of the symbol
    TAKER_BPS,              \* Fees::taker_bps
    REBATE_BPS,             \* -Fees::maker_bps: a maker is never charged
    MAX_STOPS_PER_TRADER,
    ORDER_LOG,              \* Options::order_log
    Flows,                  \* what the participants of a behaviour may send
    Prices,                 \* the prices the process may move to
    MaxStopId               \* bound: stop ids (flow.max_id bounds order ids)

VARIABLES
    market,     \* the clearing and the symbol
    flow        \* an element of Flows, the same throughout a behaviour

vars == <<market, flow>>

Purses   == Accounts \cup {"Venue", "Synthetic"}
NoClient == "none"
KeepPrice == 0          \* an amendment that names no price, or no quantity,
KeepQty   == 0          \* keeps the order's own

ASSUME TradingAssumption ==
    /\ AccountOf \in [Traders -> Accounts]
    /\ Cash \in [Accounts -> Nat] /\ Held \in [Traders -> Nat]
    /\ SumFunction(Held) <= OUTSTANDING
    /\ TAKER_BPS \in 0 .. 10000 /\ REBATE_BPS \in 0 .. 10000
    /\ ORDER_LOG >= 1
    /\ {"Venue", "Synthetic"} \cap Accounts = {}

-----------------------------------------------------------------------------
(* Money: the wallets, as ledger.rs lets trading use them *)

WalletOf(owner) == IF owner = "Synthetic" THEN "Synthetic" ELSE AccountOf[owner]

TakerCost(cents) == (cents * TAKER_BPS) \div 10000
Rebate(cents)    == (cents * REBATE_BPS) \div 10000

-----------------------------------------------------------------------------
(* What an order may use, and what a resting order holds back *)

FreeShares(m, trader) ==
    Max({Max({m.held[trader], 0}) - m.reserved_shares[trader], 0})

HeldShares(m) == SumFunction([t \in Traders |-> Max({m.held[t], 0})])

BidShares(m) ==
    MapThenSumSet(Outstanding, {o \in m.x.book.orders :
                                  o.side = "Buy" /\ o.owner \in Traders})

\* Trader::check, with the cash a buy could consume.
Check(m, trader, side, qty, cents) ==
    LET w == m.wallets[AccountOf[trader]] IN
    /\ w.status = "Active"
    /\ side = "Buy"  => cents <= AvailableCents(w)
    /\ side = "Sell" => qty <= FreeShares(m, trader)

Reserve(m, trader, side, qty, price) ==
    IF side = "Buy"
    THEN [m EXCEPT !.wallets = ReserveCash(@, AccountOf[trader], qty * price)]
    ELSE [m EXCEPT !.reserved_shares[trader] = @ + qty]

ReleaseHeld(m, trader, side, qty, price) ==
    IF side = "Buy"
    THEN [m EXCEPT !.wallets = ReleaseCash(@, AccountOf[trader], qty * price)]
    ELSE [m EXCEPT !.reserved_shares[trader] = Max({@ - qty, 0})]

\* Mutant of Release: only what the order shows is given back.
ReleaseShown(m, o) ==
    LET freed == ReleaseHeld(m, o.owner, o.side, o.remaining, o.price) IN
    IF o.id \in DOMAIN m.log /\ m.log[o.id].status = "Resting"
    THEN [freed EXCEPT !.log[o.id].status = "Cancelled",
                       !.log[o.id].remaining = Outstanding(o)]
    ELSE freed

\* Market::release: the reservation of a withdrawn order, and its record.
Release(m, o) ==
    LET freed == ReleaseHeld(m, o.owner, o.side, Outstanding(o), o.price) IN
    IF o.id \in DOMAIN m.log /\ m.log[o.id].status = "Resting"
    THEN [freed EXCEPT !.log[o.id].status = "Cancelled",
                       !.log[o.id].remaining = Outstanding(o)]
    ELSE freed

-----------------------------------------------------------------------------
(* Booking a trade: records, reservation, money, positions *)

\* OrderRecord::fill, for whichever party has a live record.
RecordFill(log, id, qty) ==
    IF id \in DOMAIN log /\ log[id].status = "Resting"
    THEN LET left == Max({log[id].remaining - qty, 0})
         IN  [log EXCEPT ![id].filled = @ + qty,
                         ![id].remaining = left,
                         ![id].status = IF left = 0 THEN "Filled" ELSE @]
    ELSE log

\* Mutant of RecordFills: the taker's record, which is never live, and not
\* the maker's.
RecordTakerFill(m, t) ==
    IF t.taker \in Traders
    THEN [m EXCEPT !.log = RecordFill(@, t.taker_order, t.qty)]
    ELSE m

RecordFills(m, t) ==
    LET filled(log, owner, id) ==
            IF owner \in Traders THEN RecordFill(log, id, t.qty) ELSE log
    IN  [m EXCEPT !.log = filled(filled(@, t.taker, t.taker_order),
                                 t.maker, t.maker_order)]

\* The maker's reservation is given back before its fill is settled.
ReleaseMaker(m, t) ==
    IF t.maker \in Traders
    THEN ReleaseHeld(m, t.maker, Opposite(t.side), t.qty, t.price)
    ELSE m

\* One balanced transaction: both sides, and the venue's part of each.
Settlement(m, t) ==
    LET value == t.price * t.qty
        paid  == IF t.side = "Buy" THEN -value ELSE value   \* to the taker
        fee   == IF t.taker \in Traders THEN TakerCost(value) ELSE 0
        purse == Max({AvailableCents(m.wallets["Venue"]) + fee, 0})
        rebate == IF t.maker \in Traders THEN Min({Rebate(value), purse}) ELSE 0
        net(a) == (IF a = WalletOf(t.taker) THEN paid - fee ELSE 0)
                  + (IF a = WalletOf(t.maker) THEN rebate - paid ELSE 0)
                  + (IF a = "Venue" THEN fee - rebate ELSE 0)
    IN  [a \in {WalletOf(t.taker), WalletOf(t.maker), "Venue"} |-> net(a)]

Signed(side, qty) == IF side = "Buy" THEN qty ELSE -qty

\* Mutant of Deliver: the sides swapped.
DeliverReversed(held, t) ==
    [trader \in Traders |->
       held[trader] - (IF trader = t.taker THEN Signed(t.side, t.qty) ELSE 0)
                    + (IF trader = t.maker THEN Signed(t.side, t.qty) ELSE 0)]

Deliver(held, t) ==
    [trader \in Traders |->
       held[trader] + (IF trader = t.taker THEN Signed(t.side, t.qty) ELSE 0)
                    - (IF trader = t.maker THEN Signed(t.side, t.qty) ELSE 0)]

\* The money, and with it the shares.  A refusal is counted, logged with its
\* trade, and passed over: the model keeps the trades logged.
SettleTrade(m, t) ==
    LET post(net) == IF CanPost(m.wallets, net)
                     THEN [m EXCEPT !.wallets = Pay(@, net),
                                    !.held = Deliver(@, t)]
                     ELSE [m EXCEPT !.settlement_failures = Append(@, t)]
    IN  post(Settlement(m, t))

\* Mutant of BookTrade: the reservation is given back after the settlement.
SettleThenRelease(m, t) == ReleaseMaker(SettleTrade(RecordFills(m, t), t), t)

BookTrade(m, t) == SettleTrade(ReleaseMaker(RecordFills(m, t), t), t)

BookTrades(m, trades) == FoldLeft(BookTrade, m, trades)

-----------------------------------------------------------------------------
(* Placing *)

\* The trader's own resting orders this one would trade with.
SelfCrossing(m, r) ==
    LET reach == IF r.kind = "Limit" THEN r.price
                 ELSE Max({Collar(r.side, m.x.reference), 1})
        walk  == Preview(m.x.book, r.side, r.qty, reach).trades
    IN  IF walk = <<>> THEN {}
        ELSE {o \in OrdersOf(m.x.book, r.owner) :
                /\ o.side = Opposite(r.side)
                /\ Crosses(r.side, o.price, walk[Len(walk)].price)}

PostOnly(m, r) ==
    /\ r.kind = "Limit" /\ r.tif = "Gtc"
    /\ Makers(m.x.book.orders, r.side, r.price) = {}

\* SymbolState::prepare: the symbol's word on the order.
Prepared(m, r) ==
    /\ Validate(r)
    /\ m.halt = "No"
    /\ r.post_only => PostOnly(m, r)
    /\ SelfCrossing(m, r) = {}

CostCents(m, r) ==
    IF r.kind = "Limit" THEN r.price * r.qty
    ELSE Notional(PreviewMarket(m.x, r.side, r.qty).trades)

\* Mutant of WithinSupply: units already bid for are counted as free.
WithinUnheld(m, r) ==
    r.side = "Buy" /\ m.x.synthetic => r.qty <= Max({OUTSTANDING - HeldShares(m), 0})

\* The ladder sells what nobody holds, so a buy is limited to the units no
\* trader holds or is already bidding for.
WithinSupply(m, r) ==
    r.side = "Buy" /\ m.x.synthetic =>
        r.qty <= Max({OUTSTANDING - HeldShares(m) - BidShares(m), 0})

Record(r, p) ==
    [order |-> [f \in {"owner", "side", "kind", "price", "qty", "tif"} |-> r[f]],
     client |-> r.client, expires |-> r.expires,
     filled |-> r.qty - p.remaining, remaining |-> p.remaining,
     status |-> p.status]

\* The oldest finished records over the log's size; live ones stay.
Evicted(log) ==
    LET finished == {id \in DOMAIN log : log[id].status # "Resting"}
        excess   == Max({Cardinality(DOMAIN log) - ORDER_LOG, 0})
    IN  {id \in finished :
           Cardinality({old \in finished : old < id}) < excess}

ClientKey(record) == <<record.order.owner, record.client>>

RecordOrder(m, id, record) ==
    LET log     == [i \in DOMAIN m.log \cup {id} |->
                      IF i = id THEN record ELSE m.log[i]]
        clients == IF record.client = NoClient THEN m.clients
                   ELSE [k \in DOMAIN m.clients \cup {ClientKey(record)} |->
                           IF k = ClientKey(record) THEN id ELSE m.clients[k]]
        gone    == Evicted(log)
    IN  [m EXCEPT
           !.log = Restrict(log, DOMAIN log \ gone),
           !.clients = Restrict(clients,
              DOMAIN clients \ {ClientKey(log[i]) : i \in gone})]

Refused(m) == [market |-> m, trades |-> <<>>]

AllocateOrderId(m) ==
    LET id == Max({m.next_order_id, m.x.book.next_id})
    IN  [m EXCEPT !.next_order_id = id + 1, !.x.book = AdvanceOrderId(@, id)]

\* What the exchange made of an order: book its trades, reserve what is left.
BookPlacement(m, r, p) ==
    LET reserve(s) == IF p.status = "Resting"
                      THEN Reserve(s, r.owner, r.side, p.remaining, r.price)
                      ELSE s
    IN  reserve(BookTrades([m EXCEPT !.x.book = p.book,
                                     !.next_order_id = Max({@, p.book.next_id})],
                           p.trades))

\* An iceberg may be refused only now, with its id spent.
Send(m, r) ==
    LET done(p) == [market |-> RecordOrder(BookPlacement(m, r, p), p.id, Record(r, p)),
                    trades |-> p.trades]
    IN  IF r.display # NoDisplay /\ ~ValidDisplay(r, r.display) THEN Refused(m)
        ELSE done(SubmitOrder(m.x, r, r.display))

\* Fund a prepared order, send it, book what it trades, reserve and record
\* what is left of it.
FundAndSend(m, r, cents) ==
    IF ~WithinSupply(m, r)
       \/ ~Check(m, r.owner, r.side, r.qty, cents + TakerCost(cents))
    THEN Refused(m)
    ELSE Send(AllocateOrderId(m), r)

\* A client id already in the log is answered from it, or refused.
Place(m, r) ==
    IF ~Prepared(m, r) \/ <<r.owner, r.client>> \in DOMAIN m.clients
    THEN Refused(m)
    ELSE FundAndSend(m, r, CostCents(m, r))

\* The replacement carries the id the amendment names, not the order's own.
Amended(o, a) ==
    [owner |-> o.owner, side |-> o.side, kind |-> "Limit", tif |-> "Gtc",
     price |-> IF a.price = KeepPrice THEN o.price ELSE a.price,
     qty |-> IF a.qty = KeepQty THEN Outstanding(o) ELSE a.qty,
     post_only |-> a.post_only, client |-> a.client, display |-> NoDisplay,
     expires |-> FALSE]

\* The old order is withdrawn before its replacement is checked; only what
\* comes back from the symbol is released.  Nobody asks whether the id of the
\* replacement is in use.
Amend(m, o, a) ==
    LET r    == Amended(o, a)
        gone == [m EXCEPT !.x.book = Withdraw(@, {o})]
    IN  IF m.halt # "No" \/ ~Validate(r) THEN Refused(m)
        ELSE IF ~Prepared(gone, r) THEN Refused(gone)
        ELSE FundAndSend(Release(gone, o), r, CostCents(gone, r))

-----------------------------------------------------------------------------
(* Withdrawing *)

Cancel(m, o) == Release([m EXCEPT !.x.book = Withdraw(@, {o})], o)

CancelEach(m, orders) == FoldSet(LAMBDA o, s : Cancel(s, o), m, orders)

RestingOf(m, traders) == {o \in m.x.book.orders : o.owner \in traders}

-----------------------------------------------------------------------------
(* Stops *)

Behind(m, s) ==
    IF s.side = "Buy" THEN s.trigger <= m.x.reference
    ELSE s.trigger >= m.x.reference

TriggeredBy(s, price) ==
    IF s.side = "Buy" THEN price >= s.trigger ELSE price <= s.trigger

\* The order a stop becomes when it fires.
StopOrder(s) ==
    [owner |-> s.trader, side |-> s.side, qty |-> s.qty, tif |-> s.tif,
     kind |-> IF s.limit = NoLimit THEN "Market" ELSE "Limit",
     price |-> s.limit, post_only |-> FALSE, client |-> s.client,
     display |-> NoDisplay, expires |-> FALSE]

StopCost(s) == (IF s.limit = NoLimit THEN s.trigger ELSE s.limit) * s.qty

StopsOf(m, traders) == {s \in m.stops : s.trader \in traders}

CheckStop(m, s) ==
    /\ s.trigger > 0 /\ AllowsPrice(s.trigger)
    /\ ~Behind(m, s)
    /\ Validate(StopOrder(s))
    /\ Cardinality(StopsOf(m, {s.trader})) < MAX_STOPS_PER_TRADER
    /\ Check(m, s.trader, s.side, s.qty, StopCost(s) + TakerCost(StopCost(s)))

\* s is a stop without an id: nothing is reserved for it.
Arm(m, s) ==
    [m EXCEPT !.stops = @ \cup {[id |-> m.next_stop_id] @@ s},
              !.next_stop_id = @ + 1]

-----------------------------------------------------------------------------
(* Halts and the engine step *)

WithTrades(m, ticked) == BookTrades([m EXCEPT !.x = ticked.x], ticked.trades)

\* The trades a step hands to the market: those with a trader in them.
TraderTrades(trades) ==
    SelectSeq(trades, LAMBDA t : t.taker \in Traders \/ t.maker \in Traders)

\* Mutant of Ticked: a halted symbol ticks like any other.
TickedThroughHalt(m, s) == Tick(m.x, s.prints, s.price, s.ladder)

Ticked(m, s) ==
    IF m.halt = "No" THEN Tick(m.x, s.prints, s.price, s.ladder)
    ELSE TickWithoutMatching(m.x, s.price)

\* A resumed symbol is requoted at once, and the requote may trade.
ResumeTrading(m, ladder) ==
    IF m.halt = "No" THEN m
    ELSE WithTrades([m EXCEPT !.halt = "No"], Requote(m.x, ladder))

\* Whether the price left its band, or an automatic halt has run its time,
\* is the caller's choice: band and clock are abstracted.
ReviewHalt(m, review, ladder) ==
    IF review = "Halt" /\ m.halt = "No" THEN [m EXCEPT !.halt = "LimitMove"]
    ELSE IF review = "Resume" /\ m.halt = "LimitMove" THEN ResumeTrading(m, ladder)
    ELSE m

\* Withdraw what is due; a record may be live without an order behind it.
Sweep(m, due) ==
    CancelEach(m, {o \in m.x.book.orders :
                     /\ o.owner \in Traders
                     /\ o.id \in due \cap DOMAIN m.log
                     /\ m.log[o.id].expires /\ m.log[o.id].status = "Resting"})

Fire(m, stops) ==
    FoldLeft(LAMBDA s, stop : Place(s, StopOrder(stop)).market,
             [m EXCEPT !.stops = @ \ stops],
             SetToSortSeq(stops, LAMBDA a, b : a.id < b.id))

\* What the symbol's step leaves to the market: the sweep, and only then
\* the stops the new price fired.
SweepAndFire(m, s) ==
    LET fired == IF m.halt # "No" THEN {}
                 ELSE {stop \in m.stops : TriggeredBy(stop, s.price)}
    IN  Fire(Sweep(m, s.due), fired)

\* One engine step: tick, book what traded, review the halt, book what the
\* resume traded, sweep what expired, and only then place the fired stops.
EngineStep(m, s) ==
    LET handed(ticked) == [ticked EXCEPT !.trades = TraderTrades(@)]
    IN  SweepAndFire(ReviewHalt(WithTrades(m, handed(Ticked(m, s))),
                                s.review, s.ladder), s)

-----------------------------------------------------------------------------
(* The jobs *)

\* A job ends in market m.
End(m) == market' = m /\ UNCHANGED flow

CanSend == market.x.book.next_id <= flow.max_id

PlaceOrder ==
    \E r \in flow.orders :
        CanSend /\ End(Place(market, r).market)

AmendOrder ==
    \E o \in RestingOf(market, Traders), a \in flow.amendments :
        CanSend /\ End(Amend(market, o, a).market)

CancelOrder ==
    \E o \in RestingOf(market, Traders) : End(Cancel(market, o))

CancelAll ==
    \E t \in Traders : End(CancelEach(market, RestingOf(market, {t})))

PlaceStop ==
    \E s \in flow.stops :
        /\ market.next_stop_id <= MaxStopId
        /\ CheckStop(market, s)
        /\ End(Arm(market, s))

CancelStop ==
    \E s \in market.stops : End([market EXCEPT !.stops = @ \ {s}])

\* The orders and stops go first, whether or not the ledger then agrees.
FreezeAccount(a) ==
    LET traders == {t \in Traders : AccountOf[t] = a}
        quiet   == [CancelEach(market, RestingOf(market, traders))
                      EXCEPT !.stops = @ \ StopsOf(market, traders)]
    IN  End(IF market.wallets[a].status = "Closed" THEN quiet
            ELSE [quiet EXCEPT !.wallets[a].status = "Frozen"])

UnfreezeAccount(a) ==
    /\ market.wallets[a].status # "Closed"
    /\ End([market EXCEPT !.wallets[a].status = "Active"])

CloseAccount(a) ==
    /\ market.wallets[a].balance = 0 /\ market.wallets[a].reserved = 0
    /\ End([market EXCEPT !.wallets[a].status = "Closed"])

SetAccountStatus ==
    \E a \in Accounts, status \in flow.statuses :
        \/ status = "Frozen" /\ FreezeAccount(a)
        \/ status = "Active" /\ UnfreezeAccount(a)
        \/ status = "Closed" /\ CloseAccount(a)

\* Cash leaves an account for something that is not an order.
Transfer ==
    \E from, to \in Accounts, cents \in flow.transfers :
        /\ from # to
        /\ market.wallets[from].status = "Active"
        /\ cents <= AvailableCents(market.wallets[from])
        /\ CanPost(market.wallets, Movement(from, to, cents))
        /\ End([market EXCEPT !.wallets = Pay(@, Movement(from, to, cents))])

HaltSymbol == End([market EXCEPT !.halt = "Manual"])

ResumeSymbol ==
    \E ladder \in flow.ladders :
        CanSend /\ End(ResumeTrading(market, ladder))

Expiring ==
    {id \in DOMAIN market.log :
       market.log[id].expires /\ market.log[id].status = "Resting"}

Step ==
    \E prints \in flow.prints, price \in Prices, ladder \in flow.ladders,
       review \in {"Stay", "Halt", "Resume"}, due \in SUBSET Expiring :
        /\ CanSend
        /\ End(EngineStep(market,
                 [prints |-> prints, price |-> price, ladder |-> ladder,
                  review |-> review, due |-> due]))

Init ==
    /\ flow \in Flows
    /\ \E price \in Prices, ladder \in flow.ladders :
         market =
           [x |-> Requote([book |-> EmptyBook, reference |-> price,
                           synthetic |-> flow.synthetic], ladder).x,
            halt |-> "No", stops |-> {},
            wallets |-> [a \in Purses |->
                           Opened(IF a \in Accounts THEN Cash[a] ELSE 0)],
            held |-> Held, reserved_shares |-> [t \in Traders |-> 0],
            log |-> <<>>, clients |-> <<>>,
            next_order_id |-> 1, next_stop_id |-> 1, settlement_failures |-> <<>>]

Next ==
    \/ PlaceOrder \/ AmendOrder \/ CancelOrder \/ CancelAll
    \/ PlaceStop \/ CancelStop \/ SetAccountStatus \/ Transfer
    \/ HaltSymbol \/ ResumeSymbol \/ Step

Spec == Init /\ [][Next]_vars

-----------------------------------------------------------------------------
(* Properties *)

Status == {"Active", "Frozen", "Closed"}

RecordType ==
    [order : [owner : Traders, side : Side, kind : {"Limit", "Market"},
              price : Nat, qty : Nat, tif : {"Gtc", "Ioc", "Fok"}],
     client : {r.client : r \in flow.orders \cup flow.amendments \cup flow.stops}
                \cup {NoClient},
     expires : BOOLEAN, filled : Nat, remaining : Nat,
     status : {"Resting", "Filled", "Cancelled"}]

TypeOK ==
    /\ market.x.book.orders \subseteq RestingType
    /\ market.x.reference \in Prices
    /\ market.halt \in {"No", "Manual", "LimitMove"}
    /\ market.wallets \in [Purses -> [balance : Int, reserved : Nat, status : Status]]
    /\ market.held \in [Traders -> Nat]
    /\ market.reserved_shares \in [Traders -> Nat]
    /\ \A id \in DOMAIN market.log : market.log[id] \in RecordType
    /\ \A t \in ToSet(market.settlement_failures) : t.taker \in Owner /\ t.maker \in Owner

RestingBids(a) ==
    {o \in RestingOf(market, Traders) : o.side = "Buy" /\ AccountOf[o.owner] = a}
RestingAsks(t) == {o \in RestingOf(market, {t}) : o.side = "Sell"}

\* What is held back is exactly what rests, and is there: after any sequence
\* of fills in slices, cancels, amendments, expiries and freezes, an account's
\* reserved cash is the worth of its traders' bids, a trader's reserved shares
\* are its asks, and neither has been spent or sold under the promise.
\* Nothing in the code keeps the two together but arithmetic.
ReservationsMatchBook ==
    /\ \A a \in Accounts :
         /\ market.wallets[a].reserved
              = MapThenSumSet(LAMBDA o : Outstanding(o) * o.price, RestingBids(a))
         /\ market.wallets[a].reserved <= market.wallets[a].balance
    /\ \A t \in Traders :
         /\ market.reserved_shares[t] = MapThenSumSet(Outstanding, RestingAsks(t))
         /\ market.reserved_shares[t] <= market.held[t]
    /\ market.wallets["Venue"].balance >= 0

SellerOf(t) == IF t.side = "Buy" THEN t.maker ELSE t.taker

\* The account was closed while its order rested: closing asks about money,
\* and a resting sell holds back none.
SellerIsClosed(t) ==
    /\ SellerOf(t) \in Traders
    /\ market.wallets[AccountOf[SellerOf(t)]].status = "Closed"

\* A market buy, priced by what the book shows, was paid for something an
\* iceberg had hidden.
BoughtUnseen(t) ==
    /\ t.side = "Buy" /\ t.taker \in Traders
    /\ t.taker_order \in DOMAIN market.log =>
         market.log[t.taker_order].order.kind = "Market"
    /\ t.maker \in Traders
    /\ \E r \in flow.orders : r.owner = t.maker /\ r.display # NoDisplay

\* settle_trade calls a refusal "a bug, not a case to handle", because
\* everything that could cause one is prevented before the order is sent.
\* It is, but for two: whatever else was sent, cancelled, amended, printed,
\* fired, frozen or thawed, the ledger refuses a trade the book has made only
\* if the seller's account was closed under its order, or for a market buy
\* that went on into an iceberg.
SettlementRefusals ==
    \A t \in ToSet(market.settlement_failures) : SellerIsClosed(t) \/ BoughtUnseen(t)

Sum(wallets) == SumFunction([a \in DOMAIN wallets |-> wallets[a].balance])

\* No trade makes currency or shares: the ladder's debt included, the cash is
\* what the accounts started with, and the units traders hold are what they
\* started with or, where a ladder sells what nobody holds, stay with the
\* bids for more within the units outstanding.
Conserved ==
    /\ Sum(market.wallets) = SumFunction(Cash)
    /\ IF flow.synthetic THEN HeldShares(market) + BidShares(market) <= OUTSTANDING
       ELSE HeldShares(market) = SumFunction(Held)

Live(id) == market.log[id].status = "Resting"

\* The order log tells the truth: a record is live exactly while its order
\* rests, with the same quantity left and the rest of it filled.
LogAgreesWithBook ==
    /\ {id \in DOMAIN market.log : Live(id)}
         = {o.id : o \in RestingOf(market, Traders)}
    /\ \A o \in RestingOf(market, Traders) :
         LET rec == market.log[o.id] IN
         /\ rec.remaining = Outstanding(o)
         /\ rec.filled + rec.remaining = o.qty
         /\ rec.order.owner = o.owner

\* "A frozen account has nothing outstanding to settle": no order and no stop
\* of any of its traders survives the freeze, and none appears until the thaw.
FrozenIsQuiet ==
    \A t \in Traders :
        market.wallets[AccountOf[t]].status = "Frozen" =>
            RestingOf(market, {t}) \cup StopsOf(market, {t}) = {}

\* The book could be saved now and read back: it is not crossed, its queues
\* are in order, no two orders share an id or a place (validate_state).
BookReadsBack == Uncrossed(market.x.book) /\ QueuesValid(market.x.book)

\* No order of a trader's, sent now, would trade with one of the trader's
\* own: not as a market order, and not through an iceberg's hidden slices.
NeverTradesWithItself ==
    \A r \in flow.orders :
        \A t \in ToSet(Place(market, r).trades) : t.maker # r.owner

\* What the index of client ids says is true: an id leads to an order of its
\* trader's that carries it.  And a retry finds its order: while an order is
\* live its id leads to it, whatever the log has evicted, so sending it again
\* places nothing; but for ids that amendments carry, which are entered
\* unasked over another order's, and leave with whichever record goes first.
ClientIdsLead ==
    /\ \A k \in DOMAIN market.clients :
         LET id == market.clients[k] IN
         id \in DOMAIN market.log /\ ClientKey(market.log[id]) = k
    /\ \A id \in DOMAIN market.log :
         LET k == ClientKey(market.log[id]) IN
         Live(id) /\ k[2] \notin {NoClient} \cup {a.client : a \in flow.amendments} =>
             k \in DOMAIN market.clients /\ market.clients[k] = id

\* A halted symbol does not trade: while the halt lasts no share moves and no
\* order joins the book, though orders may be withdrawn and do expire.
HaltStopsTrading ==
    [][market.halt # "No" /\ market'.halt # "No" =>
         /\ market'.held = market.held
         /\ market'.x.book.orders \subseteq market.x.book.orders]_vars

\* What the market remembers of an order is what the book has: records, client
\* ids, and the queues a snapshot would be checked against.
RecordsAgree == LogAgreesWithBook /\ ClientIdsLead /\ BookReadsBack

\* Nobody trades who may not: not a frozen account, not with oneself, and
\* nobody at all while the symbol is halted.
NoForbiddenTrade == [](FrozenIsQuiet /\ NeverTradesWithItself) /\ HaltStopsTrading
=============================================================================
