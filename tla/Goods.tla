------------------------------- MODULE Goods --------------------------------
(***************************************************************************)
(* Goods: units that exist because a command issued them and end because   *)
(* one consumed them.  The catalogue that sells them, the recipes and jobs *)
(* that turn some into others, the NPCs that make a market in them, and    *)
(* the world's modifiers on what is made and wanted (market.rs with        *)
(* catalog.rs, jobs.rs, npc.rs and world.rs of crates/fehu-economy).       *)
(* Every action is one job of the market actor; Step is the engine's.      *)
(*                                                                         *)
(* A good has no simulated ladder, so what rests on its book is what the   *)
(* NPCs quote, and players trade against that.  Players' resting orders,   *)
(* fees and stocks are Trading.tla's and Payouts.tla's; what a unit is     *)
(* reckoned to have cost (cost basis, P&L) is not modelled.  A request the *)
(* market refuses before it changes anything is a stuttering step.         *)
(***************************************************************************)
EXTENDS Wallets, Sequences, SequencesExt, FiniteSets

CONSTANTS
    Commodities,            \* the goods listed
    Players, Npcs,          \* traders: the players, and a sequence of the ids NPCs get
    Accounts, AccountOf,
    Cash,                   \* what the players' accounts start with
    TREASURY, START_PRICE,
    RecipeIds,
    MAX_UNITS,              \* the width of a count of units: u64::MAX
    MAX_JOB_RUNS, MAX_RUNNING_JOBS, JOB_LOG, MAX_MODIFIERS,
    Flows,                  \* what the participants of a behaviour may send
    MaxPrice, MaxNow, MaxJobs   \* bounds: price, time, and the job ids

VARIABLES
    market,
    flow        \* an element of Flows, the same throughout a behaviour

vars == <<market, flow>>

Traders == Players \cup Range(Npcs)

ASSUME GoodsAssumption ==
    /\ IsFiniteSet(Commodities) /\ IsFiniteSet(Players) /\ IsFiniteSet(Accounts)
    /\ Npcs \in Seq(Range(Npcs)) /\ IsInjective(Npcs) /\ Players \cap Range(Npcs) = {}
    /\ AccountOf \in [Traders -> Accounts]
    /\ \A n \in Range(Npcs), t \in Traders : AccountOf[t] = AccountOf[n] => t = n
    /\ Cash \in [Accounts -> 0 .. MAX_WALLET_CENTS] /\ TREASURY \in 0 .. MAX_WALLET_CENTS
    /\ \A n \in Range(Npcs) : Cash[AccountOf[n]] = 0
    /\ {MAX_UNITS, MAX_JOB_RUNS, MAX_RUNNING_JOBS, JOB_LOG, MAX_MODIFIERS} \subseteq Nat
    /\ {MaxPrice, MaxNow, MaxJobs} \subseteq Nat /\ START_PRICE \in 1 .. MaxPrice
    /\ Accounts \cap Commodities = {}
    /\ {"Treasury", "Venue", "Synthetic"} \cap (Accounts \cup Commodities) = {}

Purses == Accounts \cup Commodities \cup {"Treasury", "Venue"}

Unlimited == -1     \* a catalogue line with no `available`

BPS == 10000

-----------------------------------------------------------------------------
(* What participants may send: what the market validates on the way in. *)

PartialFn(S, T) == UNION {[D -> T] : D \in SUBSET S}

\* A side of a recipe; `needs` and `first` keep the order it was written in.
Lines == PartialFn(Commodities, 0 .. MAX_UNITS)

Recipe ==
    {r \in [id : RecipeIds, inputs : Lines, needs : Seq(Commodities), outputs : Lines,
            first : Commodities, cost : Nat, duration : Nat, refund : 0 .. BPS] :
        Range(r.needs) = DOMAIN r.inputs /\ r.first \in DOMAIN r.outputs}

Policy == [half_spread : Nat, levels : Nat, level_step : Nat, size : Nat \ {0}, requote : Nat]

\* A sequence of one plan, or of none.
Production == Seq([recipe : RecipeIds, restock_below : Nat, runs : Nat, max_running : Nat])

ASSUME FlowsAssumption ==
    \A f \in Flows :
        /\ f.noise \subseteq [Commodities -> Int]
        /\ f.catalog \subseteq [symbol : Commodities, price : Nat, available : Nat \cup {Unlimited}]
        /\ f.purchases \cup f.consumes \subseteq [trader : Players, symbol : Commodities, qty : Nat]
        /\ f.recipes \subseteq Recipe
        /\ f.starts \subseteq [trader : Players, recipe : RecipeIds, runs : Nat]
        /\ f.events \subseteq [effect : {"Production", "Demand"}, symbols : SUBSET Commodities,
                              delta : Int, delay : Nat, secs : Nat]
        /\ f.npcs \subseteq [symbol : Commodities, policy : Policy, production : Production,
                            cash : Nat, inventory : Nat]
        /\ f.productions \subseteq Production
        /\ f.takers \subseteq Players /\ f.halts \subseteq Commodities /\ f.freezes \subseteq Accounts

-----------------------------------------------------------------------------
(* Units *)

HeldUnits(m, sym) == SumFunction([t \in Traders |-> m.held[t][sym]])

UnitsOutstanding(m, sym) == Max({m.issued[sym] - m.consumed[sym], 0})

FreeUnits(m, t, sym) == Max({m.held[t][sym] - m.reserved_units[t][sym], 0})

CanIssue(m, sym, qty) == m.issued[sym] + qty <= MAX_UNITS

Lot(sym, qty) == [s \in {sym} |-> qty]

Plus(units, lines) ==
    [sym \in DOMAIN units |-> IF sym \in DOMAIN lines THEN units[sym] + lines[sym] ELSE units[sym]]

Minus(units, lines) ==
    [sym \in DOMAIN units |-> IF sym \in DOMAIN lines THEN units[sym] - lines[sym] ELSE units[sym]]

\* SymbolInfo::issue with Trader::endow or Trader::acquire, of each line.
Issue(m, t, lines) ==
    [m EXCEPT !.issued = Plus(@, lines), !.held[t] = Plus(@, lines)]

\* Mutant of UseUp: a furnace that takes the units and never reports it.
UseUpQuietly(m, t, lines) == [m EXCEPT !.held[t] = Minus(@, lines)]

\* SymbolInfo::consume with Trader::destroy or Trader::withdraw, of each line.
UseUp(m, t, lines) ==
    [m EXCEPT !.consumed = Plus(@, lines), !.held[t] = Minus(@, lines)]

-----------------------------------------------------------------------------
(* The world: what is pulling on production and demand *)

MIN_YIELD_BPS == 2500
MAX_YIELD_BPS == 40000
Clamp(bps) == Max({MIN_YIELD_BPS, Min({bps, MAX_YIELD_BPS})})

IsLive(mod, now) == now < mod.until

\* Ramped down in a straight line; a division rounds towards zero.
PullBps(mod, now) ==
    LET left(delta) == (delta * (mod.until - now)) \div (mod.until - mod.from)
    IN  IF now < mod.from \/ ~IsLive(mod, now) THEN 0
        ELSE IF mod.delta >= 0 THEN left(mod.delta) ELSE -left(-mod.delta)

MultiplierBps(m, effect, sym) ==
    LET mine == {i \in DOMAIN m.world : m.world[i].effect = effect
                                        /\ sym \in m.world[i].symbols}
    IN  Clamp(BPS + SumFunction([i \in mine |-> PullBps(m.world[i], m.now)]))

Live(world, now) ==
    LET live[i \in 0 .. Len(world)] ==
          IF i = 0 THEN <<>>
          ELSE IF IsLive(world[i], now) THEN Append(live[i - 1], world[i]) ELSE live[i - 1]
    IN  live[Len(world)]

Forget(world, now) ==
    LET live == Live(world, now)
    IN  SubSeq(live, Max({1, Len(live) - MAX_MODIFIERS + 1}), Len(live))

ScaledQty(qty, bps) == IF qty = 0 THEN 0 ELSE Max({(qty * Clamp(bps)) \div BPS, 1})

-----------------------------------------------------------------------------
(* The catalogue *)

CanPurchase(m, t, sym, qty) ==
    LET item == m.catalog[sym] IN
    /\ qty > 0 /\ CanIssue(m, sym, qty)
    /\ sym \in DOMAIN m.catalog
    /\ item.available = Unlimited \/ qty <= item.available
    /\ CanPost(m.wallets, Movement(AccountOf[t], sym, item.price * qty))

\* The money goes to the good's issuer first, then the units are issued.
Purchased(m, t, sym, qty) ==
    LET item == m.catalog[sym]
        left == IF item.available = Unlimited THEN Unlimited
                ELSE Max({item.available - qty, 0})
    IN  [Issue(m, t, Lot(sym, qty)) EXCEPT
            !.wallets = Pay(@, Movement(AccountOf[t], sym, item.price * qty)),
            !.catalog[sym] = [item EXCEPT !.available = left, !.issued = item.issued + qty]]

-----------------------------------------------------------------------------
(* Recipes and jobs *)

Running(m) == {id \in DOMAIN m.jobs : m.jobs[id].status = "Running"}

Scaled(lines, by) == [sym \in DOMAIN lines |-> lines[sym] * by]

\* What a job started now will deliver: one yield, its first output's.
Promise(m, recipe, runs) ==
    LET bps == MultiplierBps(m, "Production", recipe.first)
    IN  [sym \in DOMAIN recipe.outputs |-> ScaledQty(recipe.outputs[sym] * runs, bps)]

\* JobCost: the furnace is the venue's.  A job that costs nothing still
\* needs an account with something in it.
CanStart(m, id, t, runs) ==
    LET recipe == m.recipes[id]
        a      == AccountOf[t]
        cost   == recipe.cost * runs
        inputs == Scaled(recipe.inputs, runs)
        promise == Promise(m, recipe, runs)
    IN  /\ id \in DOMAIN m.recipes /\ runs \in 1 .. MAX_JOB_RUNS
        /\ Cardinality(Running(m)) < MAX_RUNNING_JOBS
        /\ cost <= MAX_WALLET_CENTS
        /\ m.wallets[a].status = "Active"
        /\ Max({cost, 1}) <= AvailableCents(m.wallets[a])
        /\ CanPost(m.wallets, Movement(a, "Venue", cost))
        /\ \A sym \in DOMAIN inputs : inputs[sym] <= FreeUnits(m, t, sym)
        /\ \A sym \in DOMAIN promise : UnitsOutstanding(m, sym) + promise[sym] <= MAX_UNITS

\* JobBook::evict: finished jobs over the cap, oldest first.
Evicted(jobs) ==
    LET over     == Max({Cardinality(DOMAIN jobs) - JOB_LOG, 0})
        finished == {id \in DOMAIN jobs : jobs[id].status # "Running"}
    IN  Restrict(jobs, {id \in DOMAIN jobs :
                          id \in finished => Cardinality({i \in finished : i <= id}) > over})

With(f, key, value) == [k \in DOMAIN f \cup {key} |-> IF k = key THEN value ELSE f[k]]

\* The cost is paid and the inputs are gone before the job is filed.
Started(m, id, t, runs) ==
    LET recipe == m.recipes[id]
        job == [recipe |-> id, trader |-> t, cost |-> recipe.cost * runs,
                outputs |-> Promise(m, recipe, runs), due |-> m.now + recipe.duration,
                status |-> "Running", refunded |-> 0]
        paid == [m EXCEPT !.wallets = Pay(@, Movement(AccountOf[t], "Venue", job.cost))]
    IN  [UseUp(paid, t, Scaled(recipe.inputs, runs)) EXCEPT
                    !.next_job = @ + 1,
                    !.jobs = Evicted(With(@, m.next_job, job))]

\* Never more than the venue holds; a refund nobody can be paid is none.
RefundOf(m, job) ==
    LET bps    == IF job.recipe \in DOMAIN m.recipes THEN m.recipes[job.recipe].refund ELSE 0
        refund == Min({(job.cost * bps) \div BPS, AvailableCents(m.wallets["Venue"])})
    IN  IF CanPost(m.wallets, Movement("Venue", AccountOf[job.trader], refund)) THEN refund ELSE 0

Cancelled(m, id) ==
    LET job    == m.jobs[id]
        refund == RefundOf(m, job)
    IN  [m EXCEPT !.wallets = Pay(@, Movement("Venue", AccountOf[job.trader], refund)),
                  !.jobs[id].status = "Cancelled",
                  !.jobs[id].refunded = refund]

\* Mutant of Outputs: the recipe as it stands when the job is done.
OutputsAsWritten(m, job) ==
    IF job.recipe \in DOMAIN m.recipes THEN m.recipes[job.recipe].outputs ELSE job.outputs

Outputs(m, job) == job.outputs

\* A line there is no room left to issue is not delivered.
Deliver(m, id) ==
    LET job == m.jobs[id]
        out == Outputs(m, job)
        fits == {sym \in DOMAIN out : CanIssue(m, sym, out[sym])}
    IN  [Issue(m, job.trader, Restrict(out, fits)) EXCEPT !.jobs[id].status = "Done"]

Due(m) == {id \in Running(m) : m.jobs[id].due <= m.now}

\* In the order of their ids.
CompleteJobs(m) ==
    LET after[id \in 0 .. m.next_job - 1] ==
          IF id = 0 THEN m
          ELSE IF id \in Due(m) THEN Deliver(after[id - 1], id) ELSE after[id - 1]
    IN  after[m.next_job - 1]

-----------------------------------------------------------------------------
(* NPCs: quotes on the book, drawn around the reference *)

QuotesOf(m, n) == {o \in m.book : o.trader = n}

\* Mutant of LevelPrice: nothing keeps a bid above nothing.
LevelPriceUnfloored(policy, side, reference, k) ==
    LET away == Max({(reference * (policy.half_spread + policy.level_step * k)) \div BPS, 1})
    IN  IF side = "Buy" THEN reference - away ELSE reference + away

LevelPrice(policy, side, reference, k) ==
    LET away == Max({(reference * (policy.half_spread + policy.level_step * k)) \div BPS, 1})
    IN  IF side = "Buy" THEN Max({reference - away, 1}) ELSE reference + away

StillGood(policy, quoted, reference) ==
    /\ quoted > 0
    /\ Max({reference - quoted, quoted - reference}) * BPS <= policy.requote * quoted

\* What a set of quotes holds back of an account's cash, of a trader's units.
BidCents(quotes, a) ==
    SumFunction([o \in {b \in quotes : b.side = "Buy" /\ AccountOf[b.trader] = a} |->
                   o.qty * o.price])

AskUnits(quotes, t, sym) ==
    SumFunction([o \in {s \in quotes : s.side = "Sell" /\ s.trader = t /\ s.symbol = sym} |->
                   o.qty])

\* Mutant of Release: a bid's cash comes back, an ask's units do not.
ReleaseBids(m, quotes) ==
    [m EXCEPT !.wallets = [w \in Purses |->
       [m.wallets[w] EXCEPT !.reserved = Max({@ - BidCents(quotes, w), 0})]]]

\* Market::release, for each of a set of quotes that rest no more.
Release(m, quotes) ==
    [m EXCEPT
        !.wallets = [w \in Purses |->
                       [m.wallets[w] EXCEPT !.reserved = Max({@ - BidCents(quotes, w), 0})]],
        !.reserved_units = [t \in Traders |-> [sym \in Commodities |->
                              Max({m.reserved_units[t][sym] - AskUnits(quotes, t, sym), 0})]]]

CancelAll(m, traders) ==
    LET gone == {o \in m.book : o.trader \in traders}
    IN  [Release(m, gone) EXCEPT !.book = @ \ gone]

\* Who buys and who sells when t takes units out of quote o or puts them in.
Buyer(t, o) == IF o.side = "Buy" THEN o.trader ELSE t
Seller(t, o) == IF o.side = "Buy" THEN t ELSE o.trader

Exchange(t, o, qty) ==
    Movement(AccountOf[Buyer(t, o)], AccountOf[Seller(t, o)], qty * o.price)

\* What the quote held back for these units no longer is.
Freed(m, o, qty) == Release(m, {[o EXCEPT !.qty = qty]})

\* Nothing on its side of the book is better.
IsBest(m, o) ==
    \A r \in m.book : r.symbol = o.symbol /\ r.side = o.side =>
        IF o.side = "Buy" THEN r.price <= o.price ELSE r.price >= o.price

CanTake(m, t, o, qty) ==
    LET w == m.wallets[AccountOf[t]] IN
    /\ o.symbol \notin m.halted /\ IsBest(m, o)
    /\ w.status = "Active"
    /\ IF o.side = "Sell" THEN qty * o.price <= AvailableCents(w)
       ELSE qty <= FreeUnits(m, t, o.symbol)
    /\ CanPost(Freed(m, o, qty).wallets, Exchange(t, o, qty))

Rest(book, o, qty) ==
    (book \ {o}) \cup IF qty = o.qty THEN {} ELSE {[o EXCEPT !.qty = @ - qty]}

Taken(m, t, o, qty) ==
    [Freed(m, o, qty) EXCEPT !.book = Rest(@, o, qty),
                             !.wallets = Pay(@, Exchange(t, o, qty)),
                             !.held[Buyer(t, o)][o.symbol] = @ + qty,
                             !.held[Seller(t, o)][o.symbol] = @ - qty]

Crosses(m, o) ==
    \E r \in m.book :
        /\ r.symbol = o.symbol /\ r.side # o.side
        /\ IF o.side = "Buy" THEN r.price <= o.price ELSE r.price >= o.price

\* A post-only order that would take, and one that is not covered, is refused
\* and the level stays empty.
PlaceQuote(m, o) ==
    LET w == m.wallets[AccountOf[o.trader]]
        rested == [m EXCEPT !.book = @ \cup {o}]
    IN  IF w.status # "Active" \/ Crosses(m, o) THEN m
        ELSE IF o.side = "Sell" /\ o.qty <= FreeUnits(m, o.trader, o.symbol)
        THEN [rested EXCEPT !.reserved_units[o.trader][o.symbol] = @ + o.qty]
        ELSE IF o.side = "Buy" /\ o.qty * o.price <= AvailableCents(w)
        THEN [rested EXCEPT !.wallets = ReserveCash(@, AccountOf[o.trader], o.qty * o.price)]
        ELSE m

\* Mutant of SizeNow: the size is reckoned once and kept.
SizeOnce(m, n) ==
    IF m.npcs[n].quoted_size > 0 THEN m.npcs[n].quoted_size
    ELSE ScaledQty(m.npcs[n].policy.size, MultiplierBps(m, "Demand", m.npcs[n].symbol))

SizeNow(m, n) ==
    ScaledQty(m.npcs[n].policy.size, MultiplierBps(m, "Demand", m.npcs[n].symbol))

QuoteAt(m, n, k, side) ==
    LET npc == m.npcs[n] IN
    [trader |-> n, symbol |-> npc.symbol, side |-> side, level |-> k, qty |-> SizeNow(m, n),
     price |-> LevelPrice(npc.policy, side, m.price[npc.symbol], k)]

\* All it has out is withdrawn, then each level's bid is placed and its ask.
Redrawn(m, n) ==
    LET after[k \in 0 .. m.npcs[n].policy.levels] ==
          IF k = 0 THEN CancelAll(m, {n})
          ELSE PlaceQuote(PlaceQuote(after[k - 1], QuoteAt(m, n, k - 1, "Buy")),
                          QuoteAt(m, n, k - 1, "Sell"))
    IN  after[m.npcs[n].policy.levels]

Requote(m, n) ==
    LET npc  == m.npcs[n]
        sym  == npc.symbol
        ref  == m.price[sym]
        size == SizeNow(m, n)
        good == /\ StillGood(npc.policy, npc.quoted_ref, ref)
                /\ Cardinality(QuotesOf(m, n)) = npc.quoted_orders
                /\ size = npc.quoted_size
                /\ FreeUnits(m, n, sym) = npc.quoted_stock
        s == Redrawn(m, n)
    IN  IF ~npc.active \/ sym \in m.halted \/ good THEN m
        ELSE [s EXCEPT !.npcs[n] =
                [npc EXCEPT !.quoted_ref = ref,
                            !.quoted_orders = Cardinality(QuotesOf(s, n)),
                            !.quoted_size = size,
                            !.quoted_stock = FreeUnits(s, n, sym)]]

\* What a producer lacks of one good it buys, unless something before it was
\* refused; `sofar` is [stocked, market].
Buy(sofar, n, sym, need) ==
    LET lack == Max({need - FreeUnits(sofar.market, n, sym), 0}) IN
    IF ~sofar.stocked \/ lack = 0 THEN sofar
    ELSE IF CanPurchase(sofar.market, n, sym, lack)
    THEN [sofar EXCEPT !.market = Purchased(@, n, sym, lack)]
    ELSE [sofar EXCEPT !.stocked = FALSE]

Bought(m, n, recipe, runs) ==
    LET after[i \in 0 .. Len(recipe.needs)] ==
          IF i = 0 THEN [stocked |-> TRUE, market |-> m]
          ELSE Buy(after[i - 1], n, recipe.needs[i], recipe.inputs[recipe.needs[i]] * runs)
    IN  after[Len(recipe.needs)]

\* A producer that has run low buys what its recipe lacks, line by line, and
\* keeps what it bought when the next line or the job is refused.
Restock(m, n) ==
    LET npc  == m.npcs[n]
        plan == npc.production[1]
        bought == Bought(m, n, m.recipes[plan.recipe], plan.runs)
    IN  IF /\ npc.active /\ npc.production # <<>>
           /\ FreeUnits(m, n, npc.symbol) <= plan.restock_below
           /\ Cardinality({id \in Running(m) : m.jobs[id].trader = n}) < plan.max_running
           /\ plan.recipe \in DOMAIN m.recipes
        THEN IF bought.stocked /\ CanStart(bought.market, plan.recipe, n, plan.runs)
             THEN Started(bought.market, plan.recipe, n, plan.runs)
             ELSE bought.market
        ELSE m

\* Each NPC created so far, in the order of their ids.
Restocked(m) ==
    LET after[i \in 0 .. Len(Npcs)] ==
          IF i = 0 THEN m
          ELSE IF Npcs[i] \in DOMAIN m.npcs THEN Restock(after[i - 1], Npcs[i]) ELSE after[i - 1]
    IN  after[Len(Npcs)]

Requoted(m) ==
    LET after[i \in 0 .. Len(Npcs)] ==
          IF i = 0 THEN m
          ELSE IF Npcs[i] \in DOMAIN m.npcs THEN Requote(after[i - 1], Npcs[i]) ELSE after[i - 1]
    IN  after[Len(Npcs)]

\* Market::step, once the symbols have moved.
Stepped(m) ==
    LET s == Restocked(CompleteJobs(m))
    IN  Requoted([s EXCEPT !.world = Forget(@, s.now)])

-----------------------------------------------------------------------------
(* The jobs *)

\* A job ends in market m.
End(m) == market' = m /\ UNCHANGED flow

Step ==
    \E noise \in flow.noise :
        /\ market.now < MaxNow /\ market.next_job <= MaxJobs
        /\ \A sym \in Commodities : market.price[sym] + noise[sym] <= MaxPrice
        /\ End(Stepped([market EXCEPT
                          !.now = @ + 1,
                          !.price = [sym \in Commodities |-> Max({@[sym] + noise[sym], 1})]]))

\* Rewriting a line keeps the count of what it has issued.
SetCatalogItem ==
    \E line \in flow.catalog :
        LET issued == IF line.symbol \in DOMAIN market.catalog
                      THEN market.catalog[line.symbol].issued ELSE 0
        IN  End([market EXCEPT !.catalog = With(@, line.symbol,
                   [price |-> line.price, available |-> line.available, issued |-> issued])])

RemoveCatalogItem ==
    \E sym \in DOMAIN market.catalog :
        End([market EXCEPT !.catalog = Restrict(@, DOMAIN @ \ {sym})])

Purchase ==
    \E r \in flow.purchases :
        /\ CanPurchase(market, r.trader, r.symbol, r.qty)
        /\ End(Purchased(market, r.trader, r.symbol, r.qty))

Consume ==
    \E r \in flow.consumes :
        /\ r.qty > 0 /\ r.qty <= FreeUnits(market, r.trader, r.symbol)
        /\ End(UseUp(market, r.trader, Lot(r.symbol, r.qty)))

SetRecipe ==
    \E r \in flow.recipes : End([market EXCEPT !.recipes = With(@, r.id, r)])

RemoveRecipe ==
    \E id \in DOMAIN market.recipes :
        /\ flow.forgetful
        /\ End([market EXCEPT !.recipes = Restrict(@, DOMAIN @ \ {id})])

StartJob ==
    \E r \in flow.starts :
        /\ market.next_job <= MaxJobs
        /\ CanStart(market, r.recipe, r.trader, r.runs)
        /\ End(Started(market, r.recipe, r.trader, r.runs))

\* Whoever owns it may still cancel a job that is due and not yet delivered.
CancelJob ==
    \E id \in Running(market) :
        /\ market.jobs[id].trader \in Players
        /\ End(Cancelled(market, id))

\* WorldEffects::push: no pull, or none for any time, is not filed.  An event
\* set for later is filed now, and what will be spent by then is forgotten now.
GameEvent ==
    \E e \in flow.events :
        LET from == market.now + e.delay
            mod  == [effect |-> e.effect, symbols |-> e.symbols, delta |-> e.delta,
                     from |-> from, until |-> from + e.secs]
        IN  /\ e.delta # 0 /\ e.secs > 0
            /\ End([market EXCEPT !.world = Forget(Append(@, mod), from)])

\* Funded from the treasury, stocked by issuing.
CreateNpc ==
    \E r \in flow.npcs, i \in DOMAIN Npcs :
        LET n   == Npcs[i]
            net == Movement("Treasury", AccountOf[n], r.cash)
            npc == [symbol |-> r.symbol, policy |-> r.policy, active |-> TRUE,
                    production |-> r.production, quoted_ref |-> 0, quoted_orders |-> 0,
                    quoted_size |-> 0, quoted_stock |-> 0]
        IN  /\ DOMAIN market.npcs = {Npcs[j] : j \in 1 .. i - 1}
            /\ CanIssue(market, r.symbol, r.inventory)
            /\ r.cash <= AvailableCents(market.wallets["Treasury"])
            /\ End([Issue(market, n, Lot(r.symbol, r.inventory)) EXCEPT
                      !.wallets = Pay(@, net), !.npcs = With(@, n, npc)])

SetNpcProduction ==
    \E n \in DOMAIN market.npcs, plan \in flow.productions :
        End([market EXCEPT !.npcs[n].production = plan])

\* What it had free when it last quoted is left as it was.
SetNpcActive ==
    \E n \in DOMAIN market.npcs, active \in flow.switches :
        LET quiet == [market.npcs[n] EXCEPT !.active = FALSE, !.quoted_ref = 0,
                                            !.quoted_orders = 0, !.quoted_size = 0]
        IN  End(IF active THEN [market EXCEPT !.npcs[n].active = TRUE]
                ELSE CancelAll([market EXCEPT !.npcs[n] = quiet], {n}))

\* A player takes units out of the best quote on the other side, or puts
\* them into it: an immediate order that fills at once.
Take ==
    \E t \in flow.takers, o \in market.book : \E qty \in 1 .. o.qty :
        CanTake(market, t, o, qty) /\ End(Taken(market, t, o, qty))

Halt ==
    \E sym \in flow.halts :
        End([market EXCEPT !.halted = IF sym \in @ THEN @ \ {sym} ELSE @ \cup {sym}])

\* An NPC's account is opened when the NPC is created.
FreezeAccount ==
    \E a \in flow.freezes :
        LET quiet == CancelAll(market, {t \in Traders : AccountOf[t] = a})
        IN  /\ \A n \in Range(Npcs) : AccountOf[n] = a => n \in DOMAIN market.npcs
            /\ End([quiet EXCEPT !.wallets[a].status = "Frozen"])

UnfreezeAccount ==
    \E a \in flow.freezes :
        /\ market.wallets[a].status = "Frozen"
        /\ End([market EXCEPT !.wallets[a].status = "Active"])

Init ==
    /\ flow \in Flows
    /\ market =
         [wallets |-> [w \in Purses |->
                         Opened(IF w \in Accounts THEN Cash[w]
                                ELSE IF w = "Treasury" THEN TREASURY ELSE 0)],
          now |-> 0, price |-> [sym \in Commodities |-> START_PRICE], halted |-> {},
          issued |-> [sym \in Commodities |-> 0], consumed |-> [sym \in Commodities |-> 0],
          held |-> [t \in Traders |-> [sym \in Commodities |-> 0]],
          reserved_units |-> [t \in Traders |-> [sym \in Commodities |-> 0]],
          book |-> {}, catalog |-> <<>>, recipes |-> <<>>, jobs |-> <<>>, next_job |-> 1,
          npcs |-> <<>>, world |-> <<>>]

Next ==
    \/ Step
    \/ SetCatalogItem \/ RemoveCatalogItem \/ Purchase \/ Consume
    \/ SetRecipe \/ RemoveRecipe \/ StartJob \/ CancelJob
    \/ GameEvent
    \/ CreateNpc \/ SetNpcProduction \/ SetNpcActive \/ Take
    \/ Halt \/ FreezeAccount \/ UnfreezeAccount

Spec == Init /\ [][Next]_vars

-----------------------------------------------------------------------------
(* Properties *)

TypeOK ==
    /\ market.wallets \in [Purses -> [balance : 0 .. MAX_WALLET_CENTS, reserved : Nat,
                                      status : {"Active", "Frozen", "Closed"}]]
    /\ market.now \in 0 .. MaxNow
    /\ market.price \in [Commodities -> 1 .. MaxPrice] /\ market.halted \subseteq Commodities
    /\ market.issued \in [Commodities -> 0 .. MAX_UNITS]
    /\ market.held \in [Traders -> [Commodities -> Nat]]
    /\ market.reserved_units \in [Traders -> [Commodities -> Nat]]
    /\ market.book \subseteq [trader : Range(Npcs), symbol : Commodities, side : {"Buy", "Sell"},
                              level : Nat, qty : Nat \ {0}, price : Nat \ {0}]
    /\ DOMAIN market.catalog \subseteq Commodities /\ DOMAIN market.recipes \subseteq RecipeIds
    /\ DOMAIN market.jobs \subseteq 1 .. market.next_job - 1
    /\ DOMAIN market.npcs \subseteq Range(Npcs)

\* The audit's sentence: through purchases, jobs started, cancelled and
\* delivered, NPCs stocked and restocked, and trades between them, "what is
\* issued and not yet consumed is exactly what the holders hold", and no
\* cent is made or lost on the way.
UnitsAccounted ==
    /\ \A sym \in Commodities :
         /\ market.consumed[sym] <= market.issued[sym]
         /\ market.issued[sym] - market.consumed[sym] = HeldUnits(market, sym)
    /\ SumFunction([w \in Purses |-> market.wallets[w].balance]) = TREASURY + SumFunction(Cash)

\* An NPC quotes what it can fund and what it holds and no more: what is
\* reserved is what rests, through redraws, fills of a part, freezes and
\* switching off, and one that is off or frozen quotes nothing.
QuotesAreBacked ==
    \A n \in Range(Npcs) :
        LET w == market.wallets[AccountOf[n]]
        IN  /\ w.reserved = BidCents(market.book, AccountOf[n])
            /\ w.reserved <= w.balance
            /\ \A sym \in Commodities :
                 /\ market.reserved_units[n][sym] = AskUnits(market.book, n, sym)
                 /\ market.reserved_units[n][sym] <= market.held[n][sym]
            /\ QuotesOf(market, n) # {} => market.npcs[n].active /\ w.status = "Active"

\* After a step, what an NPC has out was drawn around a reference the market
\* has not moved away from by more than its band, is sized for what the world
\* wants now, unless it was left out from before, where a fill may have taken
\* some of it, and crosses nobody else's quotes.
QuotesFollowTheMarket ==
    [][market'.now # market.now =>
         \A o \in market'.book :
            LET npc  == market'.npcs[o.trader]
                ref  == market'.price[o.symbol]
                size == ScaledQty(npc.policy.size, MultiplierBps(market', "Demand", o.symbol))
            IN  o.symbol \notin market'.halted =>
                  /\ o.price = LevelPrice(npc.policy, o.side, npc.quoted_ref, o.level)
                  /\ Max({ref - npc.quoted_ref, npc.quoted_ref - ref}) * BPS
                       <= npc.policy.requote * npc.quoted_ref
                  /\ o.qty = size \/ (o.qty < size /\ o \in market.book)
                  /\ ~Crosses(market', o)]_vars

\* What the jobs in a set promise of a good.
Promised(ids, sym) ==
    SumFunction([id \in {i \in ids : sym \in DOMAIN market.jobs[i].outputs} |->
                   market.jobs[id].outputs[sym]])

DueBy(now) == {id \in Running(market) : market.jobs[id].due <= now}

\* "A promise the world has taken money for": a running job is left alone by
\* a recipe rewritten or removed and by later events until the first step
\* that reaches its time, and is done in that step, in which each player
\* receives exactly what was promised of a good, unless there is no room to
\* issue all that is due of it; or it is cancelled, for no more than it cost,
\* and delivers nothing.  What is done may drop out of the log at once.
PromisesKept ==
    [][/\ \A id \in Running(market) :
            LET job   == market.jobs[id]
                after == market'.jobs[id]
                done  == market'.now # market.now /\ job.due <= market'.now
            IN  /\ id \notin DOMAIN market'.jobs => done
                /\ id \in DOMAIN market'.jobs =>
                     /\ [after EXCEPT !.status = job.status, !.refunded = 0] = job
                     /\ done <=> after.status = "Done"
                     /\ market'.now # market.now => after.status # "Cancelled"
                     /\ after.refunded <= job.cost
       /\ market'.now # market.now =>
            \A t \in Players, sym \in Commodities :
                LET due == DueBy(market'.now) IN
                market.issued[sym] + Promised(due, sym) <= MAX_UNITS =>
                    market'.held[t][sym] = market.held[t][sym]
                      + Promised({id \in due : market.jobs[id].trader = t}, sym)]_vars
=============================================================================
