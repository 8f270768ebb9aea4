---------------------------- MODULE GoodsProofs ----------------------------
(***************************************************************************)
(* Theorems of Goods.tla: every unit is accounted for, an NPC's quotes are *)
(* backed by what it holds and follow the market, and a promise is kept,   *)
(* for any goods, players, NPCs, recipes, catalogues and prices, through   *)
(* any sequence of purchases, jobs, trades, freezes and steps.             *)
(*                                                                         *)
(* A market is sound (Sound) when it is well formed, its units and its     *)
(* cents are accounted for and its quotes are backed; each part of a job   *)
(* (units issued or used up, cents moved, quotes placed or withdrawn) has  *)
(* a lemma that says it keeps a market sound and what it leaves alone, and *)
(* each action is a few of these.                                          *)
(***************************************************************************)
EXTENDS Goods, Sums

-----------------------------------------------------------------------------
(* What a market is made of *)

Wallet ==
  [balance : 0 .. MAX_WALLET_CENTS, reserved : Nat, status : {"Active", "Frozen", "Closed"}]

Quote ==
  [trader : Range(Npcs), symbol : Commodities, side : {"Buy", "Sell"}, level : Nat,
   qty : Nat \ {0}, price : Nat \ {0}]

Item == [price : Nat, available : Nat \cup {Unlimited}, issued : Nat]

\* One that has ended may have been refunded.
Job ==
  {j \in [recipe : RecipeIds, trader : Traders, cost : Nat, outputs : PartialFn(Commodities, Nat),
          due : Nat, status : {"Running", "Done", "Cancelled"}, refunded : Nat] :
     j.status = "Running" => j.refunded = 0}

Npc ==
  [symbol : Commodities, policy : Policy, active : BOOLEAN, production : Production,
   quoted_ref : Nat, quoted_orders : Nat, quoted_size : Nat, quoted_stock : Nat]

Modifier ==
  {x \in [effect : {"Production", "Demand"}, symbols : SUBSET Commodities, delta : Int,
          from : Nat, until : Nat] : x.from < x.until}

Units == [Traders -> [Commodities -> Nat]]

Market ==
  [wallets : [Purses -> Wallet], now : 0 .. MaxNow, price : [Commodities -> 1 .. MaxPrice],
   halted : SUBSET Commodities, issued : [Commodities -> 0 .. MAX_UNITS],
   consumed : [Commodities -> Nat], held : Units, reserved_units : Units, book : SUBSET Quote,
   catalog : PartialFn(Commodities, Item), recipes : PartialFn(RecipeIds, Recipe),
   jobs : PartialFn(Nat \ {0}, Job), next_job : Nat \ {0}, npcs : PartialFn(Range(Npcs), Npc),
   world : Seq(Modifier)]

-----------------------------------------------------------------------------
(* Numbers, and the sums of quotes *)

\* The larger of two numbers.
LEMMA MaxOfTwo ==
  ASSUME NEW a \in Int, NEW b \in Int
  PROVE  Max({a, b}) = IF a >= b THEN a ELSE b
BY DEF Max

\* The smaller of two numbers.
LEMMA MinOfTwo ==
  ASSUME NEW a \in Int, NEW b \in Int
  PROVE  Min({a, b}) = IF a <= b THEN a ELSE b
BY DEF Min

\* The traders are finitely many.
LEMMA TradersFinite == IsFiniteSet(Traders) /\ IsFiniteSet(Range(Npcs))
<1>1. DOMAIN Npcs = 1 .. Len(Npcs) /\ Len(Npcs) \in Nat
  BY GoodsAssumption
<1>2. IsFiniteSet(DOMAIN Npcs)
  BY <1>1, FS_Interval
<1> DEFINE f == [i \in DOMAIN Npcs |-> Npcs[i]]
<1>3. f \in Surjection(DOMAIN Npcs, Range(Npcs))
  BY DEF Surjection, Range
<1>4. IsFiniteSet(Range(Npcs))
  BY <1>2, <1>3, FS_Surjection
<1> QED BY <1>4, FS_Union, GoodsAssumption DEF Traders

\* What bids hold back of an account adds up.
LEMMA BidCentsSplit ==
  ASSUME NEW S \in SUBSET Quote, IsFiniteSet(S), NEW T \in SUBSET S, NEW a
  PROVE  /\ BidCents(S, a) = BidCents(T, a) + BidCents(S \ T, a)
         /\ BidCents(S, a) \in Nat /\ BidCents(T, a) \in Nat /\ BidCents(S \ T, a) \in Nat
<1> DEFINE mine(s) == {b \in s : b.side = "Buy" /\ AccountOf[b.trader] = a}
           worth(o) == o.qty * o.price
           f == [o \in mine(S) |-> worth(o)]
<1>1. \A o \in mine(S) : f[o] \in Nat
  <2>1. \A o \in S : o.qty \in Nat /\ o.price \in Nat
    BY DEF Quote
  <2> QED BY <2>1, NatTimes
<1>2. IsFiniteSet(mine(S)) /\ IsFiniteSet(mine(T)) /\ IsFiniteSet(mine(S \ T))
  <2>1. mine(S) \subseteq S /\ mine(T) \subseteq S /\ mine(S \ T) \subseteq S
    OBVIOUS
  <2> QED BY <2>1, FS_Subset
<1>3. /\ mine(T) \in SUBSET mine(S) /\ mine(S \ T) \in SUBSET mine(S)
      /\ mine(S) \ mine(T) = mine(S \ T) /\ mine(S) \in SUBSET mine(S)
  OBVIOUS
<1>4. \A s \in SUBSET S : BidCents(s, a) = SumFunction([o \in mine(s) |-> worth(o)])
  BY DEF BidCents
<1>5. \A s \in SUBSET S : mine(s) \in SUBSET mine(S)
  OBVIOUS
<1>11. \A o \in mine(S) : f[o] = worth(o)
  <2> HIDE DEF mine, worth
  <2> QED OBVIOUS
<1> HIDE DEF f, mine, worth
<1>7. \A o \in mine(S) : f[o] \in Int
  BY <1>1
<1>6. \A s \in SUBSET S : BidCents(s, a) = SumFunctionOnSet(f, mine(s))
  <2> SUFFICES ASSUME NEW s \in SUBSET S PROVE BidCents(s, a) = SumFunctionOnSet(f, mine(s))
    OBVIOUS
  <2> DEFINE g == [o \in mine(s) |-> worth(o)]
  <2>1. DOMAIN g = mine(s) /\ (\A o \in mine(s) : g[o] = f[o]) /\ mine(s) \in SUBSET mine(S)
    BY <1>5, <1>11
  <2>2. BidCents(s, a) = SumFunction(g)
    BY <1>4
  <2> HIDE DEF g
  <2>3. SumFunction(g) = SumFunctionOnSet(f, mine(s))
    BY <1>2, <1>7, <2>1, SumOfPart
  <2> QED BY <2>2, <2>3
<1>8. SumFunctionOnSet(f, mine(S))
        = SumFunctionOnSet(f, mine(T)) + SumFunctionOnSet(f, mine(S) \ mine(T))
  BY <1>2, <1>3, <1>7, SumSplit
<1>9. /\ SumFunctionOnSet(f, mine(S)) \in Nat /\ SumFunctionOnSet(f, mine(T)) \in Nat
      /\ SumFunctionOnSet(f, mine(S \ T)) \in Nat
  <2>1. (\A o \in mine(T) : f[o] \in Nat) /\ (\A o \in mine(S \ T) : f[o] \in Nat)
    BY <1>1, <1>3
  <2> QED BY <1>1, <1>2, <2>1, SumNat
<1>10. S \in SUBSET S /\ T \in SUBSET S /\ S \ T \in SUBSET S
  OBVIOUS
<1> QED BY <1>3, <1>6, <1>8, <1>9, <1>10

\* One quote holds back what it is worth, if it is a bid of the account's.
LEMMA BidCentsOne ==
  ASSUME NEW o \in Quote, NEW a
  PROVE  BidCents({o}, a) =
           IF o.side = "Buy" /\ AccountOf[o.trader] = a THEN o.qty * o.price ELSE 0
<1> DEFINE mine == {b \in {o} : b.side = "Buy" /\ AccountOf[b.trader] = a}
           f == [b \in mine |-> b.qty * b.price]
<1>1. BidCents({o}, a) = SumFunctionOnSet(f, mine)
  BY DEF BidCents, SumFunction, SumFunctionOnSet
<1>2. CASE o.side = "Buy" /\ AccountOf[o.trader] = a
  <2>1. mine = {o} /\ f[o] = o.qty * o.price
    BY <1>2
  <2>2. f[o] \in Int
    <3>1. o.qty \in Nat /\ o.price \in Nat
      BY DEF Quote
    <3> QED BY <2>1, <3>1, NatTimes
  <2> HIDE DEF mine, f
  <2>3. SumFunctionOnSet(f, {o}) = f[o]
    BY <2>2, SumOne
  <2> QED BY <1>1, <1>2, <2>1, <2>3
<1>3. CASE ~(o.side = "Buy" /\ AccountOf[o.trader] = a)
  <2>1. mine = {}
    BY <1>3
  <2> HIDE DEF mine, f
  <2> QED BY <1>1, <1>3, <2>1, SumEmpty
<1> QED BY <1>2, <1>3

\* An account no quote is of holds nothing back.
LEMMA BidCentsNone ==
  ASSUME NEW S, NEW a, \A o \in S : AccountOf[o.trader] # a
  PROVE  BidCents(S, a) = 0
<1> DEFINE mine == {b \in S : b.side = "Buy" /\ AccountOf[b.trader] = a}
           f == [b \in mine |-> b.qty * b.price]
<1>1. BidCents(S, a) = SumFunctionOnSet(f, mine)
  BY DEF BidCents, SumFunction, SumFunctionOnSet
<1>2. mine = {}
  OBVIOUS
<1> HIDE DEF mine, f
<1> QED BY <1>1, <1>2, SumEmpty

\* What asks hold back of a trader's units adds up.
LEMMA AskUnitsSplit ==
  ASSUME NEW S \in SUBSET Quote, IsFiniteSet(S), NEW T \in SUBSET S, NEW t, NEW sym
  PROVE  /\ AskUnits(S, t, sym) = AskUnits(T, t, sym) + AskUnits(S \ T, t, sym)
         /\ AskUnits(S, t, sym) \in Nat /\ AskUnits(T, t, sym) \in Nat
         /\ AskUnits(S \ T, t, sym) \in Nat
<1> DEFINE mine(s) == {b \in s : b.side = "Sell" /\ b.trader = t /\ b.symbol = sym}
           f == [o \in mine(S) |-> o.qty]
<1>1. \A o \in mine(S) : f[o] \in Nat
  BY DEF Quote
<1>2. IsFiniteSet(mine(S)) /\ IsFiniteSet(mine(T)) /\ IsFiniteSet(mine(S \ T))
  <2>1. mine(S) \subseteq S /\ mine(T) \subseteq S /\ mine(S \ T) \subseteq S
    OBVIOUS
  <2> QED BY <2>1, FS_Subset
<1>3. /\ mine(T) \in SUBSET mine(S) /\ mine(S \ T) \in SUBSET mine(S)
      /\ mine(S) \ mine(T) = mine(S \ T) /\ mine(S) \in SUBSET mine(S)
  OBVIOUS
<1>4. \A s \in SUBSET S : AskUnits(s, t, sym) = SumFunction([o \in mine(s) |-> o.qty])
  BY DEF AskUnits
<1>5. \A s \in SUBSET S : mine(s) \in SUBSET mine(S)
  OBVIOUS
<1>11. \A o \in mine(S) : f[o] = o.qty
  <2> HIDE DEF mine
  <2> QED OBVIOUS
<1>7. \A o \in mine(S) : f[o] \in Int
  BY <1>1
<1> HIDE DEF f, mine
<1>6. \A s \in SUBSET S : AskUnits(s, t, sym) = SumFunctionOnSet(f, mine(s))
  <2> SUFFICES ASSUME NEW s \in SUBSET S
               PROVE  AskUnits(s, t, sym) = SumFunctionOnSet(f, mine(s))
    OBVIOUS
  <2> DEFINE g == [o \in mine(s) |-> o.qty]
  <2>1. DOMAIN g = mine(s) /\ (\A o \in mine(s) : g[o] = f[o]) /\ mine(s) \in SUBSET mine(S)
    BY <1>5, <1>11
  <2>2. AskUnits(s, t, sym) = SumFunction(g)
    BY <1>4
  <2> HIDE DEF g
  <2>3. SumFunction(g) = SumFunctionOnSet(f, mine(s))
    BY <1>2, <1>7, <2>1, SumOfPart
  <2> QED BY <2>2, <2>3
<1>8. SumFunctionOnSet(f, mine(S))
        = SumFunctionOnSet(f, mine(T)) + SumFunctionOnSet(f, mine(S) \ mine(T))
  BY <1>2, <1>3, <1>7, SumSplit
<1>9. /\ SumFunctionOnSet(f, mine(S)) \in Nat /\ SumFunctionOnSet(f, mine(T)) \in Nat
      /\ SumFunctionOnSet(f, mine(S \ T)) \in Nat
  <2>1. (\A o \in mine(T) : f[o] \in Nat) /\ (\A o \in mine(S \ T) : f[o] \in Nat)
    BY <1>1, <1>3
  <2> QED BY <1>1, <1>2, <2>1, SumNat
<1>10. S \in SUBSET S /\ T \in SUBSET S /\ S \ T \in SUBSET S
  OBVIOUS
<1> QED BY <1>3, <1>6, <1>8, <1>9, <1>10

\* One quote holds back what it offers, if it is an ask of the trader's.
LEMMA AskUnitsOne ==
  ASSUME NEW o \in Quote, NEW t, NEW sym
  PROVE  AskUnits({o}, t, sym) =
           IF o.side = "Sell" /\ o.trader = t /\ o.symbol = sym THEN o.qty ELSE 0
<1> DEFINE mine == {b \in {o} : b.side = "Sell" /\ b.trader = t /\ b.symbol = sym}
           f == [b \in mine |-> b.qty]
<1>1. AskUnits({o}, t, sym) = SumFunctionOnSet(f, mine)
  BY DEF AskUnits, SumFunction, SumFunctionOnSet
<1>2. CASE o.side = "Sell" /\ o.trader = t /\ o.symbol = sym
  <2>1. mine = {o} /\ f[o] = o.qty
    BY <1>2
  <2>2. f[o] \in Int
    BY <2>1 DEF Quote
  <2> HIDE DEF mine, f
  <2>3. SumFunctionOnSet(f, {o}) = f[o]
    BY <2>2, SumOne
  <2> QED BY <1>1, <1>2, <2>1, <2>3
<1>3. CASE ~(o.side = "Sell" /\ o.trader = t /\ o.symbol = sym)
  <2>1. mine = {}
    BY <1>3
  <2> HIDE DEF mine, f
  <2> QED BY <1>1, <1>3, <2>1, SumEmpty
<1> QED BY <1>2, <1>3

\* Units no quote offers are not held back.
LEMMA AskUnitsNone ==
  ASSUME NEW S, NEW t, NEW sym, \A o \in S : o.trader # t \/ o.symbol # sym
  PROVE  AskUnits(S, t, sym) = 0
<1> DEFINE mine == {b \in S : b.side = "Sell" /\ b.trader = t /\ b.symbol = sym}
           f == [b \in mine |-> b.qty]
<1>1. AskUnits(S, t, sym) = SumFunctionOnSet(f, mine)
  BY DEF AskUnits, SumFunction, SumFunctionOnSet
<1>2. mine = {}
  OBVIOUS
<1> HIDE DEF mine, f
<1> QED BY <1>1, <1>2, SumEmpty

\* A function on part of a set, taken apart.
LEMMA PartialIs ==
  ASSUME NEW S, NEW T, NEW f
  PROVE  f \in PartialFn(S, T) <=> DOMAIN f \subseteq S /\ f \in [DOMAIN f -> T]
BY DEF PartialFn

\* Which wallets there are.
LEMMA PursesAre ==
  /\ Accounts \subseteq Purses /\ Commodities \subseteq Purses
  /\ "Treasury" \in Purses /\ "Venue" \in Purses /\ "Synthetic" \notin Purses
  /\ "Treasury" \notin Accounts /\ "Venue" \notin Accounts
  /\ Accounts \cap Commodities = {}
  /\ \A t \in Traders : AccountOf[t] \in Accounts
  /\ \A n \in Range(Npcs), t \in Traders : AccountOf[t] = AccountOf[n] => t = n
  /\ Range(Npcs) \subseteq Traders /\ Players \subseteq Traders
  /\ IsFiniteSet(Purses)
<1>1. IsFiniteSet({"Treasury", "Venue"})
  <2>1. IsFiniteSet({"Treasury"}) /\ IsFiniteSet({"Venue"})
    BY FS_Singleton
  <2>2. {"Treasury", "Venue"} = {"Treasury"} \cup {"Venue"}
    OBVIOUS
  <2> QED BY <2>1, <2>2, FS_Union
<1>2. IsFiniteSet(Purses)
  <2>1. IsFiniteSet(Accounts \cup Commodities)
    BY FS_Union, GoodsAssumption
  <2> QED BY <1>1, <2>1, FS_Union DEF Purses
<1>3. /\ Accounts \subseteq Purses /\ Commodities \subseteq Purses
      /\ "Treasury" \in Purses /\ "Venue" \in Purses
  BY DEF Purses
<1>4. /\ "Synthetic" \notin Purses /\ "Treasury" \notin Accounts /\ "Venue" \notin Accounts
      /\ Accounts \cap Commodities = {}
  BY GoodsAssumption DEF Purses
<1>5. /\ \A t \in Traders : AccountOf[t] \in Accounts
      /\ \A n \in Range(Npcs), t \in Traders : AccountOf[t] = AccountOf[n] => t = n
  BY GoodsAssumption
<1> QED BY <1>2, <1>3, <1>4, <1>5 DEF Traders

-----------------------------------------------------------------------------
(* Cents moved *)

Balances(ws) == SumFunction([w \in Purses |-> ws[w].balance])

\* What a posting may take from one wallet and put into another.
Payable(ws, from, to, cents) ==
  cents > 0 => /\ ws[from].reserved + cents <= ws[from].balance
               /\ ws[to].balance + cents <= MAX_WALLET_CENTS

\* What the wallets accept of a movement between two purses can be paid.
LEMMA CanPostMeans ==
  ASSUME NEW ws \in [Purses -> Wallet], NEW from \in Purses, NEW to \in Purses, from # to,
         NEW cents \in Nat, CanPost(ws, Movement(from, to, cents))
  PROVE  Payable(ws, from, to, cents)
<1> DEFINE net == Movement(from, to, cents)
<1>1. DOMAIN net = {from, to} /\ net[from] = -cents /\ net[to] = cents
  BY DEF Movement
<1>2. ws[from] \in Wallet /\ ws[to] \in Wallet
  OBVIOUS
<1>3. /\ ws[from].balance \in Nat /\ ws[from].reserved \in Nat /\ ws[to].balance \in Nat
  BY <1>2 DEF Wallet
<1>4. from # "Synthetic"
  BY PursesAre
<1>5. CanPost(ws, net)
  OBVIOUS
<1> HIDE DEF net
<1>6. net[from] < 0 => from = "Synthetic" \/ ws[from].balance + net[from] >= ws[from].reserved
  BY <1>1, <1>5 DEF CanPost
<1>7. net[to] > 0 => ws[to].balance + net[to] <= MAX_WALLET_CENTS
  BY <1>1, <1>5 DEF CanPost
<1> QED BY <1>1, <1>3, <1>4, <1>6, <1>7 DEF Payable

\* What a balance may be.
LEMMA WalletIs ==
  ASSUME NEW w
  PROVE  w \in Wallet <=>
           /\ w = [balance |-> w.balance, reserved |-> w.reserved, status |-> w.status]
           /\ w.balance \in Nat /\ w.balance <= MAX_WALLET_CENTS /\ w.reserved \in Nat
           /\ w.status \in {"Active", "Frozen", "Closed"}
BY WalletsAssumption DEF Wallet

\* A movement changes the two balances it names, leaves what is reserved
\* covered, and makes no cent.
LEMMA PaidIs ==
  ASSUME NEW ws \in [Purses -> Wallet], NEW from \in Purses, NEW to \in Purses, from # to,
         NEW cents \in Nat, Payable(ws, from, to, cents),
         NEW e, e = Pay(ws, Movement(from, to, cents))
  PROVE  /\ e \in [Purses -> Wallet]
         /\ \A w \in Purses : /\ e[w].reserved = ws[w].reserved /\ e[w].status = ws[w].status
                              /\ w \notin {from, to} => e[w] = ws[w]
                              /\ ws[w].reserved <= ws[w].balance => e[w].reserved <= e[w].balance
         /\ e[from].balance = ws[from].balance - cents
         /\ e[to].balance = ws[to].balance + cents
         /\ Balances(e) = Balances(ws)
<1> DEFINE net == Movement(from, to, cents)
<1>1. DOMAIN net = {from, to} /\ net[from] = -cents /\ net[to] = cents
  BY DEF Movement
<1>2. e = [w \in Purses |-> IF w \in DOMAIN net THEN [ws[w] EXCEPT !.balance = @ + net[w]]
                            ELSE ws[w]]
  BY DEF Pay
<1> HIDE DEF net
<1>3. \A w \in Purses : ws[w] \in Wallet
  OBVIOUS
<1>4. e[from] = [ws[from] EXCEPT !.balance = @ - cents]
      /\ e[to] = [ws[to] EXCEPT !.balance = @ + cents]
      /\ \A w \in Purses : w \notin {from, to} => e[w] = ws[w]
  <2>1. e[from] = [ws[from] EXCEPT !.balance = @ + net[from]]
        /\ e[to] = [ws[to] EXCEPT !.balance = @ + net[to]]
    BY <1>1, <1>2
  <2>2. ws[from].balance \in Nat /\ ws[from].balance + (-cents) = ws[from].balance - cents
    BY <1>3, WalletIs
  <2> QED BY <1>1, <1>2, <2>1, <2>2
<1>5. /\ e[from].balance = ws[from].balance - cents
      /\ e[from].reserved = ws[from].reserved /\ e[from].status = ws[from].status
      /\ e[from] \in Wallet
      /\ ws[from].reserved <= ws[from].balance => e[from].reserved <= e[from].balance
  <2> DEFINE b == ws[from].balance - cents
  <2>1. ws[from] \in Wallet
    BY <1>3
  <2>2. b \in 0 .. MAX_WALLET_CENTS
    BY <2>1, WalletsAssumption DEF Payable, Wallet
  <2>3. e[from] = [ws[from] EXCEPT !.balance = b]
    BY <1>4
  <2>4. ws[from].reserved <= ws[from].balance => ws[from].reserved <= b
    BY <2>1 DEF Payable, Wallet
  <2> HIDE DEF b
  <2>5. e[from] \in Wallet /\ e[from].balance = b /\ e[from].reserved = ws[from].reserved
        /\ e[from].status = ws[from].status
    BY <2>1, <2>2, <2>3 DEF Wallet
  <2> QED BY <2>4, <2>5 DEF b
<1>6. /\ e[to].balance = ws[to].balance + cents
      /\ e[to].reserved = ws[to].reserved /\ e[to].status = ws[to].status
      /\ e[to] \in Wallet
      /\ ws[to].reserved <= ws[to].balance => e[to].reserved <= e[to].balance
  <2> DEFINE b == ws[to].balance + cents
  <2>1. ws[to] \in Wallet
    BY <1>3
  <2>2. b \in 0 .. MAX_WALLET_CENTS
    BY <2>1, WalletsAssumption DEF Payable, Wallet
  <2>3. e[to] = [ws[to] EXCEPT !.balance = b]
    BY <1>4
  <2>4. ws[to].reserved <= ws[to].balance => ws[to].reserved <= b
    BY <2>1 DEF Wallet
  <2> HIDE DEF b
  <2>5. e[to] \in Wallet /\ e[to].balance = b /\ e[to].reserved = ws[to].reserved
        /\ e[to].status = ws[to].status
    BY <2>1, <2>2, <2>3 DEF Wallet
  <2> QED BY <2>4, <2>5 DEF b
<1>7. e \in [Purses -> Wallet]
  <2>1. \A w \in Purses : e[w] \in Wallet
    BY <1>3, <1>4, <1>5, <1>6
  <2>2. e = [w \in Purses |-> e[w]]
    BY <1>2
  <2> QED BY <2>1, <2>2
<1>8. Balances(e) = Balances(ws)
  <2> DEFINE f == [w \in Purses |-> ws[w].balance]
             g == [w \in Purses |-> e[w].balance]
             h == [f EXCEPT ![from] = @ - cents]
  <2>1. Balances(ws) = SumFunctionOnSet(f, Purses) /\ Balances(e) = SumFunctionOnSet(g, Purses)
    BY DEF Balances, SumFunction, SumFunctionOnSet
  <2>2. \A w \in Purses : f[w] \in Int /\ g[w] \in Int
    BY <1>3, <1>7, WalletIs
  <2>3. /\ g[from] = f[from] - cents /\ g[to] = f[to] + cents
        /\ \A w \in Purses : w \notin {from, to} => g[w] = f[w]
    BY <1>4, <1>5, <1>6
  <2>4. DOMAIN f = Purses
    OBVIOUS
  <2> HIDE DEF f, g
  <2>5. /\ h[from] = f[from] - cents /\ \A w \in Purses \ {from} : h[w] = f[w]
        /\ \A w \in Purses : h[w] \in Int
    BY <2>2, <2>4
  <2>6. \A w \in Purses \ {to} : g[w] = h[w]
    BY <2>3, <2>5
  <2>7. h[to] = f[to]
    BY <2>5
  <2> HIDE DEF h
  <2>8. SumFunctionOnSet(h, Purses) = SumFunctionOnSet(f, Purses) - f[from] + h[from]
    BY <2>2, <2>5, PursesAre, SumUpdate
  <2>9. SumFunctionOnSet(g, Purses) = SumFunctionOnSet(h, Purses) - h[to] + g[to]
    BY <2>2, <2>5, <2>6, PursesAre, SumUpdate
  <2>10. SumFunctionOnSet(f, Purses) \in Int
    BY <2>2, PursesAre, SumByChosen
  <2> QED BY <2>1, <2>2, <2>3, <2>5, <2>7, <2>8, <2>9, <2>10
<1>9. ASSUME NEW w \in Purses
      PROVE  /\ e[w].reserved = ws[w].reserved /\ e[w].status = ws[w].status
             /\ w \notin {from, to} => e[w] = ws[w]
             /\ ws[w].reserved <= ws[w].balance => e[w].reserved <= e[w].balance
  BY <1>4, <1>5, <1>6
<1> QED BY <1>5, <1>6, <1>7, <1>8, <1>9

-----------------------------------------------------------------------------
(* A sound market, and what a step may leave alone *)

\* Jobs have the ids given out so far.
Formed(m) ==
  /\ m \in Market /\ IsFiniteSet(m.book)
  /\ \A id \in DOMAIN m.jobs : id < m.next_job

\* UnitsAccounted, of a market.
Accounted(m) ==
  /\ \A sym \in Commodities : m.issued[sym] - m.consumed[sym] = HeldUnits(m, sym)
  /\ Balances(m.wallets) = TREASURY + SumFunction(Cash)

\* The account of an NPC that is yet to be created has nothing in it.
Unopened(m) ==
  \A n \in Range(Npcs) \ DOMAIN m.npcs : m.wallets[AccountOf[n]] = Opened(0)

\* What each NPC has reserved is what it quotes, and it has that much.
Backed(m) ==
  \A n \in Range(Npcs) :
    /\ m.wallets[AccountOf[n]].reserved = BidCents(m.book, AccountOf[n])
    /\ m.wallets[AccountOf[n]].reserved <= m.wallets[AccountOf[n]].balance
    /\ \A sym \in Commodities :
         /\ m.reserved_units[n][sym] = AskUnits(m.book, n, sym)
         /\ m.reserved_units[n][sym] <= m.held[n][sym]

SamePlace(o, p) == p.trader = o.trader /\ p.side = o.side /\ p.level = o.level

\* Quotes are of NPCs that are at work, one at each level and side, and none
\* reaches another.
Placed(m) ==
  \A o \in m.book :
    /\ o.trader \in DOMAIN m.npcs /\ m.npcs[o.trader].active
    /\ o.symbol = m.npcs[o.trader].symbol
    /\ m.wallets[AccountOf[o.trader]].status = "Active"
    /\ \A p \in m.book : SamePlace(o, p) => p = o
    /\ ~Crosses(m, o)

Sound(m) == Formed(m) /\ Accounted(m) /\ Unopened(m) /\ Backed(m) /\ Placed(m)

SameTimes(m, e) == e.now = m.now /\ e.price = m.price /\ e.halted = m.halted /\ e.world = m.world

SameUnits(m, e) == e.issued = m.issued /\ e.consumed = m.consumed /\ e.held = m.held

SameBook(m, e) == e.book = m.book /\ e.reserved_units = m.reserved_units

SameShop(m, e) == e.catalog = m.catalog /\ e.recipes = m.recipes

SameJobs(m, e) == e.jobs = m.jobs /\ e.next_job = m.next_job

\* What a sound market has in its fields.
LEMMA FieldsAre ==
  ASSUME NEW m, Sound(m)
  PROVE  /\ m \in Market /\ IsFiniteSet(m.book) /\ m.book \in SUBSET Quote
         /\ m.wallets \in [Purses -> Wallet] /\ m.now \in 0 .. MaxNow
         /\ m.price \in [Commodities -> 1 .. MaxPrice] /\ m.halted \subseteq Commodities
         /\ m.issued \in [Commodities -> 0 .. MAX_UNITS]
         /\ m.consumed \in [Commodities -> Nat]
         /\ m.held \in Units /\ m.reserved_units \in Units
         /\ m.catalog \in PartialFn(Commodities, Item)
         /\ m.recipes \in PartialFn(RecipeIds, Recipe)
         /\ m.jobs \in PartialFn(Nat \ {0}, Job) /\ m.next_job \in Nat \ {0}
         /\ m.npcs \in PartialFn(Range(Npcs), Npc) /\ m.world \in Seq(Modifier)
BY DEF Sound, Formed, Market

\* Whatever a step does to the shop, the jobs and the times, and to NPCs that
\* it does not switch off, a market stays sound.
LEMMA AsideKeeps ==
  ASSUME NEW m, Sound(m), NEW e, Formed(e), e.wallets = m.wallets, SameUnits(m, e),
         SameBook(m, e), DOMAIN m.npcs \subseteq DOMAIN e.npcs,
         \A n \in DOMAIN m.npcs : /\ e.npcs[n].symbol = m.npcs[n].symbol
                                  /\ m.npcs[n].active => e.npcs[n].active
  PROVE  Sound(e)
<1>1. Accounted(e)
  BY DEF Sound, Accounted, SameUnits, HeldUnits
<1>2. Unopened(e)
  BY DEF Sound, Unopened
<1>3. Backed(e)
  BY DEF Sound, Backed, SameUnits, SameBook
<1>4. Placed(e)
  BY DEF Sound, Placed, SameBook, Crosses
<1> QED BY <1>1, <1>2, <1>3, <1>4 DEF Sound

\* Cents moved between wallets that are open.
LEMMA PayKeeps ==
  ASSUME NEW m, Sound(m), NEW from \in Purses, NEW to \in Purses, from # to, NEW cents \in Nat,
         Payable(m.wallets, from, to, cents),
         \A n \in Range(Npcs) \ DOMAIN m.npcs : AccountOf[n] \notin {from, to},
         NEW e, e = [m EXCEPT !.wallets = Pay(@, Movement(from, to, cents))]
  PROVE  /\ Sound(e)
         /\ e.wallets[from].balance = m.wallets[from].balance - cents
         /\ e.wallets[to].balance = m.wallets[to].balance + cents
         /\ \A w \in Purses : e.wallets[w].status = m.wallets[w].status
         /\ SameUnits(m, e) /\ SameBook(m, e) /\ SameShop(m, e) /\ SameJobs(m, e)
         /\ SameTimes(m, e) /\ e.npcs = m.npcs
<1> DEFINE ws == Pay(m.wallets, Movement(from, to, cents))
<1>0. m \in Market /\ m.wallets \in [Purses -> Wallet]
  BY FieldsAre
<1>1. /\ ws \in [Purses -> Wallet]
      /\ \A w \in Purses :
           /\ ws[w].reserved = m.wallets[w].reserved /\ ws[w].status = m.wallets[w].status
           /\ w \notin {from, to} => ws[w] = m.wallets[w]
           /\ m.wallets[w].reserved <= m.wallets[w].balance => ws[w].reserved <= ws[w].balance
      /\ ws[from].balance = m.wallets[from].balance - cents
      /\ ws[to].balance = m.wallets[to].balance + cents
      /\ Balances(ws) = Balances(m.wallets)
  BY <1>0, PaidIs
<1>2. e = [m EXCEPT !.wallets = ws]
  OBVIOUS
<1> HIDE DEF ws
<1>3. /\ e \in Market /\ e.wallets = ws
      /\ SameUnits(m, e) /\ SameBook(m, e) /\ SameShop(m, e) /\ SameJobs(m, e)
      /\ SameTimes(m, e) /\ e.npcs = m.npcs
  BY <1>0, <1>1, <1>2 DEF Market, SameUnits, SameBook, SameShop, SameJobs, SameTimes
<1>4. Formed(e)
  BY <1>3 DEF Sound, Formed, SameBook, SameJobs
<1>5. Accounted(e)
  BY <1>1, <1>3 DEF Sound, Accounted, SameUnits, HeldUnits
<1>6. Unopened(e)
  <2> SUFFICES ASSUME NEW n \in Range(Npcs) \ DOMAIN m.npcs
               PROVE  e.wallets[AccountOf[n]] = Opened(0)
    BY <1>3 DEF Unopened
  <2>1. AccountOf[n] \in Purses /\ AccountOf[n] \notin {from, to}
    BY PursesAre
  <2> QED BY <1>1, <1>3, <2>1 DEF Sound, Unopened
<1>7. Backed(e)
  <2> SUFFICES ASSUME NEW n \in Range(Npcs)
               PROVE  /\ e.wallets[AccountOf[n]].reserved = BidCents(e.book, AccountOf[n])
                      /\ e.wallets[AccountOf[n]].reserved <= e.wallets[AccountOf[n]].balance
    BY <1>3 DEF Sound, Backed, SameBook, SameUnits
  <2>1. AccountOf[n] \in Purses
    BY PursesAre
  <2> QED BY <1>1, <1>3, <2>1 DEF Sound, Backed, SameBook
<1>8. Placed(e)
  <2> SUFFICES ASSUME NEW o \in e.book
               PROVE  e.wallets[AccountOf[o.trader]].status = "Active"
    BY <1>3 DEF Sound, Placed, SameBook, Crosses
  <2>1. o \in m.book /\ o.trader \in Range(Npcs)
    BY <1>3, FieldsAre DEF SameBook, Quote
  <2>2. AccountOf[o.trader] \in Purses
    BY <2>1, PursesAre
  <2> QED BY <1>1, <1>3, <2>1, <2>2 DEF Sound, Placed
<1>9. Sound(e)
  BY <1>4, <1>5, <1>6, <1>7, <1>8 DEF Sound
<1> QED BY <1>1, <1>3, <1>9

-----------------------------------------------------------------------------
(* Units issued, used up and passed on *)

\* What lines say of a good.
Of(lines, sym) == IF sym \in DOMAIN lines THEN lines[sym] ELSE 0

Held(held, sym) == SumFunction([t \in Traders |-> held[t][sym]])

\* What a set of lines has of a good is a count.
LEMMA OfIs ==
  ASSUME NEW lines \in PartialFn(Commodities, Nat), NEW sym
  PROVE  Of(lines, sym) \in Nat
BY PartialIs DEF Of

\* Lines added.
LEMMA PlusIs ==
  ASSUME NEW units \in [Commodities -> Nat], NEW lines \in PartialFn(Commodities, Nat)
  PROVE  /\ Plus(units, lines) \in [Commodities -> Nat]
         /\ \A sym \in Commodities : Plus(units, lines)[sym] = units[sym] + Of(lines, sym)
<1> DEFINE p == Plus(units, lines)
<1>1. p = [sym \in Commodities |-> IF sym \in DOMAIN lines THEN units[sym] + lines[sym]
                                  ELSE units[sym]]
  BY DEF Plus
<1>2. \A sym \in DOMAIN lines : lines[sym] \in Nat
  BY PartialIs
<1>3. ASSUME NEW sym \in Commodities
      PROVE  p[sym] = units[sym] + Of(lines, sym) /\ p[sym] \in Nat
  <2>1. p[sym] = IF sym \in DOMAIN lines THEN units[sym] + lines[sym] ELSE units[sym]
    BY <1>1
  <2> HIDE DEF p
  <2> QED BY <1>2, <2>1 DEF Of
<1> HIDE DEF p
<1>4. p \in [Commodities -> Nat]
  BY <1>1, <1>3
<1> QED BY <1>3, <1>4 DEF p

\* Lines taken away from what has them.
LEMMA MinusIs ==
  ASSUME NEW units \in [Commodities -> Nat], NEW lines \in PartialFn(Commodities, Nat),
         \A sym \in Commodities : Of(lines, sym) <= units[sym]
  PROVE  /\ Minus(units, lines) \in [Commodities -> Nat]
         /\ \A sym \in Commodities : Minus(units, lines)[sym] = units[sym] - Of(lines, sym)
<1> DEFINE p == Minus(units, lines)
<1>1. p = [sym \in Commodities |-> IF sym \in DOMAIN lines THEN units[sym] - lines[sym]
                                  ELSE units[sym]]
  BY DEF Minus
<1>2. \A sym \in DOMAIN lines : lines[sym] \in Nat
  BY PartialIs
<1>3. ASSUME NEW sym \in Commodities
      PROVE  p[sym] = units[sym] - Of(lines, sym) /\ p[sym] \in Nat
  <2>1. p[sym] = IF sym \in DOMAIN lines THEN units[sym] - lines[sym] ELSE units[sym]
    BY <1>1
  <2>2. Of(lines, sym) <= units[sym]
    OBVIOUS
  <2> HIDE DEF p
  <2> QED BY <1>2, <2>1, <2>2 DEF Of
<1> HIDE DEF p
<1>4. p \in [Commodities -> Nat]
  BY <1>1, <1>3
<1> QED BY <1>3, <1>4 DEF p

\* What is held in all changes by what one trader's holding does.
LEMMA HeldChanges ==
  ASSUME NEW held \in Units, NEW t \in Traders, NEW u \in [Commodities -> Nat],
         NEW h, h = [held EXCEPT ![t] = u], NEW sym \in Commodities
  PROVE  /\ h \in Units /\ Held(held, sym) \in Nat /\ Held(h, sym) \in Nat
         /\ Held(h, sym) = Held(held, sym) - held[t][sym] + u[sym]
<1> DEFINE f == [x \in Traders |-> held[x][sym]]
           g == [x \in Traders |-> h[x][sym]]
<1>1. h \in Units /\ h[t] = u /\ \A x \in Traders : x # t => h[x] = held[x]
  BY DEF Units
<1>2. \A x \in Traders : f[x] \in Nat /\ g[x] \in Nat
  BY <1>1 DEF Units
<1>3. (\A x \in Traders \ {t} : g[x] = f[x]) /\ f[t] = held[t][sym] /\ g[t] = u[sym]
  BY <1>1
<1>4. Held(held, sym) = SumFunctionOnSet(f, Traders) /\ Held(h, sym) = SumFunctionOnSet(g, Traders)
  BY DEF Held, SumFunction, SumFunctionOnSet
<1> HIDE DEF f, g
<1>5. SumFunctionOnSet(f, Traders) \in Nat /\ SumFunctionOnSet(g, Traders) \in Nat
  BY <1>2, TradersFinite, SumNat
<1>6. SumFunctionOnSet(g, Traders) = SumFunctionOnSet(f, Traders) - f[t] + g[t]
  BY <1>2, <1>3, TradersFinite, SumUpdate
<1> QED BY <1>1, <1>3, <1>4, <1>5, <1>6

\* What has been issued, used up, held and reserved is a count.
LEMMA CountsAre ==
  ASSUME NEW m, Sound(m), NEW t \in Traders
  PROVE  /\ m \in Market /\ m.issued \in [Commodities -> Nat] /\ m.held \in Units
         /\ m.consumed \in [Commodities -> Nat] /\ m.reserved_units \in Units
         /\ m.held[t] \in [Commodities -> Nat] /\ m.reserved_units[t] \in [Commodities -> Nat]
         /\ \A sym \in Commodities : m.issued[sym] <= MAX_UNITS
<1>1. MAX_UNITS \in Nat
  BY GoodsAssumption
<1>2. m.issued \in [Commodities -> 0 .. MAX_UNITS]
  BY FieldsAre
<1>3. m.issued \in [Commodities -> Nat] /\ \A sym \in Commodities : m.issued[sym] <= MAX_UNITS
  BY <1>1, <1>2
<1> QED BY <1>3, FieldsAre DEF Units

\* Only what is issued, used up and held has changed, and of what is held
\* only what trader t does.
OnlyUnits(m, e, t) ==
  /\ e.wallets = m.wallets /\ SameBook(m, e) /\ SameShop(m, e) /\ SameJobs(m, e)
  /\ SameTimes(m, e) /\ e.npcs = m.npcs
  /\ \A u \in Traders : u # t => e.held[u] = m.held[u]

\* When one trader's units change with what is issued and consumed, and what
\* it has reserved is still there, the market stays sound.
LEMMA UnitsKeep ==
  ASSUME NEW m, Sound(m), NEW t \in Traders, NEW u \in [Commodities -> Nat],
         \A sym \in Commodities : m.reserved_units[t][sym] <= m.held[t][sym]
                                    => m.reserved_units[t][sym] <= u[sym],
         NEW e, e \in Market, OnlyUnits(m, e, t), e.held = [m.held EXCEPT ![t] = u],
         \A sym \in Commodities :
           e.issued[sym] - e.consumed[sym]
             = m.issued[sym] - m.consumed[sym] - m.held[t][sym] + u[sym]
  PROVE  Sound(e)
<1>0. m.held \in Units /\ m.reserved_units \in Units
  BY FieldsAre
<1>1. Formed(e)
  BY DEF Sound, Formed, OnlyUnits, SameBook, SameJobs
<1>2. Accounted(e)
  <2> SUFFICES ASSUME NEW sym \in Commodities
               PROVE  e.issued[sym] - e.consumed[sym] = HeldUnits(e, sym)
    BY DEF Sound, Accounted, OnlyUnits
  <2>1. HeldUnits(e, sym) = Held(e.held, sym) /\ HeldUnits(m, sym) = Held(m.held, sym)
    BY DEF HeldUnits, Held
  <2>2. Held(e.held, sym) = Held(m.held, sym) - m.held[t][sym] + u[sym]
    BY <1>0, HeldChanges
  <2>3. m.issued[sym] - m.consumed[sym] = HeldUnits(m, sym)
    BY DEF Sound, Accounted
  <2> QED BY <2>1, <2>2, <2>3
<1>3. Unopened(e)
  BY DEF Sound, Unopened, OnlyUnits
<1>4. Backed(e)
  <2> SUFFICES ASSUME NEW n \in Range(Npcs), NEW sym \in Commodities
               PROVE  e.reserved_units[n][sym] <= e.held[n][sym]
    BY DEF Sound, Backed, OnlyUnits, SameBook
  <2>1. m.reserved_units[n][sym] <= m.held[n][sym] /\ n \in Traders
    BY PursesAre DEF Sound, Backed
  <2>2. CASE n = t
    <3>1. e.held[n] = u
      BY <1>0, <2>2 DEF Units
    <3> QED BY <2>1, <2>2, <3>1 DEF OnlyUnits, SameBook
  <2>3. CASE n # t
    BY <2>1, <2>3 DEF OnlyUnits, SameBook
  <2> QED BY <2>2, <2>3
<1>5. Placed(e)
  BY DEF Sound, Placed, Crosses, OnlyUnits, SameBook
<1> QED BY <1>1, <1>2, <1>3, <1>4, <1>5 DEF Sound

\* Lines issued to a trader.
LEMMA IssueKeeps ==
  ASSUME NEW m, Sound(m), NEW t \in Traders, NEW lines \in PartialFn(Commodities, Nat),
         \A sym \in DOMAIN lines : CanIssue(m, sym, lines[sym]),
         NEW e, e = Issue(m, t, lines)
  PROVE  /\ Sound(e) /\ OnlyUnits(m, e, t) /\ e.consumed = m.consumed
         /\ \A sym \in Commodities :
              /\ e.issued[sym] = m.issued[sym] + Of(lines, sym)
              /\ e.held[t][sym] = m.held[t][sym] + Of(lines, sym)
<1> DEFINE i == Plus(m.issued, lines)
           u == Plus(m.held[t], lines)
<1>0. /\ m \in Market /\ m.issued \in [Commodities -> Nat] /\ m.held \in Units
      /\ m.consumed \in [Commodities -> Nat] /\ m.reserved_units \in Units
      /\ m.held[t] \in [Commodities -> Nat] /\ m.reserved_units[t] \in [Commodities -> Nat]
  BY CountsAre
<1>1. /\ i \in [Commodities -> Nat] /\ u \in [Commodities -> Nat]
      /\ \A sym \in Commodities : /\ i[sym] = m.issued[sym] + Of(lines, sym)
                                  /\ u[sym] = m.held[t][sym] + Of(lines, sym)
  BY <1>0, PlusIs
<1>2. e = [m EXCEPT !.issued = i, !.held[t] = u]
  BY <1>0 DEF Issue, Market, Units
<1> HIDE DEF i, u
<1>3. i \in [Commodities -> 0 .. MAX_UNITS]
  <2>1. ASSUME NEW sym \in Commodities
        PROVE  i[sym] <= MAX_UNITS
    <3>1. m.issued[sym] <= MAX_UNITS
      BY CountsAre
    <3>2. sym \in DOMAIN lines => m.issued[sym] + lines[sym] <= MAX_UNITS
      BY DEF CanIssue
    <3> QED BY <1>0, <1>1, <3>1, <3>2 DEF Of
  <2> QED BY <1>1, <2>1, GoodsAssumption
<1>a. [m.held EXCEPT ![t] = u] \in Units
  BY <1>0, <1>1 DEF Units
<1>4. /\ e.issued = i /\ e.held = [m.held EXCEPT ![t] = u] /\ e.consumed = m.consumed
      /\ e \in Market
  BY <1>0, <1>2, <1>3, <1>a DEF Market
<1>5. e.held[t] = u /\ \A x \in Traders : x # t => e.held[x] = m.held[x]
  BY <1>0, <1>4 DEF Units
<1>6. OnlyUnits(m, e, t)
  BY <1>0, <1>2, <1>5 DEF OnlyUnits, SameBook, SameShop, SameJobs, SameTimes, Market
<1>7. ASSUME NEW sym \in Commodities
      PROVE  /\ e.issued[sym] - e.consumed[sym]
                  = m.issued[sym] - m.consumed[sym] - m.held[t][sym] + u[sym]
             /\ m.reserved_units[t][sym] <= m.held[t][sym]
                  => m.reserved_units[t][sym] <= u[sym]
  <2>1. /\ m.issued[sym] \in Nat /\ m.consumed[sym] \in Nat /\ m.held[t][sym] \in Nat
        /\ m.reserved_units[t][sym] \in Nat
    BY <1>0
  <2>2. Of(lines, sym) \in Nat
    BY OfIs
  <2> QED BY <1>1, <1>4, <2>1, <2>2
<1>8. Sound(e)
  BY <1>1, <1>4, <1>6, <1>7, UnitsKeep
<1> QED BY <1>1, <1>4, <1>5, <1>6, <1>8

\* Lines used up by a trader who has them free.
LEMMA UseUpKeeps ==
  ASSUME NEW m, Sound(m), NEW t \in Traders, NEW lines \in PartialFn(Commodities, Nat),
         \A sym \in DOMAIN lines : lines[sym] <= FreeUnits(m, t, sym),
         NEW e, e = UseUp(m, t, lines)
  PROVE  /\ Sound(e) /\ OnlyUnits(m, e, t) /\ e.issued = m.issued
         /\ \A sym \in Commodities : e.held[t][sym] = m.held[t][sym] - Of(lines, sym)
<1> DEFINE i == Plus(m.consumed, lines)
           u == Minus(m.held[t], lines)
<1>0. /\ m \in Market /\ m.issued \in [Commodities -> Nat] /\ m.held \in Units
      /\ m.consumed \in [Commodities -> Nat] /\ m.reserved_units \in Units
      /\ m.held[t] \in [Commodities -> Nat] /\ m.reserved_units[t] \in [Commodities -> Nat]
  BY CountsAre
<1>1. ASSUME NEW sym \in Commodities
      PROVE  /\ Of(lines, sym) \in Nat /\ Of(lines, sym) <= m.held[t][sym]
             /\ m.reserved_units[t][sym] <= m.held[t][sym]
                  => m.reserved_units[t][sym] <= m.held[t][sym] - Of(lines, sym)
  <2>1. m.held[t][sym] \in Nat /\ m.reserved_units[t][sym] \in Nat
    BY <1>0
  <2>2. FreeUnits(m, t, sym) = IF m.held[t][sym] - m.reserved_units[t][sym] >= 0
                               THEN m.held[t][sym] - m.reserved_units[t][sym] ELSE 0
    BY <2>1, MaxOfTwo DEF FreeUnits
  <2>3. Of(lines, sym) \in Nat /\ (Of(lines, sym) = 0 \/ Of(lines, sym) <= FreeUnits(m, t, sym))
    BY OfIs DEF Of
  <2> QED BY <2>1, <2>2, <2>3
<1>2. /\ i \in [Commodities -> Nat] /\ u \in [Commodities -> Nat]
      /\ \A sym \in Commodities : /\ i[sym] = m.consumed[sym] + Of(lines, sym)
                                  /\ u[sym] = m.held[t][sym] - Of(lines, sym)
  <2>1. \A sym \in Commodities : Of(lines, sym) <= m.held[t][sym]
    BY <1>1
  <2> QED BY <1>0, <2>1, PlusIs, MinusIs
<1>3. e = [m EXCEPT !.consumed = i, !.held[t] = u]
  BY <1>0 DEF UseUp, Market, Units
<1> HIDE DEF i, u
<1>a. [m.held EXCEPT ![t] = u] \in Units
  BY <1>0, <1>2 DEF Units
<1>4. /\ e.consumed = i /\ e.held = [m.held EXCEPT ![t] = u] /\ e.issued = m.issued
      /\ e \in Market
  BY <1>0, <1>2, <1>3, <1>a DEF Market
<1>5. e.held[t] = u /\ \A x \in Traders : x # t => e.held[x] = m.held[x]
  BY <1>0, <1>4 DEF Units
<1>6. OnlyUnits(m, e, t)
  BY <1>0, <1>3, <1>5 DEF OnlyUnits, SameBook, SameShop, SameJobs, SameTimes, Market
<1>7. ASSUME NEW sym \in Commodities
      PROVE  /\ e.issued[sym] - e.consumed[sym]
                  = m.issued[sym] - m.consumed[sym] - m.held[t][sym] + u[sym]
             /\ m.reserved_units[t][sym] <= m.held[t][sym]
                  => m.reserved_units[t][sym] <= u[sym]
  <2>1. /\ m.issued[sym] \in Nat /\ m.consumed[sym] \in Nat /\ m.held[t][sym] \in Nat
        /\ m.reserved_units[t][sym] \in Nat
    BY <1>0
  <2> QED BY <1>1, <1>2, <1>4, <2>1
<1>8. Sound(e)
  BY <1>2, <1>4, <1>6, <1>7, UnitsKeep
<1> QED BY <1>2, <1>4, <1>5, <1>6, <1>8

-----------------------------------------------------------------------------
(* Quotes withdrawn *)

\* One quote more.
LEMMA BidCentsAdd ==
  ASSUME NEW S \in SUBSET Quote, IsFiniteSet(S), NEW o \in Quote, o \notin S, NEW a
  PROVE  /\ BidCents(S \cup {o}, a) = BidCents(S, a) + BidCents({o}, a)
         /\ BidCents(S, a) \in Nat /\ BidCents({o}, a) \in Nat
<1>1. S \cup {o} \in SUBSET Quote /\ IsFiniteSet(S \cup {o}) /\ S \in SUBSET (S \cup {o})
      /\ (S \cup {o}) \ S = {o}
  BY FS_AddElement
<1> QED BY <1>1, BidCentsSplit

AsksAddUp(S, T, t, sym) ==
  /\ AskUnits(S, t, sym) = AskUnits(T, t, sym) + AskUnits(S \ T, t, sym)
  /\ AskUnits(T, t, sym) \in Nat /\ AskUnits(S \ T, t, sym) \in Nat

\* What a set of quotes holds back of units is what two parts of it do.
LEMMA AskUnitsParts ==
  ASSUME NEW S \in SUBSET Quote, IsFiniteSet(S), NEW T \in SUBSET S, NEW t, NEW sym
  PROVE  AsksAddUp(S, T, t, sym)
BY AskUnitsSplit DEF AsksAddUp

AsksGrow(S, o, t, sym) ==
  /\ AskUnits(S \cup {o}, t, sym) = AskUnits(S, t, sym) + AskUnits({o}, t, sym)
  /\ AskUnits(S, t, sym) \in Nat /\ AskUnits({o}, t, sym) \in Nat

\* One quote more holds back as much more.
LEMMA AskUnitsAdd ==
  ASSUME NEW S \in SUBSET Quote, IsFiniteSet(S), NEW o \in Quote, o \notin S, NEW t, NEW sym
  PROVE  AsksGrow(S, o, t, sym)
<1> DEFINE U == S \cup {o}
<1>1. U \in SUBSET Quote /\ IsFiniteSet(U) /\ S \in SUBSET U /\ U \ S = {o}
  BY FS_AddElement
<1>2. U \in SUBSET Quote /\ IsFiniteSet(U)
  BY <1>1
<1>3. S \in SUBSET U
  BY <1>1
<1> HIDE DEF U
<1>4. AsksAddUp(U, S, t, sym)
  BY <1>2, <1>3, AskUnitsParts
<1> QED BY <1>1, <1>4 DEF U, AsksAddUp, AsksGrow

\* Neither what is held, issued or used up, nor the NPCs, the shop, the jobs
\* and the times have changed, nor a balance or the state of a wallet.
OnlyQuotes(m, e) ==
  /\ SameUnits(m, e) /\ SameShop(m, e) /\ SameJobs(m, e) /\ SameTimes(m, e)
  /\ e.npcs = m.npcs
  /\ \A w \in Purses : /\ e.wallets[w].balance = m.wallets[w].balance
                       /\ e.wallets[w].status = m.wallets[w].status

\* The quotes in a set are released, and the book is another.
Released(m, quotes, book, e) ==
  /\ e \in Market /\ OnlyQuotes(m, e) /\ e.book = book
  /\ e.wallets = Release(m, quotes).wallets
  /\ \A w \in Purses :
       /\ e.wallets[w] = [m.wallets[w] EXCEPT !.reserved = e.wallets[w].reserved]
       /\ e.wallets[w].reserved =
            IF m.wallets[w].reserved >= BidCents(quotes, w)
            THEN m.wallets[w].reserved - BidCents(quotes, w) ELSE 0
  /\ \A t \in Traders, sym \in Commodities :
       e.reserved_units[t][sym] =
         IF m.reserved_units[t][sym] >= AskUnits(quotes, t, sym)
         THEN m.reserved_units[t][sym] - AskUnits(quotes, t, sym) ELSE 0

\* What is released is no longer reserved.
LEMMA ReleaseIs ==
  ASSUME NEW m, Sound(m), NEW quotes \in SUBSET Quote, IsFiniteSet(quotes),
         NEW book \in SUBSET Quote,
         NEW e, e = [Release(m, quotes) EXCEPT !.book = book]
  PROVE  Released(m, quotes, book, e)
<1> DEFINE W == [w \in Purses |-> [m.wallets[w] EXCEPT
                   !.reserved = Max({@ - BidCents(quotes, w), 0})]]
           R == [t \in Traders |-> [sym \in Commodities |->
                   Max({m.reserved_units[t][sym] - AskUnits(quotes, t, sym), 0})]]
<1>0. m \in Market /\ m.wallets \in [Purses -> Wallet] /\ m.reserved_units \in Units
  BY FieldsAre
<1>1. /\ e = [m EXCEPT !.wallets = W, !.reserved_units = R, !.book = book]
      /\ Release(m, quotes).wallets = W
  <2>1. Release(m, quotes) = [m EXCEPT !.wallets = W, !.reserved_units = R]
    BY DEF Release
  <2> HIDE DEF W, R
  <2> QED BY <1>0, <2>1 DEF Market
<1>2. ASSUME NEW w \in Purses
      PROVE  /\ W[w] = [m.wallets[w] EXCEPT !.reserved = W[w].reserved]
             /\ W[w].reserved = IF m.wallets[w].reserved >= BidCents(quotes, w)
                                THEN m.wallets[w].reserved - BidCents(quotes, w) ELSE 0
             /\ W[w] \in Wallet /\ W[w].balance = m.wallets[w].balance
             /\ W[w].status = m.wallets[w].status
  <2> DEFINE b == BidCents(quotes, w)
             x == m.wallets[w].reserved
             r == Max({x - b, 0})
  <2>1. m.wallets[w] \in Wallet
    BY <1>0
  <2>2. x \in Nat
    BY <2>1 DEF Wallet
  <2>3. b \in Nat
    <3>1. quotes \in SUBSET quotes
      OBVIOUS
    <3> QED BY <3>1, BidCentsSplit
  <2>4. W[w] = [m.wallets[w] EXCEPT !.reserved = r]
    OBVIOUS
  <2> HIDE DEF b, x, W
  <2>5. r \in Nat /\ r = IF x >= b THEN x - b ELSE 0
    <3>1. x - b \in Int
      BY <2>2, <2>3
    <3>2. r = IF x - b >= 0 THEN x - b ELSE 0
      BY <3>1, MaxOfTwo
    <3> QED BY <2>2, <2>3, <3>2
  <2> HIDE DEF r
  <2>6. /\ W[w].reserved = r /\ W[w] \in Wallet /\ W[w].balance = m.wallets[w].balance
        /\ W[w].status = m.wallets[w].status
    BY <2>1, <2>4, <2>5 DEF Wallet
  <2> QED BY <2>4, <2>5, <2>6 DEF b, x
<1>3. ASSUME NEW t \in Traders, NEW sym \in Commodities
      PROVE  /\ R[t][sym] \in Nat
             /\ R[t][sym] = IF m.reserved_units[t][sym] >= AskUnits(quotes, t, sym)
                            THEN m.reserved_units[t][sym] - AskUnits(quotes, t, sym) ELSE 0
  <2> DEFINE b == AskUnits(quotes, t, sym)
             x == m.reserved_units[t][sym]
  <2>1. x \in Nat
    BY <1>0 DEF Units
  <2>2. b \in Nat
    <3>1. quotes \in SUBSET quotes
      OBVIOUS
    <3> QED BY <3>1, AskUnitsSplit
  <2>3. R[t][sym] = Max({x - b, 0})
    OBVIOUS
  <2> HIDE DEF b, R, x
  <2>4. R[t][sym] \in Nat /\ R[t][sym] = IF x >= b THEN x - b ELSE 0
    <3>1. x - b \in Int
      BY <2>1, <2>2
    <3>2. R[t][sym] = IF x - b >= 0 THEN x - b ELSE 0
      BY <2>3, <3>1, MaxOfTwo
    <3> QED BY <2>1, <2>2, <3>2
  <2> QED BY <2>4 DEF b, x
<1>4. W \in [Purses -> Wallet]
  <2>1. \A w \in Purses : W[w] \in Wallet
    BY <1>2
  <2>2. W = [w \in Purses |-> W[w]]
    OBVIOUS
  <2> HIDE DEF W
  <2> QED BY <2>1, <2>2
<1>5. R \in Units
  <2>1. \A t \in Traders, sym \in Commodities : R[t][sym] \in Nat
    BY <1>3
  <2>2. R = [t \in Traders |-> [sym \in Commodities |-> R[t][sym]]]
    OBVIOUS
  <2> HIDE DEF R
  <2> QED BY <2>1, <2>2 DEF Units
<1> HIDE DEF W, R
<1>6. /\ e \in Market /\ e.wallets = W /\ e.reserved_units = R /\ e.book = book
      /\ SameUnits(m, e) /\ SameShop(m, e) /\ SameJobs(m, e) /\ SameTimes(m, e)
      /\ e.npcs = m.npcs
  BY <1>0, <1>1, <1>4, <1>5
     DEF Market, SameUnits, SameShop, SameJobs, SameTimes
<1>7. OnlyQuotes(m, e)
  BY <1>2, <1>6 DEF OnlyQuotes
<1> QED BY <1>1, <1>2, <1>3, <1>6, <1>7 DEF Released

\* What the NPCs have reserved in market e is what they quote, of what they
\* have in m; those yet to be created have nothing reserved.
Covered(m, e) ==
  /\ \A n \in Range(Npcs) :
       /\ e.wallets[AccountOf[n]].reserved = BidCents(e.book, AccountOf[n])
       /\ e.wallets[AccountOf[n]].reserved <= m.wallets[AccountOf[n]].balance
       /\ \A sym \in Commodities :
            /\ e.reserved_units[n][sym] = AskUnits(e.book, n, sym)
            /\ e.reserved_units[n][sym] <= m.held[n][sym]
  /\ \A n \in Range(Npcs) \ DOMAIN m.npcs : e.wallets[AccountOf[n]] = m.wallets[AccountOf[n]]

\* A market whose quotes are others, and whose reservations match them, is sound.
LEMMA QuotesKeep ==
  ASSUME NEW m, Sound(m), NEW e, e \in Market, IsFiniteSet(e.book), OnlyQuotes(m, e),
         Covered(m, e), Placed(e)
  PROVE  Sound(e)
<1>1. Formed(e)
  BY DEF Sound, Formed, OnlyQuotes, SameJobs
<1>2. Accounted(e)
  <2>1. Balances(e.wallets) = Balances(m.wallets)
    <3>1. [w \in Purses |-> e.wallets[w].balance] = [w \in Purses |-> m.wallets[w].balance]
      BY DEF OnlyQuotes
    <3> QED BY <3>1 DEF Balances
  <2> QED BY <2>1 DEF Sound, Accounted, OnlyQuotes, SameUnits, HeldUnits
<1>3. Unopened(e)
  BY DEF Sound, Unopened, OnlyQuotes, Covered
<1>4. Backed(e)
  <2> SUFFICES ASSUME NEW n \in Range(Npcs)
               PROVE  e.wallets[AccountOf[n]].balance = m.wallets[AccountOf[n]].balance
    BY DEF Backed, OnlyQuotes, SameUnits, Covered
  <2>1. AccountOf[n] \in Purses
    BY PursesAre
  <2> QED BY <2>1 DEF OnlyQuotes
<1> QED BY <1>1, <1>2, <1>3, <1>4 DEF Sound

\* What is withdrawn is no longer reserved, and nothing else changes.
LEMMA WithdrawKeeps ==
  ASSUME NEW m, Sound(m), NEW gone \in SUBSET m.book,
         NEW e, e = [Release(m, gone) EXCEPT !.book = @ \ gone]
  PROVE  /\ Sound(e) /\ OnlyQuotes(m, e) /\ e.book = m.book \ gone
<1> DEFINE book == m.book \ gone
<1>1. /\ m \in Market /\ m.book \in SUBSET Quote /\ IsFiniteSet(m.book)
      /\ m.wallets \in [Purses -> Wallet] /\ m.reserved_units \in Units
  BY FieldsAre
<1>2. /\ gone \in SUBSET Quote /\ IsFiniteSet(gone) /\ book \in SUBSET Quote
      /\ IsFiniteSet(book)
  BY <1>1, FS_Subset
<1>3. e = [Release(m, gone) EXCEPT !.book = book]
  <2>1. Release(m, gone).book = m.book
    BY <1>1 DEF Release, Market
  <2> QED BY <2>1
<1>0. Released(m, gone, book, e)
  BY <1>2, <1>3, ReleaseIs
<1>4. /\ e \in Market /\ OnlyQuotes(m, e) /\ e.book = book
      /\ \A w \in Purses :
              /\ e.wallets[w] = [m.wallets[w] EXCEPT !.reserved = e.wallets[w].reserved]
              /\ e.wallets[w].reserved =
                   IF m.wallets[w].reserved >= BidCents(gone, w)
                   THEN m.wallets[w].reserved - BidCents(gone, w) ELSE 0
      /\ \A t \in Traders, sym \in Commodities :
              e.reserved_units[t][sym] =
                IF m.reserved_units[t][sym] >= AskUnits(gone, t, sym)
                THEN m.reserved_units[t][sym] - AskUnits(gone, t, sym) ELSE 0
  BY <1>0 DEF Released
<1> HIDE DEF book
<1>5. \A a : /\ BidCents(m.book, a) = BidCents(gone, a) + BidCents(book, a)
             /\ BidCents(m.book, a) \in Nat /\ BidCents(gone, a) \in Nat
             /\ BidCents(book, a) \in Nat
  BY <1>1, <1>2, BidCentsSplit DEF book
<1>6. \A t, sym : /\ AskUnits(m.book, t, sym) = AskUnits(gone, t, sym) + AskUnits(book, t, sym)
                  /\ AskUnits(m.book, t, sym) \in Nat /\ AskUnits(gone, t, sym) \in Nat
                  /\ AskUnits(book, t, sym) \in Nat
  BY <1>1, <1>2, AskUnitsSplit DEF book
<1>7. ASSUME NEW n \in Range(Npcs)
      PROVE  /\ e.wallets[AccountOf[n]].reserved = BidCents(e.book, AccountOf[n])
             /\ e.wallets[AccountOf[n]].reserved <= m.wallets[AccountOf[n]].balance
  <2> DEFINE a == AccountOf[n]
  <2>1. a \in Purses
    BY PursesAre
  <2> DEFINE x == BidCents(m.book, a)
             y == BidCents(gone, a)
             z == BidCents(book, a)
             r == m.wallets[a].reserved
             b == m.wallets[a].balance
             q == e.wallets[a].reserved
  <2>2. r = x /\ r <= b
    BY DEF Sound, Backed
  <2>3. b \in Nat
    BY <1>1, <2>1, WalletIs
  <2>4. x = y + z /\ x \in Nat /\ y \in Nat /\ z \in Nat
    BY <1>5
  <2>5. q = IF r >= y THEN r - y ELSE 0
    BY <1>4, <2>1
  <2> HIDE DEF x, y, z, r, b, q
  <2>6. q = z /\ q <= b
    BY <2>2, <2>3, <2>4, <2>5
  <2>7. z = BidCents(e.book, a)
    BY <1>4 DEF z
  <2> HIDE DEF a
  <2> QED BY <2>6, <2>7 DEF q, b, a
<1>8. ASSUME NEW n \in Range(Npcs), NEW sym \in Commodities
      PROVE  /\ e.reserved_units[n][sym] = AskUnits(e.book, n, sym)
             /\ e.reserved_units[n][sym] <= m.held[n][sym]
  <2> DEFINE x == AskUnits(m.book, n, sym)
             y == AskUnits(gone, n, sym)
             z == AskUnits(book, n, sym)
             r == m.reserved_units[n][sym]
             b == m.held[n][sym]
             q == e.reserved_units[n][sym]
  <2>1. n \in Traders
    BY PursesAre
  <2>2. r = x /\ r <= b
    BY DEF Sound, Backed
  <2>3. b \in Nat
    BY <2>1, FieldsAre DEF Units
  <2>4. x = y + z /\ x \in Nat /\ y \in Nat /\ z \in Nat
    BY <1>6
  <2>5. q = IF r >= y THEN r - y ELSE 0
    BY <1>4, <2>1
  <2> HIDE DEF x, y, z, r, b, q
  <2>6. q = z /\ q <= b
    BY <2>2, <2>3, <2>4, <2>5
  <2>7. z = AskUnits(e.book, n, sym)
    BY <1>4 DEF z
  <2> QED BY <2>6, <2>7 DEF q, b
<1>9. ASSUME NEW n \in Range(Npcs) \ DOMAIN m.npcs
      PROVE  e.wallets[AccountOf[n]] = m.wallets[AccountOf[n]]
  <2> DEFINE a == AccountOf[n]
  <2>1. a \in Purses
    BY PursesAre
  <2>2. m.wallets[a] = Opened(0)
    BY DEF Sound, Unopened
  <2> DEFINE y == BidCents(gone, a)
             q == e.wallets[a].reserved
             r == m.wallets[a].reserved
  <2>3. r = 0
    BY <2>2 DEF Opened
  <2>8. y \in Nat
    BY <1>5
  <2>9. q = IF r >= y THEN r - y ELSE 0
    BY <1>4, <2>1
  <2> HIDE DEF q, r, y
  <2>10. q = 0
    BY <2>3, <2>8, <2>9
  <2>4. e.wallets[a].reserved = 0
    BY <2>10 DEF q
  <2> HIDE DEF a
  <2>5. e.wallets[a] = [m.wallets[a] EXCEPT !.reserved = 0]
    BY <1>4, <2>1, <2>4
  <2>6. e.wallets[a] = Opened(0)
    BY <2>2, <2>5 DEF Opened
  <2> QED BY <2>2, <2>6 DEF a
<1>10. Placed(e)
  <2> SUFFICES ASSUME NEW o \in e.book
               PROVE  /\ o.trader \in DOMAIN e.npcs /\ e.npcs[o.trader].active
                      /\ o.symbol = e.npcs[o.trader].symbol
                      /\ e.wallets[AccountOf[o.trader]].status = "Active"
                      /\ \A p \in e.book : SamePlace(o, p) => p = o
                      /\ ~Crosses(e, o)
    BY DEF Placed
  <2>1. e.book \subseteq m.book /\ o \in m.book
    BY <1>4 DEF book
  <2>2. AccountOf[o.trader] \in Purses
    BY <1>1, <2>1, PursesAre DEF Quote
  <2>3. /\ o.trader \in DOMAIN m.npcs /\ m.npcs[o.trader].active
        /\ o.symbol = m.npcs[o.trader].symbol
        /\ m.wallets[AccountOf[o.trader]].status = "Active"
        /\ \A p \in m.book : SamePlace(o, p) => p = o
        /\ ~Crosses(m, o)
    BY <2>1 DEF Sound, Placed
  <2>4. ~Crosses(e, o)
    BY <2>1, <2>3 DEF Crosses
  <2> QED BY <1>4, <2>1, <2>2, <2>3, <2>4 DEF OnlyQuotes
<1>11. IsFiniteSet(e.book)
  BY <1>2, <1>4
<1>12. Covered(m, e)
  BY <1>7, <1>8, <1>9 DEF Covered
<1>13. e \in Market /\ OnlyQuotes(m, e)
  BY <1>4
<1>14. Sound(e)
  BY <1>10, <1>11, <1>12, <1>13, QuotesKeep
<1> QED BY <1>4, <1>14 DEF book

\* All the quotes of some traders withdrawn.
LEMMA CancelAllKeeps ==
  ASSUME NEW m, Sound(m), NEW traders, NEW e, e = CancelAll(m, traders)
  PROVE  /\ Sound(e) /\ OnlyQuotes(m, e)
         /\ e.book = {o \in m.book : o.trader \notin traders}
<1> DEFINE gone == {o \in m.book : o.trader \in traders}
<1>1. gone \in SUBSET m.book /\ e = [Release(m, gone) EXCEPT !.book = @ \ gone]
  BY DEF CancelAll
<1>2. m.book \ gone = {o \in m.book : o.trader \notin traders}
  OBVIOUS
<1> HIDE DEF gone
<1> QED BY <1>1, <1>2, WithdrawKeeps

-----------------------------------------------------------------------------
(* Quotes placed *)

\* What a trader has free.
LEMMA FreeIs ==
  ASSUME NEW m, NEW t, NEW sym, m.held[t][sym] \in Nat, m.reserved_units[t][sym] \in Nat
  PROVE  /\ FreeUnits(m, t, sym) = IF m.held[t][sym] >= m.reserved_units[t][sym]
                                   THEN m.held[t][sym] - m.reserved_units[t][sym] ELSE 0
         /\ FreeUnits(m, t, sym) \in Nat
<1> DEFINE h == m.held[t][sym]
           r == m.reserved_units[t][sym]
<1>1. h \in Nat /\ r \in Nat /\ FreeUnits(m, t, sym) = Max({h - r, 0})
  BY DEF FreeUnits
<1> HIDE DEF h, r
<1>2. FreeUnits(m, t, sym) = IF h - r >= 0 THEN h - r ELSE 0
  <2>1. h - r \in Int
    BY <1>1
  <2> QED BY <1>1, <2>1, MaxOfTwo
<1>3. /\ FreeUnits(m, t, sym) = IF h >= r THEN h - r ELSE 0
      /\ FreeUnits(m, t, sym) \in Nat
  BY <1>1, <1>2
<1> QED BY <1>3 DEF h, r

\* What a quote holds back, of cash and of units.
BidOf(o, a) == IF o.side = "Buy" /\ AccountOf[o.trader] = a THEN o.qty * o.price ELSE 0

AskOf(o, t, sym) == IF o.side = "Sell" /\ o.trader = t /\ o.symbol = sym THEN o.qty ELSE 0

\* A quote there is a place for, by an NPC that may quote.
Fits(m, o) ==
  /\ o \in Quote /\ o.trader \in DOMAIN m.npcs /\ m.npcs[o.trader].active
  /\ o.symbol = m.npcs[o.trader].symbol
  /\ \A p \in m.book : ~SamePlace(o, p)

\* A quote that reaches no other is the only one at its level and side.
LEMMA PlacedMore ==
  ASSUME NEW m, Sound(m), NEW o, Fits(m, o), ~Crosses(m, o),
         m.wallets[AccountOf[o.trader]].status = "Active",
         NEW e, OnlyQuotes(m, e), e.book = m.book \cup {o}
  PROVE  Placed(e)
<1> SUFFICES ASSUME NEW p \in e.book
             PROVE  /\ p.trader \in DOMAIN e.npcs /\ e.npcs[p.trader].active
                    /\ p.symbol = e.npcs[p.trader].symbol
                    /\ e.wallets[AccountOf[p.trader]].status = "Active"
                    /\ \A q \in e.book : SamePlace(p, q) => q = p
                    /\ ~Crosses(e, p)
  BY DEF Placed
<1>1. m.book \in SUBSET Quote /\ o \in Quote /\ e.npcs = m.npcs
  BY FieldsAre DEF Fits, OnlyQuotes
<1>2. \A q \in e.book : q \in Quote /\ q.trader \in Range(Npcs) /\ AccountOf[q.trader] \in Purses
  <2>1. \A q \in e.book : q \in Quote
    BY <1>1
  <2> QED BY <2>1, PursesAre DEF Quote
<1>3. \A q \in e.book :
        e.wallets[AccountOf[q.trader]].status = m.wallets[AccountOf[q.trader]].status
  BY <1>2 DEF OnlyQuotes
<1>4. \A q \in e.book : q.side \in {"Buy", "Sell"} /\ q.price \in Nat
  BY <1>2 DEF Quote
<1>5. /\ p.trader \in DOMAIN m.npcs /\ m.npcs[p.trader].active
      /\ p.symbol = m.npcs[p.trader].symbol
      /\ m.wallets[AccountOf[p.trader]].status = "Active"
  <2>1. CASE p = o
    BY <2>1 DEF Fits
  <2>2. CASE p \in m.book
    BY <2>2 DEF Sound, Placed
  <2> QED BY <2>1, <2>2
<1>6. ASSUME NEW q \in e.book, SamePlace(p, q)
      PROVE  q = p
  <2>1. CASE p = o
    BY <1>6, <2>1 DEF Fits
  <2>2. CASE p \in m.book /\ q = o
    BY <1>6, <2>2 DEF Fits, SamePlace
  <2>3. CASE p \in m.book /\ q \in m.book
    BY <1>6, <2>3 DEF Sound, Placed
  <2> QED BY <2>1, <2>2, <2>3
<1>7. ASSUME NEW q \in e.book, q.symbol = p.symbol, q.side # p.side,
             IF p.side = "Buy" THEN q.price <= p.price ELSE q.price >= p.price
      PROVE  FALSE
  <2>1. CASE p \in m.book /\ q \in m.book
    <3>1. ~Crosses(m, p)
      BY <2>1 DEF Sound, Placed
    <3> QED BY <1>7, <2>1, <3>1 DEF Crosses
  <2>2. CASE p = o /\ q \in m.book
    BY <1>7, <2>2 DEF Crosses
  <2>3. CASE q = o /\ p \in m.book
    <3>1. IF q.side = "Buy" THEN p.price <= q.price ELSE p.price >= q.price
      BY <1>4, <1>7
    <3> QED BY <1>7, <2>3, <3>1 DEF Crosses
  <2>4. CASE p = o /\ q = o
    BY <1>7, <2>4
  <2> QED BY <2>1, <2>2, <2>3, <2>4
<1>8. ~Crosses(e, p)
  BY <1>7 DEF Crosses
<1> QED BY <1>1, <1>3, <1>5, <1>6, <1>8

\* The NPC has what the quote holds back, and it is reserved.
ReservedFor(m, o, e) ==
  /\ \A w \in Purses : e.wallets[w] = [m.wallets[w] EXCEPT !.reserved = @ + BidOf(o, w)]
  /\ m.wallets[AccountOf[o.trader]].reserved + BidOf(o, AccountOf[o.trader])
       <= m.wallets[AccountOf[o.trader]].balance
  /\ \A t \in Traders, sym \in Commodities :
       e.reserved_units[t][sym] = m.reserved_units[t][sym] + AskOf(o, t, sym)
  /\ m.reserved_units[o.trader][o.symbol] + AskOf(o, o.trader, o.symbol)
       <= m.held[o.trader][o.symbol]

\* A quote that is covered is reserved for and rests.
LEMMA CoveredMore ==
  ASSUME NEW m, Sound(m), NEW o, Fits(m, o),
         NEW e, e \in Market, OnlyQuotes(m, e), e.book = m.book \cup {o}, ReservedFor(m, o, e)
  PROVE  Covered(m, e)
<1> USE DEF ReservedFor
<1>1. /\ m.book \in SUBSET Quote /\ IsFiniteSet(m.book) /\ o \in Quote /\ o \notin m.book
      /\ m.wallets \in [Purses -> Wallet] /\ m.reserved_units \in Units
      /\ o.trader \in DOMAIN m.npcs
  BY FieldsAre DEF Fits, SamePlace
<1>2. \A a : BidCents(e.book, a) = BidCents(m.book, a) + BidOf(o, a)
  <2> SUFFICES ASSUME NEW a PROVE BidCents(e.book, a) = BidCents(m.book, a) + BidOf(o, a)
    OBVIOUS
  <2>1. BidCents(m.book \cup {o}, a) = BidCents(m.book, a) + BidCents({o}, a)
    BY <1>1, BidCentsAdd
  <2>2. BidCents({o}, a) = BidOf(o, a)
    BY <1>1, BidCentsOne DEF BidOf
  <2> QED BY <2>1, <2>2
<1>3. \A t, sym : AskUnits(e.book, t, sym) = AskUnits(m.book, t, sym) + AskOf(o, t, sym)
  <2> SUFFICES ASSUME NEW t, NEW sym
               PROVE  AskUnits(e.book, t, sym) = AskUnits(m.book, t, sym) + AskOf(o, t, sym)
    OBVIOUS
  <2>3. AsksGrow(m.book, o, t, sym)
    BY <1>1, AskUnitsAdd
  <2>1. AskUnits(m.book \cup {o}, t, sym) = AskUnits(m.book, t, sym) + AskUnits({o}, t, sym)
    BY <2>3 DEF AsksGrow
  <2>2. AskUnits({o}, t, sym) = AskOf(o, t, sym)
    BY <1>1, AskUnitsOne DEF AskOf
  <2> QED BY <2>1, <2>2
<1>4. ASSUME NEW n \in Range(Npcs)
      PROVE  /\ e.wallets[AccountOf[n]].reserved = BidCents(e.book, AccountOf[n])
             /\ e.wallets[AccountOf[n]].reserved <= m.wallets[AccountOf[n]].balance
  <2> DEFINE a == AccountOf[n]
             c == BidOf(o, a)
             r == m.wallets[a].reserved
             b == m.wallets[a].balance
  <2>1. a \in Purses
    BY PursesAre
  <2>2. m.wallets[a] \in Wallet
    BY <1>1, <2>1
  <2>3. r = BidCents(m.book, a) /\ r <= b
    BY DEF Sound, Backed
  <2>4. e.wallets[a].reserved = r + c
    <3>1. e.wallets[a] = [m.wallets[a] EXCEPT !.reserved = @ + c]
      BY <2>1
    <3> HIDE DEF c, a
    <3> QED BY <2>2, <3>1 DEF Wallet
  <2>5. BidCents(e.book, a) = BidCents(m.book, a) + c
    BY <1>2
  <2>6. r + c <= b
    <3>1. CASE a = AccountOf[o.trader]
      BY <3>1
    <3>2. CASE a # AccountOf[o.trader]
      <4>1. c = 0
        BY <3>2 DEF BidOf
      <4>2. r \in Nat
        BY <2>2 DEF Wallet
      <4> HIDE DEF a, b, c, r
      <4> QED BY <2>3, <4>1, <4>2
    <3> QED BY <3>1, <3>2
  <2> HIDE DEF r, c, b, a
  <2> QED BY <2>3, <2>4, <2>5, <2>6 DEF a, b
<1>5. ASSUME NEW n \in Range(Npcs), NEW sym \in Commodities
      PROVE  /\ e.reserved_units[n][sym] = AskUnits(e.book, n, sym)
             /\ e.reserved_units[n][sym] <= m.held[n][sym]
  <2> DEFINE c == AskOf(o, n, sym)
             r == m.reserved_units[n][sym]
             b == m.held[n][sym]
  <2>1. n \in Traders
    BY PursesAre
  <2>2. r = AskUnits(m.book, n, sym) /\ r <= b
    BY DEF Sound, Backed
  <2>3. e.reserved_units[n][sym] = r + c
    BY <2>1
  <2>4. AskUnits(e.book, n, sym) = AskUnits(m.book, n, sym) + c
    BY <1>3
  <2>5. r + c <= b
    <3>1. CASE n = o.trader /\ sym = o.symbol
      BY <3>1
    <3>2. CASE ~(n = o.trader /\ sym = o.symbol)
      <4>1. c = 0
        BY <3>2 DEF AskOf
      <4>2. r \in Nat
        BY <1>1, <2>1 DEF Units
      <4> HIDE DEF b, c, r
      <4> QED BY <2>2, <4>1, <4>2
    <3> QED BY <3>1, <3>2
  <2> HIDE DEF r, c, b
  <2> QED BY <2>2, <2>3, <2>4, <2>5 DEF b
<1>6. ASSUME NEW n \in Range(Npcs) \ DOMAIN m.npcs
      PROVE  e.wallets[AccountOf[n]] = m.wallets[AccountOf[n]]
  <2> DEFINE a == AccountOf[n]
  <2>1. a \in Purses /\ a # AccountOf[o.trader]
    <3>1. o.trader \in Traders /\ o.trader # n
      BY <1>1, PursesAre DEF Quote
    <3> QED BY <3>1, PursesAre
  <2>2. BidOf(o, a) = 0
    BY <2>1 DEF BidOf
  <2>3. m.wallets[a] = Opened(0)
    BY DEF Sound, Unopened
  <2> HIDE DEF a
  <2>4. e.wallets[a] = [m.wallets[a] EXCEPT !.reserved = @ + 0]
    BY <2>1, <2>2
  <2>5. e.wallets[a] = Opened(0)
    BY <2>3, <2>4 DEF Opened
  <2> QED BY <2>3, <2>5 DEF a
<1> QED BY <1>4, <1>5, <1>6 DEF Covered

\* A level quoted or refused (requote_npcs, place): the market stays sound, and
\* the quote is on its book or nothing is.
LEMMA PlaceQuoteKeeps ==
  ASSUME NEW m, Sound(m), NEW o, Fits(m, o), NEW e, e = PlaceQuote(m, o)
  PROVE  /\ Sound(e) /\ OnlyQuotes(m, e)
         /\ e.book = m.book \/ e.book = m.book \cup {o}
<1> DEFINE n == o.trader
           a == AccountOf[n]
           s == o.symbol
           book == m.book \cup {o}
<1>1. /\ m \in Market /\ m.book \in SUBSET Quote /\ IsFiniteSet(m.book) /\ o \in Quote
      /\ m.wallets \in [Purses -> Wallet] /\ m.reserved_units \in Units /\ m.held \in Units
  BY FieldsAre DEF Fits
<1>2. /\ n \in Range(Npcs) /\ n \in Traders /\ a \in Purses /\ s \in Commodities
      /\ o.qty \in Nat /\ o.price \in Nat /\ o.side \in {"Buy", "Sell"}
  BY <1>1, PursesAre DEF Quote
<1>3. o.qty * o.price \in Nat
  BY <1>2, NatTimes
<1>4. book \in SUBSET Quote /\ IsFiniteSet(book)
  BY <1>1, FS_AddElement
<1>5. CASE e = m
  BY <1>5 DEF OnlyQuotes, SameUnits, SameShop, SameJobs, SameTimes
<1>6. CASE e # m
  <2>1. /\ m.wallets[a].status = "Active" /\ ~Crosses(m, o)
        /\ \/ /\ o.side = "Sell" /\ o.qty <= FreeUnits(m, n, s)
              /\ e = [m EXCEPT !.book = book, !.reserved_units[n][s] = @ + o.qty]
           \/ /\ o.side = "Buy" /\ o.qty * o.price <= AvailableCents(m.wallets[a])
              /\ e = [m EXCEPT !.book = book, !.wallets = ReserveCash(@, a, o.qty * o.price)]
    <3>1. e = [[m EXCEPT !.book = book] EXCEPT !.reserved_units[n][s] = @ + o.qty]
          => e = [m EXCEPT !.book = book, !.reserved_units[n][s] = @ + o.qty]
      <4> HIDE DEF book, n, s
      <4> QED BY <1>1 DEF Market
    <3>2. e = [[m EXCEPT !.book = book] EXCEPT
                 !.wallets = ReserveCash(@, a, o.qty * o.price)]
          => e = [m EXCEPT !.book = book, !.wallets = ReserveCash(@, a, o.qty * o.price)]
      <4> HIDE DEF book, a
      <4> QED BY <1>1 DEF Market
    <3> QED BY <1>6, <3>1, <3>2, Zenon DEF PlaceQuote
  <2>2. m.wallets[a] \in Wallet
    BY <1>1, <1>2
  <2>3. /\ m.wallets[a].balance \in Nat /\ m.wallets[a].reserved \in Nat
        /\ m.wallets[a].reserved <= m.wallets[a].balance
        /\ m.held[n][s] \in Nat /\ m.reserved_units[n][s] \in Nat
        /\ m.reserved_units[n][s] <= m.held[n][s]
    <3>1. m.wallets[a].balance \in Nat /\ m.wallets[a].reserved \in Nat
      BY <2>2, WalletIs
    <3>2. m.held[n][s] \in Nat /\ m.reserved_units[n][s] \in Nat
      BY <1>1, <1>2 DEF Units
    <3>3. /\ m.wallets[a].reserved <= m.wallets[a].balance
          /\ m.reserved_units[n][s] <= m.held[n][s]
      BY <1>2 DEF Sound, Backed
    <3> QED BY <3>1, <3>2, <3>3
  <2>4. CASE o.side = "Sell"
    <3> DEFINE R == [m.reserved_units EXCEPT ![n][s] = @ + o.qty]
    <3>1. e = [m EXCEPT !.book = book, !.reserved_units = R]
      BY <2>1, <2>4
    <3>2. o.qty <= FreeUnits(m, n, s)
      BY <2>1, <2>4
    <3>3. R \in Units /\ \A t \in Traders, sym \in Commodities :
                           R[t][sym] = m.reserved_units[t][sym] + AskOf(o, t, sym)
      <4>1. \A t \in Traders, sym \in Commodities :
              R[t][sym] = IF t = n /\ sym = s THEN m.reserved_units[t][sym] + o.qty
                          ELSE m.reserved_units[t][sym]
        BY <1>1, <1>2 DEF Units
      <4>2. R \in Units
        BY <1>1, <1>2 DEF Units
      <4>3. \A t \in Traders, sym \in Commodities : m.reserved_units[t][sym] \in Nat
        BY <1>1 DEF Units
      <4> HIDE DEF R
      <4> QED BY <2>4, <4>1, <4>2, <4>3 DEF AskOf
    <3>4. m.reserved_units[n][s] + AskOf(o, n, s) <= m.held[n][s]
      <4>1. AskOf(o, n, s) = o.qty
        BY <2>4 DEF AskOf
      <4>2. FreeUnits(m, n, s) = IF m.held[n][s] >= m.reserved_units[n][s]
                                 THEN m.held[n][s] - m.reserved_units[n][s] ELSE 0
        BY <2>3, FreeIs
      <4> HIDE DEF n, s
      <4> QED BY <1>2, <2>3, <3>2, <4>1, <4>2
    <3> HIDE DEF R, book
    <3>5. /\ e \in Market /\ e.book = book /\ e.reserved_units = R /\ e.wallets = m.wallets
          /\ OnlyQuotes(m, e)
      BY <1>1, <1>4, <3>1, <3>3
         DEF Market, OnlyQuotes, SameUnits, SameShop, SameJobs, SameTimes
    <3>6. \A w \in Purses : BidOf(o, w) = 0
      BY <2>4 DEF BidOf
    <3>7. \A w \in Purses : e.wallets[w] = [m.wallets[w] EXCEPT !.reserved = @ + BidOf(o, w)]
      <4> SUFFICES ASSUME NEW w \in Purses
                   PROVE  e.wallets[w] = [m.wallets[w] EXCEPT !.reserved = @ + 0]
        BY <3>6
      <4>1. m.wallets[w] \in Wallet
        BY <1>1
      <4> QED BY <3>5, <4>1 DEF Wallet
    <3>8. m.wallets[a].reserved + BidOf(o, a) <= m.wallets[a].balance
      BY <1>2, <2>3, <3>6
    <3>12. ReservedFor(m, o, e)
      BY <3>3, <3>4, <3>5, <3>7, <3>8 DEF ReservedFor
    <3>9. Covered(m, e)
      BY <3>5, <3>12, CoveredMore DEF book
    <3>10. Placed(e)
      BY <2>1, <3>5, PlacedMore DEF book
    <3>11. Sound(e)
      BY <1>4, <3>5, <3>9, <3>10, QuotesKeep
    <3> QED BY <3>5, <3>11 DEF book
  <2>5. CASE o.side = "Buy"
    <3> DEFINE c == o.qty * o.price
               W == [m.wallets EXCEPT ![a].reserved = @ + c]
    <3>1. c <= AvailableCents(m.wallets[a])
      BY <2>1, <2>5
    <3>2. m.wallets[a].reserved + c <= m.wallets[a].balance
      <4> DEFINE r == m.wallets[a].reserved
                 b == m.wallets[a].balance
      <4>1. AvailableCents(m.wallets[a]) = IF b - r >= 0 THEN b - r ELSE 0
        BY <2>3, MaxOfTwo DEF AvailableCents
      <4>2. r \in Nat /\ b \in Nat /\ r <= b /\ c \in Nat
        BY <1>3, <2>3
      <4>3. c <= AvailableCents(m.wallets[a])
        BY <3>1
      <4> HIDE DEF r, b, c, a
      <4>4. r + c <= b
        BY <4>1, <4>2, <4>3
      <4> QED BY <4>4 DEF r, b
    <3>3. ReserveCash(m.wallets, a, c) = W
      BY <2>1, <3>2 DEF ReserveCash
    <3>4. e = [m EXCEPT !.book = book, !.wallets = W]
      BY <2>1, <2>5, <3>3
    <3>5. c \in Nat /\ c = BidOf(o, a)
      BY <1>3, <2>5 DEF BidOf
    <3> HIDE DEF c
    <3>6. /\ W \in [Purses -> Wallet]
          /\ \A w \in Purses : /\ W[w] = [m.wallets[w] EXCEPT !.reserved = @ + BidOf(o, w)]
                               /\ W[w].balance = m.wallets[w].balance
                               /\ W[w].status = m.wallets[w].status
      <4>1. ASSUME NEW w \in Purses
            PROVE  /\ W[w] = [m.wallets[w] EXCEPT !.reserved = @ + BidOf(o, w)]
                   /\ W[w] \in Wallet /\ W[w].balance = m.wallets[w].balance
                   /\ W[w].status = m.wallets[w].status
        <5>1. m.wallets[w] \in Wallet
          BY <1>1
        <5>2. CASE w = a
          <6>1. W[w] = [m.wallets[w] EXCEPT !.reserved = @ + c] /\ c = BidOf(o, w)
            BY <1>1, <1>2, <3>5, <5>2
          <6> HIDE DEF W, a
          <6> QED BY <3>5, <5>1, <6>1 DEF Wallet
        <5>3. CASE w # a
          <6>1. W[w] = m.wallets[w] /\ BidOf(o, w) = 0
            BY <1>1, <5>3 DEF BidOf
          <6>2. m.wallets[w] = [m.wallets[w] EXCEPT !.reserved = @ + 0]
            BY <5>1 DEF Wallet
          <6> HIDE DEF W, a
          <6> QED BY <5>1, <6>1, <6>2
        <5> QED BY <5>2, <5>3
      <4>2. W = [w \in Purses |-> W[w]]
        BY <1>1
      <4> HIDE DEF W
      <4> QED BY <4>1, <4>2
    <3> HIDE DEF W, book
    <3>7. /\ e \in Market /\ e.book = book /\ e.reserved_units = m.reserved_units /\ e.wallets = W
          /\ SameUnits(m, e) /\ SameShop(m, e) /\ SameJobs(m, e) /\ SameTimes(m, e)
          /\ e.npcs = m.npcs
      BY <1>1, <1>4, <3>4, <3>6 DEF Market, SameUnits, SameShop, SameJobs, SameTimes
    <3>8. OnlyQuotes(m, e)
      BY <3>6, <3>7 DEF OnlyQuotes
    <3>9. \A t \in Traders, sym \in Commodities :
            e.reserved_units[t][sym] = m.reserved_units[t][sym] + AskOf(o, t, sym)
      <4>1. \A t \in Traders, sym \in Commodities : AskOf(o, t, sym) = 0
        BY <2>5 DEF AskOf
      <4>2. \A t \in Traders, sym \in Commodities : m.reserved_units[t][sym] \in Nat
        BY <1>1 DEF Units
      <4> QED BY <3>7, <4>1, <4>2
    <3>10. m.reserved_units[n][s] + AskOf(o, n, s) <= m.held[n][s]
      <4>1. AskOf(o, n, s) = 0
        BY <2>5 DEF AskOf
      <4> QED BY <2>3, <4>1
    <3>11. /\ \A w \in Purses : e.wallets[w] = [m.wallets[w] EXCEPT !.reserved = @ + BidOf(o, w)]
           /\ m.wallets[a].reserved + BidOf(o, a) <= m.wallets[a].balance
      BY <3>2, <3>5, <3>6, <3>7
    <3>15. ReservedFor(m, o, e)
      BY <3>9, <3>10, <3>11 DEF ReservedFor
    <3>12. Covered(m, e)
      BY <3>7, <3>8, <3>15, CoveredMore DEF book
    <3>13. Placed(e)
      BY <2>1, <3>7, <3>8, PlacedMore DEF book
    <3>14. Sound(e)
      BY <1>4, <3>7, <3>8, <3>12, <3>13, QuotesKeep
    <3> QED BY <3>7, <3>8, <3>14 DEF book
  <2> QED BY <1>2, <2>4, <2>5
<1> QED BY <1>5, <1>6

-----------------------------------------------------------------------------
(* A quote filled, and units passed on *)

\* The quotes of e are quotes of m, of as much or less.
Shrunk(m, e) ==
  \A x \in e.book : \E y \in m.book : SamePlace(x, y) /\ x.price = y.price /\ x.qty <= y.qty

\* What is taken of a quote is no longer reserved; the rest still is.
LEMMA FilledIs ==
  ASSUME NEW S \in SUBSET Quote, IsFiniteSet(S), NEW o \in S, NEW qty \in 1 .. o.qty,
         \A p \in S : SamePlace(o, p) => p = o
  PROVE  /\ Rest(S, o, qty) \in SUBSET Quote /\ IsFiniteSet(Rest(S, o, qty))
         /\ [o EXCEPT !.qty = qty] \in Quote
         /\ \A a : /\ BidCents(S, a) = BidCents(Rest(S, o, qty), a)
                                        + BidCents({[o EXCEPT !.qty = qty]}, a)
                   /\ BidCents(Rest(S, o, qty), a) \in Nat
                   /\ BidCents({[o EXCEPT !.qty = qty]}, a) \in Nat
         /\ \A t, sym : /\ AskUnits(S, t, sym) = AskUnits(Rest(S, o, qty), t, sym)
                                        + AskUnits({[o EXCEPT !.qty = qty]}, t, sym)
                        /\ AskUnits(Rest(S, o, qty), t, sym) \in Nat
                        /\ AskUnits({[o EXCEPT !.qty = qty]}, t, sym) \in Nat
         /\ \A x \in Rest(S, o, qty) : \/ x \in S /\ x # o
                                       \/ x = [o EXCEPT !.qty = @ - qty]
<1> DEFINE T == S \ {o}
           p == [o EXCEPT !.qty = qty]
           q == [o EXCEPT !.qty = @ - qty]
<1>1. o \in Quote /\ o.qty \in Nat \ {0} /\ o.price \in Nat \ {0} /\ qty \in Nat \ {0}
  BY DEF Quote
<1>2. /\ p \in Quote /\ p.qty = qty /\ p.side = o.side /\ p.trader = o.trader
      /\ p.symbol = o.symbol /\ p.price = o.price
  BY <1>1 DEF Quote
<1>3. /\ qty # o.qty => q \in Quote
      /\ q.qty = o.qty - qty /\ q.side = o.side /\ q.trader = o.trader
      /\ q.symbol = o.symbol /\ q.price = o.price /\ q.level = o.level
  BY <1>1 DEF Quote
<1>4. T \in SUBSET Quote /\ IsFiniteSet(T) /\ o \notin T /\ S = T \cup {o}
  BY FS_RemoveElement
<1>5. q \notin T
  BY <1>3 DEF SamePlace
<1>6. \A a : /\ BidCents(S, a) = BidCents(T, a) + BidCents({o}, a) /\ BidCents(T, a) \in Nat
  BY <1>1, <1>4, BidCentsAdd
<1>7. \A t, sym : /\ AskUnits(S, t, sym) = AskUnits(T, t, sym) + AskUnits({o}, t, sym)
                  /\ AskUnits(T, t, sym) \in Nat
  <2> SUFFICES ASSUME NEW t, NEW sym
               PROVE  /\ AskUnits(S, t, sym) = AskUnits(T, t, sym) + AskUnits({o}, t, sym)
                      /\ AskUnits(T, t, sym) \in Nat
    OBVIOUS
  <2> HIDE DEF T
  <2>1. AsksGrow(T, o, t, sym)
    BY <1>1, <1>4, AskUnitsAdd
  <2> QED BY <1>4, <2>1 DEF AsksGrow
<1> HIDE DEF T, p, q
<1>8. \A a : /\ BidCents({o}, a) = BidOf(o, a) /\ BidCents({p}, a) = BidOf(p, a)
             /\ qty # o.qty => BidCents({q}, a) = BidOf(q, a)
  BY <1>1, <1>2, <1>3, BidCentsOne DEF BidOf
<1>9. \A t, sym : /\ AskUnits({o}, t, sym) = AskOf(o, t, sym)
                  /\ AskUnits({p}, t, sym) = AskOf(p, t, sym)
                  /\ qty # o.qty => AskUnits({q}, t, sym) = AskOf(q, t, sym)
  BY <1>1, <1>2, <1>3, AskUnitsOne DEF AskOf
<1>10. o.qty * o.price = qty * o.price + (o.qty - qty) * o.price /\ qty * o.price \in Nat
  <2>1. qty * o.price \in Nat
    BY <1>1, NatTimes
  <2> DEFINE x == o.qty
             y == o.price
  <2>2. x \in Nat /\ y \in Nat /\ qty \in Nat
    BY <1>1
  <2> HIDE DEF x, y
  <2>3. x * y = qty * y + (x - qty) * y
    BY <2>2
  <2> QED BY <2>1, <2>3 DEF x, y
<1>11. \A a : BidOf(p, a) \in Nat /\ BidOf(o, a) = BidOf(p, a) + BidOf(q, a)
  <2> SUFFICES ASSUME NEW a
               PROVE  BidOf(p, a) \in Nat /\ BidOf(o, a) = BidOf(p, a) + BidOf(q, a)
    OBVIOUS
  <2>1. CASE o.side = "Buy" /\ AccountOf[o.trader] = a
    BY <1>2, <1>3, <1>10, <2>1 DEF BidOf
  <2>2. CASE ~(o.side = "Buy" /\ AccountOf[o.trader] = a)
    BY <1>2, <1>3, <2>2 DEF BidOf
  <2> QED BY <2>1, <2>2
<1>12. \A t, sym : AskOf(p, t, sym) \in Nat
                   /\ AskOf(o, t, sym) = AskOf(p, t, sym) + AskOf(q, t, sym)
  BY <1>1, <1>2, <1>3 DEF AskOf
<1>13. CASE qty = o.qty
  <2>1. Rest(S, o, qty) = T
    BY <1>13 DEF Rest, T
  <2>2. p = o
    BY <1>1, <1>13 DEF p, Quote
  <2>3. \A x \in T : x \in S /\ x # o
    BY DEF T
  <2>4. \A a : BidCents({o}, a) \in Nat
    BY <1>8, <1>11, <2>2
  <2>5. \A t, sym : AskUnits({o}, t, sym) \in Nat
    <3> SUFFICES ASSUME NEW t, NEW sym PROVE AskUnits({o}, t, sym) \in Nat
      OBVIOUS
    <3>1. AskUnits({o}, t, sym) = AskOf(o, t, sym)
      BY <1>9
    <3>2. AskOf(o, t, sym) \in Nat
      BY <1>12, <2>2
    <3> QED BY <3>1, <3>2
  <2>6. p = [o EXCEPT !.qty = qty]
    BY DEF p
  <2> QED BY <1>1, <1>4, <1>6, <1>7, <2>1, <2>2, <2>3, <2>4, <2>5, <2>6
<1>14. CASE qty # o.qty
  <2> DEFINE U == T \cup {q}
  <2>1. Rest(S, o, qty) = U
    BY <1>14 DEF Rest, T, q
  <2>2. U \in SUBSET Quote /\ IsFiniteSet(U)
    BY <1>3, <1>4, <1>14, FS_AddElement
  <2>3. \A a : BidCents(U, a) = BidCents(T, a) + BidCents({q}, a) /\ BidCents({q}, a) \in Nat
    BY <1>3, <1>4, <1>5, <1>14, BidCentsAdd
  <2>4. \A t, sym : /\ AskUnits(U, t, sym) = AskUnits(T, t, sym) + AskUnits({q}, t, sym)
                    /\ AskUnits({q}, t, sym) \in Nat
    <3> SUFFICES ASSUME NEW t, NEW sym
                 PROVE  /\ AskUnits(U, t, sym) = AskUnits(T, t, sym) + AskUnits({q}, t, sym)
                        /\ AskUnits({q}, t, sym) \in Nat
      OBVIOUS
    <3>1. AsksGrow(T, q, t, sym)
      BY <1>3, <1>4, <1>5, <1>14, AskUnitsAdd
    <3> QED BY <3>1 DEF AsksGrow
  <2>5. \A x \in U : (x \in S /\ x # o) \/ x = q
    BY DEF T
  <2> HIDE DEF U
  <2>6. \A a : /\ BidCents(S, a) = BidCents(U, a) + BidCents({p}, a)
               /\ BidCents(U, a) \in Nat /\ BidCents({p}, a) \in Nat
    <3> SUFFICES ASSUME NEW a
                 PROVE  /\ BidCents(S, a) = BidCents(U, a) + BidCents({p}, a)
                        /\ BidCents(U, a) \in Nat /\ BidCents({p}, a) \in Nat
      OBVIOUS
    <3>1. /\ BidCents({o}, a) = BidCents({p}, a) + BidCents({q}, a) /\ BidCents({p}, a) \in Nat
      BY <1>8, <1>11, <1>14
    <3>2. BidCents(S, a) = BidCents(T, a) + BidCents({o}, a) /\ BidCents(T, a) \in Nat
      BY <1>6
    <3>3. BidCents(U, a) = BidCents(T, a) + BidCents({q}, a) /\ BidCents({q}, a) \in Nat
      BY <2>3
    <3> QED BY <3>1, <3>2, <3>3
  <2>7. \A t, sym : /\ AskUnits(S, t, sym) = AskUnits(U, t, sym) + AskUnits({p}, t, sym)
                    /\ AskUnits(U, t, sym) \in Nat /\ AskUnits({p}, t, sym) \in Nat
    <3> SUFFICES ASSUME NEW t, NEW sym
                 PROVE  /\ AskUnits(S, t, sym) = AskUnits(U, t, sym) + AskUnits({p}, t, sym)
                        /\ AskUnits(U, t, sym) \in Nat /\ AskUnits({p}, t, sym) \in Nat
      OBVIOUS
    <3>1. /\ AskUnits({o}, t, sym) = AskUnits({p}, t, sym) + AskUnits({q}, t, sym)
          /\ AskUnits({p}, t, sym) \in Nat
      BY <1>9, <1>12, <1>14
    <3>2. /\ AskUnits(S, t, sym) = AskUnits(T, t, sym) + AskUnits({o}, t, sym)
          /\ AskUnits(T, t, sym) \in Nat
      BY <1>7
    <3>3. /\ AskUnits(U, t, sym) = AskUnits(T, t, sym) + AskUnits({q}, t, sym)
          /\ AskUnits({q}, t, sym) \in Nat
      BY <2>4
    <3> QED BY <3>1, <3>2, <3>3
  <2> QED BY <1>2, <2>1, <2>2, <2>5, <2>6, <2>7 DEF p, q
<1> QED BY <1>13, <1>14

\* No more is reserved than was, and what is taken of an ask no longer is.
LessReserved(m, o, qty, e) ==
  \A t \in Traders, sym \in Commodities :
    /\ e.reserved_units[t][sym] <= m.reserved_units[t][sym]
    /\ o.side = "Sell" /\ t = o.trader /\ sym = o.symbol =>
         e.reserved_units[t][sym] + qty <= m.held[t][sym]

\* A quote filled in part or whole gives back what it reserved for that part,
\* and no more, before its trade is settled (Market::book).
LEMMA FillKeeps ==
  ASSUME NEW m, Sound(m), NEW o \in m.book, NEW qty \in 1 .. o.qty,
         NEW e, e = [Release(m, {[o EXCEPT !.qty = qty]}) EXCEPT !.book = Rest(m.book, o, qty)]
  PROVE  /\ Sound(e) /\ OnlyQuotes(m, e) /\ Shrunk(m, e)
         /\ e.wallets = Release(m, {[o EXCEPT !.qty = qty]}).wallets
         /\ LessReserved(m, o, qty, e)
<1> DEFINE p == [o EXCEPT !.qty = qty]
           book == Rest(m.book, o, qty)
<1>1. /\ m \in Market /\ m.book \in SUBSET Quote /\ IsFiniteSet(m.book)
      /\ m.wallets \in [Purses -> Wallet] /\ m.reserved_units \in Units /\ m.held \in Units
  BY FieldsAre
<1>2. \A x \in m.book : SamePlace(o, x) => x = o
  BY DEF Sound, Placed
<1>3. /\ book \in SUBSET Quote /\ IsFiniteSet(book) /\ p \in Quote
      /\ \A a : /\ BidCents(m.book, a) = BidCents(book, a) + BidCents({p}, a)
                /\ BidCents(book, a) \in Nat /\ BidCents({p}, a) \in Nat
      /\ \A t, sym : /\ AskUnits(m.book, t, sym) = AskUnits(book, t, sym) + AskUnits({p}, t, sym)
                     /\ AskUnits(book, t, sym) \in Nat /\ AskUnits({p}, t, sym) \in Nat
      /\ \A x \in book : (x \in m.book /\ x # o) \/ x = [o EXCEPT !.qty = @ - qty]
  BY <1>1, <1>2, FilledIs
<1>4. e = [Release(m, {p}) EXCEPT !.book = book]
  OBVIOUS
<1>5. {p} \in SUBSET Quote /\ IsFiniteSet({p})
  BY <1>3, FS_Singleton
<1>6. /\ o \in Quote /\ o.qty \in Nat /\ qty \in Nat /\ qty <= o.qty
  BY <1>1 DEF Quote
<1>7. p.trader = o.trader /\ p.side = o.side /\ p.symbol = o.symbol /\ p.qty = qty
  BY <1>6 DEF Quote
<1> HIDE DEF p, book
<1>8. Released(m, {p}, book, e)
  BY <1>3, <1>4, <1>5, ReleaseIs
<1>9. /\ e \in Market /\ OnlyQuotes(m, e) /\ e.book = book
      /\ e.wallets = Release(m, {p}).wallets
      /\ \A w \in Purses :
              /\ e.wallets[w] = [m.wallets[w] EXCEPT !.reserved = e.wallets[w].reserved]
              /\ e.wallets[w].reserved =
                   IF m.wallets[w].reserved >= BidCents({p}, w)
                   THEN m.wallets[w].reserved - BidCents({p}, w) ELSE 0
      /\ \A t \in Traders, sym \in Commodities :
              e.reserved_units[t][sym] =
                IF m.reserved_units[t][sym] >= AskUnits({p}, t, sym)
                THEN m.reserved_units[t][sym] - AskUnits({p}, t, sym) ELSE 0
  BY <1>8 DEF Released
<1>10. ASSUME NEW n \in Range(Npcs)
       PROVE  /\ e.wallets[AccountOf[n]].reserved = BidCents(e.book, AccountOf[n])
              /\ e.wallets[AccountOf[n]].reserved <= m.wallets[AccountOf[n]].balance
  <2> DEFINE a == AccountOf[n]
             x == BidCents(m.book, a)
             y == BidCents({p}, a)
             z == BidCents(book, a)
             r == m.wallets[a].reserved
             b == m.wallets[a].balance
             q == e.wallets[a].reserved
  <2>1. a \in Purses
    BY PursesAre
  <2>2. r = x /\ r <= b
    BY DEF Sound, Backed
  <2>3. b \in Nat
    BY <1>1, <2>1, WalletIs
  <2>4. x = z + y /\ y \in Nat /\ z \in Nat
    BY <1>3
  <2>5. q = IF r >= y THEN r - y ELSE 0
    BY <1>9, <2>1
  <2> HIDE DEF x, y, z, r, b, q
  <2>6. q = z /\ q <= b
    BY <2>2, <2>3, <2>4, <2>5
  <2>7. z = BidCents(e.book, a)
    BY <1>9 DEF z
  <2> HIDE DEF a
  <2> QED BY <2>6, <2>7 DEF q, b, a
<1>11. ASSUME NEW t \in Traders, NEW sym \in Commodities
       PROVE  /\ e.reserved_units[t][sym] <= m.reserved_units[t][sym]
              /\ t \in Range(Npcs) =>
                   /\ e.reserved_units[t][sym] = AskUnits(e.book, t, sym)
                   /\ e.reserved_units[t][sym] + AskUnits({p}, t, sym) <= m.held[t][sym]
                   /\ e.reserved_units[t][sym] <= m.held[t][sym]
  <2> DEFINE x == AskUnits(m.book, t, sym)
             y == AskUnits({p}, t, sym)
             z == AskUnits(book, t, sym)
             r == m.reserved_units[t][sym]
             b == m.held[t][sym]
             q == e.reserved_units[t][sym]
  <2>2. t \in Range(Npcs) => r = x /\ r <= b
    BY DEF Sound, Backed
  <2>3. b \in Nat /\ r \in Nat
    BY <1>1 DEF Units
  <2>4. x = z + y /\ y \in Nat /\ z \in Nat
    BY <1>3
  <2>5. q = IF r >= y THEN r - y ELSE 0
    BY <1>9
  <2> HIDE DEF x, y, z, r, b, q
  <2>6. q <= r /\ (t \in Range(Npcs) => q = z /\ q + y <= b /\ q <= b)
    BY <2>2, <2>3, <2>4, <2>5
  <2>7. z = AskUnits(e.book, t, sym)
    BY <1>9 DEF z
  <2> QED BY <2>6, <2>7 DEF q, b, r, y
<1>12. ASSUME NEW n \in Range(Npcs) \ DOMAIN m.npcs
       PROVE  e.wallets[AccountOf[n]] = m.wallets[AccountOf[n]]
  <2> DEFINE a == AccountOf[n]
             y == BidCents({p}, a)
             q == e.wallets[a].reserved
             r == m.wallets[a].reserved
  <2>1. a \in Purses
    BY PursesAre
  <2>2. m.wallets[a] = Opened(0)
    BY DEF Sound, Unopened
  <2>3. r = 0
    BY <2>2 DEF Opened
  <2>4. y \in Nat
    BY <1>3
  <2>5. q = IF r >= y THEN r - y ELSE 0
    BY <1>9, <2>1
  <2> HIDE DEF q, r, y
  <2>6. q = 0
    BY <2>3, <2>4, <2>5
  <2>7. e.wallets[a].reserved = 0
    BY <2>6 DEF q
  <2> HIDE DEF a
  <2>8. e.wallets[a] = [m.wallets[a] EXCEPT !.reserved = 0]
    BY <1>9, <2>1, <2>7
  <2>9. e.wallets[a] = Opened(0)
    BY <2>2, <2>8 DEF Opened
  <2> QED BY <2>2, <2>9 DEF a
<1>13. Covered(m, e)
  <2>1. \A n \in Range(Npcs), sym \in Commodities :
          /\ e.reserved_units[n][sym] = AskUnits(e.book, n, sym)
          /\ e.reserved_units[n][sym] <= m.held[n][sym]
    BY <1>11, PursesAre
  <2> QED BY <1>10, <1>12, <2>1 DEF Covered
<1>14. \A x \in e.book : \E y \in m.book :
         /\ SamePlace(x, y) /\ x.symbol = y.symbol /\ x.price = y.price /\ x.qty <= y.qty
         /\ x = y \/ (y = o /\ o \notin e.book)
         /\ y = o => x = [o EXCEPT !.qty = @ - qty]
  <2> SUFFICES ASSUME NEW x \in book
               PROVE  \E y \in m.book :
                        /\ SamePlace(x, y) /\ x.symbol = y.symbol /\ x.price = y.price
                        /\ x.qty <= y.qty
                        /\ x = y \/ (y = o /\ o \notin book)
                        /\ y = o => x = [o EXCEPT !.qty = @ - qty]
    BY <1>9
  <2>1. CASE x \in m.book /\ x # o
    <3>1. x.qty \in Nat
      BY <1>1, <2>1 DEF Quote
    <3>2. x.qty <= x.qty
      BY <3>1
    <3>3. SamePlace(x, x)
      BY DEF SamePlace
    <3> QED BY <2>1, <3>2, <3>3
  <2>2. CASE x = [o EXCEPT !.qty = @ - qty]
    <3>1. /\ x.trader = o.trader /\ x.side = o.side /\ x.level = o.level
          /\ x.symbol = o.symbol /\ x.price = o.price /\ x.qty = o.qty - qty
      BY <1>6, <2>2 DEF Quote
    <3>2. o \notin book
      <4> SUFFICES ASSUME o \in book PROVE FALSE
        OBVIOUS
      <4>1. o = [o EXCEPT !.qty = @ - qty]
        BY <1>3
      <4>2. o.qty = o.qty - qty
        BY <2>2, <3>1, <4>1
      <4>3. qty # 0
        OBVIOUS
      <4> QED BY <1>6, <4>2, <4>3
    <3> QED BY <1>6, <2>2, <3>1, <3>2 DEF SamePlace
  <2> QED BY <1>3, <2>1, <2>2
<1>15. Placed(e)
  <2> SUFFICES ASSUME NEW x \in e.book
               PROVE  /\ x.trader \in DOMAIN e.npcs /\ e.npcs[x.trader].active
                      /\ x.symbol = e.npcs[x.trader].symbol
                      /\ e.wallets[AccountOf[x.trader]].status = "Active"
                      /\ \A q \in e.book : SamePlace(x, q) => q = x
                      /\ ~Crosses(e, x)
    BY DEF Placed
  <2>1. PICK y \in m.book :
          /\ SamePlace(x, y) /\ x.symbol = y.symbol /\ x.price = y.price
          /\ x = y \/ (y = o /\ o \notin e.book)
          /\ y = o => x = [o EXCEPT !.qty = @ - qty]
    BY <1>14
  <2>2. y.trader \in Range(Npcs) /\ AccountOf[y.trader] \in Purses
    BY <1>1, PursesAre DEF Quote
  <2>3. /\ y.trader \in DOMAIN m.npcs /\ m.npcs[y.trader].active
        /\ y.symbol = m.npcs[y.trader].symbol
        /\ m.wallets[AccountOf[y.trader]].status = "Active"
        /\ \A q \in m.book : SamePlace(y, q) => q = y
        /\ ~Crosses(m, y)
    BY DEF Sound, Placed
  <2>4. ASSUME NEW q \in e.book, SamePlace(x, q)
        PROVE  q = x
    <3>1. PICK z \in m.book :
            /\ SamePlace(q, z)
            /\ q = z \/ (z = o /\ o \notin e.book)
            /\ z = o => q = [o EXCEPT !.qty = @ - qty]
      BY <1>14
    <3>4. SamePlace(x, y) /\ SamePlace(q, z)
      BY <2>1, <3>1
    <3>2. SamePlace(y, z)
      BY <2>4, <3>4 DEF SamePlace
    <3>3. z = y
      BY <2>3, <3>2
    <3> QED BY <2>1, <3>1, <3>3
  <2>5. ~Crosses(e, x)
    <3> SUFFICES ASSUME NEW q \in e.book, q.symbol = x.symbol, q.side # x.side,
                        IF x.side = "Buy" THEN q.price <= x.price ELSE q.price >= x.price
                 PROVE  FALSE
      BY DEF Crosses
    <3>1. PICK z \in m.book : SamePlace(q, z) /\ q.symbol = z.symbol /\ q.price = z.price
      BY <1>14
    <3>4. SamePlace(x, y) /\ SamePlace(q, z) /\ x.symbol = y.symbol /\ x.price = y.price
      BY <2>1, <3>1
    <3>5. x.side = y.side /\ q.side = z.side
      BY <3>4 DEF SamePlace
    <3>2. /\ z.symbol = y.symbol /\ z.side # y.side
          /\ IF y.side = "Buy" THEN z.price <= y.price ELSE z.price >= y.price
      BY <3>1, <3>4, <3>5
    <3>3. Crosses(m, y)
      BY <3>2 DEF Crosses
    <3> QED BY <2>3, <3>3
  <2>6. x.trader = y.trader /\ x.symbol = y.symbol
    BY <2>1 DEF SamePlace
  <2>7. /\ e.npcs = m.npcs
        /\ e.wallets[AccountOf[y.trader]].status = m.wallets[AccountOf[y.trader]].status
    BY <1>9, <2>2 DEF OnlyQuotes
  <2> QED BY <2>3, <2>4, <2>5, <2>6, <2>7
<1>16. Sound(e)
  BY <1>3, <1>9, <1>13, <1>15, QuotesKeep
<1>17. Shrunk(m, e)
  BY <1>14 DEF Shrunk
<1>18. ASSUME NEW t \in Traders, NEW sym \in Commodities,
              o.side = "Sell" /\ t = o.trader /\ sym = o.symbol
       PROVE  e.reserved_units[t][sym] + qty <= m.held[t][sym]
  <2>1. AskUnits({p}, t, sym) = qty
    BY <1>3, <1>7, <1>18, AskUnitsOne
  <2>2. t \in Range(Npcs)
    BY <1>6, <1>18 DEF Quote
  <2> QED BY <1>11, <2>1, <2>2
<1> QED BY <1>9, <1>11, <1>16, <1>17, <1>18 DEF p, LessReserved

\* Units passed from a trader who has them free of its quotes to another.
Passed(held, buyer, seller, sym, qty) ==
  [held EXCEPT ![buyer][sym] = @ + qty, ![seller][sym] = @ - qty]

\* Units that pass from a seller who has them free to a buyer are still all
\* there.
LEMMA PassKeeps ==
  ASSUME NEW m, Sound(m), NEW buyer \in Traders, NEW seller \in Traders, buyer # seller,
         NEW sym \in Commodities, NEW qty \in Nat,
         m.reserved_units[seller][sym] + qty <= m.held[seller][sym],
         NEW e, e = [m EXCEPT !.held = Passed(@, buyer, seller, sym, qty)]
  PROVE  /\ Sound(e) /\ e.wallets = m.wallets /\ SameBook(m, e) /\ SameShop(m, e)
         /\ SameJobs(m, e) /\ SameTimes(m, e) /\ e.npcs = m.npcs
<1> DEFINE u == [m.held[buyer] EXCEPT ![sym] = @ + qty]
           v == [m.held[seller] EXCEPT ![sym] = @ - qty]
           h == [m.held EXCEPT ![buyer] = u]
           k == [h EXCEPT ![seller] = v]
<1>0. m \in Market /\ m.held \in Units /\ m.reserved_units \in Units
  BY FieldsAre
<1>1. /\ m.held[buyer] \in [Commodities -> Nat] /\ m.held[seller] \in [Commodities -> Nat]
      /\ m.reserved_units[seller][sym] \in Nat
  BY <1>0 DEF Units
<1>2. e = [m EXCEPT !.held = k]
  <2>1. Passed(m.held, buyer, seller, sym, qty) = k
    BY <1>0 DEF Units, Passed
  <2> HIDE DEF k
  <2> QED BY <2>1
<1>3. u \in [Commodities -> Nat] /\ u[sym] = m.held[buyer][sym] + qty
      /\ \A s \in Commodities : s # sym => u[s] = m.held[buyer][s]
  BY <1>1
<1>4. v \in [Commodities -> Nat] /\ v[sym] = m.held[seller][sym] - qty
      /\ \A s \in Commodities : s # sym => v[s] = m.held[seller][s]
  <2>1. m.held[seller][sym] - qty \in Nat
    BY <1>1
  <2> QED BY <1>1, <2>1
<1> HIDE DEF u, v
<1>5. h \in Units /\ h[seller] = m.held[seller] /\ h[buyer] = u
      /\ \A t \in Traders : t # buyer => h[t] = m.held[t]
  BY <1>0, <1>3 DEF Units
<1> HIDE DEF h
<1>6. k \in Units /\ k[seller] = v /\ k[buyer] = u
      /\ \A t \in Traders : t \notin {buyer, seller} => k[t] = m.held[t]
  BY <1>4, <1>5 DEF Units
<1>7. ASSUME NEW s \in Commodities
      PROVE  Held(k, s) = Held(m.held, s)
  <2>1. /\ Held(h, s) = Held(m.held, s) - m.held[buyer][s] + u[s] /\ Held(m.held, s) \in Nat
        /\ Held(h, s) \in Nat
    BY <1>0, <1>3, HeldChanges DEF h
  <2>2. Held(k, s) = Held(h, s) - h[seller][s] + v[s] /\ Held(k, s) \in Nat
    BY <1>4, <1>5, HeldChanges
  <2>3. /\ m.held[buyer][s] \in Nat /\ u[s] \in Nat /\ m.held[seller][s] \in Nat /\ v[s] \in Nat
    BY <1>1, <1>3, <1>4
  <2>4. CASE s = sym
    BY <1>3, <1>4, <1>5, <2>1, <2>2, <2>3, <2>4
  <2>5. CASE s # sym
    BY <1>3, <1>4, <1>5, <2>1, <2>2, <2>3, <2>5
  <2> QED BY <2>4, <2>5
<1> HIDE DEF k
<1>8. /\ e \in Market /\ e.held = k /\ e.wallets = m.wallets /\ SameBook(m, e)
      /\ SameShop(m, e) /\ SameJobs(m, e) /\ SameTimes(m, e) /\ e.npcs = m.npcs
      /\ e.issued = m.issued /\ e.consumed = m.consumed
  BY <1>0, <1>2, <1>6 DEF Market, SameBook, SameShop, SameJobs, SameTimes
<1>9. Formed(e)
  BY <1>8 DEF Sound, Formed, SameBook, SameJobs
<1>10. Accounted(e)
  <2>1. ASSUME NEW s \in Commodities
        PROVE  HeldUnits(e, s) = HeldUnits(m, s)
    <3>1. HeldUnits(e, s) = Held(e.held, s) /\ HeldUnits(m, s) = Held(m.held, s)
      BY DEF HeldUnits, Held
    <3> QED BY <1>7, <1>8, <3>1
  <2>2. Accounted(m)
    BY DEF Sound
  <2> QED BY <1>8, <2>1, <2>2 DEF Accounted
<1>11. Unopened(e)
  BY <1>8 DEF Sound, Unopened
<1>12. Backed(e)
  <2> SUFFICES ASSUME NEW n \in Range(Npcs), NEW s \in Commodities
               PROVE  m.reserved_units[n][s] <= k[n][s]
    BY <1>8 DEF Sound, Backed, SameBook
  <2>1. m.reserved_units[n][s] <= m.held[n][s] /\ n \in Traders
    BY PursesAre DEF Sound, Backed
  <2>2. m.reserved_units[n][s] \in Nat /\ m.held[n][s] \in Nat
    BY <1>0, <2>1 DEF Units
  <2>3. CASE n = buyer
    BY <1>3, <1>6, <2>1, <2>2, <2>3
  <2>4. CASE n = seller /\ s = sym
    <3>1. k[n][s] = m.held[seller][sym] - qty
      BY <1>4, <1>6, <2>4
    <3> QED BY <1>1, <2>2, <2>4, <3>1
  <2>5. CASE n = seller /\ s # sym
    BY <1>4, <1>6, <2>1, <2>5
  <2>6. CASE n \notin {buyer, seller}
    BY <1>6, <2>1, <2>6
  <2> QED BY <2>3, <2>4, <2>5, <2>6
<1>13. Placed(e)
  BY <1>8 DEF Sound, Placed, SameBook, Crosses
<1> QED BY <1>8, <1>9, <1>10, <1>11, <1>12, <1>13 DEF Sound

-----------------------------------------------------------------------------
(* What is defined from one number to the next *)

Recursive(f, n, v0, step) == f = [i \in 0 .. n |-> IF i = 0 THEN v0 ELSE step[i][f[i - 1]]]

StaysIn(f, n, V) == \A i \in 0 .. n : f[i] \in V[i]

StepsIn(step, n, V) == \A i \in 1 .. n : \A v \in V[i - 1] : step[i][v] \in V[i]

\* A recursion each of whose steps stays in the set of that step has a solution.
LEMMA RecursionExists ==
  ASSUME NEW n \in Nat, NEW V, NEW v0 \in V[0], NEW step, StepsIn(step, n, V)
  PROVE  \E f : Recursive(f, n, v0, step) /\ StaysIn(f, n, V)
<1> DEFINE Solves(f, k) == /\ f = [i \in 0 .. k |-> IF i = 0 THEN v0 ELSE step[i][f[i - 1]]]
                           /\ \A i \in 0 .. k : f[i] \in V[i]
           T == {k \in Nat : k <= n => \E f : Solves(f, k)}
<1>1. 0 \in T
  <2> DEFINE f == [i \in 0 .. 0 |-> v0]
  <2>1. f = [i \in 0 .. 0 |-> IF i = 0 THEN v0 ELSE step[i][f[i - 1]]]
    OBVIOUS
  <2>2. \A i \in 0 .. 0 : f[i] \in V[i]
    OBVIOUS
  <2>3. Solves(f, 0)
    BY <2>1, <2>2
  <2> QED BY <2>3
<1>2. ASSUME NEW k \in T
      PROVE  k + 1 \in T
  <2> SUFFICES ASSUME k + 1 <= n PROVE \E f : Solves(f, k + 1)
    OBVIOUS
  <2>1. k \in Nat /\ k <= n /\ k + 1 \in 1 .. n
    OBVIOUS
  <2>2. PICK f : Solves(f, k)
    BY <2>1
  <2> DEFINE g == [i \in 0 .. k + 1 |-> IF i <= k THEN f[i] ELSE step[k + 1][f[k]]]
  <2>3. \A i \in 0 .. k : g[i] = f[i]
    BY <2>1
  <2>4. g[k + 1] = step[k + 1][f[k]]
    BY <2>1
  <2>5. \A i \in 0 .. k : f[i] = (IF i = 0 THEN v0 ELSE step[i][f[i - 1]]) /\ f[i] \in V[i]
    <3>1. f = [i \in 0 .. k |-> IF i = 0 THEN v0 ELSE step[i][f[i - 1]]]
      BY <2>2
    <3>2. \A i \in 0 .. k : f[i] \in V[i]
      BY <2>2
    <3> HIDE DEF Solves
    <3> QED BY <3>1, <3>2
  <2> HIDE DEF T, Solves
  <2>6. ASSUME NEW i \in 0 .. k + 1
        PROVE  g[i] = (IF i = 0 THEN v0 ELSE step[i][g[i - 1]]) /\ g[i] \in V[i]
    <3>1. CASE i = 0
      <4>1. i \in 0 .. k
        BY <2>1, <3>1
      <4> HIDE DEF g
      <4> QED BY <2>3, <2>5, <3>1, <4>1
    <3>2. CASE i \in 1 .. k
      <4>1. i \in 0 .. k /\ i - 1 \in 0 .. k /\ i # 0
        BY <2>1, <3>2
      <4> HIDE DEF g
      <4> QED BY <2>3, <2>5, <4>1
    <3>3. CASE i = k + 1
      <4>1. i # 0 /\ i - 1 = k /\ k \in 0 .. k
        BY <2>1, <3>3
      <4>2. g[i - 1] = f[k] /\ f[k] \in V[k]
        BY <2>3, <2>5, <4>1
      <4>3. \A v \in V[k] : step[k + 1][v] \in V[k + 1]
        <5>1. (k + 1) - 1 = k
          BY <2>1
        <5> QED BY <2>1, <5>1 DEF StepsIn
      <4> HIDE DEF g
      <4> QED BY <2>4, <3>3, <4>1, <4>2, <4>3
    <3> QED BY <2>1, <3>1, <3>2, <3>3
  <2>7. g = [i \in 0 .. k + 1 |-> IF i = 0 THEN v0 ELSE step[i][g[i - 1]]]
    <3>1. g = [i \in 0 .. k + 1 |-> g[i]]
      OBVIOUS
    <3> HIDE DEF g
    <3> QED BY <2>6, <3>1
  <2> HIDE DEF g
  <2>8. Solves(g, k + 1)
    BY <2>6, <2>7 DEF Solves
  <2> QED BY <2>8
<1>3. T \in SUBSET Nat
  OBVIOUS
<1> HIDE DEF T
<1>4. T = Nat
  BY <1>1, <1>2, <1>3, SetInduction
<1>5. n \in T
  BY <1>4
<1>6. PICK f : Solves(f, n)
  BY <1>5 DEF T
<1> QED BY <1>6 DEF Recursive, StaysIn

\* A sequence of values each of which follows from the one before stays in its sets.
LEMMA RecursionStays ==
  ASSUME NEW n \in Nat, NEW V, NEW f, f[0] \in V[0],
         \A i \in 1 .. n : f[i - 1] \in V[i - 1] => f[i] \in V[i]
  PROVE  StaysIn(f, n, V)
<1> DEFINE T == {k \in Nat : k <= n => f[k] \in V[k]}
<1>1. 0 \in T
  OBVIOUS
<1>2. ASSUME NEW k \in T
      PROVE  k + 1 \in T
  <2> SUFFICES ASSUME k + 1 <= n PROVE f[k + 1] \in V[k + 1]
    OBVIOUS
  <2>1. k \in Nat /\ k <= n /\ k + 1 \in 1 .. n /\ (k + 1) - 1 = k
    OBVIOUS
  <2>2. f[k] \in V[k]
    BY <2>1
  <2> QED BY <2>1, <2>2
<1>3. T \in SUBSET Nat
  OBVIOUS
<1> HIDE DEF T
<1>4. T = Nat
  BY <1>1, <1>2, <1>3, SetInduction
<1> QED BY <1>4 DEF T, StaysIn

-----------------------------------------------------------------------------
(* What pulls on the world, and what is quoted *)

\* What a multiplier is clamped to.
LEMMA ClampIs == ASSUME NEW bps \in Int PROVE Clamp(bps) \in Nat
<1> DEFINE x == Min({bps, MAX_YIELD_BPS})
<1>1. x = IF bps <= 40000 THEN bps ELSE 40000
  BY MinOfTwo DEF MAX_YIELD_BPS
<1>2. Clamp(bps) = Max({MIN_YIELD_BPS, x})
  BY DEF Clamp
<1>3. x \in Int
  BY <1>1
<1> HIDE DEF x
<1>4. Clamp(bps) = IF 2500 >= x THEN 2500 ELSE x
  BY <1>2, <1>3, MaxOfTwo DEF MIN_YIELD_BPS
<1> QED BY <1>3, <1>4

\* What is scaled is a count, and none only of none.
LEMMA ScaledQtyIs ==
  ASSUME NEW qty \in Nat, NEW bps \in Int
  PROVE  ScaledQty(qty, bps) \in Nat /\ (qty # 0 => ScaledQty(qty, bps) # 0)
<1> DEFINE x == (qty * Clamp(bps)) \div BPS
<1>1. Clamp(bps) \in Nat
  BY ClampIs
<1>2. qty * Clamp(bps) \in Nat
  BY <1>1, NatTimes
<1>3. x \in Int
  <2> DEFINE y == qty * Clamp(bps)
  <2>1. y \in Nat
    BY <1>2
  <2> HIDE DEF y
  <2>2. y \div 10000 \in Int
    BY <2>1
  <2> QED BY <2>2 DEF y, BPS
<1>4. ScaledQty(qty, bps) = IF qty = 0 THEN 0 ELSE Max({x, 1})
  BY DEF ScaledQty
<1> HIDE DEF x
<1>5. Max({x, 1}) = IF x >= 1 THEN x ELSE 1
  BY <1>3, MaxOfTwo
<1> QED BY <1>3, <1>4, <1>5

\* What one modifier pulls.
LEMMA PullIs == ASSUME NEW mod \in Modifier, NEW now \in Nat PROVE PullBps(mod, now) \in Int
<1>1. mod.delta \in Int /\ mod.from \in Nat /\ mod.until \in Nat /\ mod.from < mod.until
  BY DEF Modifier
<1> DEFINE left(delta) == (delta * (mod.until - now)) \div (mod.until - mod.from)
<1>2. ASSUME NEW delta \in Int
      PROVE  left(delta) \in Int
  <2> DEFINE y == delta * (mod.until - now)
             z == mod.until - mod.from
  <2>1. y \in Int /\ z \in Nat /\ z > 0
    BY <1>1
  <2> HIDE DEF y, z
  <2>2. y \div z \in Int
    BY <2>1
  <2> QED BY <2>2 DEF y, z
<1>3. -mod.delta \in Int
  BY <1>1
<1>4. PullBps(mod, now) = IF now < mod.from \/ ~IsLive(mod, now) THEN 0
                          ELSE IF mod.delta >= 0 THEN left(mod.delta) ELSE -left(-mod.delta)
  BY DEF PullBps
<1> HIDE DEF left
<1>5. left(mod.delta) \in Int /\ left(-mod.delta) \in Int
  BY <1>1, <1>2, <1>3
<1>6. -left(-mod.delta) \in Int
  BY <1>5
<1> QED BY <1>4, <1>5, <1>6

\* Every multiplier of the world is a number.
LEMMA MultiplierIs ==
  ASSUME NEW m, m.world \in Seq(Modifier), m.now \in Nat, NEW effect, NEW sym
  PROVE  MultiplierBps(m, effect, sym) \in Nat
<1> DEFINE mine == {i \in DOMAIN m.world : m.world[i].effect = effect
                                           /\ sym \in m.world[i].symbols}
           f == [i \in mine |-> PullBps(m.world[i], m.now)]
<1>1. DOMAIN m.world = 1 .. Len(m.world) /\ Len(m.world) \in Nat
      /\ \A i \in 1 .. Len(m.world) : m.world[i] \in Modifier
  OBVIOUS
<1>2. IsFiniteSet(mine)
  <2> DEFINE n == Len(m.world)
  <2>1. n \in Int /\ mine \subseteq 1 .. n
    BY <1>1
  <2> HIDE DEF n, mine
  <2>2. IsFiniteSet(1 .. n)
    BY <2>1, FS_Interval
  <2> QED BY <2>1, <2>2, FS_Subset
<1>3. \A i \in mine : f[i] \in Int
  BY <1>1, PullIs
<1>4. MultiplierBps(m, effect, sym) = Clamp(BPS + SumFunctionOnSet(f, mine))
  BY DEF MultiplierBps, SumFunction, SumFunctionOnSet
<1> HIDE DEF f, mine
<1>5. SumFunctionOnSet(f, mine) \in Int
  BY <1>2, <1>3, SumByChosen
<1>6. BPS + SumFunctionOnSet(f, mine) \in Int
  BY <1>5 DEF BPS
<1> QED BY <1>4, <1>6, ClampIs

\* The price of a quote is a price.
LEMMA LevelPriceIs ==
  ASSUME NEW policy \in Policy, NEW side, NEW reference \in Nat, NEW k \in Nat
  PROVE  LevelPrice(policy, side, reference, k) \in Nat \ {0}
<1> DEFINE y == policy.half_spread + policy.level_step * k
           x == (reference * y) \div BPS
           away == Max({x, 1})
<1>1. policy.half_spread \in Nat /\ policy.level_step \in Nat
  BY DEF Policy
<1>2. y \in Nat
  <2>1. policy.level_step * k \in Nat
    BY <1>1, NatTimes
  <2> QED BY <1>1, <2>1
<1>3. LevelPrice(policy, side, reference, k) =
        IF side = "Buy" THEN Max({reference - away, 1}) ELSE reference + away
  BY DEF LevelPrice
<1> HIDE DEF y
<1>4. x \in Int
  <2>1. reference * y \in Nat
    BY <1>2, NatTimes
  <2> DEFINE z == reference * y
  <2> HIDE DEF z
  <2>2. z \in Nat
    BY <2>1 DEF z
  <2>3. z \div 10000 \in Int
    BY <2>2
  <2> QED BY <2>3 DEF z, BPS
<1> HIDE DEF x
<1>5. away \in Nat \ {0}
  <2>1. away = IF x >= 1 THEN x ELSE 1
    BY <1>4, MaxOfTwo
  <2> HIDE DEF away
  <2> QED BY <1>4, <2>1
<1> HIDE DEF away
<1>6. Max({reference - away, 1}) \in Nat \ {0}
  <2>1. reference - away \in Int
    BY <1>5
  <2>2. Max({reference - away, 1}) = IF reference - away >= 1 THEN reference - away ELSE 1
    BY <2>1, MaxOfTwo
  <2> QED BY <1>5, <2>2
<1> QED BY <1>3, <1>5, <1>6

\* What is still in force.
LEMMA LiveIs ==
  ASSUME NEW world \in Seq(Modifier), NEW now
  PROVE  Live(world, now) \in Seq(Modifier)
<1> DEFINE n == Len(world)
           Body(v, i) == IF IsLive(world[i], now) THEN Append(v, world[i]) ELSE v
           V == [i \in 0 .. n |-> Seq(Modifier)]
           step == [i \in 1 .. n |-> [v \in Seq(Modifier) |-> Body(v, i)]]
           f == CHOOSE f : f = [i \in 0 .. n |-> IF i = 0 THEN <<>> ELSE Body(f[i - 1], i)]
<1>1. Live(world, now) = f[n]
  BY DEF Live
<1>2. n \in Nat /\ \A i \in 1 .. n : world[i] \in Modifier
  OBVIOUS
<1>3. ASSUME NEW i \in 1 .. n, NEW v \in Seq(Modifier)
      PROVE  step[i][v] = Body(v, i) /\ Body(v, i) \in Seq(Modifier)
  BY <1>2
<1> HIDE DEF n, Body
<1>4. \A i \in 0 .. n : V[i] = Seq(Modifier)
  OBVIOUS
<1>5. 0 \in 0 .. n /\ \A i \in 1 .. n : i - 1 \in 0 .. n /\ i \in 0 .. n /\ i # 0
  BY <1>2
<1>6. <<>> \in Seq(Modifier)
  OBVIOUS
<1> HIDE DEF V, step
<1>7. PICK g : Recursive(g, n, <<>>, step) /\ StaysIn(g, n, V)
  <2>1. StepsIn(step, n, V)
    BY <1>3, <1>4, <1>5 DEF StepsIn
  <2>2. <<>> \in V[0]
    BY <1>4, <1>5, <1>6
  <2> QED BY <1>2, <2>1, <2>2, RecursionExists
<1>8. g = [i \in 0 .. n |-> IF i = 0 THEN <<>> ELSE Body(g[i - 1], i)]
  <2>1. \A i \in 1 .. n : step[i][g[i - 1]] = Body(g[i - 1], i)
    BY <1>3, <1>4, <1>5, <1>7 DEF StaysIn
  <2>2. \A i \in 0 .. n : i # 0 => i \in 1 .. n
    BY <1>2
  <2>3. \A i \in 0 .. n : (IF i = 0 THEN <<>> ELSE step[i][g[i - 1]])
                            = (IF i = 0 THEN <<>> ELSE Body(g[i - 1], i))
    BY <2>1, <2>2
  <2> QED BY <1>7, <2>3 DEF Recursive
<1>9. f = [i \in 0 .. n |-> IF i = 0 THEN <<>> ELSE Body(f[i - 1], i)]
  BY <1>8
<1> HIDE DEF f
<1>10. /\ f[0] = <<>> /\ \A i \in 1 .. n : f[i] = Body(f[i - 1], i)
  BY <1>2, <1>5, <1>9
<1>11. f[0] \in V[0] /\ \A i \in 1 .. n : f[i - 1] \in V[i - 1] => f[i] \in V[i]
  <2>1. f[0] \in V[0]
    BY <1>4, <1>5, <1>6, <1>10
  <2>2. ASSUME NEW i \in 1 .. n, f[i - 1] \in V[i - 1]
        PROVE  f[i] \in V[i]
    <3>1. V[i - 1] = Seq(Modifier) /\ V[i] = Seq(Modifier)
      BY <1>4, <1>5
    <3> QED BY <1>3, <1>10, <2>2, <3>1
  <2> QED BY <2>1, <2>2
<1>12. StaysIn(f, n, V)
  BY <1>2, <1>11, RecursionStays
<1>13. n \in 0 .. n
  BY <1>2
<1> QED BY <1>1, <1>4, <1>12, <1>13 DEF StaysIn

\* What is left of the world's modifiers is a sequence of them.
LEMMA ForgetIs ==
  ASSUME NEW world \in Seq(Modifier), NEW now
  PROVE  Forget(world, now) \in Seq(Modifier)
<1> DEFINE live == Live(world, now)
           first == Max({1, Len(live) - MAX_MODIFIERS + 1})
<1>1. live \in Seq(Modifier) /\ Len(live) \in Nat
  BY LiveIs
<1>2. MAX_MODIFIERS \in Nat
  BY GoodsAssumption
<1>3. Forget(world, now) = SubSeq(live, first, Len(live))
  BY DEF Forget
<1> HIDE DEF live
<1>4. first \in Nat \ {0}
  <2>1. Len(live) - MAX_MODIFIERS + 1 \in Int
    BY <1>1, <1>2
  <2>2. first = IF 1 >= Len(live) - MAX_MODIFIERS + 1 THEN 1
                ELSE Len(live) - MAX_MODIFIERS + 1
    BY <2>1, MaxOfTwo
  <2> HIDE DEF first
  <2> QED BY <2>1, <2>2
<1> HIDE DEF first
<1> QED BY <1>1, <1>3, <1>4

-----------------------------------------------------------------------------
(* Purchases and jobs *)

\* Lines of one good.
LEMMA LotIs ==
  ASSUME NEW sym \in Commodities, NEW qty \in Nat
  PROVE  /\ Lot(sym, qty) \in PartialFn(Commodities, Nat) /\ DOMAIN Lot(sym, qty) = {sym}
         /\ Lot(sym, qty)[sym] = qty
<1>1. DOMAIN Lot(sym, qty) = {sym} /\ Lot(sym, qty)[sym] = qty
      /\ Lot(sym, qty) \in [{sym} -> Nat]
  BY DEF Lot
<1> QED BY <1>1, PartialIs

\* Nobody's holding but t's.
OthersHold(m, e, t) == \A u \in Traders : u # t => e.held[u] = m.held[u]

\* No account that is yet to be opened is a player's, or one of an NPC there is.
LEMMA OpenAre ==
  ASSUME NEW m, Sound(m), NEW t \in Players \cup DOMAIN m.npcs
  PROVE  /\ t \in Traders /\ AccountOf[t] \in Accounts /\ AccountOf[t] \in Purses
         /\ \A n \in Range(Npcs) \ DOMAIN m.npcs : AccountOf[n] # AccountOf[t]
<1>1. DOMAIN m.npcs \subseteq Range(Npcs)
  BY FieldsAre, PartialIs
<1>2. t \in Traders
  BY <1>1, PursesAre
<1>3. \A n \in Range(Npcs) \ DOMAIN m.npcs : n # t
  BY GoodsAssumption
<1> QED BY <1>2, <1>3, PursesAre

\* A purchase the market accepts keeps it sound and adds to the buyer only
\* (Market::purchase).
LEMMA PurchaseKeeps ==
  ASSUME NEW m, Sound(m), NEW t \in Players \cup DOMAIN m.npcs, NEW sym, NEW qty \in Nat,
         CanPurchase(m, t, sym, qty), NEW e, e = Purchased(m, t, sym, qty)
  PROVE  /\ Sound(e) /\ e.npcs = m.npcs /\ e.recipes = m.recipes
         /\ SameBook(m, e) /\ SameJobs(m, e) /\ SameTimes(m, e) /\ OthersHold(m, e, t)
<1> DEFINE item == m.catalog[sym]
           a == AccountOf[t]
           cents == item.price * qty
           i == Issue(m, t, Lot(sym, qty))
           p == [i EXCEPT !.wallets = Pay(@, Movement(a, sym, cents))]
           left == IF item.available = Unlimited THEN Unlimited
                   ELSE Max({item.available - qty, 0})
           count == item.issued + qty
           line == [item EXCEPT !.available = left, !.issued = count]
           C == [m.catalog EXCEPT ![sym] = line]
<1>1. /\ m \in Market /\ m.catalog \in PartialFn(Commodities, Item)
      /\ m.wallets \in [Purses -> Wallet]
  BY FieldsAre
<1>2. /\ sym \in DOMAIN m.catalog /\ CanIssue(m, sym, qty)
      /\ item.available = Unlimited \/ qty <= item.available
      /\ CanPost(m.wallets, Movement(a, sym, cents))
  BY DEF CanPurchase
<1>3. /\ sym \in Commodities /\ item \in Item
      /\ m.catalog \in [DOMAIN m.catalog -> Item] /\ DOMAIN m.catalog \subseteq Commodities
  BY <1>1, <1>2, PartialIs
<1>4. /\ item.price \in Nat /\ item.issued \in Nat /\ item.available \in Nat \cup {Unlimited}
  BY <1>3 DEF Item
<1>5. cents \in Nat
  BY <1>4, NatTimes
<1>6. /\ Sound(i) /\ OnlyUnits(m, i, t)
  <2> DEFINE lot == Lot(sym, qty)
  <2>1. lot \in PartialFn(Commodities, Nat) /\ DOMAIN lot = {sym} /\ lot[sym] = qty
    BY <1>3, LotIs
  <2>2. i = Issue(m, t, lot) /\ t \in Traders
    BY OpenAre
  <2> HIDE DEF lot, i
  <2>3. \A s \in DOMAIN lot : CanIssue(m, s, lot[s])
    BY <1>2, <2>1
  <2> QED BY <2>1, <2>2, <2>3, IssueKeeps
<1>7. e = [p EXCEPT !.catalog = C]
  <2> DEFINE ws == Pay(i.wallets, Movement(a, sym, cents))
  <2>1. e = [i EXCEPT !.wallets = ws, !.catalog[sym] = line]
    BY DEF Purchased
  <2>2. i.catalog = m.catalog /\ i \in Market
    BY <1>6, FieldsAre DEF OnlyUnits, SameShop
  <2>4. p = [i EXCEPT !.wallets = ws]
    OBVIOUS
  <2> HIDE DEF i, ws, line, p
  <2>5. [i EXCEPT !.wallets = ws, !.catalog[sym] = line] = [p EXCEPT !.catalog = C]
    BY <2>2, <2>4 DEF Market
  <2> QED BY <2>1, <2>5
<1> HIDE DEF i
<1>8. /\ Sound(p) /\ SameUnits(i, p) /\ SameBook(i, p) /\ SameShop(i, p) /\ SameJobs(i, p)
      /\ SameTimes(i, p) /\ p.npcs = i.npcs
  <2>1. a \in Purses /\ sym \in Purses /\ a # sym
    BY <1>3, OpenAre, PursesAre
  <2> HIDE DEF cents, a
  <2>2. Payable(m.wallets, a, sym, cents)
    BY <1>1, <1>2, <1>5, <2>1, CanPostMeans
  <2>3. Payable(i.wallets, a, sym, cents) /\ i.npcs = m.npcs
    BY <1>6, <2>2 DEF OnlyUnits
  <2>4. \A n \in Range(Npcs) \ DOMAIN i.npcs : AccountOf[n] \notin {a, sym}
    BY <1>3, <2>3, OpenAre, PursesAre DEF a
  <2> QED BY <1>5, <1>6, <2>1, <2>3, <2>4, PayKeeps
<1>9. C \in PartialFn(Commodities, Item)
  <2>1. left \in Nat \cup {Unlimited}
    <3>1. CASE item.available = Unlimited
      BY <3>1
    <3>2. CASE item.available # Unlimited
      <4>1. item.available \in Nat
        BY <1>4, <3>2
      <4>2. left = Max({item.available - qty, 0}) /\ item.available - qty \in Int
        BY <3>2, <4>1
      <4>3. left = IF item.available - qty >= 0 THEN item.available - qty ELSE 0
        BY <4>2, MaxOfTwo
      <4> HIDE DEF left
      <4> QED BY <4>1, <4>3
    <3> QED BY <3>1, <3>2
  <2> HIDE DEF left
  <2>2. count \in Nat
    BY <1>4
  <2> HIDE DEF item, count
  <2>4. line \in Item
    BY <1>3, <2>1, <2>2 DEF Item
  <2> HIDE DEF line
  <2>3. C \in [DOMAIN m.catalog -> Item]
    BY <1>3, <2>4
  <2> QED BY <1>3, <2>3, PartialIs
<1> HIDE DEF C
<1>10. /\ e \in Market /\ e.wallets = p.wallets /\ SameUnits(p, e) /\ SameBook(p, e)
       /\ SameJobs(p, e) /\ SameTimes(p, e) /\ e.npcs = p.npcs /\ e.recipes = p.recipes
  <2>1. p \in Market
    BY <1>8, FieldsAre
  <2> HIDE DEF p
  <2> QED BY <1>7, <1>9, <2>1 DEF Market, SameUnits, SameBook, SameJobs, SameTimes
<1> HIDE DEF p
<1>11. Formed(e)
  BY <1>8, <1>10 DEF Sound, Formed, SameBook, SameJobs
<1>12. Sound(e)
  BY <1>8, <1>10, <1>11, AsideKeeps
<1>13. /\ e.npcs = m.npcs /\ e.recipes = m.recipes
       /\ SameBook(m, e) /\ SameJobs(m, e) /\ SameTimes(m, e)
  BY <1>6, <1>8, <1>10 DEF OnlyUnits, SameBook, SameShop, SameJobs, SameTimes
<1>14. OthersHold(m, e, t)
  BY <1>6, <1>8, <1>10 DEF OnlyUnits, SameUnits, OthersHold
<1> QED BY <1>12, <1>13, <1>14

\* Table g is f with a line rewritten or added.
Rewritten(g, f, key, value) ==
  /\ DOMAIN g = DOMAIN f \cup {key} /\ g[key] = value
  /\ \A k \in DOMAIN f : k # key => g[k] = f[k]

\* A table with one line written is a table, the same elsewhere.
LEMMA WithIs ==
  ASSUME NEW S, NEW T, NEW f \in PartialFn(S, T), NEW key \in S, NEW value \in T,
         NEW h, h = With(f, key, value)
  PROVE  h \in PartialFn(S, T) /\ Rewritten(h, f, key, value)
<1>1. DOMAIN f \subseteq S /\ f \in [DOMAIN f -> T]
  BY PartialIs
<1> DEFINE g == With(f, key, value)
<1>2. /\ DOMAIN g = DOMAIN f \cup {key} /\ g[key] = value
      /\ \A k \in DOMAIN f : k # key => g[k] = f[k]
      /\ g = [k \in DOMAIN f \cup {key} |-> g[k]]
  BY DEF With
<1> HIDE DEF g
<1>3. \A k \in DOMAIN f \cup {key} : g[k] \in T
  BY <1>1, <1>2
<1>4. DOMAIN g \subseteq S /\ g \in [DOMAIN g -> T]
  BY <1>1, <1>2, <1>3
<1>5. g \in PartialFn(S, T)
  BY <1>4, PartialIs
<1> QED BY <1>2, <1>5 DEF g, Rewritten

\* Lines of a table kept.
LEMMA RestrictIs ==
  ASSUME NEW S, NEW T, NEW f \in PartialFn(S, T), NEW D \in SUBSET DOMAIN f
  PROVE  /\ Restrict(f, D) \in PartialFn(S, T) /\ DOMAIN Restrict(f, D) = D
         /\ \A k \in D : Restrict(f, D)[k] = f[k]
<1>1. DOMAIN f \subseteq S /\ f \in [DOMAIN f -> T]
  BY PartialIs
<1> DEFINE g == Restrict(f, D)
<1>2. DOMAIN g = D /\ (\A k \in D : g[k] = f[k]) /\ g = [k \in D |-> g[k]]
  BY DEF Restrict
<1> HIDE DEF g
<1>3. DOMAIN g \subseteq S /\ g \in [DOMAIN g -> T]
  BY <1>1, <1>2
<1>4. g \in PartialFn(S, T)
  BY <1>3, PartialIs
<1> QED BY <1>2, <1>4 DEF g

\* Only jobs that have ended drop out of the log.
LEMMA EvictedIs ==
  ASSUME NEW jobs \in PartialFn(Nat \ {0}, Job)
  PROVE  /\ Evicted(jobs) \in PartialFn(Nat \ {0}, Job)
         /\ DOMAIN Evicted(jobs) \subseteq DOMAIN jobs
         /\ \A id \in DOMAIN Evicted(jobs) : Evicted(jobs)[id] = jobs[id]
         /\ \A id \in DOMAIN jobs \ DOMAIN Evicted(jobs) : jobs[id].status # "Running"
<1> DEFINE over == Max({Cardinality(DOMAIN jobs) - JOB_LOG, 0})
           finished == {id \in DOMAIN jobs : jobs[id].status # "Running"}
           D == {id \in DOMAIN jobs :
                   id \in finished => Cardinality({i \in finished : i <= id}) > over}
<1>1. Evicted(jobs) = Restrict(jobs, D)
  BY DEF Evicted
<1>2. D \in SUBSET DOMAIN jobs /\ \A id \in DOMAIN jobs \ D : jobs[id].status # "Running"
  <2> HIDE DEF over
  <2> QED OBVIOUS
<1> HIDE DEF D
<1> QED BY <1>1, <1>2, RestrictIs

\* Lines of a recipe.
LEMMA LinesAre ==
  ASSUME NEW lines \in Lines
  PROVE  lines \in PartialFn(Commodities, Nat)
<1>1. DOMAIN lines \subseteq Commodities /\ lines \in [DOMAIN lines -> 0 .. MAX_UNITS]
  BY PartialIs DEF Lines
<1>2. 0 .. MAX_UNITS \subseteq Nat
  BY GoodsAssumption
<1>3. lines \in [DOMAIN lines -> Nat]
  BY <1>1, <1>2
<1> QED BY <1>1, <1>3, PartialIs

\* A recipe's lines for several runs are lines of the same goods.
LEMMA ScaledIs ==
  ASSUME NEW lines \in PartialFn(Commodities, Nat), NEW by \in Nat
  PROVE  /\ Scaled(lines, by) \in PartialFn(Commodities, Nat)
         /\ DOMAIN Scaled(lines, by) = DOMAIN lines
<1>1. DOMAIN lines \subseteq Commodities /\ lines \in [DOMAIN lines -> Nat]
  BY PartialIs
<1>2. \A sym \in DOMAIN lines : lines[sym] * by \in Nat
  <2>1. \A sym \in DOMAIN lines : lines[sym] \in Nat
    BY <1>1
  <2> QED BY <2>1, NatTimes
<1>3. Scaled(lines, by) = [sym \in DOMAIN lines |-> lines[sym] * by]
  BY DEF Scaled
<1>4. Scaled(lines, by) \in [DOMAIN lines -> Nat] /\ DOMAIN Scaled(lines, by) = DOMAIN lines
  BY <1>2, <1>3
<1> QED BY <1>1, <1>4, PartialIs

\* What is promised is a count of each good.
LEMMA PromiseIs ==
  ASSUME NEW m, Sound(m), NEW recipe \in Recipe, NEW runs \in Nat
  PROVE  Promise(m, recipe, runs) \in PartialFn(Commodities, Nat)
<1> DEFINE bps == MultiplierBps(m, "Production", recipe.first)
           out == recipe.outputs
<1>1. out \in PartialFn(Commodities, Nat)
  <2>1. out \in Lines
    BY DEF Recipe
  <2> QED BY <2>1, LinesAre
<1>2. bps \in Nat
  <2>1. m.world \in Seq(Modifier) /\ m.now \in Nat
    BY FieldsAre
  <2> QED BY <2>1, MultiplierIs
<1>7. bps \in Int
  BY <1>2
<1>3. Promise(m, recipe, runs) = [sym \in DOMAIN out |-> ScaledQty(out[sym] * runs, bps)]
  BY DEF Promise
<1> HIDE DEF bps, out
<1>4. DOMAIN out \subseteq Commodities /\ \A sym \in DOMAIN out : out[sym] \in Nat
  BY <1>1, PartialIs
<1>5. \A sym \in DOMAIN out : ScaledQty(out[sym] * runs, bps) \in Nat
  <2> SUFFICES ASSUME NEW sym \in DOMAIN out PROVE ScaledQty(out[sym] * runs, bps) \in Nat
    OBVIOUS
  <2>1. out[sym] * runs \in Nat
    BY <1>4, NatTimes
  <2> QED BY <1>7, <2>1, ScaledQtyIs
<1> DEFINE p == Promise(m, recipe, runs)
<1>6. DOMAIN p \subseteq Commodities /\ p \in [DOMAIN p -> Nat]
  BY <1>3, <1>4, <1>5
<1> QED BY <1>6, PartialIs

\* The jobs of m are those of e, but for ended ones that dropped out of the
\* log and for new ones.
JobsKept(m, e) ==
  /\ e.next_job >= m.next_job
  /\ \A id \in DOMAIN m.jobs : IF id \in DOMAIN e.jobs THEN e.jobs[id] = m.jobs[id]
                               ELSE m.jobs[id].status # "Running"
  /\ \A id \in DOMAIN e.jobs \ DOMAIN m.jobs : id >= m.next_job

\* A job that starts keeps the market sound: its cost is paid, its inputs are
\* gone, and no job that runs is touched by the log's eviction (start_job).
LEMMA StartKeeps ==
  ASSUME NEW m, Sound(m), NEW t \in Players \cup DOMAIN m.npcs, NEW id, NEW runs \in Nat,
         CanStart(m, id, t, runs), NEW e, e = Started(m, id, t, runs)
  PROVE  /\ Sound(e) /\ e.npcs = m.npcs /\ SameShop(m, e) /\ SameBook(m, e) /\ SameTimes(m, e)
         /\ JobsKept(m, e) /\ OthersHold(m, e, t)
<1> DEFINE recipe == m.recipes[id]
           a == AccountOf[t]
           cost == recipe.cost * runs
           inputs == Scaled(recipe.inputs, runs)
           job == [recipe |-> id, trader |-> t, cost |-> cost,
                   outputs |-> Promise(m, recipe, runs), due |-> m.now + recipe.duration,
                   status |-> "Running", refunded |-> 0]
           p == [m EXCEPT !.wallets = Pay(@, Movement(a, "Venue", cost))]
           u == UseUp(p, t, inputs)
           jobs == With(m.jobs, m.next_job, job)
<1>1. /\ m \in Market /\ m.wallets \in [Purses -> Wallet] /\ m.now \in Nat
      /\ m.jobs \in PartialFn(Nat \ {0}, Job) /\ m.next_job \in Nat \ {0}
      /\ m.recipes \in PartialFn(RecipeIds, Recipe)
  BY FieldsAre
<1>2. /\ id \in DOMAIN m.recipes /\ CanPost(m.wallets, Movement(a, "Venue", cost))
      /\ \A sym \in DOMAIN inputs : inputs[sym] <= FreeUnits(m, t, sym)
  BY DEF CanStart
<1>3. id \in RecipeIds /\ recipe \in Recipe
  BY <1>1, <1>2, PartialIs
<1>4. /\ recipe.cost \in Nat /\ recipe.duration \in Nat /\ recipe.inputs \in Lines
  BY <1>3 DEF Recipe
<1>5. cost \in Nat
  BY <1>4, NatTimes
<1>6. inputs \in PartialFn(Commodities, Nat)
  BY <1>4, LinesAre, ScaledIs
<1>7. job \in Job
  <2>1. Promise(m, recipe, runs) \in PartialFn(Commodities, Nat)
    BY <1>3, PromiseIs
  <2>2. t \in Traders
    BY OpenAre
  <2>3. m.now + recipe.duration \in Nat
    BY <1>1, <1>4
  <2> HIDE DEF recipe, cost
  <2> QED BY <1>3, <1>5, <2>1, <2>2, <2>3 DEF Job
<1>8. e = [u EXCEPT !.next_job = @ + 1, !.jobs = Evicted(With(@, m.next_job, job))]
  BY DEF Started
<1> HIDE DEF recipe, cost, inputs, job
<1>9. /\ Sound(p) /\ SameUnits(m, p) /\ SameBook(m, p) /\ SameShop(m, p) /\ SameJobs(m, p)
      /\ SameTimes(m, p) /\ p.npcs = m.npcs
  <2>1. a \in Purses /\ "Venue" \in Purses /\ a # "Venue"
    BY OpenAre, PursesAre
  <2>2. \A n \in Range(Npcs) \ DOMAIN m.npcs : AccountOf[n] \notin {a, "Venue"}
    BY OpenAre, PursesAre
  <2> HIDE DEF a
  <2>3. Payable(m.wallets, a, "Venue", cost)
    BY <1>1, <1>2, <1>5, <2>1, CanPostMeans
  <2> QED BY <1>5, <2>1, <2>2, <2>3, PayKeeps
<1> HIDE DEF p
<1>10. /\ Sound(u) /\ OnlyUnits(p, u, t)
  <2>1. \A sym \in DOMAIN inputs : inputs[sym] <= FreeUnits(p, t, sym)
    BY <1>2, <1>9 DEF FreeUnits, SameUnits, SameBook
  <2>2. t \in Traders
    BY OpenAre
  <2> QED BY <1>6, <1>9, <2>1, <2>2, UseUpKeeps
<1> HIDE DEF u
<1>11. u.jobs = m.jobs /\ u.next_job = m.next_job /\ u \in Market
  BY <1>9, <1>10, FieldsAre DEF OnlyUnits, SameJobs
<1>12. e = [u EXCEPT !.next_job = m.next_job + 1, !.jobs = Evicted(jobs)]
  BY <1>8, <1>11
<1>13. \A i \in DOMAIN m.jobs : i < m.next_job /\ i \in Nat
  <2>1. DOMAIN m.jobs \subseteq Nat
    BY <1>1, PartialIs
  <2> QED BY <2>1 DEF Sound, Formed
<1>14. /\ jobs \in PartialFn(Nat \ {0}, Job) /\ DOMAIN jobs = DOMAIN m.jobs \cup {m.next_job}
       /\ \A i \in DOMAIN m.jobs : jobs[i] = m.jobs[i]
  <2>1. /\ jobs \in PartialFn(Nat \ {0}, Job) /\ DOMAIN jobs = DOMAIN m.jobs \cup {m.next_job}
        /\ \A i \in DOMAIN m.jobs : i # m.next_job => jobs[i] = m.jobs[i]
    <3>1. m.jobs \in PartialFn(Nat \ {0}, Job)
      BY <1>1
    <3>2. m.next_job \in Nat \ {0}
      BY <1>1
    <3>3. jobs = With(m.jobs, m.next_job, job)
      OBVIOUS
    <3> HIDE DEF jobs
    <3>4. jobs \in PartialFn(Nat \ {0}, Job) /\ Rewritten(jobs, m.jobs, m.next_job, job)
      BY <1>7, <3>1, <3>2, <3>3, WithIs
    <3> QED BY <3>4 DEF Rewritten
  <2>2. \A i \in DOMAIN m.jobs : i # m.next_job
    BY <1>1, <1>13
  <2> QED BY <2>1, <2>2
<1> HIDE DEF jobs
<1> DEFINE kept == Evicted(jobs)
<1>15. /\ kept \in PartialFn(Nat \ {0}, Job) /\ DOMAIN kept \subseteq DOMAIN jobs
       /\ \A i \in DOMAIN kept : kept[i] = jobs[i]
       /\ \A i \in DOMAIN jobs \ DOMAIN kept : jobs[i].status # "Running"
  BY <1>14, EvictedIs
<1> HIDE DEF kept
<1>16. /\ e \in Market /\ e.jobs = kept /\ e.next_job = m.next_job + 1
       /\ e.wallets = u.wallets /\ SameUnits(u, e) /\ SameBook(u, e) /\ SameShop(u, e)
       /\ SameTimes(u, e) /\ e.npcs = u.npcs
  <2>1. e = [u EXCEPT !.next_job = m.next_job + 1, !.jobs = kept]
    BY <1>12 DEF kept
  <2>2. m.next_job + 1 \in Nat \ {0}
    BY <1>1
  <2>3. kept \in PartialFn(Nat \ {0}, Job) /\ u \in Market
    BY <1>11, <1>15
  <2>4. /\ e \in Market /\ e.jobs = kept /\ e.next_job = m.next_job + 1
    BY <2>1, <2>2, <2>3 DEF Market
  <2>5. /\ e.wallets = u.wallets /\ SameUnits(u, e) /\ SameBook(u, e) /\ SameShop(u, e)
        /\ SameTimes(u, e) /\ e.npcs = u.npcs
    BY <2>1, <2>3 DEF Market, SameUnits, SameBook, SameShop, SameTimes
  <2> QED BY <2>4, <2>5
<1>17. Formed(e)
  <2>1. IsFiniteSet(e.book)
    BY <1>10, <1>16 DEF Sound, Formed, SameBook
  <2>2. \A i \in DOMAIN e.jobs : i < e.next_job
    BY <1>1, <1>13, <1>14, <1>15, <1>16
  <2> QED BY <1>16, <2>1, <2>2 DEF Formed
<1>18. Sound(e)
  BY <1>10, <1>16, <1>17, AsideKeeps
<1>19. JobsKept(m, e)
  <2>1. e.next_job >= m.next_job
    BY <1>1, <1>16
  <2>2. ASSUME NEW i \in DOMAIN m.jobs
        PROVE  IF i \in DOMAIN e.jobs THEN e.jobs[i] = m.jobs[i]
               ELSE m.jobs[i].status # "Running"
    BY <1>14, <1>15, <1>16
  <2>3. ASSUME NEW i \in DOMAIN e.jobs \ DOMAIN m.jobs
        PROVE  i >= m.next_job
    BY <1>1, <1>14, <1>15, <1>16
  <2> QED BY <2>1, <2>2, <2>3 DEF JobsKept
<1>20. /\ e.npcs = m.npcs /\ SameShop(m, e) /\ SameBook(m, e) /\ SameTimes(m, e)
  BY <1>9, <1>10, <1>16 DEF OnlyUnits, SameShop, SameBook, SameTimes
<1>21. OthersHold(m, e, t)
  BY <1>9, <1>10, <1>16 DEF OnlyUnits, SameUnits, OthersHold
<1> QED BY <1>18, <1>19, <1>20, <1>21

\* Only the table of jobs has changed.
LEMMA JobsAside ==
  ASSUME NEW m, Sound(m), NEW jobs \in PartialFn(Nat \ {0}, Job),
         \A id \in DOMAIN jobs : id < m.next_job, NEW e, e = [m EXCEPT !.jobs = jobs]
  PROVE  /\ Sound(e) /\ e.jobs = jobs /\ e.next_job = m.next_job /\ e.wallets = m.wallets
         /\ e.npcs = m.npcs /\ SameUnits(m, e) /\ SameShop(m, e) /\ SameBook(m, e)
         /\ SameTimes(m, e)
<1>1. m \in Market /\ IsFiniteSet(m.book)
  BY FieldsAre
<1>2. /\ e \in Market /\ e.jobs = jobs /\ e.next_job = m.next_job /\ e.wallets = m.wallets
      /\ e.npcs = m.npcs /\ SameUnits(m, e) /\ SameShop(m, e) /\ SameBook(m, e)
      /\ SameTimes(m, e) /\ e.book = m.book
  BY <1>1 DEF Market, SameUnits, SameShop, SameBook, SameTimes
<1>3. Formed(e)
  BY <1>1, <1>2 DEF Formed
<1>4. Sound(e)
  BY <1>2, <1>3, AsideKeeps
<1> QED BY <1>2, <1>4

\* What a running job is.
LEMMA RunningIs ==
  ASSUME NEW m, Sound(m), NEW id \in Running(m)
  PROVE  /\ id \in DOMAIN m.jobs /\ m.jobs[id] \in Job /\ m.jobs[id].status = "Running"
         /\ m.jobs[id].refunded = 0 /\ m.jobs[id].trader \in Traders /\ m.jobs[id].cost \in Nat
         /\ m.jobs[id].outputs \in PartialFn(Commodities, Nat)
         /\ id \in Nat /\ id \in 1 .. m.next_job - 1
<1>1. /\ m.jobs \in PartialFn(Nat \ {0}, Job) /\ m.next_job \in Nat \ {0}
  BY FieldsAre
<1>2. id \in DOMAIN m.jobs /\ m.jobs[id].status = "Running"
  BY DEF Running
<1>3. m.jobs[id] \in Job /\ id \in Nat \ {0}
  BY <1>1, <1>2, PartialIs
<1>4. id < m.next_job
  BY <1>2 DEF Sound, Formed
<1>5. id \in 1 .. m.next_job - 1
  BY <1>1, <1>3, <1>4
<1> QED BY <1>2, <1>3, <1>5 DEF Job

\* One job's line of the table changes, and its job is still one.
LEMMA JobLineIs ==
  ASSUME NEW m, Sound(m), NEW id \in DOMAIN m.jobs, NEW job \in Job,
         NEW jobs, jobs = [m.jobs EXCEPT ![id] = job]
  PROVE  /\ jobs \in PartialFn(Nat \ {0}, Job) /\ DOMAIN jobs = DOMAIN m.jobs
         /\ \A i \in DOMAIN jobs : i < m.next_job
         /\ jobs[id] = job /\ \A i \in DOMAIN m.jobs : i # id => jobs[i] = m.jobs[i]
<1>1. m.jobs \in PartialFn(Nat \ {0}, Job)
  BY FieldsAre
<1>2. DOMAIN m.jobs \subseteq Nat \ {0} /\ m.jobs \in [DOMAIN m.jobs -> Job]
  BY <1>1, PartialIs
<1>3. jobs \in [DOMAIN m.jobs -> Job] /\ DOMAIN jobs = DOMAIN m.jobs
      /\ jobs[id] = job /\ \A i \in DOMAIN m.jobs : i # id => jobs[i] = m.jobs[i]
  BY <1>2
<1>4. jobs \in PartialFn(Nat \ {0}, Job)
  BY <1>2, <1>3, PartialIs
<1>5. \A i \in DOMAIN m.jobs : i < m.next_job
  BY DEF Sound, Formed
<1> QED BY <1>3, <1>4, <1>5

\* A recipe gives back a part of the cost.
LEMMA SharesAre ==
  ASSUME NEW r \in Recipe
  PROVE  r.refund \in Nat /\ r.refund <= 10000
<1> DEFINE x == r.refund
<1>1. x \in 0 .. BPS
  BY DEF Recipe
<1>2. BPS = 10000
  BY DEF BPS
<1> HIDE DEF x
<1>3. x \in Nat /\ x <= 10000
  BY <1>1, <1>2
<1> QED BY <1>3 DEF x

\* A refund is no more than the cost, and the venue has it.
LEMMA RefundIs ==
  ASSUME NEW m, Sound(m), NEW id \in Running(m), m.jobs[id].trader \in Players,
         NEW refund, refund = RefundOf(m, m.jobs[id])
  PROVE  /\ refund \in Nat /\ refund <= m.jobs[id].cost
         /\ Payable(m.wallets, "Venue", AccountOf[m.jobs[id].trader], refund)
<1> DEFINE job == m.jobs[id]
           bps == IF job.recipe \in DOMAIN m.recipes THEN m.recipes[job.recipe].refund ELSE 0
           x == (job.cost * bps) \div BPS
           v == AvailableCents(m.wallets["Venue"])
           r == Min({x, v})
           a == AccountOf[job.trader]
<1>1. job \in Job /\ job.cost \in Nat /\ m.recipes \in PartialFn(RecipeIds, Recipe)
      /\ m.wallets \in [Purses -> Wallet]
  BY RunningIs, FieldsAre
<1>2. bps \in Nat /\ bps <= 10000
  <2>1. CASE job.recipe \in DOMAIN m.recipes
    <3>1. m.recipes[job.recipe] \in Recipe
      BY <1>1, <2>1, PartialIs
    <3>2. bps = m.recipes[job.recipe].refund
      BY <2>1
    <3> QED BY <3>1, <3>2, SharesAre
  <2>2. CASE job.recipe \notin DOMAIN m.recipes
    BY <2>2
  <2> QED BY <2>1, <2>2
<1>3. refund = IF CanPost(m.wallets, Movement("Venue", a, r)) THEN r ELSE 0
  BY DEF RefundOf
<1>4. a \in Purses /\ "Venue" \in Purses /\ a # "Venue"
  BY OpenAre, PursesAre
<1>5. v \in Nat
  <2> DEFINE w == m.wallets["Venue"]
  <2>1. w.balance \in Nat /\ w.reserved \in Nat
    BY <1>1, <1>4, WalletIs
  <2>2. v = Max({w.balance - w.reserved, 0})
    BY DEF AvailableCents
  <2> HIDE DEF v, w
  <2>3. v = IF w.balance - w.reserved >= 0 THEN w.balance - w.reserved ELSE 0
    <3>1. w.balance - w.reserved \in Int
      BY <2>1
    <3> QED BY <2>2, <3>1, MaxOfTwo
  <2> QED BY <2>1, <2>3
<1> DEFINE c == job.cost
<1> HIDE DEF bps, v
<1>6. x \in Nat /\ x <= c
  <2>1. c \in Nat /\ 10000 - bps \in Nat
    BY <1>1, <1>2
  <2> DEFINE y == c * bps
  <2>2. y \in Nat /\ c * (10000 - bps) \in Nat
    BY <1>2, <2>1, NatTimes
  <2>3. c * (10000 - bps) = c * 10000 - y
    <3> HIDE DEF c
    <3> QED BY <1>2, <2>1
  <2>4. y <= c * 10000
    <3> HIDE DEF c, y
    <3> QED BY <2>1, <2>2, <2>3
  <2>5. x = y \div 10000
    BY DEF BPS
  <2> HIDE DEF x, y, c
  <2>6. y \div 10000 \in Nat /\ y \div 10000 <= c
    BY <2>1, <2>2, <2>4
  <2> QED BY <2>5, <2>6
<1> HIDE DEF x, c
<1>7. c \in Nat
  BY <1>1 DEF c
<1>8. r \in Nat /\ r <= c
  <2>1. r = IF x <= v THEN x ELSE v
    BY <1>5, <1>6, MinOfTwo
  <2> HIDE DEF r
  <2> QED BY <1>5, <1>6, <1>7, <2>1
<1> HIDE DEF r, a
<1>9. CASE CanPost(m.wallets, Movement("Venue", a, r))
  <2>1. refund = r
    BY <1>3, <1>9
  <2>2. Payable(m.wallets, "Venue", a, r)
    BY <1>1, <1>4, <1>8, <1>9, CanPostMeans
  <2> QED BY <1>8, <2>1, <2>2 DEF a, c
<1>10. CASE ~CanPost(m.wallets, Movement("Venue", a, r))
  <2>1. refund = 0
    BY <1>3, <1>10
  <2>2. 0 <= c
    BY <1>7
  <2> QED BY <2>1, <2>2 DEF c, Payable
<1> QED BY <1>9, <1>10

\* A job cancelled, for no more than it cost.
Refunded(job, after) ==
  \E refund \in Nat :
    refund <= job.cost /\ after = [job EXCEPT !.status = "Cancelled", !.refunded = refund]

OneRefunded(m, id, e) ==
  /\ DOMAIN e.jobs = DOMAIN m.jobs
  /\ \A i \in DOMAIN m.jobs : i # id => e.jobs[i] = m.jobs[i]
  /\ Refunded(m.jobs[id], e.jobs[id])

\* A job that is cancelled keeps the market sound, and only its own line in
\* the log changes (cancel_job).
LEMMA CancelKeeps ==
  ASSUME NEW m, Sound(m), NEW id \in Running(m), m.jobs[id].trader \in Players,
         NEW e, e = Cancelled(m, id)
  PROVE  /\ Sound(e) /\ SameUnits(m, e) /\ SameBook(m, e) /\ SameShop(m, e) /\ SameTimes(m, e)
         /\ e.npcs = m.npcs /\ OneRefunded(m, id, e)
<1> DEFINE job == m.jobs[id]
           a == AccountOf[job.trader]
           refund == RefundOf(m, job)
           p == [m EXCEPT !.wallets = Pay(@, Movement("Venue", a, refund))]
           ended == [job EXCEPT !.status = "Cancelled", !.refunded = refund]
           jobs == [m.jobs EXCEPT ![id] = ended]
<1>1. /\ m \in Market /\ job \in Job /\ id \in DOMAIN m.jobs
  BY RunningIs, FieldsAre
<1>2. refund \in Nat /\ refund <= job.cost /\ Payable(m.wallets, "Venue", a, refund)
  BY RefundIs
<1>3. e = [p EXCEPT !.jobs = jobs]
  <2>1. e = [m EXCEPT !.wallets = Pay(@, Movement("Venue", a, refund)),
                      !.jobs[id].status = "Cancelled", !.jobs[id].refunded = refund]
    BY DEF Cancelled
  <2> DEFINE ws == Pay(m.wallets, Movement("Venue", a, refund))
  <2>2. e = [m EXCEPT !.wallets = ws,
                      !.jobs[id].status = "Cancelled", !.jobs[id].refunded = refund]
    BY <2>1
  <2>3. p = [m EXCEPT !.wallets = ws]
    OBVIOUS
  <2>4. DOMAIN m.jobs \subseteq Nat \ {0} /\ m.jobs \in [DOMAIN m.jobs -> Job]
    BY FieldsAre, PartialIs
  <2> HIDE DEF ws, refund, p
  <2>5. e = [m EXCEPT !.wallets = ws, !.jobs = jobs]
    BY <1>1, <2>2, <2>4 DEF Market, Job
  <2> HIDE DEF jobs
  <2> QED BY <1>1, <2>3, <2>5 DEF Market
<1> HIDE DEF refund
<1>4. /\ Sound(p) /\ SameUnits(m, p) /\ SameBook(m, p) /\ SameShop(m, p) /\ SameJobs(m, p)
      /\ SameTimes(m, p) /\ p.npcs = m.npcs
  <2>1. a \in Purses /\ "Venue" \in Purses /\ a # "Venue"
    BY OpenAre, PursesAre
  <2>2. \A n \in Range(Npcs) \ DOMAIN m.npcs : AccountOf[n] \notin {"Venue", a}
    BY OpenAre, PursesAre
  <2> HIDE DEF a
  <2> QED BY <1>2, <2>1, <2>2, PayKeeps
<1> HIDE DEF p
<1>5. ended \in Job
  <2> HIDE DEF job
  <2> QED BY <1>1, <1>2 DEF Job
<1> HIDE DEF ended
<1>6. /\ jobs \in PartialFn(Nat \ {0}, Job) /\ DOMAIN jobs = DOMAIN m.jobs
      /\ \A i \in DOMAIN jobs : i < m.next_job
      /\ jobs[id] = ended /\ \A i \in DOMAIN m.jobs : i # id => jobs[i] = m.jobs[i]
  BY <1>1, <1>5, JobLineIs
<1> HIDE DEF jobs
<1>7. /\ Sound(e) /\ e.jobs = jobs /\ e.npcs = p.npcs /\ SameUnits(p, e) /\ SameShop(p, e)
      /\ SameBook(p, e) /\ SameTimes(p, e)
  <2>1. \A i \in DOMAIN jobs : i < p.next_job
    BY <1>4, <1>6 DEF SameJobs
  <2> QED BY <1>3, <1>4, <1>6, <2>1, JobsAside
<1>8. SameUnits(m, e) /\ SameShop(m, e) /\ SameBook(m, e) /\ SameTimes(m, e) /\ e.npcs = m.npcs
  BY <1>4, <1>7 DEF SameUnits, SameShop, SameBook, SameTimes
<1>9. Refunded(job, e.jobs[id])
  BY <1>2, <1>6, <1>7 DEF ended, Refunded
<1> QED BY <1>6, <1>7, <1>8, <1>9 DEF OneRefunded

\* What a job delivers of a good: all it promised, or nothing.
Delivered(m, out, sym) == IF sym \in DOMAIN out /\ CanIssue(m, sym, out[sym]) THEN out[sym] ELSE 0

HandsOut(m, t, out, e) ==
  /\ OthersHold(m, e, t)
  /\ \A sym \in Commodities : /\ e.issued[sym] = m.issued[sym] + Delivered(m, out, sym)
                              /\ e.held[t][sym] = m.held[t][sym] + Delivered(m, out, sym)

\* A delivery keeps the market sound, ends its job alone and hands out the
\* lines there is room for (complete_jobs).
LEMMA DeliverKeeps ==
  ASSUME NEW m, Sound(m), NEW id \in Running(m), NEW e, e = Deliver(m, id)
  PROVE  /\ Sound(e) /\ e.wallets = m.wallets /\ SameBook(m, e) /\ SameShop(m, e)
         /\ SameTimes(m, e) /\ e.npcs = m.npcs /\ e.next_job = m.next_job
         /\ DOMAIN e.jobs = DOMAIN m.jobs
         /\ \A i \in DOMAIN m.jobs : i # id => e.jobs[i] = m.jobs[i]
         /\ e.jobs[id] = [m.jobs[id] EXCEPT !.status = "Done"]
         /\ HandsOut(m, m.jobs[id].trader, m.jobs[id].outputs, e)
<1> DEFINE job == m.jobs[id]
           t == job.trader
           out == job.outputs
           fits == {sym \in DOMAIN out : CanIssue(m, sym, out[sym])}
           lines == Restrict(out, fits)
           i == Issue(m, t, lines)
           done == [job EXCEPT !.status = "Done"]
           jobs == [m.jobs EXCEPT ![id] = done]
<1>1. /\ id \in DOMAIN m.jobs /\ job \in Job /\ t \in Traders
      /\ out \in PartialFn(Commodities, Nat)
  BY RunningIs
<1>2. e = [i EXCEPT !.jobs[id].status = "Done"]
  BY DEF Deliver, Outputs
<1> HIDE DEF t, out, done
<1>3. /\ lines \in PartialFn(Commodities, Nat) /\ DOMAIN lines = fits
      /\ \A sym \in fits : lines[sym] = out[sym]
  <2>1. fits \in SUBSET DOMAIN out
    OBVIOUS
  <2> HIDE DEF fits
  <2> QED BY <1>1, <2>1, RestrictIs
<1> HIDE DEF lines
<1>4. \A sym \in DOMAIN lines : CanIssue(m, sym, lines[sym])
  BY <1>3
<1>5. \A sym : Of(lines, sym) = Delivered(m, out, sym)
  BY <1>3 DEF Of, Delivered
<1> HIDE DEF fits, i
<1>6. /\ Sound(i) /\ OnlyUnits(m, i, t)
      /\ \A sym \in Commodities :
              /\ i.issued[sym] = m.issued[sym] + Of(lines, sym)
              /\ i.held[t][sym] = m.held[t][sym] + Of(lines, sym)
  BY <1>1, <1>3, <1>4, IssueKeeps DEF i
<1>7. i.jobs = m.jobs /\ i.next_job = m.next_job /\ i \in Market
  BY <1>6, FieldsAre DEF OnlyUnits, SameJobs
<1>8. e = [i EXCEPT !.jobs = jobs]
  <2>1. [m.jobs EXCEPT ![id].status = "Done"] = jobs
    BY DEF done
  <2> HIDE DEF jobs
  <2>2. e = [i EXCEPT !.jobs = [m.jobs EXCEPT ![id].status = "Done"]]
    BY <1>2, <1>7
  <2> QED BY <2>1, <2>2
<1>9. done \in Job
  <2> HIDE DEF job
  <2>1. job.status = "Running"
    BY DEF job, Running
  <2>2. job.refunded = 0 /\ job.refunded \in Nat
    BY <1>1, <2>1 DEF Job
  <2> QED BY <1>1, <2>1, <2>2 DEF Job, done
<1>10. /\ jobs \in PartialFn(Nat \ {0}, Job) /\ DOMAIN jobs = DOMAIN m.jobs
       /\ \A k \in DOMAIN jobs : k < m.next_job
       /\ jobs[id] = done /\ \A k \in DOMAIN m.jobs : k # id => jobs[k] = m.jobs[k]
  BY <1>1, <1>9, JobLineIs
<1> HIDE DEF jobs
<1>11. /\ Sound(e) /\ e.jobs = jobs /\ e.next_job = i.next_job /\ e.wallets = i.wallets
       /\ e.npcs = i.npcs /\ SameUnits(i, e) /\ SameShop(i, e) /\ SameBook(i, e)
       /\ SameTimes(i, e)
  <2>1. \A k \in DOMAIN jobs : k < i.next_job
    BY <1>7, <1>10
  <2> QED BY <1>6, <1>8, <1>10, <2>1, JobsAside
<1>12. /\ e.wallets = m.wallets /\ SameBook(m, e) /\ SameShop(m, e)
       /\ SameTimes(m, e) /\ e.npcs = m.npcs /\ e.next_job = m.next_job
  BY <1>6, <1>7, <1>11 DEF OnlyUnits, SameBook, SameShop, SameTimes
<1>13. HandsOut(m, t, out, e)
  BY <1>5, <1>6, <1>11 DEF OnlyUnits, SameUnits, OthersHold, HandsOut
<1> QED BY <1>10, <1>11, <1>12, <1>13 DEF t, out, done

-----------------------------------------------------------------------------
(* Jobs that are due *)

\* What the jobs in a set promise of a good.
PromisedOf(m, ids, sym) ==
  SumFunction([id \in {i \in ids : sym \in DOMAIN m.jobs[i].outputs} |->
                 m.jobs[id].outputs[sym]])

\* There are finitely many jobs.
LEMMA RunningFinite ==
  ASSUME NEW m, Sound(m), NEW S \in SUBSET Running(m)
  PROVE  IsFiniteSet(S)
<1>1. m.next_job \in Nat \ {0} /\ Running(m) \subseteq 1 .. m.next_job - 1
  <2>1. \A id \in Running(m) : id \in 1 .. m.next_job - 1
    BY RunningIs
  <2> QED BY <2>1, FieldsAre
<1>2. IsFiniteSet(1 .. m.next_job - 1)
  BY <1>1, FS_Interval
<1> QED BY <1>1, <1>2, FS_Subset

PromisesAddUp(m, S, T, sym) ==
  /\ PromisedOf(m, S, sym) = PromisedOf(m, T, sym) + PromisedOf(m, S \ T, sym)
  /\ PromisedOf(m, S, sym) \in Nat /\ PromisedOf(m, T, sym) \in Nat
  /\ PromisedOf(m, S \ T, sym) \in Nat

\* What running jobs promise adds up.
LEMMA PromisedSplit ==
  ASSUME NEW m, Sound(m), NEW S \in SUBSET Running(m), NEW T \in SUBSET S, NEW sym
  PROVE  PromisesAddUp(m, S, T, sym)
<1> DEFINE mine(s) == {i \in s : sym \in DOMAIN m.jobs[i].outputs}
           f == [i \in mine(S) |-> m.jobs[i].outputs[sym]]
<1>1. \A i \in mine(S) : f[i] \in Nat
  <2> SUFFICES ASSUME NEW i \in mine(S) PROVE m.jobs[i].outputs[sym] \in Nat
    OBVIOUS
  <2>1. i \in Running(m) /\ sym \in DOMAIN m.jobs[i].outputs
    OBVIOUS
  <2>2. m.jobs[i].outputs \in PartialFn(Commodities, Nat)
    BY <2>1, RunningIs
  <2> QED BY <2>1, <2>2, PartialIs
<1>2. IsFiniteSet(mine(S)) /\ IsFiniteSet(mine(T)) /\ IsFiniteSet(mine(S \ T))
  <2>1. mine(S) \subseteq S /\ mine(T) \subseteq S /\ mine(S \ T) \subseteq S /\ IsFiniteSet(S)
    BY RunningFinite
  <2> QED BY <2>1, FS_Subset
<1>3. /\ mine(T) \in SUBSET mine(S) /\ mine(S \ T) \in SUBSET mine(S)
      /\ mine(S) \ mine(T) = mine(S \ T) /\ mine(S) \in SUBSET mine(S)
  OBVIOUS
<1>4. \A s \in SUBSET S : PromisedOf(m, s, sym)
                            = SumFunction([i \in mine(s) |-> m.jobs[i].outputs[sym]])
  BY DEF PromisedOf
<1>5. \A s \in SUBSET S : mine(s) \in SUBSET mine(S)
  OBVIOUS
<1>11. \A i \in mine(S) : f[i] = m.jobs[i].outputs[sym]
  <2> HIDE DEF mine
  <2> QED OBVIOUS
<1>7. \A i \in mine(S) : f[i] \in Int
  BY <1>1
<1> HIDE DEF f, mine
<1>6. \A s \in SUBSET S : PromisedOf(m, s, sym) = SumFunctionOnSet(f, mine(s))
  <2> SUFFICES ASSUME NEW s \in SUBSET S
               PROVE  PromisedOf(m, s, sym) = SumFunctionOnSet(f, mine(s))
    OBVIOUS
  <2> DEFINE g == [i \in mine(s) |-> m.jobs[i].outputs[sym]]
  <2>1. DOMAIN g = mine(s) /\ (\A i \in mine(s) : g[i] = f[i]) /\ mine(s) \in SUBSET mine(S)
    BY <1>5, <1>11
  <2>2. PromisedOf(m, s, sym) = SumFunction(g)
    BY <1>4
  <2> HIDE DEF g
  <2>3. SumFunction(g) = SumFunctionOnSet(f, mine(s))
    BY <1>2, <1>7, <2>1, SumOfPart
  <2> QED BY <2>2, <2>3
<1>8. SumFunctionOnSet(f, mine(S))
        = SumFunctionOnSet(f, mine(T)) + SumFunctionOnSet(f, mine(S) \ mine(T))
  BY <1>2, <1>3, <1>7, SumSplit
<1>9. /\ SumFunctionOnSet(f, mine(S)) \in Nat /\ SumFunctionOnSet(f, mine(T)) \in Nat
      /\ SumFunctionOnSet(f, mine(S \ T)) \in Nat
  <2>1. (\A i \in mine(T) : f[i] \in Nat) /\ (\A i \in mine(S \ T) : f[i] \in Nat)
    BY <1>1, <1>3
  <2> QED BY <1>1, <1>2, <2>1, SumNat
<1>10. S \in SUBSET S /\ T \in SUBSET S /\ S \ T \in SUBSET S
  OBVIOUS
<1> QED BY <1>3, <1>6, <1>8, <1>9, <1>10 DEF PromisesAddUp

\* No job promises nothing.
LEMMA PromisedNone ==
  ASSUME NEW m, NEW sym
  PROVE  PromisedOf(m, {}, sym) = 0
<1> DEFINE f == [id \in {i \in {} : sym \in DOMAIN m.jobs[i].outputs} |-> m.jobs[id].outputs[sym]]
<1>1. DOMAIN f = {}
  OBVIOUS
<1>2. PromisedOf(m, {}, sym) = SumFunction(f)
  BY DEF PromisedOf
<1> HIDE DEF f
<1>3. SumFunction(f) = SumFunctionOnSet(f, {})
  BY <1>1 DEF SumFunction, SumFunctionOnSet
<1> QED BY <1>2, <1>3, SumEmpty

\* One job promises its line.
LEMMA PromisedOne ==
  ASSUME NEW m, Sound(m), NEW id \in Running(m), NEW sym
  PROVE  PromisedOf(m, {id}, sym) = Of(m.jobs[id].outputs, sym)
<1> DEFINE S == {i \in {id} : sym \in DOMAIN m.jobs[i].outputs}
           f == [i \in S |-> m.jobs[i].outputs[sym]]
<1>1. PromisedOf(m, {id}, sym) = SumFunction(f) /\ DOMAIN f = S
  BY DEF PromisedOf
<1>2. CASE sym \in DOMAIN m.jobs[id].outputs
  <2>1. S = {id} /\ f[id] = m.jobs[id].outputs[sym]
    BY <1>2
  <2>2. m.jobs[id].outputs \in PartialFn(Commodities, Nat)
    BY RunningIs
  <2>3. f[id] \in Int
    BY <1>2, <2>1, <2>2, PartialIs
  <2> HIDE DEF f, S
  <2>4. SumFunction(f) = SumFunctionOnSet(f, {id})
    BY <1>1, <2>1 DEF SumFunction, SumFunctionOnSet
  <2>5. SumFunctionOnSet(f, {id}) = f[id]
    BY <2>3, SumOne
  <2> QED BY <1>1, <1>2, <2>1, <2>4, <2>5 DEF Of
<1>3. CASE sym \notin DOMAIN m.jobs[id].outputs
  <2>1. S = {}
    BY <1>3
  <2> HIDE DEF f, S
  <2>2. SumFunction(f) = SumFunctionOnSet(f, {})
    BY <1>1, <2>1 DEF SumFunction, SumFunctionOnSet
  <2> QED BY <1>1, <1>3, <2>2, SumEmpty DEF Of
<1> QED BY <1>2, <1>3

\* One job more.
LEMMA PromisedAdd ==
  ASSUME NEW m, Sound(m), NEW S \in SUBSET Running(m), NEW id \in Running(m), id \notin S, NEW sym
  PROVE  /\ PromisedOf(m, S \cup {id}, sym)
              = PromisedOf(m, S, sym) + Of(m.jobs[id].outputs, sym)
         /\ PromisedOf(m, S, sym) \in Nat /\ Of(m.jobs[id].outputs, sym) \in Nat
<1> DEFINE more == S \cup {id}
           left == more \ S
<1>1. more \in SUBSET Running(m) /\ S \in SUBSET more /\ left = {id}
  OBVIOUS
<1> HIDE DEF more
<1>5. PromisesAddUp(m, more, S, sym)
  BY <1>1, PromisedSplit
<1>2. /\ PromisedOf(m, more, sym) = PromisedOf(m, S, sym) + PromisedOf(m, left, sym)
      /\ PromisedOf(m, S, sym) \in Nat /\ PromisedOf(m, left, sym) \in Nat
  BY <1>5 DEF PromisesAddUp
<1> HIDE DEF left
<1>3. PromisedOf(m, {id}, sym) = Of(m.jobs[id].outputs, sym)
  BY PromisedOne
<1>4. PromisedOf(m, left, sym) = Of(m.jobs[id].outputs, sym)
  BY <1>1, <1>3
<1> QED BY <1>2, <1>4 DEF more

\* The jobs that are due, of those up to k, and the ones of trader t.
DueTo(m, k) == {id \in Due(m) : id <= k}

DueToOf(m, k, t) == {id \in DueTo(m, k) : m.jobs[id].trader = t}

\* One job at a time, the due ones up to k are done and what they promise is
\* handed out: no more is issued, and if all of a good fits each trader has it.
HandedOf(m, k, s, sym) ==
  /\ s.issued[sym] <= m.issued[sym] + PromisedOf(m, DueTo(m, k), sym)
  /\ m.issued[sym] + PromisedOf(m, Due(m), sym) <= MAX_UNITS =>
       \A t \in Traders :
         s.held[t][sym] = m.held[t][sym] + PromisedOf(m, DueToOf(m, k, t), sym)

OnlyJobs(m, s) ==
  /\ s.wallets = m.wallets /\ SameBook(m, s) /\ SameShop(m, s) /\ SameTimes(m, s)
  /\ s.npcs = m.npcs /\ s.next_job = m.next_job

DoneTo(m, k, s) ==
  /\ DOMAIN s.jobs = DOMAIN m.jobs
  /\ \A id \in DOMAIN m.jobs :
       s.jobs[id] = IF id \in DueTo(m, k) THEN [m.jobs[id] EXCEPT !.status = "Done"]
                    ELSE m.jobs[id]

Handed(m, k, s) ==
  /\ Sound(s) /\ OnlyJobs(m, s) /\ DoneTo(m, k, s)
  /\ \A sym \in Commodities : HandedOf(m, k, s, sym)

\* What is due is running.
LEMMA DueAre ==
  ASSUME NEW m, Sound(m)
  PROVE  /\ Due(m) \subseteq Running(m) /\ Due(m) \subseteq DOMAIN m.jobs
         /\ \A id \in Due(m) : id \in 1 .. m.next_job - 1
         /\ m.next_job - 1 \in Nat
<1>1. Due(m) \subseteq Running(m)
  BY DEF Due
<1>2. \A id \in Running(m) : id \in DOMAIN m.jobs /\ id \in 1 .. m.next_job - 1
  BY RunningIs
<1>3. m.next_job \in Nat \ {0}
  BY FieldsAre
<1> QED BY <1>1, <1>2, <1>3

\* Before the first delivery nobody has been handed anything.
LEMMA HandedNone ==
  ASSUME NEW m, Sound(m)
  PROVE  Handed(m, 0, m)
<1>1. DueTo(m, 0) = {} /\ \A t : DueToOf(m, 0, t) = {}
  <2>1. \A id \in Due(m) : id \in Nat /\ id > 0
    BY DueAre
  <2>2. DueTo(m, 0) = {}
    BY <2>1 DEF DueTo
  <2> QED BY <2>2 DEF DueToOf
<1>2. OnlyJobs(m, m) /\ DoneTo(m, 0, m)
  BY <1>1 DEF OnlyJobs, DoneTo, SameBook, SameShop, SameTimes
<1>3. ASSUME NEW sym \in Commodities
      PROVE  HandedOf(m, 0, m, sym)
  <2>1. PromisedOf(m, {}, sym) = 0
    BY PromisedNone
  <2>2. m.issued[sym] \in Nat /\ \A t \in Traders : m.held[t][sym] \in Nat
    BY FieldsAre DEF Units
  <2>3. PromisedOf(m, DueTo(m, 0), sym) = 0
    BY <1>1, <2>1
  <2>4. \A t : PromisedOf(m, DueToOf(m, 0, t), sym) = 0
    BY <1>1, <2>1
  <2>5. m.issued[sym] <= m.issued[sym] + PromisedOf(m, DueTo(m, 0), sym)
    BY <2>2, <2>3
  <2>6. \A t \in Traders :
          m.held[t][sym] = m.held[t][sym] + PromisedOf(m, DueToOf(m, 0, t), sym)
    BY <2>2, <2>4
  <2> QED BY <2>5, <2>6 DEF HandedOf
<1> QED BY <1>2, <1>3 DEF Handed

\* The next due job is handed out as promised, if there is room for it all.
LEMMA HandedMore ==
  ASSUME NEW m, Sound(m), NEW k \in Due(m), NEW s, Handed(m, k - 1, s), NEW e, e = Deliver(s, k),
         NEW sym \in Commodities
  PROVE  HandedOf(m, k, e, sym)
<1> DEFINE job == m.jobs[k]
           before == DueTo(m, k - 1)
           owner == job.trader
           out == Of(job.outputs, sym)
           P == PromisedOf(m, before, sym)
           Q == PromisedOf(m, Due(m), sym)
           given == Delivered(s, job.outputs, sym)
<1>1. /\ k \in Running(m) /\ k \in DOMAIN m.jobs /\ k \in Nat /\ before \in SUBSET Due(m)
      /\ Due(m) \in SUBSET Running(m) /\ before \in SUBSET Running(m) /\ k \notin before
      /\ \A i \in Due(m) : i \in Nat
  <2>1. k \in Nat /\ ~(k <= k - 1)
    BY DueAre
  <2> QED BY <2>1, DueAre DEF DueTo
<1>2. DueTo(m, k) = before \cup {k}
  <2>1. \A i \in Due(m) : i <= k <=> i <= k - 1 \/ i = k
    BY <1>1
  <2> QED BY <2>1, DueAre DEF DueTo
<1>3. s.jobs[k] = job /\ k \in Running(s) /\ Sound(s)
  <2>1. s.jobs[k] = job /\ k \in DOMAIN s.jobs
    BY <1>1 DEF Handed, DoneTo
  <2>2. job.status = "Running"
    BY <1>1 DEF Running
  <2> QED BY <2>1, <2>2 DEF Handed, Running
<1>4. /\ e.issued[sym] = s.issued[sym] + given
      /\ e.held[owner][sym] = s.held[owner][sym] + given
      /\ \A t \in Traders : t # owner => e.held[t] = s.held[t]
  <2>1. HandsOut(s, s.jobs[k].trader, s.jobs[k].outputs, e)
    BY <1>3, DeliverKeeps
  <2> HIDE DEF job
  <2>2. HandsOut(s, owner, job.outputs, e)
    BY <1>3, <2>1
  <2> QED BY <2>2 DEF OthersHold, HandsOut
<1>5. owner \in Traders /\ job.outputs \in PartialFn(Commodities, Nat)
  BY <1>1, RunningIs
<1>6. out \in Nat /\ given \in Nat /\ given <= out /\ (CanIssue(s, sym, out) => given = out)
  <2>1. out \in Nat
    BY <1>5, OfIs
  <2>2. given = out \/ given = 0
    BY DEF Delivered, Of
  <2>3. sym \notin DOMAIN job.outputs => given = 0 /\ out = 0
    BY DEF Delivered, Of
  <2>4. sym \in DOMAIN job.outputs /\ CanIssue(s, sym, out) => given = out
    BY DEF Delivered, Of
  <2> QED BY <2>1, <2>2, <2>3, <2>4
<1>7. /\ PromisedOf(m, DueTo(m, k), sym) = P + out /\ P \in Nat
  BY <1>1, <1>2, PromisedAdd
<1>8. P + out <= Q /\ Q \in Nat
  <2> DEFINE now == before \cup {k}
             later == PromisedOf(m, Due(m) \ now, sym)
  <2>1. now \in SUBSET Due(m)
    BY <1>1
  <2>5. PromisedOf(m, now, sym) = P + out
    BY <1>2, <1>7
  <2> HIDE DEF now
  <2>2. PromisesAddUp(m, Due(m), now, sym)
    BY <1>1, <2>1, PromisedSplit
  <2>3. Q = PromisedOf(m, now, sym) + later /\ later \in Nat /\ Q \in Nat
    BY <2>2 DEF PromisesAddUp
  <2> HIDE DEF later, Q, P, out
  <2> QED BY <1>6, <1>7, <2>3, <2>5
<1>9. m.issued[sym] \in Nat /\ s.issued[sym] \in Nat /\ MAX_UNITS \in Nat
      /\ \A t \in Traders : s.held[t][sym] \in Nat /\ m.held[t][sym] \in Nat
  BY <1>3, FieldsAre, GoodsAssumption DEF Units
<1>10. HandedOf(m, k - 1, s, sym)
  BY DEF Handed
<1>11. s.issued[sym] <= m.issued[sym] + P
  BY <1>10 DEF HandedOf
<1>12. e.issued[sym] <= m.issued[sym] + PromisedOf(m, DueTo(m, k), sym)
  <2> DEFINE x == s.issued[sym]  y == m.issued[sym]  z == e.issued[sym]
  <2>1. x \in Nat /\ y \in Nat /\ z = x + given /\ x <= y + P
    BY <1>4, <1>9, <1>11
  <2> HIDE DEF x, y, z, P, given, out
  <2>2. z <= y + (P + out)
    BY <1>6, <1>7, <2>1
  <2> QED BY <1>7, <2>2 DEF y, z
<1>13. ASSUME m.issued[sym] + Q <= MAX_UNITS, NEW t \in Traders
       PROVE  e.held[t][sym] = m.held[t][sym] + PromisedOf(m, DueToOf(m, k, t), sym)
  <2> DEFINE mine == DueToOf(m, k - 1, t)
             R == PromisedOf(m, mine, sym)
  <2>1. s.held[t][sym] = m.held[t][sym] + R
    BY <1>10, <1>13 DEF HandedOf
  <2>2. mine \in SUBSET Running(m) /\ k \notin mine
    BY <1>1 DEF DueToOf
  <2>3. given = out
    <3> DEFINE x == s.issued[sym]  y == m.issued[sym]
    <3>1. x \in Nat /\ y \in Nat /\ x <= y + P /\ y + Q <= MAX_UNITS /\ MAX_UNITS \in Nat
      BY <1>9, <1>11, <1>13
    <3> HIDE DEF x, y, P, Q, given, out
    <3>2. x + out <= MAX_UNITS
      BY <1>6, <1>7, <1>8, <3>1
    <3>3. CanIssue(s, sym, out)
      BY <3>2 DEF CanIssue, x
    <3> QED BY <1>6, <3>3
  <2>4. CASE t = owner
    <3>1. DueToOf(m, k, t) = mine \cup {k}
      BY <1>2, <2>4 DEF DueToOf
    <3>2. PromisedOf(m, DueToOf(m, k, t), sym) = R + out /\ R \in Nat
      BY <1>1, <2>2, <3>1, PromisedAdd
    <3> DEFINE x == s.held[t][sym]  y == m.held[t][sym]  z == e.held[t][sym]
    <3>3. x \in Nat /\ y \in Nat /\ z = x + given /\ x = y + R
      BY <1>4, <1>9, <2>1, <2>4
    <3> HIDE DEF x, y, z, R, given, out
    <3>4. z = y + (R + out)
      BY <1>6, <2>3, <3>2, <3>3
    <3> QED BY <3>2, <3>4 DEF y, z
  <2>5. CASE t # owner
    <3>1. DueToOf(m, k, t) = mine
      BY <1>2, <2>5 DEF DueToOf
    <3>2. e.held[t] = s.held[t]
      BY <1>4, <2>5
    <3> QED BY <2>1, <3>1, <3>2
  <2> QED BY <2>4, <2>5
<1> QED BY <1>12, <1>13 DEF HandedOf

\* The delivery of the next job, if it is due, hands out what it promised.
LEMMA HandedStep ==
  ASSUME NEW m, Sound(m), NEW k \in 1 .. m.next_job - 1, NEW s, Handed(m, k - 1, s),
         NEW e, e = IF k \in Due(m) THEN Deliver(s, k) ELSE s
  PROVE  Handed(m, k, e)
<1>1. \A i \in Due(m) : i \in Nat
  BY DueAre
<1>2. CASE k \notin Due(m)
  <2>1. \A i \in Due(m) : i <= k <=> i <= k - 1
    BY <1>1, <1>2
  <2>2. DueTo(m, k) = DueTo(m, k - 1) /\ \A t : DueToOf(m, k, t) = DueToOf(m, k - 1, t)
    BY <2>1 DEF DueTo, DueToOf
  <2>3. e = s
    BY <1>2
  <2>4. DoneTo(m, k, s)
    BY <2>2 DEF Handed, DoneTo
  <2>5. \A sym \in Commodities : HandedOf(m, k, s, sym)
    BY <2>2 DEF Handed, HandedOf
  <2> QED BY <2>3, <2>4, <2>5 DEF Handed
<1>3. CASE k \in Due(m)
  <2>1. e = Deliver(s, k)
    BY <1>3
  <2>2. \A sym \in Commodities : HandedOf(m, k, e, sym)
    BY <1>3, <2>1, HandedMore
  <2>3. k \in Running(m) /\ k \in DOMAIN m.jobs /\ k \notin DueTo(m, k - 1)
        /\ DueTo(m, k) = DueTo(m, k - 1) \cup {k}
    <3>1. ~(k <= k - 1) /\ \A i \in Due(m) : i <= k <=> i <= k - 1 \/ i = k
      BY <1>1
    <3> QED BY <1>3, <3>1, DueAre DEF DueTo
  <2>4. s.jobs[k] = m.jobs[k] /\ k \in Running(s) /\ Sound(s) /\ DOMAIN s.jobs = DOMAIN m.jobs
    <3>1. s.jobs[k] = m.jobs[k] /\ k \in DOMAIN s.jobs
      BY <2>3 DEF Handed, DoneTo
    <3>2. m.jobs[k].status = "Running"
      BY <2>3 DEF Running
    <3> QED BY <3>1, <3>2 DEF Handed, DoneTo, Running
  <2>5. /\ Sound(e) /\ e.wallets = s.wallets /\ SameBook(s, e) /\ SameShop(s, e)
        /\ SameTimes(s, e) /\ e.npcs = s.npcs /\ e.next_job = s.next_job
        /\ DOMAIN e.jobs = DOMAIN s.jobs
        /\ \A i \in DOMAIN s.jobs : i # k => e.jobs[i] = s.jobs[i]
        /\ e.jobs[k] = [s.jobs[k] EXCEPT !.status = "Done"]
    BY <2>1, <2>4, DeliverKeeps
  <2>6. OnlyJobs(m, e)
    BY <2>5 DEF Handed, OnlyJobs, SameBook, SameShop, SameTimes
  <2>7. DoneTo(m, k, e)
    <3>1. \A i \in DOMAIN m.jobs : s.jobs[i] = IF i \in DueTo(m, k - 1)
                                     THEN [m.jobs[i] EXCEPT !.status = "Done"] ELSE m.jobs[i]
      BY DEF Handed, DoneTo
    <3>2. \A i \in DOMAIN m.jobs : e.jobs[i] = IF i \in DueTo(m, k)
                                     THEN [m.jobs[i] EXCEPT !.status = "Done"] ELSE m.jobs[i]
      BY <2>3, <2>4, <2>5, <3>1
    <3> QED BY <2>4, <2>5, <3>2 DEF DoneTo
  <2> QED BY <2>2, <2>5, <2>6, <2>7 DEF Handed
<1> QED BY <1>2, <1>3

\* All that is due is done, in the order of the ids.
LEMMA CompleteJobsAre ==
  ASSUME NEW m, Sound(m)
  PROVE  Handed(m, m.next_job - 1, CompleteJobs(m))
<1> DEFINE n == m.next_job - 1
           Body(v, i) == IF i \in Due(m) THEN Deliver(v, i) ELSE v
           V == [i \in 0 .. n |-> {s \in Market : Handed(m, i, s)}]
           step == [i \in 1 .. n |-> [v \in Market |-> Body(v, i)]]
           f == CHOOSE f : f = [i \in 0 .. n |-> IF i = 0 THEN m ELSE Body(f[i - 1], i)]
<1>1. CompleteJobs(m) = f[n]
  BY DEF CompleteJobs
<1>2. n \in Nat
  BY DueAre
<1>3. ASSUME NEW i \in 1 .. n, NEW v \in Market, Handed(m, i - 1, v)
      PROVE  step[i][v] = Body(v, i) /\ Body(v, i) \in Market /\ Handed(m, i, Body(v, i))
  <2>1. Handed(m, i, Body(v, i))
    BY <1>3, HandedStep
  <2> HIDE DEF Body
  <2>2. Body(v, i) \in Market
    BY <2>1, FieldsAre DEF Handed
  <2> QED BY <2>1, <2>2
<1> HIDE DEF Body
<1>4. \A i \in 0 .. n : \A v : v \in V[i] <=> v \in Market /\ Handed(m, i, v)
  OBVIOUS
<1> HIDE DEF n, V, step
<1>5. 0 \in 0 .. n /\ \A i \in 1 .. n : i - 1 \in 0 .. n /\ i \in 0 .. n /\ i # 0
  BY <1>2
<1>6. m \in V[0]
  BY <1>4, <1>5, FieldsAre, HandedNone
<1>7. PICK g : Recursive(g, n, m, step) /\ StaysIn(g, n, V)
  <2>1. StepsIn(step, n, V)
    BY <1>3, <1>4, <1>5 DEF StepsIn
  <2> QED BY <1>2, <1>6, <2>1, RecursionExists
<1>8. g = [i \in 0 .. n |-> IF i = 0 THEN m ELSE Body(g[i - 1], i)]
  <2>1. \A i \in 1 .. n : step[i][g[i - 1]] = Body(g[i - 1], i)
    BY <1>3, <1>4, <1>5, <1>7 DEF StaysIn
  <2>2. \A i \in 0 .. n : i # 0 => i \in 1 .. n
    BY <1>2
  <2>3. \A i \in 0 .. n : (IF i = 0 THEN m ELSE step[i][g[i - 1]])
                            = (IF i = 0 THEN m ELSE Body(g[i - 1], i))
    BY <2>1, <2>2
  <2> QED BY <1>7, <2>3 DEF Recursive
<1>9. f = [i \in 0 .. n |-> IF i = 0 THEN m ELSE Body(f[i - 1], i)]
  BY <1>8
<1> HIDE DEF f
<1>10. /\ f[0] = m /\ \A i \in 1 .. n : f[i] = Body(f[i - 1], i)
  BY <1>2, <1>5, <1>9
<1>11. f[0] \in V[0] /\ \A i \in 1 .. n : f[i - 1] \in V[i - 1] => f[i] \in V[i]
  <2>1. f[0] \in V[0]
    BY <1>6, <1>10
  <2>2. ASSUME NEW i \in 1 .. n, f[i - 1] \in V[i - 1]
        PROVE  f[i] \in V[i]
    <3>1. f[i - 1] \in Market /\ Handed(m, i - 1, f[i - 1])
      BY <1>4, <1>5, <2>2
    <3>2. Body(f[i - 1], i) \in Market /\ Handed(m, i, Body(f[i - 1], i))
      BY <1>3, <3>1
    <3> QED BY <1>4, <1>5, <1>10, <3>2
  <2> QED BY <2>1, <2>2
<1>12. StaysIn(f, n, V)
  BY <1>2, <1>11, RecursionStays
<1>13. n \in 0 .. n
  BY <1>2
<1>14. Handed(m, n, f[n])
  BY <1>4, <1>12, <1>13 DEF StaysIn
<1> QED BY <1>1, <1>14 DEF n

\* What a step does with the jobs: the due ones are done, all others are as
\* they were, and each trader has what it was promised where it all fits.
LEMMA CompletedAre ==
  ASSUME NEW m, Sound(m), NEW e, e = CompleteJobs(m)
  PROVE  /\ Sound(e) /\ OnlyJobs(m, e) /\ DOMAIN e.jobs = DOMAIN m.jobs
         /\ \A id \in DOMAIN m.jobs :
              e.jobs[id] = IF id \in Due(m) THEN [m.jobs[id] EXCEPT !.status = "Done"]
                           ELSE m.jobs[id]
         /\ \A sym \in Commodities :
              m.issued[sym] + PromisedOf(m, Due(m), sym) <= MAX_UNITS =>
                \A t \in Traders :
                  e.held[t][sym] = m.held[t][sym]
                    + PromisedOf(m, {id \in Due(m) : m.jobs[id].trader = t}, sym)
<1> DEFINE n == m.next_job - 1
<1>1. DueTo(m, n) = Due(m) /\ \A t : DueToOf(m, n, t) = {id \in Due(m) : m.jobs[id].trader = t}
  <2>1. \A id \in Due(m) : id <= n
    BY DueAre
  <2> QED BY <2>1 DEF DueTo, DueToOf
<1> HIDE DEF n
<1>2. Handed(m, n, e)
  BY CompleteJobsAre DEF n
<1>3. DoneTo(m, n, e) /\ Sound(e) /\ OnlyJobs(m, e)
  BY <1>2 DEF Handed
<1>4. ASSUME NEW sym \in Commodities, m.issued[sym] + PromisedOf(m, Due(m), sym) <= MAX_UNITS,
             NEW t \in Traders
      PROVE  e.held[t][sym] = m.held[t][sym]
               + PromisedOf(m, {id \in Due(m) : m.jobs[id].trader = t}, sym)
  <2>1. HandedOf(m, n, e, sym)
    BY <1>2 DEF Handed
  <2>2. e.held[t][sym] = m.held[t][sym] + PromisedOf(m, DueToOf(m, n, t), sym)
    BY <1>4, <2>1 DEF HandedOf
  <2> QED BY <1>1, <2>2
<1> QED BY <1>1, <1>3, <1>4 DEF DoneTo

-----------------------------------------------------------------------------
(* Quotes redrawn *)

Sides == {"Buy", "Sell"}

\* Of market s, all that NPC n quotes was drawn in market m, at the places in
\* a set; what the others quote they quoted there.
Drawn(m, n, places, s) ==
  /\ Sound(s) /\ OnlyQuotes(m, s)
  /\ \A o \in s.book :
       IF o.trader = n THEN <<o.level, o.side>> \in places /\ o = QuoteAt(m, n, o.level, o.side)
       ELSE o \in m.book

\* An NPC, taken apart.
LEMMA NpcIs ==
  ASSUME NEW m, Sound(m), NEW n \in DOMAIN m.npcs
  PROVE  /\ n \in Range(Npcs) /\ n \in Traders /\ m.npcs[n] \in Npc
         /\ m.npcs[n].symbol \in Commodities /\ m.npcs[n].policy \in Policy
         /\ m.npcs[n].policy.levels \in Nat /\ m.npcs[n].policy.size \in Nat \ {0}
         /\ m.npcs[n].policy.requote \in Nat /\ m.price[m.npcs[n].symbol] \in Nat \ {0}
<1>1. m.npcs \in PartialFn(Range(Npcs), Npc) /\ m.price \in [Commodities -> 1 .. MaxPrice]
  BY FieldsAre
<1>2. n \in Range(Npcs) /\ m.npcs[n] \in Npc
  BY <1>1, PartialIs
<1> DEFINE npc == m.npcs[n]
           p == npc.policy
<1>3. npc.symbol \in Commodities /\ p \in Policy
  BY <1>2 DEF Npc
<1> HIDE DEF npc, p
<1>4. p.levels \in Nat /\ p.size \in Nat \ {0} /\ p.requote \in Nat
  BY <1>3 DEF Policy
<1>5. m.price[npc.symbol] \in Nat \ {0}
  <2> DEFINE ref == m.price[npc.symbol]
  <2>1. ref \in 1 .. MaxPrice
    BY <1>1, <1>3
  <2> HIDE DEF ref
  <2>2. MaxPrice \in Nat
    BY GoodsAssumption
  <2>3. ref \in Nat \ {0}
    BY <2>1, <2>2
  <2> QED BY <2>3 DEF ref
<1> QED BY <1>2, <1>3, <1>4, <1>5, PursesAre DEF npc, p

\* What an NPC's quotes are sized, for what the world wants.
LEMMA SizeIs ==
  ASSUME NEW m, Sound(m), NEW n \in DOMAIN m.npcs
  PROVE  SizeNow(m, n) \in Nat \ {0}
<1> DEFINE bps == MultiplierBps(m, "Demand", m.npcs[n].symbol)
           size == m.npcs[n].policy.size
<1>1. bps \in Nat
  BY FieldsAre, MultiplierIs
<1>2. size \in Nat /\ size # 0
  BY NpcIs
<1>3. SizeNow(m, n) = ScaledQty(size, bps)
  BY DEF SizeNow
<1> HIDE DEF bps, size
<1>4. ScaledQty(size, bps) \in Nat /\ ScaledQty(size, bps) # 0
  BY <1>1, <1>2, ScaledQtyIs
<1> QED BY <1>3, <1>4

\* The quote at a level and side is one.
LEMMA QuoteAtIs ==
  ASSUME NEW m, Sound(m), NEW n \in DOMAIN m.npcs, NEW k \in Nat, NEW side \in Sides
  PROVE  /\ QuoteAt(m, n, k, side) \in Quote /\ QuoteAt(m, n, k, side).trader = n
         /\ QuoteAt(m, n, k, side).symbol = m.npcs[n].symbol
         /\ QuoteAt(m, n, k, side).side = side /\ QuoteAt(m, n, k, side).level = k
<1> DEFINE sym == m.npcs[n].symbol
           qty == SizeNow(m, n)
           price == LevelPrice(m.npcs[n].policy, side, m.price[sym], k)
           q == [trader |-> n, symbol |-> sym, side |-> side, level |-> k, qty |-> qty,
                 price |-> price]
<1>1. QuoteAt(m, n, k, side) = q
  BY DEF QuoteAt
<1>2. n \in Range(Npcs) /\ sym \in Commodities /\ qty \in Nat \ {0} /\ side \in {"Buy", "Sell"}
  BY NpcIs, SizeIs DEF Sides
<1>3. price \in Nat \ {0}
  BY NpcIs, LevelPriceIs
<1> HIDE DEF sym, qty, price
<1>4. q \in Quote
  BY <1>2, <1>3 DEF Quote
<1> QED BY <1>1, <1>4 DEF sym

\* A quote more, at a place none was drawn at yet.
LEMMA DrawnMore ==
  ASSUME NEW m, Sound(m), NEW n \in DOMAIN m.npcs, m.npcs[n].active,
         NEW places, NEW s, Drawn(m, n, places, s), NEW k \in Nat, NEW side \in Sides,
         <<k, side>> \notin places, NEW e, e = PlaceQuote(s, QuoteAt(m, n, k, side))
  PROVE  Drawn(m, n, places \cup {<<k, side>>}, e)
<1> DEFINE o == QuoteAt(m, n, k, side)
<1>1. /\ o \in Quote /\ o.trader = n /\ o.symbol = m.npcs[n].symbol
      /\ o.side = side /\ o.level = k
  BY QuoteAtIs
<1>2. Sound(s) /\ OnlyQuotes(m, s) /\ s.npcs = m.npcs
  BY DEF Drawn, OnlyQuotes
<1>8. e = PlaceQuote(s, o)
  OBVIOUS
<1> HIDE DEF o
<1>3. \A p \in s.book : ~SamePlace(o, p)
  BY <1>1 DEF Drawn, SamePlace
<1>4. Fits(s, o)
  BY <1>1, <1>2, <1>3 DEF Fits
<1>5. Sound(e) /\ OnlyQuotes(s, e) /\ (e.book = s.book \/ e.book = s.book \cup {o})
  BY <1>2, <1>4, <1>8, PlaceQuoteKeeps
<1>6. OnlyQuotes(m, e)
  BY <1>2, <1>5 DEF OnlyQuotes, SameUnits, SameShop, SameJobs, SameTimes
<1>7. ASSUME NEW p \in e.book
      PROVE  IF p.trader = n
             THEN <<p.level, p.side>> \in places \cup {<<k, side>>}
                  /\ p = QuoteAt(m, n, p.level, p.side)
             ELSE p \in m.book
  <2>1. CASE p \in s.book
    BY <2>1 DEF Drawn
  <2>2. CASE p = o
    <3>1. p = QuoteAt(m, n, k, side)
      BY <2>2 DEF o
    <3>2. p.trader = n /\ p.level = k /\ p.side = side
      BY <1>1, <2>2
    <3> QED BY <3>1, <3>2
  <2> QED BY <1>5, <2>1, <2>2
<1> QED BY <1>5, <1>6, <1>7 DEF Drawn

\* The places up to level k.
PlacesTo(k) == {<<i, side>> : i \in {j \in Nat : j < k}, side \in Sides}

\* One level more is two places more: its bid's and its ask's.
LEMMA PlacesMore ==
  ASSUME NEW k \in Nat \ {0}
  PROVE  /\ PlacesTo(k) = (PlacesTo(k - 1) \cup {<<k - 1, "Buy">>}) \cup {<<k - 1, "Sell">>}
         /\ <<k - 1, "Buy">> \notin PlacesTo(k - 1)
         /\ <<k - 1, "Sell">> \notin PlacesTo(k - 1) \cup {<<k - 1, "Buy">>}
<1>1. \A j \in Nat : j < k <=> j < k - 1 \/ j = k - 1
  OBVIOUS
<1>2. \A i, side : <<i, side>> \in PlacesTo(k) <=> i \in Nat /\ i < k /\ side \in Sides
  BY DEF PlacesTo
<1>3. \A i, side : <<i, side>> \in PlacesTo(k - 1) <=> i \in Nat /\ i < k - 1 /\ side \in Sides
  BY DEF PlacesTo
<1>4. k - 1 \in Nat /\ ~(k - 1 < k - 1)
  OBVIOUS
<1>5. <<k - 1, "Buy">> \notin PlacesTo(k - 1) /\ <<k - 1, "Sell">> \notin PlacesTo(k - 1)
  BY <1>3, <1>4
<1>6. <<k - 1, "Sell">> # <<k - 1, "Buy">>
  OBVIOUS
<1>7. PlacesTo(k) \subseteq (PlacesTo(k - 1) \cup {<<k - 1, "Buy">>}) \cup {<<k - 1, "Sell">>}
  <2> SUFFICES ASSUME NEW i \in Nat, i < k, NEW side \in Sides
               PROVE  <<i, side>> \in (PlacesTo(k - 1) \cup {<<k - 1, "Buy">>})
                                        \cup {<<k - 1, "Sell">>}
    BY DEF PlacesTo
  <2>1. CASE i < k - 1
    BY <1>3, <2>1
  <2>2. CASE i = k - 1
    BY <2>2 DEF Sides
  <2> QED BY <1>1, <2>1, <2>2
<1>8. PlacesTo(k - 1) \subseteq PlacesTo(k)
  <2> SUFFICES ASSUME NEW i \in Nat, i < k - 1, NEW side \in Sides
               PROVE  <<i, side>> \in PlacesTo(k)
    BY DEF PlacesTo
  <2> QED BY <1>1, <1>2
<1>9. <<k - 1, "Buy">> \in PlacesTo(k) /\ <<k - 1, "Sell">> \in PlacesTo(k)
  BY <1>1, <1>2, <1>4 DEF Sides
<1> QED BY <1>5, <1>6, <1>7, <1>8, <1>9

\* All that an NPC has out is withdrawn, and what it then has out is new.
LEMMA RedrawnIs ==
  ASSUME NEW m, Sound(m), NEW n \in DOMAIN m.npcs, m.npcs[n].active
  PROVE  Drawn(m, n, PlacesTo(m.npcs[n].policy.levels), Redrawn(m, n))
<1> DEFINE l == m.npcs[n].policy.levels
           v0 == CancelAll(m, {n})
           Body(v, k) == PlaceQuote(PlaceQuote(v, QuoteAt(m, n, k - 1, "Buy")),
                                    QuoteAt(m, n, k - 1, "Sell"))
           V == [k \in 0 .. l |-> {s \in Market : Drawn(m, n, PlacesTo(k), s)}]
           step == [k \in 1 .. l |-> [v \in Market |-> Body(v, k)]]
           f == CHOOSE f : f = [k \in 0 .. l |-> IF k = 0 THEN v0 ELSE Body(f[k - 1], k)]
<1>1. Redrawn(m, n) = f[l]
  BY DEF Redrawn
<1>2. l \in Nat
  BY NpcIs
<1> HIDE DEF l
<1>3. ASSUME NEW k \in 1 .. l, NEW v \in Market, Drawn(m, n, PlacesTo(k - 1), v)
      PROVE  step[k][v] = Body(v, k) /\ Body(v, k) \in Market
             /\ Drawn(m, n, PlacesTo(k), Body(v, k))
  <2>1. k \in Nat \ {0} /\ k - 1 \in Nat /\ "Buy" \in Sides /\ "Sell" \in Sides
    BY <1>2 DEF Sides
  <2> DEFINE one == PlacesTo(k - 1) \cup {<<k - 1, "Buy">>}
             b == PlaceQuote(v, QuoteAt(m, n, k - 1, "Buy"))
  <2>2. /\ PlacesTo(k) = one \cup {<<k - 1, "Sell">>}
        /\ <<k - 1, "Buy">> \notin PlacesTo(k - 1) /\ <<k - 1, "Sell">> \notin one
    BY <2>1, PlacesMore
  <2>3. Drawn(m, n, one, b)
    BY <1>3, <2>1, <2>2, DrawnMore
  <2> HIDE DEF one, b
  <2>4. Drawn(m, n, one \cup {<<k - 1, "Sell">>}, PlaceQuote(b, QuoteAt(m, n, k - 1, "Sell")))
    BY <2>1, <2>2, <2>3, DrawnMore
  <2>5. Drawn(m, n, PlacesTo(k), Body(v, k))
    BY <2>2, <2>4 DEF b
  <2> HIDE DEF Body
  <2>6. Body(v, k) \in Market
    BY <2>5, FieldsAre DEF Drawn
  <2> QED BY <2>5, <2>6
<1> HIDE DEF Body
<1>4. \A i \in 0 .. l : \A v : v \in V[i] <=> v \in Market /\ Drawn(m, n, PlacesTo(i), v)
  OBVIOUS
<1> HIDE DEF V, step
<1>5. 0 \in 0 .. l /\ \A i \in 1 .. l : i - 1 \in 0 .. l /\ i \in 0 .. l /\ i # 0
  BY <1>2
<1>6. v0 \in V[0]
  <2>1. /\ Sound(v0) /\ OnlyQuotes(m, v0)
        /\ v0.book = {o \in m.book : o.trader \notin {n}}
    BY CancelAllKeeps
  <2> HIDE DEF v0
  <2>2. Drawn(m, n, PlacesTo(0), v0)
    BY <2>1 DEF Drawn
  <2>3. v0 \in Market
    BY <2>1, FieldsAre
  <2> QED BY <1>4, <1>5, <2>2, <2>3
<1> HIDE DEF v0
<1>7. PICK g : Recursive(g, l, v0, step) /\ StaysIn(g, l, V)
  <2>1. StepsIn(step, l, V)
    BY <1>3, <1>4, <1>5 DEF StepsIn
  <2> QED BY <1>2, <1>6, <2>1, RecursionExists
<1>8. g = [i \in 0 .. l |-> IF i = 0 THEN v0 ELSE Body(g[i - 1], i)]
  <2>1. \A i \in 1 .. l : step[i][g[i - 1]] = Body(g[i - 1], i)
    BY <1>3, <1>4, <1>5, <1>7 DEF StaysIn
  <2>2. \A i \in 0 .. l : i # 0 => i \in 1 .. l
    BY <1>2
  <2>3. \A i \in 0 .. l : (IF i = 0 THEN v0 ELSE step[i][g[i - 1]])
                            = (IF i = 0 THEN v0 ELSE Body(g[i - 1], i))
    BY <2>1, <2>2
  <2> QED BY <1>7, <2>3 DEF Recursive
<1>9. f = [i \in 0 .. l |-> IF i = 0 THEN v0 ELSE Body(f[i - 1], i)]
  BY <1>8
<1> HIDE DEF f
<1>10. /\ f[0] = v0 /\ \A i \in 1 .. l : f[i] = Body(f[i - 1], i)
  BY <1>2, <1>5, <1>9
<1>11. f[0] \in V[0] /\ \A i \in 1 .. l : f[i - 1] \in V[i - 1] => f[i] \in V[i]
  <2>1. f[0] \in V[0]
    BY <1>6, <1>10
  <2>2. ASSUME NEW i \in 1 .. l, f[i - 1] \in V[i - 1]
        PROVE  f[i] \in V[i]
    <3>1. f[i - 1] \in Market /\ Drawn(m, n, PlacesTo(i - 1), f[i - 1])
      BY <1>4, <1>5, <2>2
    <3>2. Body(f[i - 1], i) \in Market /\ Drawn(m, n, PlacesTo(i), Body(f[i - 1], i))
      BY <1>3, <3>1
    <3> QED BY <1>4, <1>5, <1>10, <3>2
  <2> QED BY <2>1, <2>2
<1>12. StaysIn(f, l, V)
  BY <1>2, <1>11, RecursionStays
<1>13. l \in 0 .. l
  BY <1>2
<1>14. Drawn(m, n, PlacesTo(l), f[l])
  BY <1>4, <1>12, <1>13 DEF StaysIn
<1> QED BY <1>1, <1>14 DEF l

-----------------------------------------------------------------------------
(* Quotes that follow the market *)

\* Each quote is where its NPC last drew it, and no larger.
Follows(m) ==
  \A o \in m.book :
    /\ o.price = LevelPrice(m.npcs[o.trader].policy, o.side, m.npcs[o.trader].quoted_ref, o.level)
    /\ o.qty <= m.npcs[o.trader].quoted_size

\* A quote is of the size its NPC last drew them, or it has rested since.
Whole(m, e) ==
  \A o \in e.book :
    \/ o.qty = e.npcs[o.trader].quoted_size
    \/ o \in m.book /\ e.npcs[o.trader] = m.npcs[o.trader]

\* What is whole, or has rested since what was, is whole or has rested since.
LEMMA WholeTwice ==
  ASSUME NEW m, NEW s, NEW e, Whole(m, s), Whole(s, e)
  PROVE  Whole(m, e)
BY DEF Whole

\* The reference an NPC last drew its quotes around is within its band of the
\* market's, and the size is what the world wants now.
InBand(policy, quoted, reference) ==
  Max({reference - quoted, quoted - reference}) * BPS <= policy.requote * quoted

Fresh(m, n) ==
  m.npcs[n].active /\ m.npcs[n].symbol \notin m.halted =>
    /\ InBand(m.npcs[n].policy, m.npcs[n].quoted_ref, m.price[m.npcs[n].symbol])
    /\ m.npcs[n].quoted_size = SizeNow(m, n)

\* Only the table of NPCs has changed, and none is switched off.
LEMMA NpcsAside ==
  ASSUME NEW m, Sound(m), NEW npcs \in PartialFn(Range(Npcs), Npc),
         DOMAIN m.npcs \subseteq DOMAIN npcs,
         \A n \in DOMAIN m.npcs : /\ npcs[n].symbol = m.npcs[n].symbol
                                  /\ m.npcs[n].active => npcs[n].active,
         NEW e, e = [m EXCEPT !.npcs = npcs]
  PROVE  /\ Sound(e) /\ e.npcs = npcs /\ e.wallets = m.wallets /\ SameUnits(m, e)
         /\ SameBook(m, e) /\ SameShop(m, e) /\ SameJobs(m, e) /\ SameTimes(m, e)
<1>1. m \in Market /\ IsFiniteSet(m.book)
  BY FieldsAre
<1>2. e \in Market /\ e.npcs = npcs /\ e.wallets = m.wallets
  BY <1>1 DEF Market
<1>3. /\ SameUnits(m, e) /\ SameBook(m, e) /\ SameShop(m, e) /\ SameJobs(m, e) /\ SameTimes(m, e)
  BY <1>1 DEF Market, SameUnits, SameBook, SameShop, SameJobs, SameTimes
<1>4. \A id \in DOMAIN m.jobs : id < m.next_job
  BY DEF Sound, Formed
<1>5. Formed(e)
  BY <1>1, <1>2, <1>3, <1>4 DEF Formed, SameBook, SameJobs
<1>6. Sound(e)
  BY <1>2, <1>3, <1>5, AsideKeeps
<1> QED BY <1>2, <1>3, <1>6

\* One NPC's line of the table changes, and it is still one.
LEMMA NpcLineIs ==
  ASSUME NEW m, Sound(m), NEW n \in DOMAIN m.npcs, NEW npc \in Npc,
         NEW npcs, npcs = [m.npcs EXCEPT ![n] = npc]
  PROVE  /\ npcs \in PartialFn(Range(Npcs), Npc) /\ DOMAIN npcs = DOMAIN m.npcs
         /\ npcs[n] = npc /\ \A i \in DOMAIN m.npcs : i # n => npcs[i] = m.npcs[i]
<1>1. m.npcs \in PartialFn(Range(Npcs), Npc)
  BY FieldsAre
<1>2. DOMAIN m.npcs \subseteq Range(Npcs) /\ m.npcs \in [DOMAIN m.npcs -> Npc]
  BY <1>1, PartialIs
<1>3. npcs \in [DOMAIN m.npcs -> Npc] /\ DOMAIN npcs = DOMAIN m.npcs
      /\ npcs[n] = npc /\ \A i \in DOMAIN m.npcs : i # n => npcs[i] = m.npcs[i]
  BY <1>2
<1>4. npcs \in PartialFn(Range(Npcs), Npc)
  BY <1>2, <1>3, PartialIs
<1> QED BY <1>3, <1>4

\* A reference is within any band of itself.
LEMMA BandAt ==
  ASSUME NEW policy \in Policy, NEW ref \in Nat
  PROVE  InBand(policy, ref, ref)
<1> DEFINE r == policy.requote
<1>1. r \in Nat
  BY DEF Policy
<1>2. Max({ref - ref, ref - ref}) = 0
  BY MaxOfTwo
<1> HIDE DEF r
<1>3. 0 * BPS = 0
  BY DEF BPS
<1>4. r * ref \in Nat
  BY <1>1, NatTimes
<1>5. InBand(policy, ref, ref) <=> 0 * BPS <= r * ref
  BY <1>2 DEF InBand, r
<1> QED BY <1>3, <1>4, <1>5

\* What NPCs have as their last quotes, of one of them, has changed.
OnlyQuoted(m, e, n) ==
  /\ SameUnits(m, e) /\ SameShop(m, e) /\ SameJobs(m, e) /\ SameTimes(m, e)
  /\ DOMAIN e.npcs = DOMAIN m.npcs
  /\ \A i \in DOMAIN m.npcs : /\ i # n => e.npcs[i] = m.npcs[i]
                              /\ e.npcs[i].symbol = m.npcs[i].symbol
                              /\ e.npcs[i].policy = m.npcs[i].policy
                              /\ e.npcs[i].active = m.npcs[i].active

\* What is drawn has the price of its level and the size of now.
LEMMA QuoteAtHas ==
  ASSUME NEW m, NEW n, NEW k, NEW side, NEW o, o = QuoteAt(m, n, k, side)
  PROVE  /\ o.qty = SizeNow(m, n)
         /\ o.price = LevelPrice(m.npcs[n].policy, side, m.price[m.npcs[n].symbol], k)
BY DEF QuoteAt

\* An NPC that is at work looks at what it has out, and draws it anew if the
\* market has moved, a quote was taken, or its stock or size has changed.
LEMMA RequoteKeeps ==
  ASSUME NEW m, Sound(m), Follows(m), NEW n \in DOMAIN m.npcs, NEW e, e = Requote(m, n)
  PROVE  /\ Sound(e) /\ Follows(e) /\ OnlyQuoted(m, e, n) /\ Fresh(e, n)
         /\ Whole(m, e)
<1> DEFINE npc == m.npcs[n]
           sym == npc.symbol
           ref == m.price[sym]
           size == SizeNow(m, n)
           s == Redrawn(m, n)
           orders == Cardinality(QuotesOf(s, n))
           stock == FreeUnits(s, n, sym)
           good == /\ StillGood(npc.policy, npc.quoted_ref, ref)
                   /\ Cardinality(QuotesOf(m, n)) = npc.quoted_orders
                   /\ size = npc.quoted_size
                   /\ FreeUnits(m, n, sym) = npc.quoted_stock
           now == [npc EXCEPT !.quoted_ref = ref, !.quoted_orders = orders,
                              !.quoted_size = size, !.quoted_stock = stock]
           drawn == [s EXCEPT !.npcs[n] = now]
<1>1. e = IF ~npc.active \/ sym \in m.halted \/ good THEN m ELSE drawn
  BY DEF Requote
<1>2. /\ n \in Range(Npcs) /\ n \in Traders /\ npc \in Npc /\ sym \in Commodities
      /\ npc.policy \in Policy /\ ref \in Nat /\ size \in Nat
  BY NpcIs, SizeIs
<1> HIDE DEF drawn, s, orders, stock
<1>3. CASE ~npc.active \/ sym \in m.halted \/ good
  <2>1. e = m
    BY <1>1, <1>3
  <2>2. good => InBand(npc.policy, npc.quoted_ref, ref) /\ npc.quoted_size = size
    BY DEF StillGood, InBand
  <2>3. Fresh(m, n)
    BY <1>3, <2>2 DEF Fresh
  <2>4. OnlyQuoted(m, m, n)
    BY DEF OnlyQuoted, SameUnits, SameShop, SameJobs, SameTimes
  <2>5. Whole(m, m)
    BY DEF Whole
  <2> QED BY <2>1, <2>3, <2>4, <2>5
<1>4. CASE ~(~npc.active \/ sym \in m.halted \/ good)
  <2>1. e = drawn /\ npc.active
    BY <1>1, <1>4
  <2>2. Drawn(m, n, PlacesTo(npc.policy.levels), s)
    BY <2>1, RedrawnIs DEF s
  <2>3. Sound(s) /\ OnlyQuotes(m, s) /\ s.npcs = m.npcs
    BY <2>2 DEF Drawn, OnlyQuotes
  <2>4. orders \in Nat /\ stock \in Nat
    <3>1. IsFiniteSet(QuotesOf(s, n))
      <4>1. QuotesOf(s, n) \subseteq s.book /\ IsFiniteSet(s.book)
        BY <2>3, FieldsAre DEF QuotesOf
      <4> QED BY <4>1, FS_Subset
    <3>2. orders \in Nat
      BY <3>1, FS_CardinalityType DEF orders
    <3>3. s.held[n][sym] \in Nat /\ s.reserved_units[n][sym] \in Nat
      BY <1>2, <2>3, FieldsAre DEF Units
    <3> QED BY <3>2, <3>3, FreeIs DEF stock
  <2>5. now \in Npc /\ now.symbol = sym /\ now.policy = npc.policy /\ now.active = npc.active
        /\ now.quoted_ref = ref /\ now.quoted_size = size
    <3> HIDE DEF npc, sym, ref, size
    <3>1. now \in Npc
      BY <1>2, <2>4 DEF Npc
    <3>2. /\ now.symbol = npc.symbol /\ now.policy = npc.policy /\ now.active = npc.active
          /\ now.quoted_ref = ref /\ now.quoted_size = size
      BY <1>2 DEF Npc
    <3> QED BY <3>1, <3>2 DEF sym
  <2> HIDE DEF now
  <2> DEFINE npcs == [s.npcs EXCEPT ![n] = now]
  <2>6. drawn = [s EXCEPT !.npcs = npcs]
    BY DEF drawn
  <2>7. /\ npcs \in PartialFn(Range(Npcs), Npc) /\ DOMAIN npcs = DOMAIN m.npcs
        /\ npcs[n] = now /\ \A i \in DOMAIN m.npcs : i # n => npcs[i] = m.npcs[i]
    BY <2>3, <2>5, NpcLineIs
  <2> HIDE DEF npcs
  <2>8. \A i \in DOMAIN m.npcs : /\ npcs[i].symbol = m.npcs[i].symbol
                                 /\ npcs[i].policy = m.npcs[i].policy
                                 /\ npcs[i].active = m.npcs[i].active
    BY <2>5, <2>7
  <2>9. /\ Sound(e) /\ e.npcs = npcs /\ SameUnits(s, e) /\ SameBook(s, e)
        /\ SameShop(s, e) /\ SameJobs(s, e) /\ SameTimes(s, e)
    BY <2>1, <2>3, <2>6, <2>7, <2>8, NpcsAside
  <2>10. /\ SameUnits(m, e) /\ SameShop(m, e) /\ SameJobs(m, e) /\ SameTimes(m, e)
    BY <2>3, <2>9 DEF OnlyQuotes, SameUnits, SameShop, SameJobs, SameTimes
  <2>11. OnlyQuoted(m, e, n)
    BY <2>7, <2>8, <2>9, <2>10 DEF OnlyQuoted
  <2>12. Fresh(e, n)
    <3>1. e.price = m.price /\ e.now = m.now /\ e.world = m.world
      BY <2>10 DEF SameTimes
    <3>2. e.npcs[n] = now
      BY <2>7, <2>9
    <3>3. SizeNow(e, n) = size
      BY <2>5, <3>1, <3>2 DEF SizeNow, MultiplierBps
    <3>4. InBand(npc.policy, ref, ref)
      BY <1>2, BandAt
    <3> QED BY <2>5, <3>1, <3>2, <3>3, <3>4 DEF Fresh
  <2>13. Follows(e) /\ Whole(m, e)
    <3> SUFFICES ASSUME NEW o \in e.book
                 PROVE  /\ o.price = LevelPrice(e.npcs[o.trader].policy, o.side,
                                                e.npcs[o.trader].quoted_ref, o.level)
                        /\ o.qty <= e.npcs[o.trader].quoted_size
                        /\ \/ o.qty = e.npcs[o.trader].quoted_size
                           \/ o \in m.book /\ e.npcs[o.trader] = m.npcs[o.trader]
      BY DEF Follows, Whole
    <3>1. o \in s.book
      BY <2>9 DEF SameBook
    <3>2. CASE o.trader = n
      <4>1. o = QuoteAt(m, n, o.level, o.side)
        BY <2>2, <3>1, <3>2 DEF Drawn
      <4>2. o.qty = size /\ o.price = LevelPrice(npc.policy, o.side, ref, o.level)
        BY <4>1, QuoteAtHas
      <4>3. e.npcs[o.trader] = now
        BY <2>7, <2>9, <3>2
      <4> QED BY <1>2, <2>5, <4>2, <4>3
    <3>3. CASE o.trader # n
      <4>1. o \in m.book
        BY <2>2, <3>1, <3>3 DEF Drawn
      <4>2. o.trader \in DOMAIN m.npcs
        BY <4>1 DEF Sound, Placed
      <4>3. e.npcs[o.trader] = m.npcs[o.trader]
        BY <2>7, <2>9, <3>3, <4>2
      <4> QED BY <4>1, <4>3 DEF Follows
    <3> QED BY <3>2, <3>3
  <2> QED BY <2>9, <2>11, <2>12, <2>13
<1> QED BY <1>3, <1>4

\* Another NPC's quotes do not make an NPC's old ones stale.
LEMMA FreshStays ==
  ASSUME NEW m, NEW j \in DOMAIN m.npcs, Fresh(m, j), NEW n, j # n, NEW e, OnlyQuoted(m, e, n)
  PROVE  Fresh(e, j)
<1>1. e.npcs[j] = m.npcs[j]
  BY DEF OnlyQuoted
<1>2. e.price = m.price /\ e.halted = m.halted /\ e.now = m.now /\ e.world = m.world
  BY DEF OnlyQuoted, SameTimes
<1>3. SizeNow(e, j) = SizeNow(m, j)
  BY <1>1, <1>2 DEF SizeNow, MultiplierBps
<1> QED BY <1>1, <1>2, <1>3 DEF Fresh

\* The first i NPCs have looked at their quotes.
SameRest(m, s) ==
  SameUnits(m, s) /\ SameShop(m, s) /\ SameJobs(m, s) /\ SameTimes(m, s)

Renewed(m, i, s) ==
  /\ Sound(s) /\ Follows(s) /\ Whole(m, s) /\ SameRest(m, s) /\ DOMAIN s.npcs = DOMAIN m.npcs
  /\ \A j \in 1 .. i : Npcs[j] \in DOMAIN m.npcs => Fresh(s, Npcs[j])

\* One NPC more that requotes is fresh, and those before it stay so.
LEMMA RenewedMore ==
  ASSUME NEW m, NEW i \in Nat \ {0}, NEW s, Renewed(m, i - 1, s),
         NEW e, e = IF Npcs[i] \in DOMAIN m.npcs THEN Requote(s, Npcs[i]) ELSE s
  PROVE  Renewed(m, i, e)
<1>1. \A j \in 1 .. i : j # i => j \in 1 .. i - 1
  OBVIOUS
<1>2. CASE Npcs[i] \notin DOMAIN m.npcs
  <2>1. e = s
    BY <1>2
  <2>2. \A j \in 1 .. i : Npcs[j] \in DOMAIN m.npcs => Fresh(s, Npcs[j])
    BY <1>1, <1>2 DEF Renewed
  <2> QED BY <2>1, <2>2 DEF Renewed
<1>3. CASE Npcs[i] \in DOMAIN m.npcs
  <2> DEFINE n == Npcs[i]
  <2>1. e = Requote(s, n) /\ n \in DOMAIN s.npcs /\ Sound(s) /\ Follows(s)
    BY <1>3 DEF Renewed
  <2> HIDE DEF n
  <2>2. Sound(e) /\ Follows(e) /\ OnlyQuoted(s, e, n) /\ Fresh(e, n) /\ Whole(s, e)
    BY <2>1, RequoteKeeps
  <2>3. SameRest(m, e) /\ DOMAIN e.npcs = DOMAIN m.npcs
    BY <2>2 DEF Renewed, SameRest, OnlyQuoted, SameUnits, SameShop, SameJobs, SameTimes
  <2>4. ASSUME NEW j \in 1 .. i, Npcs[j] \in DOMAIN m.npcs
        PROVE  Fresh(e, Npcs[j])
    <3>1. CASE Npcs[j] = n
      BY <2>2, <3>1
    <3>2. CASE Npcs[j] # n
      <4>1. j \in 1 .. i - 1
        BY <1>1, <3>2 DEF n
      <4>2. Fresh(s, Npcs[j]) /\ Npcs[j] \in DOMAIN s.npcs
        BY <2>4, <4>1 DEF Renewed
      <4> QED BY <2>2, <3>2, <4>2, FreshStays
    <3> QED BY <3>1, <3>2
  <2>5. Whole(m, e)
    BY <2>2, WholeTwice DEF Renewed
  <2> QED BY <2>2, <2>3, <2>4, <2>5 DEF Renewed
<1> QED BY <1>2, <1>3

\* When every NPC has had its turn, the quotes of all of them are fresh.
LEMMA RequotedIs ==
  ASSUME NEW m, Sound(m), Follows(m)
  PROVE  Renewed(m, Len(Npcs), Requoted(m))
<1> DEFINE l == Len(Npcs)
           Body(v, i) == IF Npcs[i] \in DOMAIN m.npcs THEN Requote(v, Npcs[i]) ELSE v
           V == [i \in 0 .. l |-> {s \in Market : Renewed(m, i, s)}]
           step == [i \in 1 .. l |-> [v \in Market |-> Body(v, i)]]
           f == CHOOSE f : f = [i \in 0 .. l |-> IF i = 0 THEN m ELSE Body(f[i - 1], i)]
<1>1. Requoted(m) = f[l]
  BY DEF Requoted
<1>2. l \in Nat
  BY GoodsAssumption
<1> HIDE DEF l
<1>3. ASSUME NEW i \in 1 .. l, NEW v \in Market, Renewed(m, i - 1, v)
      PROVE  step[i][v] = Body(v, i) /\ Body(v, i) \in Market /\ Renewed(m, i, Body(v, i))
  <2>1. i \in Nat \ {0}
    BY <1>2
  <2>2. Renewed(m, i, Body(v, i))
    BY <1>3, <2>1, RenewedMore
  <2> HIDE DEF Body
  <2>3. Body(v, i) \in Market
    BY <2>2, FieldsAre DEF Renewed
  <2> QED BY <2>2, <2>3
<1> HIDE DEF Body
<1>4. \A i \in 0 .. l : \A v : v \in V[i] <=> v \in Market /\ Renewed(m, i, v)
  OBVIOUS
<1> HIDE DEF V, step
<1>5. 0 \in 0 .. l /\ \A i \in 1 .. l : i - 1 \in 0 .. l /\ i \in 0 .. l /\ i # 0
  BY <1>2
<1>6. m \in V[0]
  <2>1. Renewed(m, 0, m)
    BY DEF Renewed, Whole, SameRest, SameUnits, SameShop, SameJobs, SameTimes
  <2> QED BY <1>4, <1>5, <2>1, FieldsAre
<1>7. PICK g : Recursive(g, l, m, step) /\ StaysIn(g, l, V)
  <2>1. StepsIn(step, l, V)
    BY <1>3, <1>4, <1>5 DEF StepsIn
  <2> QED BY <1>2, <1>6, <2>1, RecursionExists
<1>8. g = [i \in 0 .. l |-> IF i = 0 THEN m ELSE Body(g[i - 1], i)]
  <2>1. \A i \in 1 .. l : step[i][g[i - 1]] = Body(g[i - 1], i)
    BY <1>3, <1>4, <1>5, <1>7 DEF StaysIn
  <2>2. \A i \in 0 .. l : i # 0 => i \in 1 .. l
    BY <1>2
  <2>3. \A i \in 0 .. l : (IF i = 0 THEN m ELSE step[i][g[i - 1]])
                            = (IF i = 0 THEN m ELSE Body(g[i - 1], i))
    BY <2>1, <2>2
  <2> QED BY <1>7, <2>3 DEF Recursive
<1>9. f = [i \in 0 .. l |-> IF i = 0 THEN m ELSE Body(f[i - 1], i)]
  BY <1>8
<1> HIDE DEF f
<1>10. /\ f[0] = m /\ \A i \in 1 .. l : f[i] = Body(f[i - 1], i)
  BY <1>2, <1>5, <1>9
<1>11. f[0] \in V[0] /\ \A i \in 1 .. l : f[i - 1] \in V[i - 1] => f[i] \in V[i]
  <2>1. f[0] \in V[0]
    BY <1>6, <1>10
  <2>2. ASSUME NEW i \in 1 .. l, f[i - 1] \in V[i - 1]
        PROVE  f[i] \in V[i]
    <3>1. f[i - 1] \in Market /\ Renewed(m, i - 1, f[i - 1])
      BY <1>4, <1>5, <2>2
    <3>2. Body(f[i - 1], i) \in Market /\ Renewed(m, i, Body(f[i - 1], i))
      BY <1>3, <3>1
    <3> QED BY <1>4, <1>5, <1>10, <3>2
  <2> QED BY <2>1, <2>2
<1>12. StaysIn(f, l, V)
  BY <1>2, <1>11, RecursionStays
<1>13. l \in 0 .. l
  BY <1>2
<1>14. Renewed(m, l, f[l])
  BY <1>4, <1>12, <1>13 DEF StaysIn
<1> QED BY <1>1, <1>14 DEF l

\* After it, no quote of an NPC is stale.
LEMMA RequotedAre ==
  ASSUME NEW m, Sound(m), Follows(m), NEW e, e = Requoted(m)
  PROVE  /\ Sound(e) /\ Follows(e) /\ Whole(m, e) /\ SameRest(m, e)
         /\ DOMAIN e.npcs = DOMAIN m.npcs
         /\ \A n \in DOMAIN e.npcs : Fresh(e, n)
<1>1. Renewed(m, Len(Npcs), e)
  BY RequotedIs
<1>2. ASSUME NEW n \in DOMAIN m.npcs PROVE Fresh(e, n)
  <2>1. n \in Range(Npcs) /\ Npcs \in Seq(Range(Npcs))
    BY NpcIs, GoodsAssumption
  <2>2. PICK j \in DOMAIN Npcs : n = Npcs[j]
    BY <2>1 DEF Range
  <2>3. j \in 1 .. Len(Npcs)
    BY <2>1, <2>2
  <2> QED BY <1>1, <2>2, <2>3 DEF Renewed
<1> QED BY <1>1, <1>2 DEF Renewed

-----------------------------------------------------------------------------
(* Producers restocked *)

\* What NPC n does to restock leaves alone.
Supplied(m, n, e) ==
  /\ Sound(e) /\ e.npcs = m.npcs /\ e.recipes = m.recipes /\ SameBook(m, e) /\ SameTimes(m, e)
  /\ OthersHold(m, e, n)

\* One line of what a recipe lacks, bought or refused.
LEMMA BuyKeeps ==
  ASSUME NEW m, NEW n \in DOMAIN m.npcs, NEW sofar \in [stocked : BOOLEAN, market : Market],
         Supplied(m, n, sofar.market), SameJobs(m, sofar.market), NEW sym \in Commodities,
         NEW need \in Nat, NEW e, e = Buy(sofar, n, sym, need)
  PROVE  /\ e \in [stocked : BOOLEAN, market : Market]
         /\ Supplied(m, n, e.market) /\ SameJobs(m, e.market)
<1> DEFINE v == sofar.market
           lack == Max({need - FreeUnits(v, n, sym), 0})
           p == Purchased(v, n, sym, lack)
<1>1. v \in Market /\ Sound(v) /\ v.npcs = m.npcs /\ n \in Players \cup DOMAIN v.npcs
  BY DEF Supplied
<1>2. lack \in Nat
  <2>1. n \in Traders
    BY <1>1, OpenAre
  <2>2. v.held[n][sym] \in Nat /\ v.reserved_units[n][sym] \in Nat
    BY <1>1, <2>1, FieldsAre DEF Units
  <2>3. FreeUnits(v, n, sym) \in Nat
    BY <2>2, FreeIs
  <2> DEFINE free == FreeUnits(v, n, sym)
  <2> HIDE DEF free
  <2>4. Max({need - free, 0}) = IF need - free >= 0 THEN need - free ELSE 0
    BY <2>3, MaxOfTwo DEF free
  <2>5. Max({need - free, 0}) \in Nat
    BY <2>3, <2>4 DEF free
  <2> QED BY <2>5 DEF free
<1>3. e = IF ~sofar.stocked \/ lack = 0 THEN sofar
          ELSE IF CanPurchase(v, n, sym, lack) THEN [sofar EXCEPT !.market = p]
          ELSE [sofar EXCEPT !.stocked = FALSE]
  BY DEF Buy
<1> HIDE DEF lack, p
<1>4. CASE e = sofar
  BY <1>4
<1>5. CASE e = [sofar EXCEPT !.stocked = FALSE]
  <2>1. e \in [stocked : BOOLEAN, market : Market] /\ e.market = v
    BY <1>5
  <2> QED BY <2>1
<1>6. CASE CanPurchase(v, n, sym, lack) /\ e = [sofar EXCEPT !.market = p]
  <2>1. /\ Sound(p) /\ p.npcs = v.npcs /\ p.recipes = v.recipes
        /\ SameBook(v, p) /\ SameJobs(v, p) /\ SameTimes(v, p) /\ OthersHold(v, p, n)
    BY <1>1, <1>2, <1>6, PurchaseKeeps DEF p
  <2>2. p \in Market
    BY <2>1, FieldsAre
  <2>3. e \in [stocked : BOOLEAN, market : Market] /\ e.market = p
    BY <1>6, <2>2
  <2>4. Supplied(m, n, p) /\ SameJobs(m, p)
    BY <2>1 DEF Supplied, SameBook, SameJobs, SameTimes, OthersHold
  <2> QED BY <2>3, <2>4
<1> QED BY <1>3, <1>4, <1>5, <1>6

\* What a recipe needs of each good it buys is a count.
LEMMA NeedsAre ==
  ASSUME NEW recipe \in Recipe, NEW runs \in Nat, NEW i \in 1 .. Len(recipe.needs)
  PROVE  recipe.needs[i] \in Commodities /\ recipe.inputs[recipe.needs[i]] * runs \in Nat
<1> DEFINE needs == recipe.needs
           inputs == recipe.inputs
<1>1. needs \in Seq(Commodities) /\ inputs \in Lines /\ Range(needs) = DOMAIN inputs
  BY DEF Recipe
<1>2. i \in 1 .. Len(needs)
  OBVIOUS
<1> HIDE DEF needs, inputs
<1>3. i \in DOMAIN needs /\ needs[i] \in Commodities
  BY <1>1, <1>2
<1>4. needs[i] \in DOMAIN inputs
  BY <1>1, <1>3 DEF Range
<1>5. inputs \in PartialFn(Commodities, Nat)
  BY <1>1, LinesAre
<1>6. inputs[needs[i]] \in Nat
  BY <1>4, <1>5, PartialIs
<1>7. inputs[needs[i]] * runs \in Nat
  BY <1>6, NatTimes
<1> QED BY <1>3, <1>7 DEF needs, inputs

\* What a producer lacks, line by line.
LEMMA BoughtIs ==
  ASSUME NEW m, Sound(m), NEW n \in DOMAIN m.npcs, NEW recipe \in Recipe, NEW runs \in Nat
  PROVE  Supplied(m, n, Bought(m, n, recipe, runs).market)
         /\ SameJobs(m, Bought(m, n, recipe, runs).market)
<1> DEFINE l == Len(recipe.needs)
           Held0 == [stocked : BOOLEAN, market : Market]
           v0 == [stocked |-> TRUE, market |-> m]
           Good(v) == v \in Held0 /\ Supplied(m, n, v.market) /\ SameJobs(m, v.market)
           Body(v, i) == Buy(v, n, recipe.needs[i], recipe.inputs[recipe.needs[i]] * runs)
           V == [i \in 0 .. l |-> {v \in Held0 : Good(v)}]
           step == [i \in 1 .. l |-> [v \in Held0 |-> Body(v, i)]]
           f == CHOOSE f : f = [i \in 0 .. l |-> IF i = 0 THEN v0 ELSE Body(f[i - 1], i)]
<1>1. Bought(m, n, recipe, runs) = f[l]
  BY DEF Bought
<1>2. l \in Nat
  <2> DEFINE needs == recipe.needs
  <2>1. needs \in Seq(Commodities)
    BY DEF Recipe
  <2> HIDE DEF needs
  <2>2. Len(needs) \in Nat
    BY <2>1
  <2> QED BY <2>2 DEF needs
<1>3. ASSUME NEW i \in 1 .. l, NEW v \in Held0, Good(v)
      PROVE  step[i][v] = Body(v, i) /\ Good(Body(v, i))
  <2>1. recipe.needs[i] \in Commodities /\ recipe.inputs[recipe.needs[i]] * runs \in Nat
    BY NeedsAre
  <2>2. Good(Body(v, i))
    BY <1>3, <2>1, BuyKeeps
  <2> HIDE DEF Body, Good, Held0
  <2> QED BY <2>2
<1>6. Good(v0)
  <2>1. Supplied(m, n, m) /\ SameJobs(m, m)
    BY DEF Supplied, SameBook, SameTimes, SameJobs, OthersHold
  <2>2. m \in Market
    BY FieldsAre
  <2> QED BY <2>1, <2>2
<1>14. \A v : Good(v) => v \in Held0 /\ Supplied(m, n, v.market) /\ SameJobs(m, v.market)
  OBVIOUS
<1> HIDE DEF l, Body, Good, Held0, v0
<1>4. \A i \in 0 .. l : \A v : v \in V[i] <=> v \in Held0 /\ Good(v)
  OBVIOUS
<1> HIDE DEF V, step
<1>5. 0 \in 0 .. l /\ \A i \in 1 .. l : i - 1 \in 0 .. l /\ i \in 0 .. l /\ i # 0
  BY <1>2
<1>7. PICK g : Recursive(g, l, v0, step) /\ StaysIn(g, l, V)
  <2>1. StepsIn(step, l, V)
    BY <1>3, <1>4, <1>5, <1>14 DEF StepsIn
  <2>2. v0 \in V[0]
    BY <1>4, <1>5, <1>6, <1>14
  <2> QED BY <1>2, <2>1, <2>2, RecursionExists
<1>8. g = [i \in 0 .. l |-> IF i = 0 THEN v0 ELSE Body(g[i - 1], i)]
  <2>1. \A i \in 1 .. l : step[i][g[i - 1]] = Body(g[i - 1], i)
    BY <1>3, <1>4, <1>5, <1>7 DEF StaysIn
  <2>2. \A i \in 0 .. l : i # 0 => i \in 1 .. l
    BY <1>2
  <2>3. \A i \in 0 .. l : (IF i = 0 THEN v0 ELSE step[i][g[i - 1]])
                            = (IF i = 0 THEN v0 ELSE Body(g[i - 1], i))
    BY <2>1, <2>2
  <2> QED BY <1>7, <2>3 DEF Recursive
<1>9. f = [i \in 0 .. l |-> IF i = 0 THEN v0 ELSE Body(f[i - 1], i)]
  BY <1>8
<1> HIDE DEF f
<1>10. /\ f[0] = v0 /\ \A i \in 1 .. l : f[i] = Body(f[i - 1], i)
  BY <1>2, <1>5, <1>9
<1>11. f[0] \in V[0] /\ \A i \in 1 .. l : f[i - 1] \in V[i - 1] => f[i] \in V[i]
  <2>1. f[0] \in V[0]
    BY <1>4, <1>5, <1>6, <1>10, <1>14
  <2>2. ASSUME NEW i \in 1 .. l, f[i - 1] \in V[i - 1]
        PROVE  f[i] \in V[i]
    <3>1. f[i - 1] \in Held0 /\ Good(f[i - 1])
      BY <1>4, <1>5, <2>2
    <3>2. Good(Body(f[i - 1], i))
      BY <1>3, <3>1
    <3> QED BY <1>4, <1>5, <1>10, <1>14, <3>2
  <2> QED BY <2>1, <2>2
<1>12. StaysIn(f, l, V)
  BY <1>2, <1>11, RecursionStays
<1>13. l \in 0 .. l
  BY <1>2
<1>15. Good(f[l])
  BY <1>4, <1>12, <1>13 DEF StaysIn
<1> QED BY <1>1, <1>14, <1>15

\* Jobs kept from one market to another and to a third.
LEMMA JobsKeptOn ==
  ASSUME NEW a, Sound(a), NEW b, Sound(b), NEW c, Sound(c), JobsKept(a, b), JobsKept(b, c)
  PROVE  JobsKept(a, c)
<1>1. a.next_job \in Nat /\ b.next_job \in Nat /\ c.next_job \in Nat
  BY FieldsAre
<1>2. \A id \in DOMAIN a.jobs : id < a.next_job
  BY DEF Sound, Formed
<1>3. DOMAIN a.jobs \subseteq Nat /\ DOMAIN b.jobs \subseteq Nat /\ DOMAIN c.jobs \subseteq Nat
  <2>1. /\ a.jobs \in PartialFn(Nat \ {0}, Job) /\ b.jobs \in PartialFn(Nat \ {0}, Job)
        /\ c.jobs \in PartialFn(Nat \ {0}, Job)
    BY FieldsAre
  <2>2. /\ DOMAIN a.jobs \subseteq Nat \ {0} /\ DOMAIN b.jobs \subseteq Nat \ {0}
        /\ DOMAIN c.jobs \subseteq Nat \ {0}
    BY <2>1, PartialIs
  <2> QED BY <2>2
<1>4. c.next_job >= a.next_job
  BY <1>1 DEF JobsKept
<1>5. ASSUME NEW id \in DOMAIN a.jobs
      PROVE  IF id \in DOMAIN c.jobs THEN c.jobs[id] = a.jobs[id]
             ELSE a.jobs[id].status # "Running"
  <2>1. CASE id \in DOMAIN b.jobs
    BY <2>1 DEF JobsKept
  <2>2. CASE id \notin DOMAIN b.jobs
    <3>1. a.jobs[id].status # "Running"
      BY <2>2 DEF JobsKept
    <3>2. id \notin DOMAIN c.jobs
      <4>1. id \in DOMAIN c.jobs => id >= b.next_job
        BY <2>2 DEF JobsKept
      <4>2. b.next_job >= a.next_job
        BY DEF JobsKept
      <4> QED BY <1>1, <1>2, <1>3, <4>1, <4>2
    <3> QED BY <3>1, <3>2
  <2> QED BY <2>1, <2>2
<1>6. ASSUME NEW id \in DOMAIN c.jobs \ DOMAIN a.jobs
      PROVE  id >= a.next_job
  <2>1. id \notin DOMAIN b.jobs => id >= b.next_job
    BY DEF JobsKept
  <2>2. id \in DOMAIN b.jobs => id >= a.next_job
    BY DEF JobsKept
  <2>3. b.next_job >= a.next_job /\ id \in Nat
    BY <1>3 DEF JobsKept
  <2> QED BY <1>1, <2>1, <2>2, <2>3
<1> QED BY <1>4, <1>5, <1>6 DEF JobsKept

\* A producer that has run low, taken at its word.
LEMMA RestockKeeps ==
  ASSUME NEW m, Sound(m), NEW n \in DOMAIN m.npcs, NEW e, e = Restock(m, n)
  PROVE  Supplied(m, n, e) /\ JobsKept(m, e)
<1> DEFINE npc == m.npcs[n]
           plan == npc.production[1]
           recipe == m.recipes[plan.recipe]
           b == Bought(m, n, recipe, plan.runs)
           s == Started(b.market, plan.recipe, n, plan.runs)
           low == /\ npc.active /\ npc.production # <<>>
                  /\ FreeUnits(m, n, npc.symbol) <= plan.restock_below
                  /\ Cardinality({id \in Running(m) : m.jobs[id].trader = n}) < plan.max_running
                  /\ plan.recipe \in DOMAIN m.recipes
<1>1. e = IF low THEN IF b.stocked /\ CanStart(b.market, plan.recipe, n, plan.runs) THEN s
                      ELSE b.market
          ELSE m
  BY DEF Restock
<1>2. m.next_job \in Nat
  BY FieldsAre
<1>3. CASE ~low
  <2>1. e = m
    BY <1>1, <1>3
  <2> QED BY <1>2, <2>1 DEF Supplied, JobsKept, SameBook, SameTimes, OthersHold
<1>4. CASE low
  <2>1. plan.runs \in Nat
    <3> DEFINE production == npc.production
    <3>1. npc \in Npc
      BY NpcIs
    <3>2. production \in Production
      BY <3>1 DEF Npc
    <3>3. production # <<>>
      BY <1>4
    <3> DEFINE Plan == [recipe : RecipeIds, restock_below : Nat, runs : Nat, max_running : Nat]
    <3>4. production \in Seq(Plan)
      BY <3>2 DEF Production
    <3>5. \A p \in Plan : p.runs \in Nat
      OBVIOUS
    <3> HIDE DEF production, Plan
    <3>6. production[1] \in Plan
      BY <3>3, <3>4
    <3> QED BY <3>5, <3>6 DEF production
  <2>2. recipe \in Recipe
    <3>1. m.recipes \in PartialFn(RecipeIds, Recipe) /\ plan.recipe \in DOMAIN m.recipes
      BY <1>4, FieldsAre
    <3> HIDE DEF plan
    <3> QED BY <3>1, PartialIs
  <2> DEFINE runs == plan.runs
             id == plan.recipe
             w == b.market
  <2>3. Supplied(m, n, w) /\ SameJobs(m, w)
    <3>1. \A q \in Nat : /\ Supplied(m, n, Bought(m, n, recipe, q).market)
                         /\ SameJobs(m, Bought(m, n, recipe, q).market)
      <4> HIDE DEF recipe
      <4> QED BY <2>2, BoughtIs
    <3>2. w = Bought(m, n, recipe, plan.runs).market
      OBVIOUS
    <3> HIDE DEF recipe, plan, b, w
    <3>3. /\ Supplied(m, n, Bought(m, n, recipe, plan.runs).market)
          /\ SameJobs(m, Bought(m, n, recipe, plan.runs).market)
      BY <2>1, <3>1
    <3> QED BY <3>2, <3>3
  <2>4. JobsKept(m, w)
    <3> HIDE DEF w
    <3> QED BY <1>2, <2>3 DEF JobsKept, SameJobs
  <2>5. e = (IF b.stocked /\ CanStart(w, id, n, runs) THEN s ELSE w)
        /\ s = Started(w, id, n, runs)
    BY <1>1, <1>4
  <2> HIDE DEF low, runs, id, w, s
  <2>6. CASE ~(b.stocked /\ CanStart(w, id, n, runs))
    BY <2>3, <2>4, <2>5, <2>6
  <2>7. CASE b.stocked /\ CanStart(w, id, n, runs)
    <3>1. Sound(w) /\ n \in Players \cup DOMAIN w.npcs /\ runs \in Nat
      BY <2>1, <2>3 DEF Supplied, runs
    <3>2. e = Started(w, id, n, runs)
      BY <2>5, <2>7
    <3>3. /\ Sound(e) /\ e.npcs = w.npcs /\ SameShop(w, e) /\ SameBook(w, e) /\ SameTimes(w, e)
          /\ JobsKept(w, e) /\ OthersHold(w, e, n)
      BY <2>7, <3>1, <3>2, StartKeeps
    <3>4. Supplied(m, n, e)
      BY <2>3, <3>3 DEF Supplied, SameBook, SameShop, SameTimes, OthersHold
    <3>5. JobsKept(m, e)
      BY <2>4, <3>1, <3>3, JobsKeptOn
    <3> QED BY <3>4, <3>5
  <2> QED BY <2>6, <2>7
<1> QED BY <1>3, <1>4

\* What all the producers together leave alone, the players' units among it.
AllSupplied(m, e) ==
  /\ Sound(e) /\ e.npcs = m.npcs /\ e.recipes = m.recipes /\ SameBook(m, e) /\ SameTimes(m, e)
  /\ JobsKept(m, e) /\ \A t \in Players : e.held[t] = m.held[t]

\* One producer more that restocks leaves what runs and what players hold.
LEMMA RestockedMore ==
  ASSUME NEW m, Sound(m), NEW n, NEW s, AllSupplied(m, s),
         NEW e, e = IF n \in DOMAIN m.npcs THEN Restock(s, n) ELSE s
  PROVE  AllSupplied(m, e)
<1>1. CASE n \notin DOMAIN m.npcs
  BY <1>1
<1>2. CASE n \in DOMAIN m.npcs
  <2>1. e = Restock(s, n) /\ Sound(s) /\ n \in DOMAIN s.npcs /\ JobsKept(m, s)
    BY <1>2 DEF AllSupplied
  <2>2. Supplied(s, n, e) /\ JobsKept(s, e)
    BY <2>1, RestockKeeps
  <2>3. Sound(e)
    BY <2>2 DEF Supplied
  <2>4. JobsKept(m, e)
    BY <2>1, <2>2, <2>3, JobsKeptOn
  <2>5. n \notin Players /\ Players \subseteq Traders
    <3>1. n \in Range(Npcs)
      BY <1>2, NpcIs
    <3> QED BY <3>1, GoodsAssumption, PursesAre
  <2>6. \A t \in Players : e.held[t] = m.held[t]
    BY <2>2, <2>5 DEF AllSupplied, Supplied, OthersHold
  <2> QED BY <2>2, <2>3, <2>4, <2>6 DEF AllSupplied, Supplied, SameBook, SameTimes
<1> QED BY <1>1, <1>2

\* Each producer in turn.
LEMMA RestockedIs ==
  ASSUME NEW m, Sound(m)
  PROVE  AllSupplied(m, Restocked(m))
<1> DEFINE l == Len(Npcs)
           Body(v, i) == IF Npcs[i] \in DOMAIN m.npcs THEN Restock(v, Npcs[i]) ELSE v
           V == [i \in 0 .. l |-> {s \in Market : AllSupplied(m, s)}]
           step == [i \in 1 .. l |-> [v \in Market |-> Body(v, i)]]
           f == CHOOSE f : f = [i \in 0 .. l |-> IF i = 0 THEN m ELSE Body(f[i - 1], i)]
<1>1. Restocked(m) = f[l]
  BY DEF Restocked
<1>2. l \in Nat
  BY GoodsAssumption
<1> HIDE DEF l
<1>3. ASSUME NEW i \in 1 .. l, NEW v \in Market, AllSupplied(m, v)
      PROVE  step[i][v] = Body(v, i) /\ Body(v, i) \in Market /\ AllSupplied(m, Body(v, i))
  <2>1. AllSupplied(m, Body(v, i))
    BY <1>3, RestockedMore
  <2> HIDE DEF Body
  <2>2. Body(v, i) \in Market
    BY <2>1, FieldsAre DEF AllSupplied
  <2> QED BY <2>1, <2>2
<1> HIDE DEF Body
<1>4. \A i \in 0 .. l : \A v : v \in V[i] <=> v \in Market /\ AllSupplied(m, v)
  OBVIOUS
<1> HIDE DEF V, step
<1>5. 0 \in 0 .. l /\ \A i \in 1 .. l : i - 1 \in 0 .. l /\ i \in 0 .. l /\ i # 0
  BY <1>2
<1>6. m \in V[0]
  <2>1. m \in Market /\ m.next_job \in Nat
    BY FieldsAre
  <2>2. AllSupplied(m, m)
    BY <2>1 DEF AllSupplied, JobsKept, SameBook, SameTimes
  <2> QED BY <1>4, <1>5, <2>1, <2>2
<1>7. PICK g : Recursive(g, l, m, step) /\ StaysIn(g, l, V)
  <2>1. StepsIn(step, l, V)
    BY <1>3, <1>4, <1>5 DEF StepsIn
  <2> QED BY <1>2, <1>6, <2>1, RecursionExists
<1>8. g = [i \in 0 .. l |-> IF i = 0 THEN m ELSE Body(g[i - 1], i)]
  <2>1. \A i \in 1 .. l : step[i][g[i - 1]] = Body(g[i - 1], i)
    BY <1>3, <1>4, <1>5, <1>7 DEF StaysIn
  <2>2. \A i \in 0 .. l : i # 0 => i \in 1 .. l
    BY <1>2
  <2>3. \A i \in 0 .. l : (IF i = 0 THEN m ELSE step[i][g[i - 1]])
                            = (IF i = 0 THEN m ELSE Body(g[i - 1], i))
    BY <2>1, <2>2
  <2> QED BY <1>7, <2>3 DEF Recursive
<1>9. f = [i \in 0 .. l |-> IF i = 0 THEN m ELSE Body(f[i - 1], i)]
  BY <1>8
<1> HIDE DEF f
<1>10. /\ f[0] = m /\ \A i \in 1 .. l : f[i] = Body(f[i - 1], i)
  BY <1>2, <1>5, <1>9
<1>11. f[0] \in V[0] /\ \A i \in 1 .. l : f[i - 1] \in V[i - 1] => f[i] \in V[i]
  <2>1. f[0] \in V[0]
    BY <1>6, <1>10
  <2>2. ASSUME NEW i \in 1 .. l, f[i - 1] \in V[i - 1]
        PROVE  f[i] \in V[i]
    <3>1. f[i - 1] \in Market /\ AllSupplied(m, f[i - 1])
      BY <1>4, <1>5, <2>2
    <3>2. Body(f[i - 1], i) \in Market /\ AllSupplied(m, Body(f[i - 1], i))
      BY <1>3, <3>1
    <3> QED BY <1>4, <1>5, <1>10, <3>2
  <2> QED BY <2>1, <2>2
<1>12. StaysIn(f, l, V)
  BY <1>2, <1>11, RecursionStays
<1>13. l \in 0 .. l
  BY <1>2
<1>14. AllSupplied(m, f[l])
  BY <1>4, <1>12, <1>13 DEF StaysIn
<1> QED BY <1>1, <1>14 DEF l

-----------------------------------------------------------------------------
(* A step *)

\* Quotes that are the same follow the market as they did.
LEMMA FollowsOn ==
  ASSUME NEW m, Follows(m), NEW e, e.book = m.book, e.npcs = m.npcs
  PROVE  Follows(e)
BY DEF Follows

\* Only what pulls on the world has changed.
LEMMA WorldAside ==
  ASSUME NEW m, Sound(m), NEW world \in Seq(Modifier), NEW e, e = [m EXCEPT !.world = world]
  PROVE  /\ Sound(e) /\ e.wallets = m.wallets /\ SameUnits(m, e) /\ SameBook(m, e)
         /\ SameShop(m, e) /\ SameJobs(m, e) /\ e.npcs = m.npcs /\ e.now = m.now
<1>1. m \in Market /\ IsFiniteSet(m.book)
  BY FieldsAre
<1>2. e \in Market /\ e.npcs = m.npcs /\ e.wallets = m.wallets /\ e.now = m.now
  BY <1>1 DEF Market
<1>3. SameUnits(m, e) /\ SameBook(m, e) /\ SameShop(m, e) /\ SameJobs(m, e)
  BY <1>1 DEF Market, SameUnits, SameBook, SameShop, SameJobs
<1>4. \A id \in DOMAIN m.jobs : id < m.next_job
  BY DEF Sound, Formed
<1>5. Formed(e)
  BY <1>1, <1>2, <1>3, <1>4 DEF Formed, SameBook, SameJobs
<1>6. Sound(e)
  BY <1>2, <1>3, <1>5, AsideKeeps
<1> QED BY <1>2, <1>3, <1>6

\* What a step does with running jobs: one that is due is done, and may drop
\* out of the log; each player has what it was promised where it all fits.
Delivering(m, e) ==
  /\ \A id \in Running(m) :
       IF id \in Due(m)
       THEN id \in DOMAIN e.jobs => e.jobs[id] = [m.jobs[id] EXCEPT !.status = "Done"]
       ELSE id \in DOMAIN e.jobs /\ e.jobs[id] = m.jobs[id]
  /\ \A sym \in Commodities :
       m.issued[sym] + PromisedOf(m, Due(m), sym) <= MAX_UNITS =>
         \A t \in Players :
           e.held[t][sym] = m.held[t][sym]
             + PromisedOf(m, {id \in Due(m) : m.jobs[id].trader = t}, sym)

\* An engine step keeps a market sound, delivers what is due, and leaves every
\* NPC's quotes fresh (Market::step).
LEMMA SteppedIs ==
  ASSUME NEW m, Sound(m), Follows(m), NEW e, e = Stepped(m)
  PROVE  /\ Sound(e) /\ Follows(e) /\ Whole(m, e) /\ Delivering(m, e) /\ e.now = m.now
         /\ \A n \in DOMAIN e.npcs : Fresh(e, n)
<1> DEFINE c == CompleteJobs(m)
           s == Restocked(c)
           w == [s EXCEPT !.world = Forget(@, s.now)]
<1>1. /\ Sound(c) /\ OnlyJobs(m, c) /\ DOMAIN c.jobs = DOMAIN m.jobs
      /\ \A id \in DOMAIN m.jobs :
           c.jobs[id] = IF id \in Due(m) THEN [m.jobs[id] EXCEPT !.status = "Done"]
                        ELSE m.jobs[id]
      /\ \A sym \in Commodities :
           m.issued[sym] + PromisedOf(m, Due(m), sym) <= MAX_UNITS =>
             \A t \in Traders :
               c.held[t][sym] = m.held[t][sym]
                 + PromisedOf(m, {id \in Due(m) : m.jobs[id].trader = t}, sym)
  BY CompletedAre
<1>2. e = Requoted(w)
  BY DEF Stepped
<1>3. AllSupplied(c, s)
  <2> HIDE DEF c
  <2> QED BY <1>1, RestockedIs
<1> HIDE DEF c, s
<1>4. Sound(s) /\ s.world \in Seq(Modifier)
  BY <1>3, FieldsAre DEF AllSupplied
<1>5. /\ Sound(w) /\ SameUnits(s, w) /\ SameBook(s, w) /\ SameJobs(s, w)
      /\ w.npcs = s.npcs /\ w.now = s.now
  <2> DEFINE world == Forget(s.world, s.now)
  <2>1. world \in Seq(Modifier)
    BY <1>4, ForgetIs
  <2>2. w = [s EXCEPT !.world = world]
    OBVIOUS
  <2> HIDE DEF world, w
  <2> QED BY <1>4, <2>1, <2>2, WorldAside
<1> HIDE DEF w
<1>6. w.book = m.book /\ w.npcs = m.npcs /\ w.now = m.now
  BY <1>1, <1>3, <1>5 DEF OnlyJobs, AllSupplied, SameBook, SameTimes
<1>7. Follows(w)
  BY <1>6, FollowsOn
<1>8. /\ Sound(e) /\ Follows(e) /\ Whole(w, e) /\ SameRest(w, e) /\ DOMAIN e.npcs = DOMAIN w.npcs
      /\ \A n \in DOMAIN e.npcs : Fresh(e, n)
  BY <1>2, <1>5, <1>7, RequotedAre
<1>9. e.jobs = s.jobs /\ e.held = s.held /\ e.now = m.now
  BY <1>5, <1>6, <1>8 DEF SameRest, SameUnits, SameJobs, SameTimes
<1>10. ASSUME NEW id \in Running(m)
       PROVE  IF id \in Due(m)
              THEN id \in DOMAIN e.jobs => e.jobs[id] = [m.jobs[id] EXCEPT !.status = "Done"]
              ELSE id \in DOMAIN e.jobs /\ e.jobs[id] = m.jobs[id]
  <2>1. id \in DOMAIN m.jobs /\ m.jobs[id].status = "Running"
    BY RunningIs
  <2>2. JobsKept(c, s) /\ id \in DOMAIN c.jobs
    BY <1>1, <1>3, <2>1 DEF AllSupplied
  <2>3. id \in DOMAIN s.jobs => s.jobs[id] = c.jobs[id]
    BY <2>2 DEF JobsKept
  <2>4. id \notin DOMAIN s.jobs => c.jobs[id].status # "Running"
    BY <2>2 DEF JobsKept
  <2>5. CASE id \in Due(m)
    BY <1>1, <1>9, <2>1, <2>3, <2>5
  <2>6. CASE id \notin Due(m)
    <3>1. c.jobs[id] = m.jobs[id]
      BY <1>1, <2>1, <2>6
    <3> QED BY <1>9, <2>1, <2>3, <2>4, <2>6, <3>1
  <2> QED BY <2>5, <2>6
<1>11. ASSUME NEW sym \in Commodities,
              m.issued[sym] + PromisedOf(m, Due(m), sym) <= MAX_UNITS, NEW t \in Players
       PROVE  e.held[t][sym] = m.held[t][sym]
                + PromisedOf(m, {id \in Due(m) : m.jobs[id].trader = t}, sym)
  <2>1. t \in Traders
    BY PursesAre
  <2>2. e.held[t] = c.held[t]
    BY <1>3, <1>9 DEF AllSupplied
  <2> QED BY <1>1, <1>11, <2>1, <2>2
<1>12. Delivering(m, e)
  BY <1>10, <1>11 DEF Delivering
<1>13. Whole(m, e)
  BY <1>6, <1>8 DEF Whole
<1> QED BY <1>8, <1>9, <1>12, <1>13

-----------------------------------------------------------------------------
(* What the other actions change *)

\* Whatever changes in the shop or of the times, a market whose quotes follow
\* still is and does.
LEMMA OthersAside ==
  ASSUME NEW m, Sound(m), Follows(m), NEW e \in Market, e.wallets = m.wallets, SameUnits(m, e),
         SameBook(m, e), SameJobs(m, e), e.npcs = m.npcs
  PROVE  Sound(e) /\ Follows(e)
<1>1. IsFiniteSet(m.book) /\ \A id \in DOMAIN m.jobs : id < m.next_job
  BY DEF Sound, Formed
<1>2. Formed(e)
  BY <1>1 DEF Formed, SameBook, SameJobs
<1>3. Sound(e)
  BY <1>2, AsideKeeps
<1>4. Follows(e)
  BY FollowsOn DEF SameBook
<1> QED BY <1>3, <1>4

\* Quotes that are what they were or less, of NPCs whose last quotes are the same.
Alike(p, q) ==
  p.policy = q.policy /\ p.quoted_ref = q.quoted_ref /\ p.quoted_size = q.quoted_size

\* With some quotes gone or smaller, those left follow as they did.
LEMMA FollowsLess ==
  ASSUME NEW m, Sound(m), Follows(m), NEW e, Sound(e),
         \A x \in e.book : \E y \in m.book :
           /\ SamePlace(x, y) /\ x.price = y.price /\ x.qty <= y.qty
           /\ Alike(e.npcs[y.trader], m.npcs[y.trader])
  PROVE  Follows(e)
<1> SUFFICES ASSUME NEW x \in e.book
             PROVE  /\ x.price = LevelPrice(e.npcs[x.trader].policy, x.side,
                                            e.npcs[x.trader].quoted_ref, x.level)
                    /\ x.qty <= e.npcs[x.trader].quoted_size
  BY DEF Follows
<1>1. PICK y \in m.book : /\ SamePlace(x, y) /\ x.price = y.price /\ x.qty <= y.qty
                          /\ Alike(e.npcs[y.trader], m.npcs[y.trader])
  OBVIOUS
<1>2. y.trader = x.trader /\ y.side = x.side /\ y.level = x.level
  BY <1>1 DEF SamePlace
<1>3. /\ y.price = LevelPrice(m.npcs[y.trader].policy, y.side, m.npcs[y.trader].quoted_ref,
                              y.level)
      /\ y.qty <= m.npcs[y.trader].quoted_size
  BY DEF Follows
<1>4. x.qty \in Nat /\ y.qty \in Nat
  <2>1. x \in Quote /\ y \in Quote
    BY FieldsAre
  <2> QED BY <2>1 DEF Quote
<1>5. m.npcs[y.trader].quoted_size \in Nat
  <2> DEFINE n == y.trader
             npc == m.npcs[n]
  <2>1. n \in DOMAIN m.npcs
    BY DEF Sound, Placed
  <2> HIDE DEF n
  <2>2. npc \in Npc
    BY <2>1, NpcIs
  <2> HIDE DEF npc
  <2>3. npc.quoted_size \in Nat
    BY <2>2 DEF Npc
  <2> QED BY <2>3 DEF n, npc
<1>6. x.price = LevelPrice(e.npcs[x.trader].policy, x.side, e.npcs[x.trader].quoted_ref, x.level)
  BY <1>1, <1>2, <1>3 DEF Alike
<1>7. x.qty <= m.npcs[y.trader].quoted_size
  <2> DEFINE p == x.qty  q == y.qty  r == m.npcs[y.trader].quoted_size
  <2>1. p \in Nat /\ q \in Nat /\ r \in Nat /\ p <= q /\ q <= r
    BY <1>1, <1>3, <1>4, <1>5
  <2> HIDE DEF p, q, r
  <2>2. p <= r
    BY <2>1
  <2> QED BY <2>2 DEF p, r
<1> QED BY <1>1, <1>2, <1>6, <1>7 DEF Alike

\* An NPC that has nothing out is switched off.
LEMMA QuietKeeps ==
  ASSUME NEW m, Sound(m), NEW n \in DOMAIN m.npcs, \A o \in m.book : o.trader # n,
         NEW npc \in Npc, NEW e, e = [m EXCEPT !.npcs = [m.npcs EXCEPT ![n] = npc]]
  PROVE  /\ Sound(e) /\ e.book = m.book /\ e.jobs = m.jobs /\ e.now = m.now
         /\ \A i \in DOMAIN m.npcs : i # n => e.npcs[i] = m.npcs[i]
<1> DEFINE npcs == [m.npcs EXCEPT ![n] = npc]
<1>1. /\ npcs \in PartialFn(Range(Npcs), Npc) /\ DOMAIN npcs = DOMAIN m.npcs
      /\ npcs[n] = npc /\ \A i \in DOMAIN m.npcs : i # n => npcs[i] = m.npcs[i]
  BY NpcLineIs
<1>2. e = [m EXCEPT !.npcs = npcs]
  OBVIOUS
<1> HIDE DEF npcs
<1>3. m \in Market /\ IsFiniteSet(m.book) /\ \A id \in DOMAIN m.jobs : id < m.next_job
  BY DEF Sound, Formed
<1>4. /\ e \in Market /\ e.npcs = npcs /\ e.wallets = m.wallets /\ e.now = m.now
      /\ SameUnits(m, e) /\ SameBook(m, e) /\ SameJobs(m, e)
  BY <1>1, <1>2, <1>3 DEF Market, SameUnits, SameBook, SameJobs
<1>5. Formed(e)
  BY <1>3, <1>4 DEF Formed, SameBook, SameJobs
<1>6. Accounted(e)
  BY <1>4 DEF Sound, Accounted, SameUnits, HeldUnits
<1>7. Unopened(e)
  BY <1>1, <1>4 DEF Sound, Unopened
<1>8. Backed(e)
  BY <1>4 DEF Sound, Backed, SameUnits, SameBook
<1>9. Placed(e)
  BY <1>1, <1>4 DEF Sound, Placed, SameBook, Crosses
<1> QED BY <1>1, <1>4, <1>5, <1>6, <1>7, <1>8, <1>9 DEF Sound, SameBook, SameJobs

\* Withdrawing quotes has nothing to do with the table of NPCs.
LEMMA CancelAllAside ==
  ASSUME NEW m \in Market, NEW npcs, NEW traders, NEW q, q = [m EXCEPT !.npcs = npcs]
  PROVE  CancelAll(q, traders) = [CancelAll(m, traders) EXCEPT !.npcs = npcs]
<1> DEFINE gone == {o \in m.book : o.trader \in traders}
           W(x) == [w \in Purses |->
                      [x.wallets[w] EXCEPT !.reserved = Max({@ - BidCents(gone, w), 0})]]
           R(x) == [t \in Traders |-> [sym \in Commodities |->
                      Max({x.reserved_units[t][sym] - AskUnits(gone, t, sym), 0})]]
           C(x) == [[x EXCEPT !.wallets = W(x), !.reserved_units = R(x)] EXCEPT !.book = @ \ gone]
<1>1. q.book = m.book /\ q.wallets = m.wallets /\ q.reserved_units = m.reserved_units
  BY DEF Market
<1>2. W(q) = W(m) /\ R(q) = R(m)
  BY <1>1
<1>3. gone = {o \in q.book : o.trader \in traders}
  BY <1>1
<1>4. CancelAll(m, traders) = C(m)
  BY DEF CancelAll, Release
<1>5. CancelAll(q, traders) = C(q)
  BY <1>3 DEF CancelAll, Release
<1> HIDE DEF gone, W, R
<1>6. C(q) = [C(m) EXCEPT !.npcs = npcs]
  BY <1>2 DEF Market
<1> QED BY <1>4, <1>5, <1>6

\* An open account is frozen when nothing is quoted from it, or thawed.
LEMMA StatusKeeps ==
  ASSUME NEW m, Sound(m), NEW a \in Accounts, NEW st \in {"Active", "Frozen"},
         \A n \in Range(Npcs) : AccountOf[n] = a => n \in DOMAIN m.npcs,
         st = "Active" \/ \A o \in m.book : AccountOf[o.trader] # a,
         NEW e, e = [m EXCEPT !.wallets[a].status = st]
  PROVE  /\ Sound(e) /\ e.book = m.book /\ e.npcs = m.npcs /\ SameJobs(m, e) /\ e.now = m.now
<1> DEFINE w == [m.wallets[a] EXCEPT !.status = st]
           ws == [m.wallets EXCEPT ![a] = w]
<1>1. /\ m \in Market /\ IsFiniteSet(m.book) /\ m.wallets \in [Purses -> Wallet] /\ a \in Purses
      /\ \A id \in DOMAIN m.jobs : id < m.next_job
  BY FieldsAre, PursesAre DEF Sound, Formed
<1>2. e = [m EXCEPT !.wallets = ws]
  OBVIOUS
<1>3. /\ w \in Wallet /\ w.balance = m.wallets[a].balance /\ w.reserved = m.wallets[a].reserved
      /\ w.status = st
  <2>1. m.wallets[a] \in Wallet
    BY <1>1
  <2> QED BY <2>1 DEF Wallet
<1> HIDE DEF w
<1>4. /\ ws \in [Purses -> Wallet] /\ ws[a] = w
      /\ \A x \in Purses : x # a => ws[x] = m.wallets[x]
  BY <1>1, <1>3
<1> HIDE DEF ws
<1>5. \A x \in Purses : ws[x].balance = m.wallets[x].balance
                        /\ ws[x].reserved = m.wallets[x].reserved
  BY <1>3, <1>4
<1>6. /\ e \in Market /\ e.wallets = ws /\ SameUnits(m, e) /\ SameBook(m, e) /\ SameJobs(m, e)
      /\ e.npcs = m.npcs /\ e.now = m.now
  BY <1>1, <1>2, <1>4 DEF Market, SameUnits, SameBook, SameJobs
<1>7. Formed(e)
  BY <1>1, <1>6 DEF Formed, SameBook, SameJobs
<1>8. Accounted(e)
  <2>1. [x \in Purses |-> ws[x].balance] = [x \in Purses |-> m.wallets[x].balance]
    BY <1>5
  <2>2. Balances(ws) = Balances(m.wallets)
    BY <2>1 DEF Balances
  <2> QED BY <1>6, <2>2 DEF Sound, Accounted, SameUnits, HeldUnits
<1>9. Unopened(e)
  <2> SUFFICES ASSUME NEW n \in Range(Npcs) \ DOMAIN e.npcs
               PROVE  e.wallets[AccountOf[n]] = Opened(0)
    BY DEF Unopened
  <2>1. AccountOf[n] # a /\ AccountOf[n] \in Purses
    BY <1>6, PursesAre
  <2> QED BY <1>4, <1>6, <2>1 DEF Sound, Unopened
<1>10. Backed(e)
  <2>1. \A n \in Range(Npcs) : AccountOf[n] \in Purses
    BY PursesAre
  <2> QED BY <1>5, <1>6, <2>1 DEF Sound, Backed, SameUnits, SameBook
<1>11. Placed(e)
  <2>1. \A o \in m.book : AccountOf[o.trader] \in Purses
    <3> SUFFICES ASSUME NEW o \in m.book PROVE AccountOf[o.trader] \in Purses
      OBVIOUS
    <3>1. o \in Quote
      BY FieldsAre
    <3>2. o.trader \in Range(Npcs)
      BY <3>1 DEF Quote
    <3> QED BY <3>2, PursesAre
  <2>2. \A o \in m.book : e.wallets[AccountOf[o.trader]].status = "Active"
    <3> SUFFICES ASSUME NEW o \in m.book PROVE ws[AccountOf[o.trader]].status = "Active"
      BY <1>6
    <3>1. m.wallets[AccountOf[o.trader]].status = "Active"
      BY DEF Sound, Placed
    <3>2. CASE AccountOf[o.trader] = a
      BY <1>3, <1>4, <3>2
    <3>3. CASE AccountOf[o.trader] # a
      BY <1>4, <2>1, <3>1, <3>3
    <3> QED BY <3>2, <3>3
  <2> QED BY <1>6, <2>2 DEF Sound, Placed, SameBook, Crosses
<1> QED BY <1>6, <1>7, <1>8, <1>9, <1>10, <1>11 DEF Sound, SameBook

\* What is available in a wallet is its balance less what is reserved.
LEMMA AvailableIs ==
  ASSUME NEW w \in Wallet, NEW cents \in Nat, cents <= AvailableCents(w)
  PROVE  cents > 0 => w.reserved + cents <= w.balance
<1> DEFINE b == w.balance
           r == w.reserved
<1>1. b \in Nat /\ r \in Nat
  BY WalletIs
<1>2. AvailableCents(w) = Max({b - r, 0})
  BY DEF AvailableCents
<1> HIDE DEF b, r
<1>3. AvailableCents(w) = IF b - r >= 0 THEN b - r ELSE 0
  <2>1. b - r \in Int
    BY <1>1
  <2> QED BY <1>2, <2>1, MaxOfTwo
<1>4. cents > 0 => r + cents <= b
  BY <1>1, <1>3
<1> QED BY <1>4 DEF b, r

\* The market with NPC n, stocked and funded.
Created(m, n, npc, sym, qty, cash) ==
  [Issue(m, n, Lot(sym, qty)) EXCEPT
     !.wallets = Pay(@, Movement("Treasury", AccountOf[n], cash)),
     !.npcs = With(@, n, npc)]

\* A new NPC gets its goods by issuing and its cash from the treasury.
LEMMA CreateKeeps ==
  ASSUME NEW m, Sound(m), Follows(m), NEW n \in Range(Npcs), n \notin DOMAIN m.npcs,
         NEW npc \in Npc, NEW sym \in Commodities, NEW qty \in Nat, CanIssue(m, sym, qty),
         NEW cash \in Nat, cash <= AvailableCents(m.wallets["Treasury"]),
         NEW e, e = Created(m, n, npc, sym, qty, cash)
  PROVE  Sound(e) /\ Follows(e) /\ SameJobs(m, e) /\ e.now = m.now
<1> DEFINE i == Issue(m, n, Lot(sym, qty))
           npcs == With(m.npcs, n, npc)
           a == [i EXCEPT !.npcs = npcs]
           acct == AccountOf[n]
<1>1. /\ n \in Range(Npcs) /\ n \in Traders /\ acct \in Purses /\ acct \in Accounts
      /\ "Treasury" \in Purses /\ acct # "Treasury"
  BY PursesAre
<1>2. Sound(i) /\ OnlyUnits(m, i, n) /\ i \in Market
  <2> DEFINE lines == Lot(sym, qty)
  <2>1. lines \in PartialFn(Commodities, Nat) /\ DOMAIN lines = {sym} /\ lines[sym] = qty
    BY LotIs
  <2>2. i = Issue(m, n, lines)
    OBVIOUS
  <2> HIDE DEF lines, i
  <2>3. \A s \in DOMAIN lines : CanIssue(m, s, lines[s])
    BY <2>1
  <2>4. Sound(i) /\ OnlyUnits(m, i, n)
    BY <1>1, <2>1, <2>2, <2>3, IssueKeeps
  <2> QED BY <2>4, FieldsAre
<1>3. e = [i EXCEPT !.wallets = Pay(i.wallets, Movement("Treasury", acct, cash)),
                    !.npcs = With(i.npcs, n, npc)]
  BY DEF Created
<1>4. i.npcs = m.npcs /\ i.wallets = m.wallets /\ i.book = m.book
  BY <1>2 DEF OnlyUnits, SameBook
<1> HIDE DEF i, acct
<1>5. npcs \in PartialFn(Range(Npcs), Npc) /\ Rewritten(npcs, m.npcs, n, npc)
  <2>1. m.npcs \in PartialFn(Range(Npcs), Npc)
    BY FieldsAre
  <2> QED BY <1>1, <2>1, WithIs
<1> HIDE DEF npcs
<1>6. \A k \in DOMAIN m.npcs : k \in DOMAIN npcs /\ npcs[k] = m.npcs[k]
  BY <1>5 DEF Rewritten
<1>7. /\ Sound(a) /\ a.npcs = npcs /\ a.wallets = m.wallets /\ SameUnits(i, a)
      /\ SameBook(i, a) /\ SameJobs(i, a) /\ SameTimes(i, a) /\ a \in Market
  <2>1. DOMAIN i.npcs \subseteq DOMAIN npcs
    BY <1>4, <1>6
  <2>2. \A k \in DOMAIN i.npcs : /\ npcs[k].symbol = i.npcs[k].symbol
                                 /\ i.npcs[k].active => npcs[k].active
    BY <1>4, <1>6
  <2>3. a = [i EXCEPT !.npcs = npcs]
    OBVIOUS
  <2> HIDE DEF a
  <2>4. /\ Sound(a) /\ a.npcs = npcs /\ a.wallets = i.wallets /\ SameUnits(i, a)
        /\ SameBook(i, a) /\ SameJobs(i, a) /\ SameTimes(i, a)
    BY <1>2, <1>5, <2>1, <2>2, <2>3, NpcsAside
  <2> QED BY <1>4, <2>4, FieldsAre
<1>8. e = [a EXCEPT !.wallets = Pay(@, Movement("Treasury", acct, cash))]
  <2> DEFINE ws == Pay(m.wallets, Movement("Treasury", acct, cash))
  <2>1. e = [i EXCEPT !.wallets = ws, !.npcs = npcs]
    BY <1>3, <1>4 DEF npcs
  <2>2. [a EXCEPT !.wallets = Pay(@, Movement("Treasury", acct, cash))] = [a EXCEPT !.wallets = ws]
    BY <1>7
  <2> HIDE DEF ws
  <2>3. [i EXCEPT !.wallets = ws, !.npcs = npcs] = [a EXCEPT !.wallets = ws]
    BY <1>2 DEF Market
  <2> QED BY <2>1, <2>2, <2>3
<1>9. Payable(m.wallets, "Treasury", acct, cash)
  <2>1. m.wallets["Treasury"] \in Wallet
    BY <1>1, FieldsAre
  <2>2. cash > 0 => m.wallets["Treasury"].reserved + cash <= m.wallets["Treasury"].balance
    BY <2>1, AvailableIs
  <2>3. m.wallets[acct] = Opened(0)
    BY <1>1 DEF Sound, Unopened, acct
  <2>4. m.wallets[acct].balance = 0
    BY <2>3 DEF Opened
  <2> DEFINE r == m.wallets["Treasury"].reserved
             b == m.wallets["Treasury"].balance
             x == m.wallets[acct].balance
  <2>5. r \in Nat /\ b \in Nat /\ b <= MAX_WALLET_CENTS /\ MAX_WALLET_CENTS \in Nat
    BY <2>1, WalletIs, WalletsAssumption
  <2>6. Payable(m.wallets, "Treasury", acct, cash)
          <=> (cash > 0 => r + cash <= b /\ x + cash <= MAX_WALLET_CENTS)
    BY DEF Payable
  <2>7. (cash > 0 => r + cash <= b) /\ x = 0
    BY <2>2, <2>4
  <2> HIDE DEF r, b, x
  <2> QED BY <2>5, <2>6, <2>7
<1>10. \A k \in Range(Npcs) \ DOMAIN a.npcs : AccountOf[k] \notin {"Treasury", acct}
  <2> SUFFICES ASSUME NEW k \in Range(Npcs) \ DOMAIN a.npcs
               PROVE  AccountOf[k] # "Treasury" /\ AccountOf[k] # acct
    OBVIOUS
  <2>1. AccountOf[k] \in Accounts /\ "Treasury" \notin Accounts
    BY PursesAre
  <2>2. n \in DOMAIN a.npcs
    BY <1>5, <1>7 DEF Rewritten
  <2>3. AccountOf[k] = acct => k = n
    BY <1>1, PursesAre DEF acct
  <2> QED BY <2>1, <2>2, <2>3
<1>11. /\ Sound(e) /\ SameUnits(a, e) /\ SameBook(a, e) /\ SameJobs(a, e) /\ SameTimes(a, e)
       /\ e.npcs = a.npcs
  <2>1. Payable(a.wallets, "Treasury", acct, cash)
    BY <1>7, <1>9
  <2> DEFINE from == "Treasury"
  <2>2. /\ from \in Purses /\ from # acct /\ Payable(a.wallets, from, acct, cash)
        /\ \A k \in Range(Npcs) \ DOMAIN a.npcs : AccountOf[k] \notin {from, acct}
        /\ e = [a EXCEPT !.wallets = Pay(@, Movement(from, acct, cash))]
    BY <1>1, <1>8, <1>10, <2>1
  <2> HIDE DEF a, from
  <2>3. ASSUME NEW x, x = [a EXCEPT !.wallets = Pay(@, Movement(from, acct, cash))]
        PROVE  /\ Sound(x) /\ SameUnits(a, x) /\ SameBook(a, x) /\ SameJobs(a, x)
               /\ SameTimes(a, x) /\ x.npcs = a.npcs
    BY <1>1, <1>7, <2>2, <2>3, PayKeeps
  <2> QED BY <2>2, <2>3
<1>12. e.book = m.book /\ e.npcs = npcs /\ SameJobs(m, e) /\ e.now = m.now
  <2> HIDE DEF a
  <2> QED BY <1>2, <1>7, <1>11 DEF OnlyUnits, SameBook, SameJobs, SameTimes
<1>13. Follows(e)
  <2> SUFFICES ASSUME NEW x \in e.book
               PROVE  /\ SamePlace(x, x) /\ x.price = x.price /\ x.qty <= x.qty /\ x \in m.book
                      /\ Alike(e.npcs[x.trader], m.npcs[x.trader])
    BY <1>11, FollowsLess
  <2>1. x \in m.book /\ x.trader \in DOMAIN m.npcs
    BY <1>12 DEF Sound, Placed
  <2>2. x \in Quote
    BY <2>1, FieldsAre
  <2>3. x.qty \in Nat
    BY <2>2 DEF Quote
  <2> QED BY <1>6, <1>12, <2>1, <2>3 DEF SamePlace, Alike
<1> QED BY <1>11, <1>12, <1>13

\* A quote taken, all of it or a part: the NPC's and the player's cash and
\* units change hands.
LEMMA TakeKeeps ==
  ASSUME NEW m, Sound(m), Follows(m), NEW t \in Players, NEW o \in m.book, NEW qty \in 1 .. o.qty,
         CanTake(m, t, o, qty), NEW e, e = Taken(m, t, o, qty)
  PROVE  Sound(e) /\ Follows(e) /\ SameJobs(m, e) /\ e.now = m.now
<1> DEFINE buyer == Buyer(t, o)
           seller == Seller(t, o)
           freed == Freed(m, o, qty)
           net == Exchange(t, o, qty)
<1>a. /\ o.side = "Buy" => buyer = o.trader /\ seller = t
      /\ o.side # "Buy" => buyer = t /\ seller = o.trader
      /\ o.side = "Sell" \/ qty <= FreeUnits(m, t, o.symbol)
  BY DEF Buyer, Seller, CanTake
<1>b. /\ net = Movement(AccountOf[buyer], AccountOf[seller], qty * o.price)
      /\ freed = Release(m, {[o EXCEPT !.qty = qty]}) /\ CanPost(freed.wallets, net)
  BY DEF Exchange, Freed, CanTake
<1>c. freed.book = m.book
  BY <1>b, FieldsAre DEF Release, Market
<1>d. e = [freed EXCEPT !.book = Rest(freed.book, o, qty), !.wallets = Pay(@, net),
                        !.held[buyer][o.symbol] = @ + qty,
                        !.held[seller][o.symbol] = @ - qty]
  BY DEF Taken
<1> HIDE DEF buyer, seller, freed, net
<1>e. e = [freed EXCEPT !.book = Rest(m.book, o, qty), !.wallets = Pay(@, net),
                        !.held[buyer][o.symbol] = @ + qty,
                        !.held[seller][o.symbol] = @ - qty]
  BY <1>c, <1>d
<1> USE <1>a, <1>b, <1>e
<1> DEFINE cents == qty * o.price
           sym == o.symbol
           from == AccountOf[buyer]
           to == AccountOf[seller]
           f == [freed EXCEPT !.book = Rest(m.book, o, qty)]
           p == [f EXCEPT !.wallets = Pay(@, Movement(from, to, cents))]
<1>1. /\ o \in Quote /\ o.trader \in DOMAIN m.npcs /\ o.trader \in Range(Npcs)
      /\ sym \in Commodities /\ o.qty \in Nat /\ o.price \in Nat /\ o.side \in {"Buy", "Sell"}
  <2>1. o \in Quote
    BY FieldsAre
  <2>2. o.trader \in DOMAIN m.npcs
    BY DEF Sound, Placed
  <2> QED BY <2>1, <2>2 DEF Quote
<1>2. qty \in Nat /\ qty > 0 /\ cents \in Nat
  <2>1. qty \in Nat /\ qty > 0
    BY <1>1
  <2> QED BY <1>1, <2>1, NatTimes
<1>3. /\ buyer \in Traders /\ seller \in Traders /\ buyer # seller
      /\ buyer \in Players \cup DOMAIN m.npcs /\ seller \in Players \cup DOMAIN m.npcs
      /\ from \in Purses /\ to \in Purses /\ from # to
  <2>1. t \in Traders /\ o.trader \in Traders /\ t # o.trader
        /\ AccountOf[t] # AccountOf[o.trader]
    <3>1. t \notin Range(Npcs)
      BY GoodsAssumption
    <3> QED BY <1>1, <3>1, PursesAre
  <2>2. AccountOf[t] \in Purses /\ AccountOf[o.trader] \in Purses
    BY <2>1, PursesAre
  <2> QED BY <1>1, <2>1, <2>2
<1> HIDE DEF cents, sym
<1>4. /\ Sound(f) /\ OnlyQuotes(m, f) /\ Shrunk(m, f)
      /\ f.wallets = freed.wallets
      /\ \A u \in Traders, s \in Commodities :
           /\ f.reserved_units[u][s] <= m.reserved_units[u][s]
           /\ o.side = "Sell" /\ u = o.trader /\ s = sym =>
                f.reserved_units[u][s] + qty <= m.held[u][s]
  <2>1. f = [Release(m, {[o EXCEPT !.qty = qty]}) EXCEPT !.book = Rest(m.book, o, qty)]
    OBVIOUS
  <2>2. freed.wallets = Release(m, {[o EXCEPT !.qty = qty]}).wallets
    OBVIOUS
  <2> HIDE DEF f
  <2>3. /\ Sound(f) /\ OnlyQuotes(m, f) /\ Shrunk(m, f)
        /\ f.wallets = Release(m, {[o EXCEPT !.qty = qty]}).wallets
        /\ LessReserved(m, o, qty, f)
    BY <2>1, FillKeeps
  <2> QED BY <2>2, <2>3 DEF LessReserved, sym
<1>5. f.wallets \in [Purses -> Wallet] /\ f.npcs = m.npcs /\ f.held = m.held
  BY <1>4, FieldsAre DEF OnlyQuotes, SameUnits
<1>6. e = [p EXCEPT !.held[buyer][sym] = @ + qty, !.held[seller][sym] = @ - qty]
  BY DEF cents, sym
<1> HIDE DEF f
<1>7. Payable(f.wallets, from, to, cents)
  <2>1. CanPost(f.wallets, Movement(from, to, cents))
    BY <1>4 DEF cents
  <2> HIDE DEF from, to
  <2> QED BY <1>2, <1>3, <1>5, <2>1, CanPostMeans
<1>8. \A n \in Range(Npcs) \ DOMAIN f.npcs : AccountOf[n] \notin {from, to}
  <2>1. \A n \in Range(Npcs) \ DOMAIN m.npcs : AccountOf[n] # from
    BY <1>3, OpenAre
  <2>2. \A n \in Range(Npcs) \ DOMAIN m.npcs : AccountOf[n] # to
    BY <1>3, OpenAre
  <2> QED BY <1>5, <2>1, <2>2
<1>9. /\ Sound(p) /\ SameUnits(f, p) /\ SameBook(f, p) /\ SameJobs(f, p) /\ SameTimes(f, p)
      /\ p.npcs = f.npcs
  <2> HIDE DEF from, to
  <2>1. p = [f EXCEPT !.wallets = Pay(@, Movement(from, to, cents))]
    OBVIOUS
  <2> HIDE DEF p
  <2> QED BY <1>2, <1>3, <1>4, <1>7, <1>8, <2>1, PayKeeps
<1> HIDE DEF p
<1>10. p.reserved_units[seller][sym] + qty <= p.held[seller][sym]
  <2>1. /\ p.held = m.held /\ p.reserved_units = f.reserved_units
    BY <1>5, <1>9 DEF SameUnits, SameBook
  <2>2. /\ m.held[seller][sym] \in Nat /\ m.reserved_units[seller][sym] \in Nat
        /\ f.reserved_units[seller][sym] \in Nat
    <3>1. m.held \in Units /\ m.reserved_units \in Units /\ f.reserved_units \in Units
      BY <1>4, FieldsAre
    <3> QED BY <1>1, <1>3, <3>1 DEF Units, sym
  <2>3. CASE o.side = "Sell"
    <3>1. seller = o.trader
      BY <2>3
    <3>2. f.reserved_units[seller][sym] + qty <= m.held[seller][sym]
      BY <1>1, <1>3, <1>4, <2>3, <3>1 DEF sym
    <3> QED BY <2>1, <3>2
  <2>4. CASE o.side = "Buy"
    <3>1. seller = t /\ qty <= FreeUnits(m, seller, sym)
      BY <2>4 DEF sym
    <3>2. f.reserved_units[seller][sym] <= m.reserved_units[seller][sym]
      BY <1>1, <1>3, <1>4 DEF sym
    <3> DEFINE h == m.held[seller][sym]
               r == m.reserved_units[seller][sym]
               x == f.reserved_units[seller][sym]
    <3>3. qty <= IF h >= r THEN h - r ELSE 0
      BY <2>2, <3>1, FreeIs
    <3>4. h \in Nat /\ r \in Nat /\ x \in Nat /\ x <= r
      BY <2>2, <3>2
    <3>5. p.held[seller][sym] = h /\ p.reserved_units[seller][sym] = x
      BY <2>1
    <3> HIDE DEF h, r, x
    <3>6. x + qty <= h
      BY <1>2, <3>3, <3>4
    <3> QED BY <3>5, <3>6
  <2> QED BY <1>1, <2>3, <2>4
<1>11. /\ Sound(e) /\ SameBook(p, e) /\ SameJobs(p, e) /\ SameTimes(p, e) /\ e.npcs = p.npcs
  <2>1. sym \in Commodities
    BY <1>1
  <2>2. ASSUME NEW x, x = [p EXCEPT !.held = Passed(@, buyer, seller, sym, qty)]
        PROVE  /\ Sound(x) /\ SameBook(p, x) /\ SameJobs(p, x) /\ SameTimes(p, x)
               /\ x.npcs = p.npcs
    BY <1>2, <1>3, <1>9, <1>10, <2>1, <2>2, PassKeeps
  <2>3. p \in Market /\ p.held \in Units
    BY <1>9, FieldsAre
  <2> DEFINE H == Passed(p.held, buyer, seller, sym, qty)
  <2>4. e = [p EXCEPT !.held = H]
    BY <1>6, <2>3 DEF Market, Passed
  <2>5. e = [p EXCEPT !.held = Passed(@, buyer, seller, sym, qty)]
    BY <2>4
  <2> QED BY <2>2, <2>5
<1>12. e.book = f.book /\ e.npcs = m.npcs /\ SameJobs(m, e) /\ e.now = m.now
  BY <1>4, <1>5, <1>9, <1>11 DEF OnlyQuotes, SameBook, SameJobs, SameTimes
<1>13. Follows(e)
  <2> SUFFICES ASSUME NEW x \in e.book
               PROVE  \E y \in m.book :
                        /\ SamePlace(x, y) /\ x.price = y.price /\ x.qty <= y.qty
                        /\ Alike(e.npcs[y.trader], m.npcs[y.trader])
    BY <1>11, FollowsLess
  <2>1. PICK y \in m.book : SamePlace(x, y) /\ x.price = y.price /\ x.qty <= y.qty
    BY <1>4, <1>12 DEF Shrunk
  <2> QED BY <1>12, <2>1 DEF Alike
<1> QED BY <1>11, <1>12, <1>13

-----------------------------------------------------------------------------
(* The invariant, and where a behaviour starts *)

GInv == flow \in Flows /\ Sound(market) /\ Follows(market)

\* Nothing is a function on part of any set.
LEMMA NothingIs ==
  ASSUME NEW S, NEW T
  PROVE  <<>> \in PartialFn(S, T) /\ DOMAIN <<>> = {}
<1>1. DOMAIN <<>> = {} /\ <<>> \in [{} -> T]
  OBVIOUS
<1> QED BY <1>1, PartialIs

\* What the wallets hold at first: the players' cash and the treasury.
LEMMA FirstBalances ==
  ASSUME NEW ws, ws = [w \in Purses |-> Opened(IF w \in Accounts THEN Cash[w]
                                               ELSE IF w = "Treasury" THEN TREASURY ELSE 0)]
  PROVE  ws \in [Purses -> Wallet] /\ Balances(ws) = TREASURY + SumFunction(Cash)
<1> DEFINE f == [w \in Purses |-> ws[w].balance]
           rest == Purses \ Accounts
<1>1. /\ IsFiniteSet(Purses) /\ Accounts \in SUBSET Purses /\ "Treasury" \in rest
      /\ Cash \in [Accounts -> 0 .. MAX_WALLET_CENTS] /\ TREASURY \in 0 .. MAX_WALLET_CENTS
      /\ MAX_WALLET_CENTS \in Nat /\ IsFiniteSet(Accounts)
  BY PursesAre, GoodsAssumption, WalletsAssumption
<1>2. \A w \in Purses : /\ w \in Accounts => ws[w] = Opened(Cash[w])
                        /\ w = "Treasury" => ws[w] = Opened(TREASURY)
                        /\ w \notin Accounts /\ w # "Treasury" => ws[w] = Opened(0)
  BY <1>1
<1>3. \A c \in 0 .. MAX_WALLET_CENTS : Opened(c) \in Wallet /\ Opened(c).balance = c /\ c \in Int
  BY <1>1 DEF Opened, Wallet
<1>4. \A w \in Purses : ws[w] \in Wallet
  <2>1. 0 \in 0 .. MAX_WALLET_CENTS
    BY <1>1
  <2> QED BY <1>1, <1>2, <1>3, <2>1
<1>5. ws \in [Purses -> Wallet]
  BY <1>4
<1>6. /\ \A w \in Accounts : f[w] = Cash[w] /\ Cash[w] \in Int
      /\ f["Treasury"] = TREASURY /\ TREASURY \in Int
      /\ \A w \in rest : w # "Treasury" => f[w] = 0
  <2>1. 0 \in 0 .. MAX_WALLET_CENTS
    BY <1>1
  <2>2. \A w \in Purses : f[w] = ws[w].balance
    OBVIOUS
  <2>3. "Treasury" \in Purses /\ "Treasury" \notin Accounts /\ \A w \in Accounts : w \in Purses
    BY <1>1
  <2> HIDE DEF f
  <2>4. \A w \in Accounts : f[w] = Cash[w] /\ Cash[w] \in Int
    <3> SUFFICES ASSUME NEW w \in Accounts PROVE f[w] = Cash[w] /\ Cash[w] \in Int
      OBVIOUS
    <3>1. Cash[w] \in 0 .. MAX_WALLET_CENTS
      BY <1>1
    <3>2. ws[w] = Opened(Cash[w])
      BY <1>2, <2>3
    <3> QED BY <1>3, <2>2, <2>3, <3>1, <3>2
  <2>5. f["Treasury"] = TREASURY /\ TREASURY \in Int
    <3>1. ws["Treasury"] = Opened(TREASURY)
      BY <1>2, <2>3
    <3> QED BY <1>1, <1>3, <2>2, <2>3, <3>1
  <2>6. \A w \in rest : w # "Treasury" => f[w] = 0
    BY <1>2, <1>3, <2>1, <2>2
  <2> HIDE DEF rest
  <2> QED BY <2>4, <2>5, <2>6
<1>7. \A w \in Purses : f[w] \in Int
  <2> HIDE DEF f
  <2>1. \A w \in Purses : w \in Accounts \/ w = "Treasury" \/ (w \in rest /\ w # "Treasury")
    OBVIOUS
  <2> HIDE DEF rest
  <2> QED BY <1>6, <2>1
<1>8. Balances(ws) = SumFunctionOnSet(f, Purses)
  BY DEF Balances, SumFunction, SumFunctionOnSet
<1>9. SumFunction(Cash) = SumFunctionOnSet(Cash, Accounts)
  BY <1>1 DEF SumFunction, SumFunctionOnSet
<1> HIDE DEF f
<1>10. SumFunctionOnSet(f, Purses) = SumFunctionOnSet(f, Accounts) + SumFunctionOnSet(f, rest)
  BY <1>1, <1>7, SumSplit
<1>11. SumFunctionOnSet(f, Accounts) = SumFunctionOnSet(Cash, Accounts)
  <2>1. \A w \in Accounts : f[w] \in Int /\ f[w] = Cash[w]
    BY <1>6
  <2> QED BY <1>1, <2>1, SumSame
<1>12. SumFunctionOnSet(f, rest) = TREASURY
  <2>1. IsFiniteSet(rest) /\ {"Treasury"} \in SUBSET rest /\ \A w \in rest : f[w] \in Int
    BY <1>1, <1>7, FS_Subset
  <2>2. \A w \in rest \ {"Treasury"} : f[w] = 0
    BY <1>6
  <2>3. SumFunctionOnSet(f, rest) = SumFunctionOnSet(f, {"Treasury"})
    BY <2>1, <2>2, SumSupport
  <2>4. SumFunctionOnSet(f, {"Treasury"}) = f["Treasury"]
    BY <1>6, SumOne
  <2> QED BY <1>6, <2>3, <2>4
<1>13. SumFunctionOnSet(Cash, Accounts) \in Int
  <2>1. \A w \in Accounts : Cash[w] \in Nat
    BY <1>1
  <2>2. SumFunctionOnSet(Cash, Accounts) \in Nat
    BY <1>1, <2>1, SumNat
  <2> QED BY <2>2
<1> QED BY <1>5, <1>6, <1>8, <1>9, <1>10, <1>11, <1>12, <1>13

\* The first state has the invariant.
LEMMA InitGood ==
  ASSUME Init
  PROVE  GInv
<1> DEFINE ws == [w \in Purses |-> Opened(IF w \in Accounts THEN Cash[w]
                                          ELSE IF w = "Treasury" THEN TREASURY ELSE 0)]
           none == [sym \in Commodities |-> 0]
           held0 == [t \in Traders |-> none]
           start == [sym \in Commodities |-> START_PRICE]
           m == market
<1>1. ws \in [Purses -> Wallet] /\ Balances(ws) = TREASURY + SumFunction(Cash)
  BY FirstBalances
<1>2. /\ none \in [Commodities -> Nat] /\ none \in [Commodities -> 0 .. MAX_UNITS]
      /\ held0 \in Units /\ start \in [Commodities -> 1 .. MaxPrice] /\ 0 \in 0 .. MaxNow
      /\ \A sym \in Commodities : none[sym] = 0
  BY GoodsAssumption DEF Units
<1>9. \A t \in Traders : held0[t] = none
  OBVIOUS
<1>10. \A n \in Range(Npcs) : ws[AccountOf[n]] = Opened(0)
  <2> SUFFICES ASSUME NEW n \in Range(Npcs) PROVE ws[AccountOf[n]] = Opened(0)
    OBVIOUS
  <2>1. AccountOf[n] \in Accounts /\ AccountOf[n] \in Purses
    BY PursesAre
  <2>2. Cash[AccountOf[n]] = 0
    BY GoodsAssumption
  <2> QED BY <2>1, <2>2
<1>3. m = [wallets |-> ws, now |-> 0, price |-> start, halted |-> {}, issued |-> none,
           consumed |-> none, held |-> held0, reserved_units |-> held0,
           book |-> {}, catalog |-> <<>>, recipes |-> <<>>, jobs |-> <<>>, next_job |-> 1,
           npcs |-> <<>>, world |-> <<>>]
  BY DEF Init
<1> HIDE DEF ws, none, held0, start, m
<1>4. /\ <<>> \in PartialFn(Commodities, Item) /\ <<>> \in PartialFn(RecipeIds, Recipe)
      /\ <<>> \in PartialFn(Nat \ {0}, Job) /\ <<>> \in PartialFn(Range(Npcs), Npc)
      /\ <<>> \in Seq(Modifier) /\ DOMAIN <<>> = {}
  BY NothingIs
<1>5. m \in Market
  BY <1>1, <1>2, <1>3, <1>4 DEF Market
<1>6. /\ m.wallets = ws /\ m.held = held0 /\ m.reserved_units = held0 /\ m.book = {}
      /\ m.issued = none /\ m.consumed = none /\ m.jobs = <<>> /\ m.npcs = <<>>
  BY <1>3
<1>7. Formed(m)
  BY <1>4, <1>5, <1>6, FS_EmptySet DEF Formed
<1>8. Accounted(m)
  <2> SUFFICES ASSUME NEW sym \in Commodities
               PROVE  m.issued[sym] - m.consumed[sym] = HeldUnits(m, sym)
    BY <1>1, <1>6 DEF Accounted
  <2> DEFINE f == [t \in Traders |-> m.held[t][sym]]
  <2>1. \A t \in Traders : f[t] = 0
    BY <1>2, <1>6, <1>9
  <2>2. HeldUnits(m, sym) = SumFunctionOnSet(f, Traders)
    BY DEF HeldUnits, SumFunction, SumFunctionOnSet
  <2> HIDE DEF f
  <2>3. IsFiniteSet(Traders) /\ {} \in SUBSET Traders /\ (\A t \in Traders : f[t] \in Int)
        /\ \A t \in Traders \ {} : f[t] = 0
    BY <2>1, TradersFinite
  <2>4. SumFunctionOnSet(f, Traders) = SumFunctionOnSet(f, {})
    BY <2>3, SumSupport
  <2> QED BY <1>2, <1>6, <2>2, <2>4, SumEmpty
<1>11. Unopened(m)
  BY <1>6, <1>10 DEF Unopened
<1>12. Backed(m)
  <2> SUFFICES ASSUME NEW n \in Range(Npcs)
               PROVE  /\ ws[AccountOf[n]].reserved = BidCents({}, AccountOf[n])
                      /\ ws[AccountOf[n]].reserved <= ws[AccountOf[n]].balance
                      /\ \A sym \in Commodities :
                           /\ held0[n][sym] = AskUnits({}, n, sym)
                           /\ held0[n][sym] <= held0[n][sym]
    BY <1>6 DEF Backed
  <2>1. ws[AccountOf[n]].reserved = 0 /\ ws[AccountOf[n]].balance = 0
    BY <1>10 DEF Opened
  <2>2. BidCents({}, AccountOf[n]) = 0
    BY BidCentsNone
  <2>3. \A sym \in Commodities : AskUnits({}, n, sym) = 0
    BY AskUnitsNone
  <2>4. n \in Traders
    BY PursesAre
  <2> QED BY <1>2, <1>9, <2>1, <2>2, <2>3, <2>4
<1>13. Placed(m) /\ Follows(m)
  BY <1>6 DEF Placed, Follows
<1>14. flow \in Flows
  BY DEF Init
<1> QED BY <1>7, <1>8, <1>11, <1>12, <1>13, <1>14 DEF GInv, Sound, m

-----------------------------------------------------------------------------
(* The jobs of the market *)

\* No time has passed, and of what runs all is as it was or is cancelled.
Undisturbed(m, e) ==
  /\ e.now = m.now
  /\ \A id \in Running(m) :
       /\ id \in DOMAIN e.jobs
       /\ e.jobs[id] = m.jobs[id] \/ Refunded(m.jobs[id], e.jobs[id])

Good(m, e) == Sound(e) /\ Follows(e) /\ Undisturbed(m, e)

\* A command that leaves the log of jobs alone leaves every promise alone.
LEMMA SameJobsGood ==
  ASSUME NEW m, NEW e, Sound(e), Follows(e), SameJobs(m, e), e.now = m.now
  PROVE  Good(m, e)
BY DEF Good, Undisturbed, SameJobs, Running

\* So does one that starts a job: what the log may drop for it has ended.
LEMMA JobsKeptGood ==
  ASSUME NEW m, NEW e, Sound(e), Follows(e), JobsKept(m, e), e.now = m.now
  PROVE  Good(m, e)
BY DEF Good, Undisturbed, JobsKept, Running

\* Neither wallets, units and quotes nor jobs and NPCs have changed.
LEMMA OthersGood ==
  ASSUME NEW m, Sound(m), Follows(m), NEW e \in Market, e.wallets = m.wallets, SameUnits(m, e),
         SameBook(m, e), SameJobs(m, e), e.npcs = m.npcs, e.now = m.now
  PROVE  Good(m, e)
BY OthersAside, SameJobsGood

\* What participants send.
LEMMA FlowIs ==
  ASSUME flow \in Flows
  PROVE  /\ flow.noise \subseteq [Commodities -> Int]
         /\ flow.catalog \subseteq
              [symbol : Commodities, price : Nat, available : Nat \cup {Unlimited}]
         /\ flow.purchases \subseteq [trader : Players, symbol : Commodities, qty : Nat]
         /\ flow.consumes \subseteq [trader : Players, symbol : Commodities, qty : Nat]
         /\ flow.recipes \subseteq Recipe
         /\ flow.starts \subseteq [trader : Players, recipe : RecipeIds, runs : Nat]
         /\ flow.events \subseteq [effect : {"Production", "Demand"}, symbols : SUBSET Commodities,
                                   delta : Int, delay : Nat, secs : Nat]
         /\ flow.npcs \subseteq [symbol : Commodities, policy : Policy, production : Production,
                                 cash : Nat, inventory : Nat]
         /\ flow.productions \subseteq Production
         /\ flow.takers \subseteq Players /\ flow.halts \subseteq Commodities
         /\ flow.freezes \subseteq Accounts
BY FlowsAssumption

\* Writing a catalogue line (set_catalog_item) leaves all of it in order.
LEMMA SetCatalogItemKeeps ==
  ASSUME GInv, SetCatalogItem
  PROVE  Good(market, market')
<1> DEFINE m == market
           e == market'
<1>1. Sound(m) /\ Follows(m) /\ flow \in Flows
  BY DEF GInv
<1>2. PICK line \in flow.catalog :
        e = [m EXCEPT !.catalog = With(@, line.symbol,
              [price |-> line.price, available |-> line.available,
               issued |-> IF line.symbol \in DOMAIN m.catalog
                          THEN m.catalog[line.symbol].issued ELSE 0])]
  BY DEF SetCatalogItem, End
<1> HIDE DEF m, e
<1>3. line.symbol \in Commodities /\ line.price \in Nat /\ line.available \in Nat \cup {Unlimited}
  BY <1>1, FlowIs
<1>4. m \in Market /\ m.catalog \in PartialFn(Commodities, Item)
  BY <1>1, FieldsAre
<1> DEFINE issued == IF line.symbol \in DOMAIN m.catalog
                     THEN m.catalog[line.symbol].issued ELSE 0
           item == [price |-> line.price, available |-> line.available, issued |-> issued]
           catalog == With(m.catalog, line.symbol, item)
<1>5. e = [m EXCEPT !.catalog = catalog]
  BY <1>2
<1>6. issued \in Nat
  <2>1. CASE line.symbol \in DOMAIN m.catalog
    <3>1. m.catalog[line.symbol] \in Item
      BY <1>4, <2>1, PartialIs
    <3> QED BY <2>1, <3>1 DEF Item
  <2> QED BY <2>1
<1> HIDE DEF issued
<1>7. item \in Item
  BY <1>3, <1>6 DEF Item
<1> HIDE DEF item
<1>8. catalog \in PartialFn(Commodities, Item)
  BY <1>3, <1>4, <1>7, WithIs
<1> HIDE DEF catalog
<1>9. /\ e \in Market /\ e.wallets = m.wallets /\ SameUnits(m, e) /\ SameBook(m, e)
      /\ SameJobs(m, e) /\ e.npcs = m.npcs /\ e.now = m.now
  BY <1>4, <1>5, <1>8 DEF Market, SameUnits, SameBook, SameJobs
<1>10. Good(m, e)
  BY <1>1, <1>9, OthersGood
<1> QED BY <1>10 DEF m, e

\* So does taking one out (remove_catalog_item).
LEMMA RemoveCatalogItemKeeps ==
  ASSUME GInv, RemoveCatalogItem
  PROVE  Good(market, market')
<1> DEFINE m == market
           e == market'
<1>1. Sound(m) /\ Follows(m)
  BY DEF GInv
<1>2. PICK sym \in DOMAIN m.catalog :
        e = [m EXCEPT !.catalog = Restrict(m.catalog, DOMAIN m.catalog \ {sym})]
  BY DEF RemoveCatalogItem, End
<1> HIDE DEF m, e
<1> DEFINE catalog == Restrict(m.catalog, DOMAIN m.catalog \ {sym})
<1>3. m \in Market /\ m.catalog \in PartialFn(Commodities, Item)
  BY <1>1, FieldsAre
<1>4. catalog \in PartialFn(Commodities, Item)
  BY <1>3, RestrictIs
<1> HIDE DEF catalog
<1>5. /\ e \in Market /\ e.wallets = m.wallets /\ SameUnits(m, e) /\ SameBook(m, e)
      /\ SameJobs(m, e) /\ e.npcs = m.npcs /\ e.now = m.now
  BY <1>2, <1>3, <1>4 DEF catalog, Market, SameUnits, SameBook, SameJobs
<1>6. Good(m, e)
  BY <1>1, <1>5, OthersGood
<1> QED BY <1>6 DEF m, e

\* Writing a recipe (set_recipe) leaves what runs alone.
LEMMA SetRecipeKeeps ==
  ASSUME GInv, SetRecipe
  PROVE  Good(market, market')
<1> DEFINE m == market
           e == market'
<1>1. Sound(m) /\ Follows(m) /\ flow \in Flows
  BY DEF GInv
<1>2. PICK r \in flow.recipes : e = [m EXCEPT !.recipes = With(m.recipes, r.id, r)]
  BY DEF SetRecipe, End
<1> HIDE DEF m, e
<1> DEFINE recipes == With(m.recipes, r.id, r)
<1>3. r \in Recipe /\ r.id \in RecipeIds
  <2>1. r \in Recipe
    BY <1>1, FlowIs
  <2> QED BY <2>1 DEF Recipe
<1>4. m \in Market /\ m.recipes \in PartialFn(RecipeIds, Recipe)
  BY <1>1, FieldsAre
<1>5. recipes \in PartialFn(RecipeIds, Recipe)
  BY <1>3, <1>4, WithIs
<1>6. e = [m EXCEPT !.recipes = recipes]
  BY <1>2
<1> HIDE DEF recipes
<1>7. /\ e \in Market /\ e.wallets = m.wallets /\ SameUnits(m, e) /\ SameBook(m, e)
      /\ SameJobs(m, e) /\ e.npcs = m.npcs /\ e.now = m.now
  BY <1>4, <1>5, <1>6 DEF Market, SameUnits, SameBook, SameJobs
<1>8. Good(m, e)
  BY <1>1, <1>7, OthersGood
<1> QED BY <1>8 DEF m, e

\* So does taking one out (remove_recipe).
LEMMA RemoveRecipeKeeps ==
  ASSUME GInv, RemoveRecipe
  PROVE  Good(market, market')
<1> DEFINE m == market
           e == market'
<1>1. Sound(m) /\ Follows(m)
  BY DEF GInv
<1>2. PICK id \in DOMAIN m.recipes :
        e = [m EXCEPT !.recipes = Restrict(m.recipes, DOMAIN m.recipes \ {id})]
  BY DEF RemoveRecipe, End
<1> HIDE DEF m, e
<1> DEFINE recipes == Restrict(m.recipes, DOMAIN m.recipes \ {id})
<1>3. m \in Market /\ m.recipes \in PartialFn(RecipeIds, Recipe)
  BY <1>1, FieldsAre
<1>4. recipes \in PartialFn(RecipeIds, Recipe)
  BY <1>3, RestrictIs
<1> HIDE DEF recipes
<1>5. /\ e \in Market /\ e.wallets = m.wallets /\ SameUnits(m, e) /\ SameBook(m, e)
      /\ SameJobs(m, e) /\ e.npcs = m.npcs /\ e.now = m.now
  BY <1>2, <1>3, <1>4 DEF recipes, Market, SameUnits, SameBook, SameJobs
<1>6. Good(m, e)
  BY <1>1, <1>5, OthersGood
<1> QED BY <1>6 DEF m, e

\* Halting and resuming a symbol leave its quotes as they are.
LEMMA HaltKeeps ==
  ASSUME GInv, Halt
  PROVE  Good(market, market')
<1> DEFINE m == market
           e == market'
<1>1. Sound(m) /\ Follows(m) /\ flow \in Flows
  BY DEF GInv
<1>2. PICK sym \in flow.halts :
        e = [m EXCEPT !.halted = IF sym \in m.halted THEN m.halted \ {sym}
                                 ELSE m.halted \cup {sym}]
  BY DEF Halt, End
<1> HIDE DEF m, e
<1> DEFINE halted == IF sym \in m.halted THEN m.halted \ {sym} ELSE m.halted \cup {sym}
<1>3. sym \in Commodities
  BY <1>1, FlowIs
<1>4. m \in Market /\ m.halted \subseteq Commodities
  BY <1>1, FieldsAre
<1>5. halted \in SUBSET Commodities
  BY <1>3, <1>4
<1>6. e = [m EXCEPT !.halted = halted]
  BY <1>2
<1> HIDE DEF halted
<1>7. /\ e \in Market /\ e.wallets = m.wallets /\ SameUnits(m, e) /\ SameBook(m, e)
      /\ SameJobs(m, e) /\ e.npcs = m.npcs /\ e.now = m.now
  BY <1>4, <1>5, <1>6 DEF Market, SameUnits, SameBook, SameJobs
<1>8. Good(m, e)
  BY <1>1, <1>7, OthersGood
<1> QED BY <1>8 DEF m, e

\* A game event changes what pulls on the world and nothing else.
LEMMA GameEventKeeps ==
  ASSUME GInv, GameEvent
  PROVE  Good(market, market')
<1> DEFINE m == market
           e == market'
<1>1. Sound(m) /\ Follows(m) /\ flow \in Flows
  BY DEF GInv
<1>2. PICK x \in flow.events :
        /\ x.secs > 0
        /\ e = [m EXCEPT !.world =
                  Forget(Append(m.world, [effect |-> x.effect, symbols |-> x.symbols,
                           delta |-> x.delta, from |-> m.now + x.delay,
                           until |-> m.now + x.delay + x.secs]), m.now + x.delay)]
  BY DEF GameEvent, End
<1> HIDE DEF m, e
<1> DEFINE from == m.now + x.delay
           until == from + x.secs
           mod == [effect |-> x.effect, symbols |-> x.symbols, delta |-> x.delta,
                   from |-> from, until |-> until]
           world == Forget(Append(m.world, mod), from)
<1>3. /\ x.effect \in {"Production", "Demand"} /\ x.symbols \in SUBSET Commodities
      /\ x.delta \in Int /\ x.delay \in Nat /\ x.secs \in Nat
  BY <1>1, FlowIs
<1>4. m \in Market /\ m.world \in Seq(Modifier) /\ m.now \in Nat
  <2>1. m.now \in 0 .. MaxNow /\ MaxNow \in Nat
    BY <1>1, FieldsAre, GoodsAssumption
  <2> QED BY <1>1, <2>1, FieldsAre
<1>5. e = [m EXCEPT !.world = world]
  BY <1>2
<1>6. from \in Nat /\ until \in Nat /\ from < until
  BY <1>2, <1>3, <1>4
<1> HIDE DEF from, until
<1>7. mod \in Modifier
  BY <1>3, <1>6 DEF Modifier
<1> HIDE DEF mod
<1>8. Append(m.world, mod) \in Seq(Modifier)
  BY <1>4, <1>7
<1>9. world \in Seq(Modifier)
  BY <1>8, ForgetIs
<1> HIDE DEF world
<1>10. Sound(e) /\ SameJobs(m, e) /\ e.now = m.now /\ SameBook(m, e) /\ e.npcs = m.npcs
  BY <1>1, <1>5, <1>9, WorldAside
<1>11. Follows(e)
  BY <1>1, <1>10, FollowsOn DEF SameBook
<1>12. Good(m, e)
  BY <1>10, <1>11, SameJobsGood
<1> QED BY <1>12 DEF m, e

\* The command that buys from the catalogue.
LEMMA PurchaseGood ==
  ASSUME GInv, Purchase
  PROVE  Good(market, market')
<1> DEFINE m == market
           e == market'
<1>1. Sound(m) /\ Follows(m) /\ flow \in Flows
  BY DEF GInv
<1>2. PICK r \in flow.purchases :
        CanPurchase(m, r.trader, r.symbol, r.qty) /\ e = Purchased(m, r.trader, r.symbol, r.qty)
  BY DEF Purchase, End
<1> HIDE DEF m, e
<1>3. r.trader \in Players \cup DOMAIN m.npcs /\ r.qty \in Nat
  BY <1>1, FlowIs
<1>4. /\ Sound(e) /\ e.npcs = m.npcs /\ SameBook(m, e) /\ SameJobs(m, e) /\ SameTimes(m, e)
  BY <1>1, <1>2, <1>3, PurchaseKeeps
<1>5. Follows(e)
  BY <1>1, <1>4, FollowsOn DEF SameBook
<1>6. Good(m, e)
  BY <1>4, <1>5, SameJobsGood DEF SameTimes
<1> QED BY <1>6 DEF m, e

\* The command that consumes units: they are gone and counted as consumed.
LEMMA ConsumeGood ==
  ASSUME GInv, Consume
  PROVE  Good(market, market')
<1> DEFINE m == market
           e == market'
<1>1. Sound(m) /\ Follows(m) /\ flow \in Flows
  BY DEF GInv
<1>2. PICK r \in flow.consumes :
        r.qty <= FreeUnits(m, r.trader, r.symbol) /\ e = UseUp(m, r.trader, Lot(r.symbol, r.qty))
  BY DEF Consume, End
<1> HIDE DEF m, e
<1>3. r.trader \in Traders /\ r.symbol \in Commodities /\ r.qty \in Nat
  BY <1>1, FlowIs DEF Traders
<1> DEFINE lines == Lot(r.symbol, r.qty)
<1>4. lines \in PartialFn(Commodities, Nat) /\ DOMAIN lines = {r.symbol} /\ lines[r.symbol] = r.qty
  BY <1>3, LotIs
<1>5. e = UseUp(m, r.trader, lines)
  BY <1>2
<1> HIDE DEF lines
<1>6. \A sym \in DOMAIN lines : lines[sym] <= FreeUnits(m, r.trader, sym)
  BY <1>2, <1>4
<1>7. Sound(e) /\ OnlyUnits(m, e, r.trader)
  BY <1>1, <1>3, <1>4, <1>5, <1>6, UseUpKeeps
<1>8. SameBook(m, e) /\ SameJobs(m, e) /\ e.npcs = m.npcs /\ e.now = m.now
  BY <1>7 DEF OnlyUnits, SameTimes
<1>9. Follows(e)
  BY <1>1, <1>8, FollowsOn DEF SameBook
<1>10. Good(m, e)
  BY <1>7, <1>8, <1>9, SameJobsGood
<1> QED BY <1>10 DEF m, e

\* The command that starts a player's job.
LEMMA StartJobGood ==
  ASSUME GInv, StartJob
  PROVE  Good(market, market')
<1> DEFINE m == market
           e == market'
<1>1. Sound(m) /\ Follows(m) /\ flow \in Flows
  BY DEF GInv
<1>2. PICK r \in flow.starts :
        CanStart(m, r.recipe, r.trader, r.runs) /\ e = Started(m, r.recipe, r.trader, r.runs)
  BY DEF StartJob, End
<1> HIDE DEF m, e
<1>3. r.trader \in Players \cup DOMAIN m.npcs /\ r.runs \in Nat
  BY <1>1, FlowIs
<1>4. /\ Sound(e) /\ e.npcs = m.npcs /\ SameBook(m, e) /\ SameTimes(m, e) /\ JobsKept(m, e)
  BY <1>1, <1>2, <1>3, StartKeeps
<1>5. Follows(e)
  BY <1>1, <1>4, FollowsOn DEF SameBook
<1>6. Good(m, e)
  BY <1>4, <1>5, JobsKeptGood DEF SameTimes
<1> QED BY <1>6 DEF m, e

\* The command that cancels a player's job, which is refunded no more than it
\* cost.
LEMMA CancelJobGood ==
  ASSUME GInv, CancelJob
  PROVE  Good(market, market')
<1> DEFINE m == market
           e == market'
<1>1. Sound(m) /\ Follows(m)
  BY DEF GInv
<1>2. PICK id \in Running(m) : m.jobs[id].trader \in Players /\ e = Cancelled(m, id)
  BY DEF CancelJob, End
<1> HIDE DEF m, e
<1>3. /\ Sound(e) /\ SameBook(m, e) /\ SameTimes(m, e) /\ e.npcs = m.npcs
      /\ OneRefunded(m, id, e)
  BY <1>1, <1>2, CancelKeeps
<1>4. Follows(e)
  BY <1>1, <1>3, FollowsOn DEF SameBook
<1>5. Undisturbed(m, e)
  <2> SUFFICES ASSUME NEW i \in Running(m)
               PROVE  /\ i \in DOMAIN e.jobs
                      /\ e.jobs[i] = m.jobs[i] \/ Refunded(m.jobs[i], e.jobs[i])
    BY <1>3 DEF Undisturbed, SameTimes
  <2>1. i \in DOMAIN m.jobs
    BY DEF Running
  <2> QED BY <1>3, <2>1 DEF OneRefunded
<1>6. Good(m, e)
  BY <1>3, <1>4, <1>5 DEF Good
<1> QED BY <1>6 DEF m, e

\* An NPC comes to an empty account and gets the treasury's cash and units
\* issued for it (create_npc).
LEMMA CreateNpcGood ==
  ASSUME GInv, CreateNpc
  PROVE  Good(market, market')
<1> DEFINE m == market
           e == market'
<1>1. Sound(m) /\ Follows(m) /\ flow \in Flows
  BY DEF GInv
<1>2. PICK r \in flow.npcs, i \in DOMAIN Npcs :
        /\ DOMAIN m.npcs = {Npcs[j] : j \in 1 .. i - 1}
        /\ CanIssue(m, r.symbol, r.inventory)
        /\ r.cash <= AvailableCents(m.wallets["Treasury"])
        /\ e = [Issue(m, Npcs[i], Lot(r.symbol, r.inventory)) EXCEPT
                  !.wallets = Pay(@, Movement("Treasury", AccountOf[Npcs[i]], r.cash)),
                  !.npcs = With(@, Npcs[i],
                    [symbol |-> r.symbol, policy |-> r.policy, active |-> TRUE,
                     production |-> r.production, quoted_ref |-> 0, quoted_orders |-> 0,
                     quoted_size |-> 0, quoted_stock |-> 0])]
  BY DEF CreateNpc, End
<1> HIDE DEF m, e
<1> DEFINE n == Npcs[i]
           npc == [symbol |-> r.symbol, policy |-> r.policy, active |-> TRUE,
                   production |-> r.production, quoted_ref |-> 0, quoted_orders |-> 0,
                   quoted_size |-> 0, quoted_stock |-> 0]
<1> DEFINE sym == r.symbol
           qty == r.inventory
           cash == r.cash
<1>3. /\ sym \in Commodities /\ r.policy \in Policy /\ r.production \in Production
      /\ cash \in Nat /\ qty \in Nat
  BY <1>1, FlowIs
<1>4. npc \in Npc
  BY <1>3 DEF Npc
<1>5. n \in Range(Npcs) /\ n \notin DOMAIN m.npcs
  <2>1. Npcs \in Seq(Range(Npcs)) /\ DOMAIN Npcs = 1 .. Len(Npcs) /\ Len(Npcs) \in Nat
    BY GoodsAssumption
  <2>2. n \in Range(Npcs)
    BY DEF Range
  <2>3. \A j \in 1 .. i - 1 : Npcs[j] # Npcs[i]
    <3>1. \A a \in DOMAIN Npcs, b \in DOMAIN Npcs : Npcs[a] = Npcs[b] => a = b
      BY GoodsAssumption DEF IsInjective
    <3>2. \A j \in 1 .. i - 1 : j \in DOMAIN Npcs /\ j # i
      BY <2>1
    <3> QED BY <3>1, <3>2
  <2> QED BY <1>2, <2>2, <2>3
<1>6. e = Created(m, n, npc, sym, qty, cash)
  BY <1>2 DEF Created
<1>9. CanIssue(m, sym, qty) /\ cash <= AvailableCents(m.wallets["Treasury"])
  BY <1>2
<1> HIDE DEF n, npc, sym, qty, cash
<1>7. Sound(e) /\ Follows(e) /\ SameJobs(m, e) /\ e.now = m.now
  BY <1>1, <1>3, <1>4, <1>5, <1>6, <1>9, CreateKeeps
<1>8. Good(m, e)
  BY <1>7, SameJobsGood
<1> QED BY <1>8 DEF m, e

\* An NPC as it is, but for what does not tell what it has out.
LEMMA NpcLineGood ==
  ASSUME NEW m, Sound(m), Follows(m), NEW n \in DOMAIN m.npcs, NEW npc \in Npc,
         npc.symbol = m.npcs[n].symbol, m.npcs[n].active => npc.active, Alike(npc, m.npcs[n]),
         NEW e, e = [m EXCEPT !.npcs = [m.npcs EXCEPT ![n] = npc]]
  PROVE  Good(m, e)
<1> DEFINE npcs == [m.npcs EXCEPT ![n] = npc]
<1>1. /\ npcs \in PartialFn(Range(Npcs), Npc) /\ DOMAIN npcs = DOMAIN m.npcs
      /\ npcs[n] = npc /\ \A i \in DOMAIN m.npcs : i # n => npcs[i] = m.npcs[i]
  BY NpcLineIs
<1>2. e = [m EXCEPT !.npcs = npcs]
  OBVIOUS
<1> HIDE DEF npcs
<1>3. \A i \in DOMAIN m.npcs : /\ npcs[i].symbol = m.npcs[i].symbol
                               /\ m.npcs[i].active => npcs[i].active
                               /\ Alike(npcs[i], m.npcs[i])
  BY <1>1 DEF Alike
<1>4. /\ Sound(e) /\ e.npcs = npcs /\ SameBook(m, e) /\ SameJobs(m, e) /\ e.now = m.now
  <2>2. \A i \in DOMAIN m.npcs : /\ npcs[i].symbol = m.npcs[i].symbol
                                 /\ m.npcs[i].active => npcs[i].active
    BY <1>3
  <2>3. npcs \in PartialFn(Range(Npcs), Npc) /\ DOMAIN m.npcs \subseteq DOMAIN npcs
    BY <1>1
  <2>4. ASSUME NEW x, x = [m EXCEPT !.npcs = npcs]
        PROVE  /\ Sound(x) /\ x.npcs = npcs /\ SameBook(m, x) /\ SameJobs(m, x)
               /\ SameTimes(m, x)
    BY <2>2, <2>3, <2>4, NpcsAside
  <2>1. Sound(e) /\ e.npcs = npcs /\ SameBook(m, e) /\ SameJobs(m, e) /\ SameTimes(m, e)
    BY <1>2, <2>4
  <2> QED BY <2>1 DEF SameTimes
<1>5. Follows(e)
  <2>1. \A x \in e.book : \E y \in m.book :
          /\ SamePlace(x, y) /\ x.price = y.price /\ x.qty <= y.qty
          /\ Alike(e.npcs[y.trader], m.npcs[y.trader])
    <3> SUFFICES ASSUME NEW x \in e.book
                 PROVE  /\ x \in m.book /\ SamePlace(x, x) /\ x.qty <= x.qty
                        /\ Alike(e.npcs[x.trader], m.npcs[x.trader])
      OBVIOUS
    <3>1. x \in m.book /\ SamePlace(x, x)
      BY <1>4 DEF SameBook, SamePlace
    <3>2. x.qty \in Nat
      BY <3>1, FieldsAre DEF Quote
    <3>3. x.trader \in DOMAIN m.npcs
      BY <3>1 DEF Sound, Placed
    <3> QED BY <1>3, <1>4, <3>1, <3>2, <3>3
  <2> QED BY <1>4, <2>1, FollowsLess
<1> QED BY <1>4, <1>5, SameJobsGood

\* The command that gives a producer another plan.
LEMMA SetNpcProductionGood ==
  ASSUME GInv, SetNpcProduction
  PROVE  Good(market, market')
<1> DEFINE m == market
           e == market'
<1>1. Sound(m) /\ Follows(m) /\ flow \in Flows
  BY DEF GInv
<1>2. PICK n \in DOMAIN m.npcs, plan \in flow.productions :
        e = [m EXCEPT !.npcs[n].production = plan]
  BY DEF SetNpcProduction, End
<1> HIDE DEF m, e
<1> DEFINE npc == [m.npcs[n] EXCEPT !.production = plan]
<1>3. m.npcs[n] \in Npc /\ plan \in Production
  BY <1>1, FlowIs, NpcIs
<1>4. /\ npc \in Npc /\ npc.symbol = m.npcs[n].symbol /\ npc.active = m.npcs[n].active
      /\ Alike(npc, m.npcs[n])
  BY <1>3 DEF Npc, Alike
<1>5. e = [m EXCEPT !.npcs = [m.npcs EXCEPT ![n] = npc]]
  <2>1. m \in Market
    BY <1>1, FieldsAre
  <2> QED BY <1>2, <2>1 DEF Market
<1> HIDE DEF npc
<1>6. Good(m, e)
  BY <1>1, <1>4, <1>5, NpcLineGood
<1> QED BY <1>6 DEF m, e

\* An account thawed has no quote that was not there before.
LEMMA UnfreezeAccountGood ==
  ASSUME GInv, UnfreezeAccount
  PROVE  Good(market, market')
<1> DEFINE m == market
           e == market'
<1>1. Sound(m) /\ Follows(m) /\ flow \in Flows
  BY DEF GInv
<1>2. PICK a \in flow.freezes :
        m.wallets[a].status = "Frozen" /\ e = [m EXCEPT !.wallets[a].status = "Active"]
  BY DEF UnfreezeAccount, End
<1> HIDE DEF m, e
<1>3. a \in Accounts
  BY <1>1, FlowIs
<1>4. \A n \in Range(Npcs) : AccountOf[n] = a => n \in DOMAIN m.npcs
  <2> SUFFICES ASSUME NEW n \in Range(Npcs), AccountOf[n] = a, n \notin DOMAIN m.npcs
               PROVE  FALSE
    OBVIOUS
  <2>1. m.wallets[a] = Opened(0)
    BY <1>1 DEF Sound, Unopened
  <2> QED BY <1>2, <2>1 DEF Opened
<1>5. Sound(e) /\ e.book = m.book /\ e.npcs = m.npcs /\ SameJobs(m, e) /\ e.now = m.now
  BY <1>1, <1>2, <1>3, <1>4, StatusKeeps
<1>6. Follows(e)
  BY <1>1, <1>5, FollowsOn
<1>7. Good(m, e)
  BY <1>5, <1>6, SameJobsGood
<1> QED BY <1>7 DEF m, e

\* A command after which the jobs are the same leaves every promise alone.
LEMMA JobsGood ==
  ASSUME NEW m, NEW e, Sound(e), Follows(e), e.jobs = m.jobs, e.now = m.now
  PROVE  Good(m, e)
BY DEF Good, Undisturbed, Running

\* What is left of the book of a sound market still follows it.
LEMMA FollowsWithin ==
  ASSUME NEW m, Sound(m), Follows(m), NEW e, Sound(e), e.book \subseteq m.book,
         \A o \in e.book : Alike(e.npcs[o.trader], m.npcs[o.trader])
  PROVE  Follows(e)
<1>1. \A x \in e.book : \E y \in m.book :
        /\ SamePlace(x, y) /\ x.price = y.price /\ x.qty <= y.qty
        /\ Alike(e.npcs[y.trader], m.npcs[y.trader])
  <2> SUFFICES ASSUME NEW x \in e.book
               PROVE  x \in m.book /\ SamePlace(x, x) /\ x.qty <= x.qty
                      /\ Alike(e.npcs[x.trader], m.npcs[x.trader])
    OBVIOUS
  <2>1. x \in Quote
    BY FieldsAre
  <2>2. x.qty \in Nat
    BY <2>1 DEF Quote
  <2> QED BY <2>2 DEF SamePlace
<1> QED BY <1>1, FollowsLess

\* An NPC switched off has withdrawn all its quotes (set_npc_active).
LEMMA SetNpcActiveGood ==
  ASSUME GInv, SetNpcActive
  PROVE  Good(market, market')
<1> DEFINE m == market
           e == market'
<1>1. Sound(m) /\ Follows(m)
  BY DEF GInv
<1>2. PICK n \in DOMAIN m.npcs, active \in flow.switches :
        e = IF active THEN [m EXCEPT !.npcs[n].active = TRUE]
            ELSE CancelAll([m EXCEPT !.npcs[n] =
                   [m.npcs[n] EXCEPT !.active = FALSE, !.quoted_ref = 0,
                                     !.quoted_orders = 0, !.quoted_size = 0]], {n})
  BY DEF SetNpcActive, End
<1> HIDE DEF m, e
<1>3. m.npcs[n] \in Npc /\ m \in Market
  BY <1>1, FieldsAre, NpcIs
<1>4. CASE active
  <2> DEFINE npc == [m.npcs[n] EXCEPT !.active = TRUE]
  <2>1. e = [m EXCEPT !.npcs[n].active = TRUE]
    BY <1>2, <1>4
  <2>2. e = [m EXCEPT !.npcs = [m.npcs EXCEPT ![n] = npc]]
    BY <1>3, <2>1 DEF Market
  <2>3. npc \in Npc /\ npc.symbol = m.npcs[n].symbol /\ npc.active /\ Alike(npc, m.npcs[n])
    BY <1>3 DEF Npc, Alike
  <2> HIDE DEF npc
  <2>4. Good(m, e)
    BY <1>1, <2>2, <2>3, NpcLineGood
  <2> QED BY <2>4 DEF m, e
<1>5. CASE ~active
  <2> DEFINE quiet == [m.npcs[n] EXCEPT !.active = FALSE, !.quoted_ref = 0,
                                        !.quoted_orders = 0, !.quoted_size = 0]
             npcs == [m.npcs EXCEPT ![n] = quiet]
             q == [m EXCEPT !.npcs = npcs]
             c == CancelAll(m, {n})
  <2>1. e = CancelAll([m EXCEPT !.npcs[n] = quiet], {n})
    BY <1>2, <1>5
  <2>2. [m EXCEPT !.npcs[n] = quiet] = q
    BY <1>3 DEF Market
  <2>3. quiet \in Npc
    BY <1>3 DEF Npc
  <2> HIDE DEF quiet
  <2>4. e = CancelAll(q, {n})
    BY <2>1, <2>2
  <2>5. CancelAll(q, {n}) = [c EXCEPT !.npcs = npcs]
    <3> HIDE DEF npcs
    <3> QED BY <1>3, CancelAllAside
  <2> HIDE DEF q
  <2>6. Sound(c) /\ OnlyQuotes(m, c) /\ c.book = {o \in m.book : o.trader \notin {n}}
    BY <1>1, CancelAllKeeps
  <2> HIDE DEF c
  <2>7. c.npcs = m.npcs /\ c.jobs = m.jobs /\ c.now = m.now
    BY <2>6 DEF OnlyQuotes, SameJobs, SameTimes
  <2>8. e = [c EXCEPT !.npcs = [c.npcs EXCEPT ![n] = quiet]]
    BY <2>4, <2>5, <2>7
  <2>9. n \in DOMAIN c.npcs /\ \A o \in c.book : o.trader # n
    BY <2>6, <2>7
  <2>10. /\ Sound(e) /\ e.book = c.book /\ e.jobs = c.jobs /\ e.now = c.now
         /\ \A i \in DOMAIN c.npcs : i # n => e.npcs[i] = c.npcs[i]
    <3> HIDE DEF npcs
    <3>1. ASSUME NEW x, x = [c EXCEPT !.npcs = [c.npcs EXCEPT ![n] = quiet]]
          PROVE  /\ Sound(x) /\ x.book = c.book /\ x.jobs = c.jobs /\ x.now = c.now
                 /\ \A i \in DOMAIN c.npcs : i # n => x.npcs[i] = c.npcs[i]
      BY <2>3, <2>6, <2>9, <3>1, QuietKeeps
    <3> QED BY <2>8, <3>1
  <2>11. Follows(e)
    <3>1. e.book \subseteq m.book
      BY <2>6, <2>10
    <3>2. \A o \in e.book : Alike(e.npcs[o.trader], m.npcs[o.trader])
      <4> SUFFICES ASSUME NEW o \in e.book PROVE e.npcs[o.trader] = m.npcs[o.trader]
        BY DEF Alike
      <4>1. o \in m.book /\ o.trader # n
        BY <2>6, <2>10
      <4>2. o.trader \in DOMAIN m.npcs
        BY <1>1, <4>1 DEF Sound, Placed
      <4> QED BY <2>7, <2>10, <4>1, <4>2
    <3> QED BY <1>1, <2>10, <3>1, <3>2, FollowsWithin
  <2>12. Good(m, e)
    BY <2>7, <2>10, <2>11, JobsGood
  <2> QED BY <2>12 DEF m, e
<1> QED BY <1>4, <1>5

\* An account frozen has none of its traders' quotes left (freeze_account).
LEMMA FreezeAccountGood ==
  ASSUME GInv, FreezeAccount
  PROVE  Good(market, market')
<1> DEFINE m == market
           e == market'
<1>1. Sound(m) /\ Follows(m) /\ flow \in Flows
  BY DEF GInv
<1>2. PICK a \in flow.freezes :
        /\ \A n \in Range(Npcs) : AccountOf[n] = a => n \in DOMAIN m.npcs
        /\ e = [CancelAll(m, {t \in Traders : AccountOf[t] = a}) EXCEPT
                  !.wallets[a].status = "Frozen"]
  BY DEF FreezeAccount, End
<1> HIDE DEF m, e
<1> DEFINE mine == {t \in Traders : AccountOf[t] = a}
           c == CancelAll(m, mine)
<1>3. a \in Accounts
  BY <1>1, FlowIs
<1>4. e = [c EXCEPT !.wallets[a].status = "Frozen"]
  BY <1>2
<1>5. Sound(c) /\ OnlyQuotes(m, c) /\ c.book = {o \in m.book : o.trader \notin mine}
  <2> HIDE DEF mine
  <2> QED BY <1>1, CancelAllKeeps
<1> HIDE DEF c
<1>6. c.npcs = m.npcs /\ SameJobs(m, c) /\ c.now = m.now
  BY <1>5 DEF OnlyQuotes, SameTimes
<1>7. \A o \in c.book : AccountOf[o.trader] # a
  <2> SUFFICES ASSUME NEW o \in c.book PROVE AccountOf[o.trader] # a
    OBVIOUS
  <2>1. o \in Quote
    BY <1>5, FieldsAre
  <2>2. o.trader \in Traders
    BY <2>1, PursesAre DEF Quote
  <2> QED BY <1>5, <2>2
<1> HIDE DEF mine
<1>8. Follows(c)
  <2>1. c.book \subseteq m.book /\ \A o \in c.book : Alike(c.npcs[o.trader], m.npcs[o.trader])
    BY <1>5, <1>6 DEF Alike
  <2> QED BY <1>1, <1>5, <2>1, FollowsWithin
<1>9. Sound(e) /\ e.book = c.book /\ e.npcs = c.npcs /\ SameJobs(c, e) /\ e.now = c.now
  <2>1. \A n \in Range(Npcs) : AccountOf[n] = a => n \in DOMAIN c.npcs
    BY <1>2, <1>6
  <2> DEFINE st == "Frozen"
  <2>2. st \in {"Active", "Frozen"} /\ e = [c EXCEPT !.wallets[a].status = st]
    BY <1>4
  <2> HIDE DEF st
  <2>3. ASSUME NEW x, x = [c EXCEPT !.wallets[a].status = st]
        PROVE  Sound(x) /\ x.book = c.book /\ x.npcs = c.npcs /\ SameJobs(c, x) /\ x.now = c.now
    BY <1>3, <1>5, <1>7, <2>1, <2>2, <2>3, StatusKeeps
  <2> QED BY <2>2, <2>3
<1>10. Follows(e)
  BY <1>8, <1>9, FollowsOn
<1>11. e.jobs = m.jobs /\ e.now = m.now
  BY <1>6, <1>9 DEF SameJobs
<1>12. Good(m, e)
  BY <1>9, <1>10, <1>11, JobsGood
<1> QED BY <1>12 DEF m, e

\* A player's fill against the best quote: units and cents change hands, what
\* the quote reserved for it is free, and the rest still follows.
LEMMA TakeGood ==
  ASSUME GInv, Take
  PROVE  Good(market, market')
<1> DEFINE m == market
           e == market'
<1>1. Sound(m) /\ Follows(m) /\ flow \in Flows
  BY DEF GInv
<1>2. PICK t \in flow.takers, o \in m.book :
        \E qty \in 1 .. o.qty : CanTake(m, t, o, qty) /\ e = Taken(m, t, o, qty)
  BY DEF Take, End
<1>3. PICK qty \in 1 .. o.qty : CanTake(m, t, o, qty) /\ e = Taken(m, t, o, qty)
  BY <1>2
<1> HIDE DEF m, e
<1>4. t \in Players
  BY <1>1, FlowIs
<1>5. Sound(e) /\ Follows(e) /\ SameJobs(m, e) /\ e.now = m.now
  BY <1>1, <1>3, <1>4, TakeKeeps
<1>6. Good(m, e)
  BY <1>5, SameJobsGood
<1> QED BY <1>6 DEF m, e

\* The jobs due by a time, and what a step does with those that run: one that
\* is due is done and may drop out of the log, and each player has what it
\* was promised of a good where all of it fits.
DueAt(m, now) == {id \in Running(m) : m.jobs[id].due <= now}

Ended(m, e) ==
  \A id \in Running(m) :
    IF id \in DueAt(m, e.now)
    THEN id \in DOMAIN e.jobs => e.jobs[id] = [m.jobs[id] EXCEPT !.status = "Done"]
    ELSE id \in DOMAIN e.jobs /\ e.jobs[id] = m.jobs[id]

Handing(m, e) ==
  \A sym \in Commodities :
    m.issued[sym] + PromisedOf(m, DueAt(m, e.now), sym) <= MAX_UNITS =>
      \A t \in Players :
        e.held[t][sym] = m.held[t][sym]
          + PromisedOf(m, {id \in DueAt(m, e.now) : m.jobs[id].trader = t}, sym)

\* The action of the engine: the step above, at the next time and price.
LEMMA StepIs ==
  ASSUME GInv, Step
  PROVE  /\ Sound(market') /\ Follows(market') /\ Whole(market, market')
         /\ market'.now = market.now + 1
         /\ \A n \in DOMAIN market'.npcs : Fresh(market', n)
         /\ Ended(market, market') /\ Handing(market, market')
<1> DEFINE m == market
           e == market'
<1>1. Sound(m) /\ Follows(m) /\ flow \in Flows
  BY DEF GInv
<1>2. PICK noise \in flow.noise :
        /\ m.now < MaxNow
        /\ \A sym \in Commodities : m.price[sym] + noise[sym] <= MaxPrice
        /\ e = Stepped([m EXCEPT !.now = @ + 1,
                                 !.price = [sym \in Commodities |->
                                              Max({m.price[sym] + noise[sym], 1})]])
  BY DEF Step, End
<1> HIDE DEF m, e
<1> DEFINE now == m.now + 1
           price == [sym \in Commodities |-> Max({m.price[sym] + noise[sym], 1})]
           s == [m EXCEPT !.now = now, !.price = price]
<1>3. m \in Market /\ m.now \in 0 .. MaxNow /\ m.price \in [Commodities -> 1 .. MaxPrice]
  BY <1>1, FieldsAre
<1>4. MaxNow \in Nat /\ MaxPrice \in Nat /\ START_PRICE \in 1 .. MaxPrice
  BY GoodsAssumption
<1>5. noise \in [Commodities -> Int]
  BY <1>1, FlowIs
<1>6. now \in 0 .. MaxNow
  BY <1>2, <1>3, <1>4
<1>7. price \in [Commodities -> 1 .. MaxPrice]
  <2> SUFFICES ASSUME NEW sym \in Commodities
               PROVE  Max({m.price[sym] + noise[sym], 1}) \in 1 .. MaxPrice
    OBVIOUS
  <2> DEFINE x == m.price[sym] + noise[sym]
  <2>1. m.price[sym] \in Nat /\ noise[sym] \in Int
    BY <1>3, <1>4, <1>5
  <2>2. x \in Int /\ x <= MaxPrice
    BY <1>2, <2>1
  <2> HIDE DEF x
  <2>3. Max({x, 1}) = IF x >= 1 THEN x ELSE 1
    BY <2>2, MaxOfTwo
  <2>4. Max({x, 1}) \in 1 .. MaxPrice
    BY <1>4, <2>2, <2>3
  <2> QED BY <2>4 DEF x
<1>8. e = Stepped(s)
  BY <1>2
<1> HIDE DEF now, price
<1>9. /\ s \in Market /\ s.wallets = m.wallets /\ SameUnits(m, s) /\ SameBook(m, s)
      /\ SameJobs(m, s) /\ s.npcs = m.npcs /\ s.now = now
  BY <1>3, <1>6, <1>7 DEF Market, SameUnits, SameBook, SameJobs
<1> HIDE DEF s
<1>10. Sound(s) /\ Follows(s)
  BY <1>1, <1>9, OthersAside
<1>11. /\ Sound(e) /\ Follows(e) /\ Whole(s, e) /\ Delivering(s, e) /\ e.now = now
       /\ \A n \in DOMAIN e.npcs : Fresh(e, n)
  <2>1. ASSUME NEW x, x = Stepped(s)
        PROVE  /\ Sound(x) /\ Follows(x) /\ Whole(s, x) /\ Delivering(s, x) /\ x.now = s.now
               /\ \A n \in DOMAIN x.npcs : Fresh(x, n)
    BY <1>10, <2>1, SteppedIs
  <2> QED BY <1>8, <1>9, <2>1
<1>12. s.jobs = m.jobs /\ s.issued = m.issued /\ s.held = m.held
  BY <1>9 DEF SameJobs, SameUnits
<1>13. Running(s) = Running(m)
  BY <1>12 DEF Running
<1>14. Due(s) = DueAt(m, e.now)
  BY <1>9, <1>11, <1>12, <1>13 DEF Due, DueAt
<1>15. \A ids, sym : PromisedOf(s, ids, sym) = PromisedOf(m, ids, sym)
  BY <1>12 DEF PromisedOf
<1>16. Ended(m, e)
  BY <1>11, <1>12, <1>13, <1>14 DEF Delivering, Ended
<1>17. Handing(m, e)
  <2> SUFFICES ASSUME NEW sym \in Commodities,
                      m.issued[sym] + PromisedOf(m, DueAt(m, e.now), sym) <= MAX_UNITS,
                      NEW t \in Players
               PROVE  e.held[t][sym] = m.held[t][sym]
                        + PromisedOf(m, {id \in DueAt(m, e.now) : m.jobs[id].trader = t}, sym)
    BY DEF Handing
  <2> DEFINE its == {id \in DueAt(m, e.now) : m.jobs[id].trader = t}
  <2>1. its = {id \in Due(s) : s.jobs[id].trader = t}
    BY <1>12, <1>14
  <2>2. s.issued[sym] + PromisedOf(s, Due(s), sym) <= MAX_UNITS
    BY <1>12, <1>14, <1>15
  <2>3. e.held[t][sym] = s.held[t][sym]
                           + PromisedOf(s, {id \in Due(s) : s.jobs[id].trader = t}, sym)
    BY <1>11, <2>2 DEF Delivering
  <2> HIDE DEF its
  <2>4. e.held[t][sym] = m.held[t][sym] + PromisedOf(m, its, sym)
    BY <1>12, <1>15, <2>1, <2>3
  <2> QED BY <2>4 DEF its
<1>18. Whole(m, e)
  BY <1>9, <1>11 DEF Whole, SameBook
<1> QED BY <1>11, <1>16, <1>17, <1>18 DEF m, e, now

\* A job of the market other than a step.
Commanded ==
  \/ SetCatalogItem \/ RemoveCatalogItem \/ Purchase \/ Consume
  \/ SetRecipe \/ RemoveRecipe \/ StartJob \/ CancelJob \/ GameEvent
  \/ CreateNpc \/ SetNpcProduction \/ SetNpcActive \/ Take
  \/ Halt \/ FreezeAccount \/ UnfreezeAccount

\* Each of the sixteen commands keeps the invariant and what runs.
LEMMA CommandedGood ==
  ASSUME GInv, Commanded
  PROVE  Good(market, market')
BY SetCatalogItemKeeps, RemoveCatalogItemKeeps, PurchaseGood, ConsumeGood, SetRecipeKeeps,
   RemoveRecipeKeeps, StartJobGood, CancelJobGood, GameEventKeeps, CreateNpcGood,
   SetNpcProductionGood, SetNpcActiveGood, TakeGood, HaltKeeps, FreezeAccountGood,
   UnfreezeAccountGood DEF Commanded

\* Nobody's part in a behaviour changes.
LEMMA FlowStays ==
  ASSUME flow \in Flows, [Next]_vars
  PROVE  flow' \in Flows
<1>1. flow' = flow
  BY DEF Next, vars, End, Step, SetCatalogItem, RemoveCatalogItem, Purchase, Consume, SetRecipe,
         RemoveRecipe, StartJob, CancelJob, GameEvent, CreateNpc, SetNpcProduction, SetNpcActive,
         Take, Halt, FreezeAccount, UnfreezeAccount
<1> QED BY <1>1

\* A step, a command, or nothing.
LEMMA NextIs ==
  ASSUME [Next]_vars
  PROVE  Step \/ Commanded \/ UNCHANGED vars
BY DEF Next, Commanded

\* The invariant is inductive.
LEMMA NextGood ==
  ASSUME GInv, [Next]_vars
  PROVE  GInv'
<1>1. flow' \in Flows
  BY FlowStays DEF GInv
<1>2. CASE Step
  BY <1>1, <1>2, StepIs DEF GInv
<1>3. CASE Commanded
  BY <1>1, <1>3, CommandedGood DEF GInv, Good
<1>4. CASE UNCHANGED vars
  <2>1. market' = market /\ flow' = flow
    BY <1>4 DEF vars
  <2> QED BY <2>1 DEF GInv
<1> QED BY <1>2, <1>3, <1>4, NextIs

-----------------------------------------------------------------------------
(* Theorems *)

\* Every market a behaviour reaches is sound and its quotes follow the
\* references they were drawn around: the inductive invariant, kept by each
\* command and by the engine's step (Market::step with its jobs and NPCs).
THEOREM GoodsInvariant == Spec => []GInv
<1>1. Init => GInv
  BY InitGood
<1>2. GInv /\ [Next]_vars => GInv'
  BY NextGood
<1> QED BY <1>1, <1>2, PTL DEF Spec

\* A sound market is well typed.
LEMMA GoodsTyped ==
  ASSUME GInv
  PROVE  TypeOK
<1> DEFINE m == market
<1>1. Sound(m)
  BY DEF GInv
<1> HIDE DEF m
<1>2. /\ m.book \in SUBSET Quote /\ m.wallets \in [Purses -> Wallet] /\ m.now \in 0 .. MaxNow
      /\ m.price \in [Commodities -> 1 .. MaxPrice] /\ m.halted \subseteq Commodities
      /\ m.issued \in [Commodities -> 0 .. MAX_UNITS]
      /\ m.held \in Units /\ m.reserved_units \in Units
  BY <1>1, FieldsAre
<1>3. DOMAIN m.catalog \subseteq Commodities
  <2>1. m.catalog \in PartialFn(Commodities, Item)
    BY <1>1, FieldsAre
  <2> QED BY <2>1, PartialIs
<1>4. DOMAIN m.recipes \subseteq RecipeIds
  <2>1. m.recipes \in PartialFn(RecipeIds, Recipe)
    BY <1>1, FieldsAre
  <2> QED BY <2>1, PartialIs
<1>5. DOMAIN m.npcs \subseteq Range(Npcs)
  <2>1. m.npcs \in PartialFn(Range(Npcs), Npc)
    BY <1>1, FieldsAre
  <2> QED BY <2>1, PartialIs
<1>6. DOMAIN m.jobs \subseteq 1 .. m.next_job - 1
  <2>1. m.jobs \in PartialFn(Nat \ {0}, Job) /\ m.next_job \in Nat \ {0}
    BY <1>1, FieldsAre
  <2>2. DOMAIN m.jobs \subseteq Nat \ {0}
    BY <2>1, PartialIs
  <2>3. \A id \in DOMAIN m.jobs : id < m.next_job
    BY <1>1 DEF Sound, Formed
  <2> QED BY <2>1, <2>2, <2>3
<1> QED BY <1>2, <1>3, <1>4, <1>5, <1>6 DEF TypeOK, m, Wallet, Quote, Units

\* A market's fields are what their types say, whatever is sent: no wallet
\* overflows, no count of a good issued exceeds u64, no price reaches zero.
THEOREM GoodsTypes == Spec => []TypeOK
<1>1. GInv => TypeOK
  BY GoodsTyped
<1> QED BY <1>1, GoodsInvariant, PTL

\* In a sound market units and cents are accounted for, and no more of a good
\* is consumed than was issued, since nobody holds less than none.
LEMMA GoodsAccounted ==
  ASSUME GInv
  PROVE  UnitsAccounted
<1> DEFINE m == market
<1>1. Sound(m)
  BY DEF GInv
<1> HIDE DEF m
<1>2. Balances(m.wallets) = TREASURY + SumFunction(Cash)
  BY <1>1 DEF Sound, Accounted
<1>3. ASSUME NEW sym \in Commodities
      PROVE  /\ m.consumed[sym] <= m.issued[sym]
             /\ m.issued[sym] - m.consumed[sym] = HeldUnits(m, sym)
  <2>1. m.issued[sym] - m.consumed[sym] = HeldUnits(m, sym)
    BY <1>1 DEF Sound, Accounted
  <2>2. HeldUnits(m, sym) \in Nat
    <3> DEFINE f == [t \in Traders |-> m.held[t][sym]]
    <3>1. \A t \in Traders : f[t] \in Nat
      <4>1. m.held \in Units
        BY <1>1, FieldsAre
      <4> QED BY <4>1 DEF Units
    <3>2. HeldUnits(m, sym) = SumFunctionOnSet(f, Traders)
      BY DEF HeldUnits, SumFunction, SumFunctionOnSet
    <3> HIDE DEF f
    <3> QED BY <3>1, <3>2, TradersFinite, SumNat
  <2>3. m.issued[sym] \in Nat /\ m.consumed[sym] \in Nat
    <3>1. m.issued \in [Commodities -> 0 .. MAX_UNITS] /\ m.consumed \in [Commodities -> Nat]
      BY <1>1, FieldsAre
    <3>2. MAX_UNITS \in Nat
      BY GoodsAssumption
    <3> QED BY <3>1, <3>2
  <2> QED BY <2>1, <2>2, <2>3
<1> QED BY <1>2, <1>3 DEF UnitsAccounted, Balances, m

\* The audit's sentence, at every state: what is issued and not yet consumed
\* is what the holders hold, of every good, and the cents of all the purses
\* are those there were at first.
THEOREM UnitsAlwaysAccounted == Spec => []UnitsAccounted
<1>1. GInv => UnitsAccounted
  BY GoodsAccounted
<1> QED BY <1>1, GoodsInvariant, PTL

\* In a sound market quotes are backed.
LEMMA GoodsBacked ==
  ASSUME GInv
  PROVE  QuotesAreBacked
<1>1. Sound(market)
  BY DEF GInv
<1>2. Backed(market)
  BY <1>1 DEF Sound
<1>3. ASSUME NEW n \in Range(Npcs), QuotesOf(market, n) # {}
      PROVE  market.npcs[n].active /\ market.wallets[AccountOf[n]].status = "Active"
  BY <1>1, <1>3 DEF Sound, Placed, QuotesOf
<1> QED BY <1>2, <1>3 DEF QuotesAreBacked, Backed

\* What an NPC has reserved is what it quotes, which it can pay for and holds,
\* and one that is off or frozen quotes nothing (Market::release, cancel_all,
\* requote, freeze_account and every fill).
THEOREM QuotesAlwaysBacked == Spec => []QuotesAreBacked
<1>1. GInv => QuotesAreBacked
  BY GoodsBacked
<1> QED BY <1>1, GoodsInvariant, PTL

\* What a quote of a market is, that follows its reference and is fresh.
LEMMA QuoteFollows ==
  ASSUME NEW m, Sound(m), Follows(m), \A n \in DOMAIN m.npcs : Fresh(m, n),
         NEW o \in m.book, o.symbol \notin m.halted,
         NEW npc, npc = m.npcs[o.trader], NEW ref, ref = m.price[o.symbol],
         NEW was, Whole(was, m)
  PROVE  /\ o.price = LevelPrice(npc.policy, o.side, npc.quoted_ref, o.level)
         /\ InBand(npc.policy, npc.quoted_ref, ref)
         /\ LET size == ScaledQty(npc.policy.size, MultiplierBps(m, "Demand", o.symbol))
            IN  o.qty = size \/ (o.qty < size /\ o \in was.book)
         /\ ~Crosses(m, o)
<1>1. /\ o.trader \in DOMAIN m.npcs /\ npc.active /\ o.symbol = npc.symbol /\ ~Crosses(m, o)
  BY DEF Sound, Placed
<1>2. /\ InBand(npc.policy, npc.quoted_ref, ref)
      /\ npc.quoted_size = SizeNow(m, o.trader)
  BY <1>1 DEF Fresh
<1>3. /\ o.price = LevelPrice(npc.policy, o.side, npc.quoted_ref, o.level)
      /\ o.qty <= npc.quoted_size
  BY DEF Follows
<1>4. SizeNow(m, o.trader) = ScaledQty(npc.policy.size, MultiplierBps(m, "Demand", o.symbol))
  BY <1>1 DEF SizeNow
<1>5. o.qty \in Nat /\ SizeNow(m, o.trader) \in Nat
  BY <1>1, SizeIs, FieldsAre DEF Quote
<1>6. o.qty = npc.quoted_size \/ o \in was.book
  BY DEF Whole
<1> DEFINE size == SizeNow(m, o.trader)
           qty == o.qty
<1>7. qty \in Nat /\ size \in Nat /\ qty <= size /\ (qty = size \/ o \in was.book)
  BY <1>2, <1>3, <1>5, <1>6
<1> HIDE DEF size, qty
<1>8. qty = size \/ (qty < size /\ o \in was.book)
  BY <1>7
<1> QED BY <1>1, <1>2, <1>3, <1>4, <1>8 DEF size, qty

\* After a step a quote in a symbol that trades follows the market.
LEMMA GoodsFollow ==
  ASSUME GInv, [Next]_vars, market'.now # market.now, NEW o \in market'.book,
         o.symbol \notin market'.halted
  PROVE  LET npc  == market'.npcs[o.trader]
             ref  == market'.price[o.symbol]
             size == ScaledQty(npc.policy.size, MultiplierBps(market', "Demand", o.symbol))
         IN  /\ o.price = LevelPrice(npc.policy, o.side, npc.quoted_ref, o.level)
             /\ Max({ref - npc.quoted_ref, npc.quoted_ref - ref}) * BPS
                  <= npc.policy.requote * npc.quoted_ref
             /\ o.qty = size \/ (o.qty < size /\ o \in market.book)
             /\ ~Crosses(market', o)
<1> DEFINE e == market'
           npc == e.npcs[o.trader]
           ref == e.price[o.symbol]
           size == ScaledQty(npc.policy.size, MultiplierBps(e, "Demand", o.symbol))
<1>1. Step
  <2>1. ~Commanded
    BY CommandedGood DEF Good, Undisturbed
  <2>2. ~UNCHANGED vars
    BY DEF vars
  <2> QED BY <2>1, <2>2, NextIs
<1>2. Sound(e) /\ Follows(e) /\ Whole(market, e) /\ \A n \in DOMAIN e.npcs : Fresh(e, n)
  BY <1>1, StepIs
<1>3. /\ o.price = LevelPrice(npc.policy, o.side, npc.quoted_ref, o.level)
      /\ InBand(npc.policy, npc.quoted_ref, ref)
      /\ o.qty = size \/ (o.qty < size /\ o \in market.book)
      /\ ~Crosses(e, o)
  <2> HIDE DEF e
  <2> QED BY <1>2, QuoteFollows DEF e
<1> QED BY <1>3 DEF InBand

\* After each step every quote on a book that trades was drawn around a
\* reference within its NPC's band of the market's, for as much as the world
\* wants now, or less when it rested before and was taken in part, and reaches
\* no other (npc.rs, Market::requote).
THEOREM QuotesAlwaysFollow == Spec => QuotesFollowTheMarket
<1>1. GInv /\ [Next]_vars =>
        [market'.now # market.now =>
           \A o \in market'.book :
              LET npc  == market'.npcs[o.trader]
                  ref  == market'.price[o.symbol]
                  size == ScaledQty(npc.policy.size, MultiplierBps(market', "Demand", o.symbol))
              IN  o.symbol \notin market'.halted =>
                    /\ o.price = LevelPrice(npc.policy, o.side, npc.quoted_ref, o.level)
                    /\ Max({ref - npc.quoted_ref, npc.quoted_ref - ref}) * BPS
                         <= npc.policy.requote * npc.quoted_ref
                    /\ o.qty = size \/ (o.qty < size /\ o \in market.book)
                    /\ ~Crosses(market', o)]_vars
  BY GoodsFollow
<1> QED BY <1>1, GoodsInvariant, PTL DEF Spec, QuotesFollowTheMarket

\* A job put as it was before it ended.
LEMMA EndedIs ==
  ASSUME NEW job \in Job, job.status = "Running"
  PROVE  /\ job.refunded = 0 /\ job.cost \in Nat
         /\ [[job EXCEPT !.status = "Done"] EXCEPT !.status = job.status, !.refunded = 0] = job
         /\ [job EXCEPT !.status = "Done"].status = "Done"
         /\ [job EXCEPT !.status = "Done"].refunded = 0
         /\ [job EXCEPT !.status = job.status, !.refunded = 0] = job
         /\ \A refund \in Nat :
              LET x == [job EXCEPT !.status = "Cancelled", !.refunded = refund]
              IN  /\ [x EXCEPT !.status = job.status, !.refunded = 0] = job
                  /\ x.status = "Cancelled" /\ x.refunded = refund
BY DEF Job

\* What becomes of a running job.
Treated(job, now, then, logged, after) ==
  LET done == then # now /\ job.due <= then IN
  /\ ~logged => done
  /\ logged => /\ [after EXCEPT !.status = job.status, !.refunded = 0] = job
               /\ done <=> after.status = "Done"
               /\ then # now => after.status # "Cancelled"
               /\ after.refunded <= job.cost

\* A step does with a running job what was promised.
LEMMA StepTreats ==
  ASSUME NEW m, Sound(m), NEW e, Ended(m, e), e.now # m.now, NEW id \in Running(m)
  PROVE  Treated(m.jobs[id], m.now, e.now, id \in DOMAIN e.jobs, e.jobs[id])
<1> DEFINE job == m.jobs[id]
           after == e.jobs[id]
<1>1. job \in Job /\ job.status = "Running"
  BY RunningIs
<1>2. /\ job.refunded = 0 /\ job.cost \in Nat
      /\ [[job EXCEPT !.status = "Done"] EXCEPT !.status = job.status, !.refunded = 0] = job
      /\ [job EXCEPT !.status = "Done"].status = "Done"
      /\ [job EXCEPT !.status = "Done"].refunded = 0
      /\ [job EXCEPT !.status = job.status, !.refunded = 0] = job
  BY <1>1, EndedIs
<1>3. CASE job.due <= e.now
  <2>1. id \in DueAt(m, e.now)
    BY <1>3 DEF DueAt
  <2>2. id \in DOMAIN e.jobs => after = [job EXCEPT !.status = "Done"]
    BY <2>1 DEF Ended
  <2> HIDE DEF job, after
  <2>3. Treated(job, m.now, e.now, id \in DOMAIN e.jobs, after)
    <3>1. CASE id \in DOMAIN e.jobs
      <4>1. after = [job EXCEPT !.status = "Done"]
        BY <2>2, <3>1
      <4>2. /\ [after EXCEPT !.status = job.status, !.refunded = 0] = job
            /\ after.status = "Done" /\ after.refunded = 0 /\ 0 <= job.cost
        BY <1>2, <4>1
      <4> QED BY <1>3, <3>1, <4>2 DEF Treated
    <3>2. CASE id \notin DOMAIN e.jobs
      BY <1>3, <3>2 DEF Treated
    <3> QED BY <3>1, <3>2
  <2> QED BY <2>3 DEF job, after
<1>4. CASE ~(job.due <= e.now)
  <2>1. id \notin DueAt(m, e.now)
    BY <1>4 DEF DueAt
  <2>2. id \in DOMAIN e.jobs /\ after = job
    BY <2>1 DEF Ended
  <2> HIDE DEF job, after
  <2>3. /\ [after EXCEPT !.status = job.status, !.refunded = 0] = job
        /\ after.status = "Running" /\ after.refunded = 0 /\ 0 <= job.cost
    BY <1>1, <1>2, <2>2
  <2>4. Treated(job, m.now, e.now, id \in DOMAIN e.jobs, after)
    BY <1>4, <2>2, <2>3 DEF Treated
  <2> QED BY <2>4 DEF job, after
<1> QED BY <1>3, <1>4

\* A command leaves a running job alone or cancels it for no more than its
\* cost.
LEMMA CommandTreats ==
  ASSUME NEW m, Sound(m), NEW e, Undisturbed(m, e), NEW id \in Running(m)
  PROVE  Treated(m.jobs[id], m.now, e.now, id \in DOMAIN e.jobs, e.jobs[id])
<1> DEFINE job == m.jobs[id]
           after == e.jobs[id]
<1>1. job \in Job /\ job.status = "Running"
  BY RunningIs
<1>2. /\ job.refunded = 0 /\ job.cost \in Nat
      /\ [job EXCEPT !.status = job.status, !.refunded = 0] = job
      /\ \A refund \in Nat :
           LET x == [job EXCEPT !.status = "Cancelled", !.refunded = refund]
           IN  /\ [x EXCEPT !.status = job.status, !.refunded = 0] = job
               /\ x.status = "Cancelled" /\ x.refunded = refund
  BY <1>1, EndedIs
<1>3. e.now = m.now /\ id \in DOMAIN e.jobs /\ (after = job \/ Refunded(job, after))
  BY DEF Undisturbed
<1> HIDE DEF job, after
<1>4. /\ [after EXCEPT !.status = job.status, !.refunded = 0] = job
      /\ after.status # "Done" /\ after.refunded <= job.cost
  <2>1. CASE after = job
    <3>1. job.refunded <= job.cost
      <4>1. job.refunded = 0 /\ job.cost \in Nat
        BY <1>2
      <4> QED BY <4>1
    <3>2. [job EXCEPT !.status = job.status, !.refunded = 0] = job /\ job.status # "Done"
      BY <1>1, <1>2
    <3> QED BY <2>1, <3>1, <3>2
  <2>2. CASE Refunded(job, after)
    <3>1. PICK refund \in Nat :
            refund <= job.cost /\ after = [job EXCEPT !.status = "Cancelled", !.refunded = refund]
      BY <2>2 DEF Refunded
    <3> QED BY <1>2, <3>1
  <2> QED BY <1>3, <2>1, <2>2
<1>5. Treated(job, m.now, e.now, id \in DOMAIN e.jobs, after)
  BY <1>3, <1>4 DEF Treated
<1> QED BY <1>5 DEF job, after

\* What each player is handed in a step.
Served(m, e) ==
  \A t \in Players, sym \in Commodities :
    m.issued[sym] + PromisedOf(m, DueAt(m, e.now), sym) <= MAX_UNITS =>
      e.held[t][sym] = m.held[t][sym]
        + PromisedOf(m, {id \in DueAt(m, e.now) : m.jobs[id].trader = t}, sym)

Fulfilled(m, e) ==
  /\ \A id \in Running(m) :
       Treated(m.jobs[id], m.now, e.now, id \in DOMAIN e.jobs, e.jobs[id])
  /\ e.now # m.now => Served(m, e)

\* Every step of a behaviour keeps every promise.
LEMMA GoodsKept ==
  ASSUME GInv, [Next]_vars
  PROVE  Fulfilled(market, market')
<1> DEFINE m == market
           e == market'
<1>1. Sound(m)
  BY DEF GInv
<1>2. CASE Step
  <2>1. Ended(m, e) /\ Handing(m, e) /\ e.now = m.now + 1
    BY <1>2, StepIs
  <2> HIDE DEF m, e
  <2>2. e.now # m.now
    <3>1. m.now \in 0 .. MaxNow /\ MaxNow \in Nat
      BY <1>1, FieldsAre, GoodsAssumption
    <3> QED BY <2>1, <3>1
  <2>3. Served(m, e)
    BY <2>1 DEF Handing, Served
  <2>4. Fulfilled(m, e)
    BY <1>1, <2>1, <2>2, <2>3, StepTreats DEF Fulfilled
  <2> QED BY <2>4 DEF m, e
<1>3. CASE Commanded
  <2>1. Undisturbed(m, e)
    BY <1>3, CommandedGood DEF Good
  <2> HIDE DEF m, e
  <2>2. e.now = m.now
    BY <2>1 DEF Undisturbed
  <2>3. Fulfilled(m, e)
    BY <1>1, <2>1, <2>2, CommandTreats DEF Fulfilled
  <2> QED BY <2>3 DEF m, e
<1>4. CASE UNCHANGED vars
  <2>1. e = m
    BY <1>4 DEF vars
  <2> HIDE DEF m, e
  <2>2. Undisturbed(m, e)
    BY <2>1 DEF Undisturbed, Running
  <2>3. Fulfilled(m, e)
    BY <1>1, <2>1, <2>2, CommandTreats DEF Fulfilled
  <2> QED BY <2>3 DEF m, e
<1> QED BY <1>2, <1>3, <1>4, NextIs

\* "A promise the world has taken money for": whatever is rewritten, removed
\* or announced meanwhile, a running job is done in the first step that
\* reaches its time, for exactly what it promised, or was cancelled by
\* whoever started it for no more than it cost (jobs.rs, Market::step).
THEOREM PromisesAlwaysKept == Spec => PromisesKept
<1>1. GInv /\ [Next]_vars =>
        [/\ \A id \in Running(market) :
              LET job   == market.jobs[id]
                  after == market'.jobs[id]
                  done  == market'.now # market.now /\ job.due <= market'.now
              IN  /\ id \notin DOMAIN market'.jobs => done
                  /\ id \in DOMAIN market'.jobs =>
                       /\ [after EXCEPT !.status = job.status, !.refunded = 0] = job
                       /\ done <=> after.status = "Done"
                       /\ market'.now # market.now => after.status # "Cancelled"
                       /\ after.refunded <= job.cost
         /\ market'.now # market.now =>
              \A t \in Players, sym \in Commodities :
                  LET due == DueBy(market'.now) IN
                  market.issued[sym] + Promised(due, sym) <= MAX_UNITS =>
                      market'.held[t][sym] = market.held[t][sym]
                        + Promised({id \in due : market.jobs[id].trader = t}, sym)]_vars
  <2> SUFFICES ASSUME GInv, [Next]_vars
      PROVE  /\ \A id \in Running(market) :
                  LET job   == market.jobs[id]
                      after == market'.jobs[id]
                      done  == market'.now # market.now /\ job.due <= market'.now
                  IN  /\ id \notin DOMAIN market'.jobs => done
                      /\ id \in DOMAIN market'.jobs =>
                           /\ [after EXCEPT !.status = job.status, !.refunded = 0] = job
                           /\ done <=> after.status = "Done"
                           /\ market'.now # market.now => after.status # "Cancelled"
                           /\ after.refunded <= job.cost
             /\ market'.now # market.now =>
                  \A t \in Players, sym \in Commodities :
                      LET due == DueBy(market'.now) IN
                      market.issued[sym] + Promised(due, sym) <= MAX_UNITS =>
                          market'.held[t][sym] = market.held[t][sym]
                            + Promised({id \in due : market.jobs[id].trader = t}, sym)
    OBVIOUS
  <2>1. Fulfilled(market, market')
    BY GoodsKept
  <2>2. /\ \A now : DueBy(now) = DueAt(market, now)
        /\ \A ids, sym : Promised(ids, sym) = PromisedOf(market, ids, sym)
    BY DEF DueBy, DueAt, Promised, PromisedOf
  <2>3. \A id \in Running(market) :
          Treated(market.jobs[id], market.now, market'.now,
                  id \in DOMAIN market'.jobs, market'.jobs[id])
    BY <2>1 DEF Fulfilled
  <2>4. market'.now # market.now => Served(market, market')
    BY <2>1 DEF Fulfilled
  <2>5. \A id \in Running(market) :
          LET job   == market.jobs[id]
              after == market'.jobs[id]
              done  == market'.now # market.now /\ job.due <= market'.now
          IN  /\ id \notin DOMAIN market'.jobs => done
              /\ id \in DOMAIN market'.jobs =>
                   /\ [after EXCEPT !.status = job.status, !.refunded = 0] = job
                   /\ done <=> after.status = "Done"
                   /\ market'.now # market.now => after.status # "Cancelled"
                   /\ after.refunded <= job.cost
    BY <2>3 DEF Treated
  <2>6. market'.now # market.now =>
          \A t \in Players, sym \in Commodities :
              LET due == DueBy(market'.now) IN
              market.issued[sym] + Promised(due, sym) <= MAX_UNITS =>
                  market'.held[t][sym] = market.held[t][sym]
                    + Promised({id \in due : market.jobs[id].trader = t}, sym)
    BY <2>2, <2>4 DEF Served
  <2> QED BY <2>5, <2>6
<1> QED BY <1>1, GoodsInvariant, PTL DEF Spec, PromisesKept

=============================================================================
