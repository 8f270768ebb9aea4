---------------------------- MODULE PayoutsProofs ----------------------------
(***************************************************************************)
(* Theorems of Payouts.tla: what is held back matches what rests, an order *)
(* id names one order for good, and holders are paid alike or not at all,  *)
(* for any holders, symbols, orders and amounts, through any sequence of   *)
(* listings, steps, dividends, freezes and delistings.                     *)
(*                                                                         *)
(* A market is in order (InOrder) when it is well formed, its reservations *)
(* are its books', and its log names its orders.  Each part of a job has a *)
(* lemma of its own (orders withdrawn, one filled, a wallet paid, holders  *)
(* paid, a symbol listed or gone), and each action is a few of these.      *)
(***************************************************************************)
EXTENDS Payouts, Sums

-----------------------------------------------------------------------------
(* A market in order *)

Fields ==
  {"wallets", "issuers", "listed", "book", "symbols", "held", "reserved_shares",
   "next_order_id", "orders"}

Wallet == [balance : Int, reserved : Nat, status : {"Active", "Frozen", "Closed"}]

Symbol == [price : 1 .. MaxPrice, pending : Seq([cents : Int, declared : Nat \ {0}]),
           delisted : BOOLEAN, next_id : Nat]

Record == [trader : Traders, symbol : Tickers, live : BOOLEAN]

\* The order ids given out are below the market's counter.
Formed(m) ==
  /\ DOMAIN m = Fields
  /\ m.wallets \in [Purses -> Wallet]
  /\ m.issuers \subseteq Tickers
  /\ m.listed \subseteq Tickers /\ Cardinality(m.listed) <= MAX_SYMBOLS
  /\ m.book \subseteq OrderType /\ IsFiniteSet(m.book)
  /\ m.symbols \in [Tickers -> Symbol]
  /\ m.held \in [Traders -> [Tickers -> Nat]]
  /\ m.reserved_shares \in [Traders -> [Tickers -> Nat]]
  /\ m.next_order_id \in Nat
  /\ m.orders \in [DOMAIN m.orders -> Record]
  /\ \A id \in DOMAIN m.orders : id \in Nat /\ id < m.next_order_id

\* PromisesMatchBooks, of a market.
Covered(m) ==
  /\ \A a \in Accounts : m.wallets[a].reserved = BidCents(m.book, a)
  /\ \A t \in Traders, sym \in Tickers :
       /\ m.reserved_shares[t][sym] = AskShares(m.book, t, sym)
       /\ m.reserved_shares[t][sym] <= m.held[t][sym]

\* LogNamesTheBooks, of a market.
Logged(m) ==
  /\ \A id \in DOMAIN m.orders : m.orders[id].live => \E o \in m.book : o.id = id
  /\ \A o \in m.book :
       /\ o.id \in DOMAIN m.orders
       /\ m.orders[o.id] = [trader |-> o.trader, symbol |-> o.symbol, live |-> TRUE]
       /\ \A p \in m.book : p.id = o.id => p = o

\* Nothing is left in a symbol that is not listed, and one wound up is
\* listed with nothing on its book.
ListingOK(m, sym) ==
  /\ ~IsListed(m, sym) => BookOf(m, sym) = {} /\ \A t \in Traders : m.held[t][sym] = 0
  /\ m.symbols[sym].delisted => BookOf(m, sym) = {} /\ IsListed(m, sym)

InOrder(m) ==
  /\ Formed(m) /\ Covered(m) /\ Logged(m)
  /\ \A sym \in Tickers : ListingOK(m, sym)

-----------------------------------------------------------------------------
(* What a job does to the holders *)

\* One price per share on every share held in m, out of the issuer's wallet.
PaidOut(m, e, sym, cents) ==
  /\ e.wallets[sym].balance = m.wallets[sym].balance - cents * HeldShares(m, sym)
  /\ \A a \in Accounts :
       e.wallets[a].balance = m.wallets[a].balance + cents * Holding(m, sym, a)

\* HoldersPaidAlike, of the market before a job and the one after.
Alike(m, e) ==
  \A sym \in Tickers :
    \/ /\ e.wallets[sym].balance < m.wallets[sym].balance
       /\ e.wallets["Treasury"] = m.wallets["Treasury"]
    \/ IsListed(m, sym) /\ ~IsListed(e, sym)
    => \E cents \in 0 .. MaxPrice : PaidOut(m, e, sym, cents)

\* No issuer pays anybody but the treasury and no symbol leaves.
NoPayout(m, e) ==
  \A sym \in Tickers :
    /\ \/ e.wallets[sym].balance >= m.wallets[sym].balance
       \/ e.wallets["Treasury"] # m.wallets["Treasury"]
    /\ IsListed(m, sym) => IsListed(e, sym)

PInv == flow \in Flows /\ InOrder(market)

-----------------------------------------------------------------------------
(* Numbers, and the sums of orders *)

\* The larger of two numbers.
LEMMA MaxOfTwo ==
  ASSUME NEW a \in Int, NEW b \in Int
  PROVE  Max({a, b}) = IF a >= b THEN a ELSE b
BY DEF Max

\* The smaller of two numbers.
LEMMA MinOfTwo ==
  ASSUME NEW a \in Int, NEW b \in Int
  PROVE  Min({a, b}) = IF a <= b THEN a ELSE b
BY DEF Min

\* Where no issuer pays and no symbol leaves, holders are treated alike.
LEMMA NoPayoutAlike ==
  ASSUME NEW m, NEW e, NoPayout(m, e), \A sym \in Tickers :
           e.wallets[sym].balance \in Int /\ m.wallets[sym].balance \in Int
  PROVE  Alike(m, e)
BY DEF NoPayout, Alike

\* What bids hold back of an account adds up.
LEMMA BidCentsSplit ==
  ASSUME NEW S \in SUBSET OrderType, IsFiniteSet(S), NEW T \in SUBSET S, NEW a
  PROVE  /\ BidCents(S, a) = BidCents(T, a) + BidCents(S \ T, a)
         /\ BidCents(S, a) \in Nat /\ BidCents(T, a) \in Nat /\ BidCents(S \ T, a) \in Nat
<1> DEFINE mine(s) == {b \in s : b.side = "Buy" /\ AccountOf[b.trader] = a}
           worth(o) == o.qty * o.price
           f == [o \in mine(S) |-> worth(o)]
<1>1. \A o \in mine(S) : f[o] \in Nat
  <2>1. \A o \in S : o.qty \in Nat /\ o.price \in Nat
    BY DEF OrderType
  <2> QED BY <2>1, NatTimes
<1>2. IsFiniteSet(mine(S)) /\ IsFiniteSet(mine(T)) /\ IsFiniteSet(mine(S \ T))
  <2>1. mine(S) \subseteq S /\ mine(T) \subseteq S /\ mine(S \ T) \subseteq S
    OBVIOUS
  <2> QED BY <2>1, FS_Subset
<1>3. /\ mine(T) \in SUBSET mine(S) /\ mine(S \ T) \in SUBSET mine(S)
      /\ mine(S) \ mine(T) = mine(S \ T) /\ mine(S) \in SUBSET mine(S)
  OBVIOUS
<1>4. \A s \in SUBSET S : BidCents(s, a) = SumFunction([o \in mine(s) |-> worth(o)])
  BY DEF BidCents
<1>5. \A s \in SUBSET S : mine(s) \in SUBSET mine(S)
  OBVIOUS
<1>11. \A o \in mine(S) : f[o] = worth(o)
  <2> HIDE DEF mine, worth
  <2> QED OBVIOUS
<1> HIDE DEF f, mine, worth
<1>7. \A o \in mine(S) : f[o] \in Int
  BY <1>1
<1>6. \A s \in SUBSET S : BidCents(s, a) = SumFunctionOnSet(f, mine(s))
  <2> SUFFICES ASSUME NEW s \in SUBSET S PROVE BidCents(s, a) = SumFunctionOnSet(f, mine(s))
    OBVIOUS
  <2> DEFINE g == [o \in mine(s) |-> worth(o)]
  <2>1. DOMAIN g = mine(s) /\ (\A o \in mine(s) : g[o] = f[o]) /\ mine(s) \in SUBSET mine(S)
    BY <1>5, <1>11
  <2>2. BidCents(s, a) = SumFunction(g)
    BY <1>4
  <2> HIDE DEF g
  <2>3. SumFunction(g) = SumFunctionOnSet(f, mine(s))
    BY <1>2, <1>7, <2>1, SumOfPart
  <2> QED BY <2>2, <2>3
<1>8. SumFunctionOnSet(f, mine(S))
        = SumFunctionOnSet(f, mine(T)) + SumFunctionOnSet(f, mine(S) \ mine(T))
  BY <1>2, <1>3, <1>7, SumSplit
<1>9. /\ SumFunctionOnSet(f, mine(S)) \in Nat /\ SumFunctionOnSet(f, mine(T)) \in Nat
      /\ SumFunctionOnSet(f, mine(S \ T)) \in Nat
  <2>1. (\A o \in mine(T) : f[o] \in Nat) /\ (\A o \in mine(S \ T) : f[o] \in Nat)
    BY <1>1, <1>3
  <2> QED BY <1>1, <1>2, <2>1, SumNat
<1>10. S \in SUBSET S /\ T \in SUBSET S /\ S \ T \in SUBSET S
  OBVIOUS
<1> QED BY <1>3, <1>6, <1>8, <1>9, <1>10

\* One order holds back what it is worth, if it is a bid of the account's.
LEMMA BidCentsOne ==
  ASSUME NEW o \in OrderType, NEW a
  PROVE  BidCents({o}, a) =
           IF o.side = "Buy" /\ AccountOf[o.trader] = a THEN o.qty * o.price ELSE 0
<1> DEFINE mine == {b \in {o} : b.side = "Buy" /\ AccountOf[b.trader] = a}
           f == [b \in mine |-> b.qty * b.price]
<1>1. BidCents({o}, a) = SumFunctionOnSet(f, mine)
  BY DEF BidCents, SumFunction, SumFunctionOnSet
<1>2. CASE o.side = "Buy" /\ AccountOf[o.trader] = a
  <2>1. mine = {o} /\ f[o] = o.qty * o.price
    BY <1>2
  <2>2. f[o] \in Int
    <3>1. o.qty \in Nat /\ o.price \in Nat
      BY DEF OrderType
    <3> QED BY <2>1, <3>1, NatTimes
  <2> HIDE DEF mine, f
  <2>3. SumFunctionOnSet(f, {o}) = f[o]
    BY <2>2, SumOne
  <2> QED BY <1>1, <1>2, <2>1, <2>3
<1>3. CASE ~(o.side = "Buy" /\ AccountOf[o.trader] = a)
  <2>1. mine = {}
    BY <1>3
  <2> HIDE DEF mine, f
  <2> QED BY <1>1, <1>3, <2>1, SumEmpty
<1> QED BY <1>2, <1>3

\* An account no order is of holds nothing back.
LEMMA BidCentsNone ==
  ASSUME NEW S, NEW a, \A o \in S : AccountOf[o.trader] # a
  PROVE  BidCents(S, a) = 0
<1> DEFINE mine == {b \in S : b.side = "Buy" /\ AccountOf[b.trader] = a}
           f == [b \in mine |-> b.qty * b.price]
<1>1. BidCents(S, a) = SumFunctionOnSet(f, mine)
  BY DEF BidCents, SumFunction, SumFunctionOnSet
<1>2. mine = {}
  OBVIOUS
<1> HIDE DEF mine, f
<1> QED BY <1>1, <1>2, SumEmpty

\* What asks hold back of a trader's shares adds up.
LEMMA AskSharesSplit ==
  ASSUME NEW S \in SUBSET OrderType, IsFiniteSet(S), NEW T \in SUBSET S, NEW t, NEW sym
  PROVE  /\ AskShares(S, t, sym) = AskShares(T, t, sym) + AskShares(S \ T, t, sym)
         /\ AskShares(S, t, sym) \in Nat /\ AskShares(T, t, sym) \in Nat
         /\ AskShares(S \ T, t, sym) \in Nat
<1> DEFINE mine(s) == {b \in s : b.side = "Sell" /\ b.trader = t /\ b.symbol = sym}
           f == [o \in mine(S) |-> o.qty]
<1>1. \A o \in mine(S) : f[o] \in Nat
  BY DEF OrderType
<1>2. IsFiniteSet(mine(S)) /\ IsFiniteSet(mine(T)) /\ IsFiniteSet(mine(S \ T))
  <2>1. mine(S) \subseteq S /\ mine(T) \subseteq S /\ mine(S \ T) \subseteq S
    OBVIOUS
  <2> QED BY <2>1, FS_Subset
<1>3. /\ mine(T) \in SUBSET mine(S) /\ mine(S \ T) \in SUBSET mine(S)
      /\ mine(S) \ mine(T) = mine(S \ T) /\ mine(S) \in SUBSET mine(S)
  OBVIOUS
<1>4. \A s \in SUBSET S : AskShares(s, t, sym) = SumFunction([o \in mine(s) |-> o.qty])
  BY DEF AskShares
<1>5. \A s \in SUBSET S : mine(s) \in SUBSET mine(S)
  OBVIOUS
<1>11. \A o \in mine(S) : f[o] = o.qty
  <2> HIDE DEF mine
  <2> QED OBVIOUS
<1>7. \A o \in mine(S) : f[o] \in Int
  BY <1>1
<1> HIDE DEF f, mine
<1>6. \A s \in SUBSET S : AskShares(s, t, sym) = SumFunctionOnSet(f, mine(s))
  <2> SUFFICES ASSUME NEW s \in SUBSET S
               PROVE  AskShares(s, t, sym) = SumFunctionOnSet(f, mine(s))
    OBVIOUS
  <2> DEFINE g == [o \in mine(s) |-> o.qty]
  <2>1. DOMAIN g = mine(s) /\ (\A o \in mine(s) : g[o] = f[o]) /\ mine(s) \in SUBSET mine(S)
    BY <1>5, <1>11
  <2>2. AskShares(s, t, sym) = SumFunction(g)
    BY <1>4
  <2> HIDE DEF g
  <2>3. SumFunction(g) = SumFunctionOnSet(f, mine(s))
    BY <1>2, <1>7, <2>1, SumOfPart
  <2> QED BY <2>2, <2>3
<1>8. SumFunctionOnSet(f, mine(S))
        = SumFunctionOnSet(f, mine(T)) + SumFunctionOnSet(f, mine(S) \ mine(T))
  BY <1>2, <1>3, <1>7, SumSplit
<1>9. /\ SumFunctionOnSet(f, mine(S)) \in Nat /\ SumFunctionOnSet(f, mine(T)) \in Nat
      /\ SumFunctionOnSet(f, mine(S \ T)) \in Nat
  <2>1. (\A o \in mine(T) : f[o] \in Nat) /\ (\A o \in mine(S \ T) : f[o] \in Nat)
    BY <1>1, <1>3
  <2> QED BY <1>1, <1>2, <2>1, SumNat
<1>10. S \in SUBSET S /\ T \in SUBSET S /\ S \ T \in SUBSET S
  OBVIOUS
<1> QED BY <1>3, <1>6, <1>8, <1>9, <1>10

\* What one order holds back of shares.
LEMMA AskSharesOne ==
  ASSUME NEW o \in OrderType, NEW t, NEW sym
  PROVE  AskShares({o}, t, sym) =
           IF o.side = "Sell" /\ o.trader = t /\ o.symbol = sym THEN o.qty ELSE 0
<1> DEFINE mine == {b \in {o} : b.side = "Sell" /\ b.trader = t /\ b.symbol = sym}
           f == [b \in mine |-> b.qty]
<1>1. AskShares({o}, t, sym) = SumFunctionOnSet(f, mine)
  BY DEF AskShares, SumFunction, SumFunctionOnSet
<1>2. CASE o.side = "Sell" /\ o.trader = t /\ o.symbol = sym
  <2>1. mine = {o} /\ f[o] = o.qty
    BY <1>2
  <2>2. f[o] \in Int
    BY <2>1 DEF OrderType
  <2> HIDE DEF mine, f
  <2>3. SumFunctionOnSet(f, {o}) = f[o]
    BY <2>2, SumOne
  <2> QED BY <1>1, <1>2, <2>1, <2>3
<1>3. CASE ~(o.side = "Sell" /\ o.trader = t /\ o.symbol = sym)
  <2>1. mine = {}
    BY <1>3
  <2> HIDE DEF mine, f
  <2> QED BY <1>1, <1>3, <2>1, SumEmpty
<1> QED BY <1>2, <1>3

\* Shares no order offers are not held back.
LEMMA AskSharesNone ==
  ASSUME NEW S, NEW t, NEW sym, \A o \in S : o.symbol # sym
  PROVE  AskShares(S, t, sym) = 0
<1> DEFINE mine == {b \in S : b.side = "Sell" /\ b.trader = t /\ b.symbol = sym}
           f == [b \in mine |-> b.qty]
<1>1. AskShares(S, t, sym) = SumFunctionOnSet(f, mine)
  BY DEF AskShares, SumFunction, SumFunctionOnSet
<1>2. mine = {}
  OBVIOUS
<1> HIDE DEF mine, f
<1> QED BY <1>1, <1>2, SumEmpty

-----------------------------------------------------------------------------
(* Orders withdrawn *)

\* Withdraw, field by field.
Withdrawn(m, gone, e) ==
  /\ DOMAIN e = Fields
  /\ e.issuers = m.issuers /\ e.listed = m.listed /\ e.symbols = m.symbols
  /\ e.held = m.held /\ e.next_order_id = m.next_order_id
  /\ e.book = m.book \ gone
  /\ e.wallets = [w \in Purses |-> [m.wallets[w] EXCEPT
                    !.reserved = Max({@ - BidCents(gone, w), 0})]]
  /\ e.reserved_shares = [t \in Traders |-> [sym \in Tickers |->
                    Max({m.reserved_shares[t][sym] - AskShares(gone, t, sym), 0})]]
  /\ e.orders = [id \in DOMAIN m.orders |->
                   IF \E o \in gone : o.id = id THEN [m.orders[id] EXCEPT !.live = FALSE]
                   ELSE m.orders[id]]

\* What withdrawing a set of orders leaves alone.
LEMMA WithdrawIs ==
  ASSUME NEW m, DOMAIN m = Fields, NEW gone
  PROVE  Withdrawn(m, gone, Withdraw(m, gone))
<1> DEFINE r == Release(m, gone)
           e == [r EXCEPT !.book = @ \ gone]
           F == [w \in Purses |-> [m.wallets[w] EXCEPT
                   !.reserved = Max({@ - BidCents(gone, w), 0})]]
           G == [t \in Traders |-> [sym \in Tickers |->
                   Max({m.reserved_shares[t][sym] - AskShares(gone, t, sym), 0})]]
           H == [id \in DOMAIN m.orders |->
                   IF \E o \in gone : o.id = id THEN [m.orders[id] EXCEPT !.live = FALSE]
                   ELSE m.orders[id]]
<1>1. r = [m EXCEPT !.wallets = F, !.reserved_shares = G, !.orders = H]
  BY DEF Release
<1> HIDE DEF r, F, G, H
<1>2. /\ DOMAIN r = Fields
      /\ r.issuers = m.issuers /\ r.listed = m.listed /\ r.symbols = m.symbols
      /\ r.held = m.held /\ r.next_order_id = m.next_order_id /\ r.book = m.book
      /\ r.wallets = F /\ r.reserved_shares = G /\ r.orders = H
  BY <1>1 DEF Fields
<1>5. /\ DOMAIN e = Fields /\ e.book = m.book \ gone
      /\ e.issuers = r.issuers /\ e.listed = r.listed /\ e.symbols = r.symbols
      /\ e.held = r.held /\ e.next_order_id = r.next_order_id
      /\ e.wallets = r.wallets /\ e.reserved_shares = r.reserved_shares /\ e.orders = r.orders
  BY <1>2 DEF Fields
<1>6. Withdraw(m, gone) = e
  BY DEF Withdraw, r
<1> HIDE DEF e
<1> QED BY <1>2, <1>5, <1>6 DEF Withdrawn, F, G, H

\* What is withdrawn is no longer held back, and is still remembered; nothing
\* is paid and nothing else changes.
LEMMA WithdrawKeeps ==
  ASSUME NEW m, InOrder(m), NEW gone \in SUBSET m.book, NEW e, e = Withdraw(m, gone)
  PROVE  /\ InOrder(e)
         /\ e.issuers = m.issuers /\ e.listed = m.listed /\ e.symbols = m.symbols
         /\ e.held = m.held /\ e.next_order_id = m.next_order_id
         /\ e.book = m.book \ gone
         /\ \A w \in Purses : /\ e.wallets[w].balance = m.wallets[w].balance
                              /\ e.wallets[w].status = m.wallets[w].status
<1> USE DEF InOrder
<1>1. Withdrawn(m, gone, e)
  BY WithdrawIs DEF Formed
<1>2. /\ m.book \in SUBSET OrderType /\ IsFiniteSet(m.book)
      /\ gone \in SUBSET OrderType /\ IsFiniteSet(gone)
      /\ e.book \in SUBSET OrderType /\ IsFiniteSet(e.book)
  <2>1. m.book \in SUBSET OrderType /\ IsFiniteSet(m.book)
    BY DEF Formed
  <2>2. gone \in SUBSET OrderType /\ e.book \in SUBSET OrderType
    BY <1>1, <2>1 DEF Withdrawn
  <2>3. IsFiniteSet(gone) /\ IsFiniteSet(m.book \ gone)
    BY <2>1, FS_Subset
  <2> QED BY <1>1, <2>1, <2>2, <2>3 DEF Withdrawn
<1>3. \A a : /\ BidCents(m.book, a) = BidCents(gone, a) + BidCents(e.book, a)
             /\ BidCents(m.book, a) \in Nat /\ BidCents(gone, a) \in Nat
             /\ BidCents(e.book, a) \in Nat
  <2> SUFFICES ASSUME NEW a
               PROVE  /\ BidCents(m.book, a) = BidCents(gone, a) + BidCents(m.book \ gone, a)
                      /\ BidCents(m.book, a) \in Nat /\ BidCents(gone, a) \in Nat
                      /\ BidCents(m.book \ gone, a) \in Nat
    BY <1>1 DEF Withdrawn
  <2> QED BY <1>2, BidCentsSplit
<1>4. \A t, sym : /\ AskShares(m.book, t, sym) = AskShares(gone, t, sym) + AskShares(e.book, t, sym)
                  /\ AskShares(m.book, t, sym) \in Nat /\ AskShares(gone, t, sym) \in Nat
                  /\ AskShares(e.book, t, sym) \in Nat
  <2>1. ASSUME NEW t, NEW sym
        PROVE  /\ AskShares(m.book, t, sym)
                    = AskShares(gone, t, sym) + AskShares(m.book \ gone, t, sym)
               /\ AskShares(m.book, t, sym) \in Nat /\ AskShares(gone, t, sym) \in Nat
               /\ AskShares(m.book \ gone, t, sym) \in Nat
    BY <1>2, AskSharesSplit
  <2>2. e.book = m.book \ gone
    BY <1>1 DEF Withdrawn
  <2> QED BY <2>1, <2>2
<1>5. ASSUME NEW w \in Purses
      PROVE  /\ e.wallets[w] \in Wallet
             /\ e.wallets[w].balance = m.wallets[w].balance
             /\ e.wallets[w].status = m.wallets[w].status
             /\ e.wallets[w].reserved =
                  IF m.wallets[w].reserved - BidCents(gone, w) >= 0
                  THEN m.wallets[w].reserved - BidCents(gone, w) ELSE 0
  <2>1. m.wallets[w] \in Wallet /\ m.wallets[w].reserved \in Nat
    BY DEF Formed, Wallet
  <2>2. Max({m.wallets[w].reserved - BidCents(gone, w), 0})
          = IF m.wallets[w].reserved - BidCents(gone, w) >= 0
            THEN m.wallets[w].reserved - BidCents(gone, w) ELSE 0
    BY <1>3, <2>1, MaxOfTwo
  <2> DEFINE r == Max({m.wallets[w].reserved - BidCents(gone, w), 0})
  <2>3. r \in Nat
    BY <1>3, <2>1, <2>2
  <2>4. e.wallets[w] = [m.wallets[w] EXCEPT !.reserved = r]
    BY <1>1 DEF Withdrawn
  <2> HIDE DEF r
  <2>5. e.wallets[w] \in Wallet /\ e.wallets[w].balance = m.wallets[w].balance
        /\ e.wallets[w].status = m.wallets[w].status /\ e.wallets[w].reserved = r
    BY <2>1, <2>3, <2>4 DEF Wallet
  <2> QED BY <2>2, <2>5 DEF r
<1>6. ASSUME NEW t \in Traders, NEW sym \in Tickers
      PROVE  /\ e.reserved_shares[t][sym] \in Nat
             /\ e.reserved_shares[t][sym] = AskShares(e.book, t, sym)
             /\ e.reserved_shares[t][sym] <= e.held[t][sym]
  <2>1. /\ m.reserved_shares[t][sym] = AskShares(m.book, t, sym)
        /\ m.reserved_shares[t][sym] <= m.held[t][sym] /\ m.held[t][sym] \in Nat
    BY DEF Formed, Covered
  <2>2. e.reserved_shares[t][sym] = Max({m.reserved_shares[t][sym] - AskShares(gone, t, sym), 0})
    BY <1>1 DEF Withdrawn
  <2>3. e.reserved_shares[t][sym] = AskShares(e.book, t, sym)
    <3> DEFINE x == AskShares(m.book, t, sym)
               y == AskShares(gone, t, sym)
               z == AskShares(e.book, t, sym)
    <3>1. x \in Nat /\ y \in Nat /\ z \in Nat /\ x = y + z
      BY <1>4
    <3>2. e.reserved_shares[t][sym] = Max({x - y, 0})
      BY <2>1, <2>2
    <3> HIDE DEF x, y, z
    <3>3. e.reserved_shares[t][sym] = z
      BY <3>1, <3>2, MaxOfTwo
    <3> QED BY <3>3 DEF z
  <2>4. e.held = m.held
    BY <1>1 DEF Withdrawn
  <2>5. AskShares(m.book, t, sym) = AskShares(gone, t, sym) + AskShares(e.book, t, sym)
        /\ AskShares(gone, t, sym) \in Nat /\ AskShares(e.book, t, sym) \in Nat
    BY <1>4
  <2> QED BY <2>1, <2>3, <2>4, <2>5
<1>7. Formed(e)
  <2>1. e.wallets \in [Purses -> Wallet]
    BY <1>1, <1>5 DEF Withdrawn
  <2>2. e.reserved_shares \in [Traders -> [Tickers -> Nat]]
    <3>1. e.reserved_shares = [t \in Traders |-> [sym \in Tickers |-> e.reserved_shares[t][sym]]]
      BY <1>1 DEF Withdrawn
    <3> QED BY <1>6, <3>1
  <2>3. /\ e.orders \in [DOMAIN e.orders -> Record]
        /\ \A id \in DOMAIN e.orders : id \in Nat /\ id < e.next_order_id
    <3>1. \A id \in DOMAIN m.orders : m.orders[id] \in Record
      BY DEF Formed
    <3>2. \A r \in Record : [r EXCEPT !.live = FALSE] \in Record
      BY DEF Record
    <3>3. DOMAIN e.orders = DOMAIN m.orders
      BY <1>1 DEF Withdrawn
    <3>4. \A id \in DOMAIN m.orders : e.orders[id] \in Record
      BY <1>1, <3>1, <3>2 DEF Withdrawn
    <3>5. e.orders = [id \in DOMAIN e.orders |-> e.orders[id]]
      BY <1>1, <3>3 DEF Withdrawn
    <3>6. \A id \in DOMAIN e.orders : id \in Nat /\ id < e.next_order_id
      BY <1>1, <3>3 DEF Formed, Withdrawn
    <3> QED BY <3>3, <3>4, <3>5, <3>6
  <2> QED BY <1>1, <1>2, <2>1, <2>2, <2>3 DEF Formed, Withdrawn
<1>8. Covered(e)
  <2>1. ASSUME NEW a \in Accounts
        PROVE  e.wallets[a].reserved = BidCents(e.book, a)
    <3>1. a \in Purses /\ m.wallets[a].reserved = BidCents(m.book, a)
      BY DEF Purses, Covered
    <3> QED BY <1>3, <1>5, <3>1
  <2> QED BY <1>6, <2>1 DEF Covered
<1>9. Logged(e)
  <2>1. ASSUME NEW id \in DOMAIN e.orders, e.orders[id].live
        PROVE  \E o \in e.book : o.id = id
    <3>1. id \in DOMAIN m.orders /\ m.orders[id] \in Record
      BY <1>1 DEF Formed, Withdrawn
    <3>2. ~(\E o \in gone : o.id = id) /\ m.orders[id].live
      BY <1>1, <2>1, <3>1 DEF Record, Withdrawn
    <3>3. PICK o \in m.book : o.id = id
      BY <3>1, <3>2 DEF Logged
    <3> QED BY <1>1, <3>2, <3>3 DEF Withdrawn
  <2>2. ASSUME NEW o \in e.book
        PROVE  /\ o.id \in DOMAIN e.orders
               /\ e.orders[o.id] = [trader |-> o.trader, symbol |-> o.symbol, live |-> TRUE]
               /\ \A p \in e.book : p.id = o.id => p = o
    <3>1. /\ o \in m.book /\ o.id \in DOMAIN m.orders
          /\ m.orders[o.id] = [trader |-> o.trader, symbol |-> o.symbol, live |-> TRUE]
          /\ \A p \in m.book : p.id = o.id => p = o
      BY <1>1 DEF Logged, Withdrawn
    <3>2. ~(\E p \in gone : p.id = o.id)
      BY <1>1, <3>1 DEF Withdrawn
    <3> QED BY <1>1, <3>1, <3>2 DEF Withdrawn
  <2> QED BY <2>1, <2>2 DEF Logged
<1>10. \A sym \in Tickers : ListingOK(e, sym)
  BY <1>1 DEF ListingOK, BookOf, IsListed, Withdrawn
<1> QED BY <1>1, <1>5, <1>7, <1>8, <1>9, <1>10 DEF Withdrawn

-----------------------------------------------------------------------------
(* Money moved, and orders filled *)

\* Nothing but the wallets and the list of issuers has changed.
SameButMoney(m, e) ==
  /\ DOMAIN e = Fields
  /\ e.listed = m.listed /\ e.book = m.book /\ e.symbols = m.symbols /\ e.held = m.held
  /\ e.reserved_shares = m.reserved_shares /\ e.next_order_id = m.next_order_id
  /\ e.orders = m.orders

\* Money that moves without touching what is reserved leaves the market in
\* order.
LEMMA MoneyChanges ==
  ASSUME NEW m, InOrder(m), NEW e, SameButMoney(m, e), e.issuers \subseteq Tickers,
         e.wallets \in [Purses -> Wallet],
         \A a \in Accounts : e.wallets[a].reserved = m.wallets[a].reserved
  PROVE  InOrder(e)
<1>1. Formed(e)
  BY DEF InOrder, Formed, SameButMoney
<1>2. Covered(e)
  BY DEF InOrder, Covered, SameButMoney
<1>3. Logged(e)
  BY DEF InOrder, Logged, SameButMoney
<1>4. \A sym \in Tickers : ListingOK(e, sym)
  BY DEF InOrder, ListingOK, SameButMoney, BookOf, IsListed
<1> QED BY <1>1, <1>2, <1>3, <1>4 DEF InOrder

\* A draft paid changes the balances it names and nothing else of a wallet.
LEMMA PayIs ==
  ASSUME NEW ws \in [Purses -> Wallet], NEW net, DOMAIN net \subseteq Purses,
         \A w \in DOMAIN net : net[w] \in Int
  PROVE  /\ Pay(ws, net) \in [Purses -> Wallet]
         /\ \A w \in Purses :
              /\ Pay(ws, net)[w].reserved = ws[w].reserved
              /\ Pay(ws, net)[w].status = ws[w].status
              /\ Pay(ws, net)[w].balance =
                   ws[w].balance + IF w \in DOMAIN net THEN net[w] ELSE 0
              /\ w \notin DOMAIN net => Pay(ws, net)[w] = ws[w]
<1>1. Pay(ws, net) = [w \in Purses |-> IF w \in DOMAIN net
                        THEN [ws[w] EXCEPT !.balance = @ + net[w]] ELSE ws[w]]
  BY DEF Pay
<1> DEFINE e == Pay(ws, net)
<1>2. ASSUME NEW w \in Purses
      PROVE  /\ e[w] \in Wallet
             /\ e[w].reserved = ws[w].reserved /\ e[w].status = ws[w].status
             /\ e[w].balance = ws[w].balance + IF w \in DOMAIN net THEN net[w] ELSE 0
             /\ w \notin DOMAIN net => e[w] = ws[w]
  <2>1. ws[w] \in Wallet
    OBVIOUS
  <2>2. CASE w \in DOMAIN net
    <3>1. e[w] = [ws[w] EXCEPT !.balance = @ + net[w]]
      BY <1>1, <2>2
    <3>2. net[w] \in Int
      BY <2>2
    <3> HIDE DEF e
    <3> QED BY <2>1, <2>2, <3>1, <3>2 DEF Wallet
  <2>3. CASE w \notin DOMAIN net
    <3>1. e[w] = ws[w]
      BY <1>1, <2>3
    <3> HIDE DEF e
    <3> QED BY <2>1, <2>3, <3>1 DEF Wallet
  <2> QED BY <2>2, <2>3
<1>3. e \in [Purses -> Wallet]
  <2>1. \A w \in Purses : e[w] \in Wallet
    BY <1>2
  <2>2. e = [w \in Purses |-> e[w]]
    BY <1>1
  <2> HIDE DEF e
  <2> QED BY <2>1, <2>2
<1> QED BY <1>2, <1>3

\* Money moved between two wallets.
LEMMA Moved ==
  ASSUME NEW m, InOrder(m), NEW from \in Purses, NEW to \in Purses, from # to,
         NEW cents \in Nat, NEW e, SameButMoney(m, e), e.issuers \subseteq Tickers,
         e.wallets = Pay(m.wallets, Movement(from, to, cents))
  PROVE  /\ InOrder(e)
         /\ \A w \in Purses :
              /\ e.wallets[w].reserved = m.wallets[w].reserved
              /\ e.wallets[w].status = m.wallets[w].status
              /\ w \notin {from, to} => e.wallets[w] = m.wallets[w]
         /\ e.wallets[from].balance = m.wallets[from].balance - cents
         /\ e.wallets[to].balance = m.wallets[to].balance + cents
<1> DEFINE net == Movement(from, to, cents)
<1>1. DOMAIN net = {from, to} /\ net[from] = -cents /\ net[to] = cents
  BY DEF Movement
<1>2. m.wallets \in [Purses -> Wallet]
  BY DEF InOrder, Formed
<1> HIDE DEF net
<1>3. DOMAIN net \subseteq Purses /\ \A w \in DOMAIN net : net[w] \in Int
  BY <1>1
<1>4. e.wallets = Pay(m.wallets, net)
  BY DEF net
<1>5. /\ e.wallets \in [Purses -> Wallet]
      /\ \A w \in Purses :
              /\ e.wallets[w].reserved = m.wallets[w].reserved
              /\ e.wallets[w].status = m.wallets[w].status
              /\ e.wallets[w].balance =
                   m.wallets[w].balance + IF w \in DOMAIN net THEN net[w] ELSE 0
              /\ w \notin DOMAIN net => e.wallets[w] = m.wallets[w]
  BY <1>2, <1>3, <1>4, PayIs
<1>6. InOrder(e)
  <2>1. \A a \in Accounts : e.wallets[a].reserved = m.wallets[a].reserved
    BY <1>5 DEF Purses
  <2> QED BY <1>5, <2>1, MoneyChanges
<1>7. \A w \in Purses : m.wallets[w].balance \in Int
  BY <1>2 DEF Wallet
<1>8. /\ e.wallets[from].balance = m.wallets[from].balance - cents
      /\ e.wallets[to].balance = m.wallets[to].balance + cents
  BY <1>1, <1>5, <1>7
<1>9. \A w \in Purses : w \notin {from, to} => e.wallets[w] = m.wallets[w]
  BY <1>1, <1>5
<1> QED BY <1>5, <1>6, <1>8, <1>9

\* Neither an issuer's money nor what is listed has changed.
NothingMoves(m, e) ==
  /\ e.listed = m.listed
  /\ \A sym \in Tickers : e.wallets[sym].balance = m.wallets[sym].balance

\* An order that rests is somebody's, in a symbol that is listed.
LEMMA OrderIs ==
  ASSUME NEW m, InOrder(m), NEW o \in m.book
  PROVE  /\ o \in OrderType /\ o.trader \in Traders /\ o.symbol \in Tickers
         /\ AccountOf[o.trader] \in Accounts /\ AccountOf[o.trader] \in Purses
         /\ IsListed(m, o.symbol) /\ ~m.symbols[o.symbol].delisted
         /\ o.qty \in Nat /\ o.price \in Nat /\ o.side \in {"Buy", "Sell"}
<1>1. o \in OrderType
  BY DEF InOrder, Formed
<1>2. o.trader \in Traders /\ o.symbol \in Tickers /\ o.qty \in Nat /\ o.price \in Nat
      /\ o.side \in {"Buy", "Sell"}
  BY <1>1 DEF OrderType
<1>3. AccountOf[o.trader] \in Accounts
  BY <1>2, PayoutsAssumption
<1>4. ListingOK(m, o.symbol) /\ o \in BookOf(m, o.symbol)
  BY <1>2 DEF InOrder, BookOf
<1> QED BY <1>1, <1>2, <1>3, <1>4 DEF ListingOK, Purses

\* Shares moved to or from a trader, who keeps what is offered.
LEMMA SharesChange ==
  ASSUME NEW m, InOrder(m), NEW t \in Traders, NEW sym \in Tickers, IsListed(m, sym),
         NEW n \in Nat, m.reserved_shares[t][sym] <= n
  PROVE  InOrder([m EXCEPT !.held[t][sym] = n])
<1> DEFINE e == [m EXCEPT !.held[t][sym] = n]
<1>1. /\ DOMAIN e = Fields /\ e.held = [m.held EXCEPT ![t][sym] = n]
      /\ e.wallets = m.wallets /\ e.issuers = m.issuers /\ e.listed = m.listed
      /\ e.book = m.book /\ e.symbols = m.symbols /\ e.reserved_shares = m.reserved_shares
      /\ e.next_order_id = m.next_order_id /\ e.orders = m.orders
  BY DEF InOrder, Formed, Fields
<1>2. m.held \in [Traders -> [Tickers -> Nat]]
  BY DEF InOrder, Formed
<1> HIDE DEF e
<1>3. /\ e.held \in [Traders -> [Tickers -> Nat]]
      /\ e.held[t][sym] = n
      /\ \A u \in Traders, s \in Tickers : u # t \/ s # sym => e.held[u][s] = m.held[u][s]
  BY <1>1, <1>2
<1>4. Formed(e)
  BY <1>1, <1>3 DEF InOrder, Formed
<1>5. Covered(e)
  <2>1. ASSUME NEW u \in Traders, NEW s \in Tickers
        PROVE  e.reserved_shares[u][s] <= e.held[u][s]
    <3>1. m.reserved_shares[u][s] <= m.held[u][s]
      BY DEF InOrder, Covered
    <3> QED BY <1>1, <1>3, <3>1
  <2> QED BY <1>1, <2>1 DEF InOrder, Covered
<1>6. Logged(e)
  BY <1>1 DEF InOrder, Logged
<1>7. \A s \in Tickers : ListingOK(e, s)
  <2> SUFFICES ASSUME NEW s \in Tickers PROVE ListingOK(e, s)
    OBVIOUS
  <2>1. BookOf(e, s) = BookOf(m, s) /\ (IsListed(e, s) <=> IsListed(m, s))
    BY <1>1 DEF BookOf, IsListed
  <2>2. ListingOK(m, s)
    BY DEF InOrder
  <2>3. ~IsListed(m, s) => s # sym
    OBVIOUS
  <2> QED BY <1>1, <1>3, <2>1, <2>2, <2>3 DEF ListingOK
<1>8. InOrder(e)
  BY <1>4, <1>5, <1>6, <1>7 DEF InOrder
<1> QED BY <1>8 DEF e

\* A filled order leaves the book, and what it held back is spent or, where
\* the ledger refuses, given back.
LEMMA FillKeeps ==
  ASSUME NEW m, InOrder(m), NEW o \in m.book
  PROVE  /\ InOrder(Fill(m, o)) /\ Fill(m, o).book = m.book \ {o}
         /\ NothingMoves(m, Fill(m, o))
<1> DEFINE freed == Withdraw(m, {o})
           a == AccountOf[o.trader]
           buyNet == Movement(a, "Synthetic", o.qty * o.price)
           sellNet == Movement("Synthetic", a, o.qty * o.price)
           net == IF o.side = "Buy" THEN buyNet ELSE sellNet
           shares == IF o.side = "Buy" THEN o.qty ELSE -o.qty
           paid == [freed EXCEPT !.wallets = Pay(@, net)]
           n == freed.held[o.trader][o.symbol] + shares
           done == [paid EXCEPT !.held[o.trader][o.symbol] = n]
<1>1. /\ o \in OrderType /\ o.trader \in Traders /\ o.symbol \in Tickers
      /\ a \in Accounts /\ a \in Purses /\ IsListed(m, o.symbol)
      /\ o.qty \in Nat /\ o.price \in Nat /\ o.side \in {"Buy", "Sell"}
  BY OrderIs
<1>2. /\ InOrder(freed) /\ freed.listed = m.listed /\ freed.held = m.held
      /\ freed.issuers = m.issuers /\ freed.book = m.book \ {o}
      /\ \A w \in Purses : freed.wallets[w].balance = m.wallets[w].balance
  BY WithdrawKeeps
<1>3. "Synthetic" \in Purses /\ "Synthetic" # a /\ o.qty * o.price \in Nat
      /\ Tickers \subseteq Purses /\ Tickers \cap {"Synthetic", a} = {}
  BY <1>1, NatTimes, PayoutsAssumption DEF Purses
<1>4. /\ m.held[o.trader][o.symbol] \in Nat
      /\ m.reserved_shares[o.trader][o.symbol] <= m.held[o.trader][o.symbol]
      /\ m.reserved_shares[o.trader][o.symbol] = AskShares(m.book, o.trader, o.symbol)
      /\ freed.reserved_shares[o.trader][o.symbol] = AskShares(m.book \ {o}, o.trader, o.symbol)
  <2>1. /\ m.held[o.trader][o.symbol] \in Nat
        /\ m.reserved_shares[o.trader][o.symbol] <= m.held[o.trader][o.symbol]
        /\ m.reserved_shares[o.trader][o.symbol] = AskShares(m.book, o.trader, o.symbol)
    BY <1>1 DEF InOrder, Formed, Covered
  <2> HIDE DEF freed
  <2>2. freed.reserved_shares[o.trader][o.symbol] = AskShares(m.book \ {o}, o.trader, o.symbol)
    BY <1>1, <1>2 DEF InOrder, Covered
  <2> QED BY <2>1, <2>2
<1>5. /\ AskShares(m.book, o.trader, o.symbol)
           = AskShares({o}, o.trader, o.symbol) + AskShares(m.book \ {o}, o.trader, o.symbol)
      /\ AskShares(m.book \ {o}, o.trader, o.symbol) \in Nat
  <2>1. m.book \in SUBSET OrderType /\ IsFiniteSet(m.book) /\ {o} \in SUBSET m.book
    BY DEF InOrder, Formed
  <2>2. ASSUME NEW t, NEW sym, NEW T \in SUBSET m.book
        PROVE  /\ AskShares(m.book, t, sym)
                    = AskShares(T, t, sym) + AskShares(m.book \ T, t, sym)
               /\ AskShares(m.book \ T, t, sym) \in Nat
    BY <2>1, AskSharesSplit
  <2> QED BY <2>1, <2>2
<1>6. AskShares({o}, o.trader, o.symbol) = IF o.side = "Sell" THEN o.qty ELSE 0
  BY <1>1, AskSharesOne
<1>7. n \in Nat /\ freed.reserved_shares[o.trader][o.symbol] <= n
  <2> DEFINE r == AskShares(m.book \ {o}, o.trader, o.symbol)
             h == m.held[o.trader][o.symbol]
  <2>1. r \in Nat /\ h \in Nat /\ (IF o.side = "Sell" THEN o.qty ELSE 0) + r <= h
    BY <1>4, <1>5, <1>6
  <2>2. n = h + shares /\ freed.reserved_shares[o.trader][o.symbol] = r
    BY <1>2, <1>4
  <2> HIDE DEF r, h, n, freed
  <2> QED BY <1>1, <2>1, <2>2
<1>8. Fill(m, o) = IF CanPost(freed.wallets, net) THEN done ELSE freed
  <2>1. DOMAIN freed = Fields
    BY <1>2 DEF InOrder, Formed
  <2> DEFINE both == [freed EXCEPT !.wallets = Pay(@, net),
                                   !.held[o.trader][o.symbol] = @ + shares]
  <2>2. Fill(m, o) = IF CanPost(freed.wallets, net) THEN both ELSE freed
    BY DEF Fill
  <2>3. both = done
    <3> HIDE DEF freed, net, shares
    <3> QED BY <2>1 DEF Fields
  <2> QED BY <2>2, <2>3
<1>9. /\ InOrder(paid) /\ paid.held = freed.held /\ paid.listed = m.listed
      /\ paid.reserved_shares = freed.reserved_shares /\ paid.book = m.book \ {o}
      /\ \A sym \in Tickers : paid.wallets[sym].balance = m.wallets[sym].balance
  <2>1. SameButMoney(freed, paid) /\ paid.issuers = m.issuers
        /\ paid.wallets = Pay(freed.wallets, net)
    <3>1. DOMAIN freed = Fields
      BY <1>2 DEF InOrder, Formed
    <3> HIDE DEF freed, net
    <3> QED BY <1>2, <3>1 DEF SameButMoney, Fields
  <2>2. m.issuers \subseteq Tickers
    BY DEF InOrder, Formed
  <2> DEFINE c == o.qty * o.price
  <2>3. net = IF o.side = "Buy" THEN Movement(a, "Synthetic", c) ELSE Movement("Synthetic", a, c)
    OBVIOUS
  <2>4. a \in Purses /\ "Synthetic" \in Purses /\ "Synthetic" # a /\ c \in Nat
    BY <1>1, <1>3
  <2> HIDE DEF freed, paid, net, a, c
  <2>5. InOrder(paid) /\ \A w \in Purses :
          w \notin {a, "Synthetic"} => paid.wallets[w] = freed.wallets[w]
    <3>1. CASE o.side = "Buy"
      <4>1. paid.wallets = Pay(freed.wallets, Movement(a, "Synthetic", c))
        BY <2>1, <2>3, <3>1
      <4> QED BY <1>2, <2>1, <2>2, <2>4, <4>1, Moved
    <3>2. CASE o.side # "Buy"
      <4>1. paid.wallets = Pay(freed.wallets, Movement("Synthetic", a, c))
        BY <2>1, <2>3, <3>2
      <4>2. InOrder(paid) /\ \A w \in Purses :
              w \notin {"Synthetic", a} => paid.wallets[w] = freed.wallets[w]
        BY <1>2, <2>1, <2>2, <2>4, <4>1, Moved
      <4> QED BY <4>2
    <3> QED BY <3>1, <3>2
  <2>6. \A sym \in Tickers : sym \in Purses /\ sym \notin {a, "Synthetic"}
    BY <1>3
  <2> QED BY <1>2, <2>1, <2>5, <2>6 DEF SameButMoney
<1>10. /\ InOrder(done) /\ done.book = m.book \ {o} /\ NothingMoves(m, done)
  <2>1. paid.reserved_shares[o.trader][o.symbol] <= n /\ n \in Nat /\ IsListed(paid, o.symbol)
    BY <1>1, <1>7, <1>9 DEF IsListed
  <2>2. DOMAIN paid = Fields
    BY <1>9 DEF InOrder, Formed
  <2> HIDE DEF paid, n
  <2>3. InOrder(done)
    BY <1>1, <1>9, <2>1, SharesChange
  <2>4. done.book = paid.book /\ done.listed = paid.listed /\ done.wallets = paid.wallets
    BY <2>2 DEF Fields
  <2> HIDE DEF done
  <2> QED BY <1>9, <2>3, <2>4 DEF NothingMoves
<1>11. NothingMoves(m, freed)
  BY <1>2, <1>3 DEF NothingMoves
<1> HIDE DEF done, freed, net
<1> QED BY <1>2, <1>8, <1>10, <1>11

\* The recursion of FillAll, and its solutions.
FillStep(f, m, queue, n) == IF n = 0 THEN m ELSE Fill(f[n - 1], queue[n])

Filled(f, m, queue, len) == f = [n \in 0 .. len |-> FillStep(f, m, queue, n)]

\* It has a solution.
LEMMA FillsExist ==
  ASSUME NEW m, NEW queue, NEW len \in Nat
  PROVE  \E f : Filled(f, m, queue, len)
<1> DEFINE T == {n \in Nat : \E f : Filled(f, m, queue, n)}
<1>1. 0 \in T
  <2> DEFINE f == [n \in 0 .. 0 |-> m]
  <2>1. \A n \in 0 .. 0 : FillStep(f, m, queue, n) = m
    BY DEF FillStep
  <2>2. Filled(f, m, queue, 0)
    BY <2>1 DEF Filled
  <2> HIDE DEF f
  <2> QED BY <2>2
<1>2. ASSUME NEW n \in T
      PROVE  n + 1 \in T
  <2>1. n \in Nat
    OBVIOUS
  <2>2. PICK f : Filled(f, m, queue, n)
    OBVIOUS
  <2> DEFINE last == Fill(f[n], queue[n + 1])
             g == [i \in 0 .. n + 1 |-> IF i = n + 1 THEN last ELSE f[i]]
  <2>3. \A i \in 0 .. n : g[i] = f[i] /\ f[i] = FillStep(f, m, queue, i)
    BY <2>1, <2>2 DEF Filled
  <2>4. g[n + 1] = Fill(f[n], queue[n + 1])
    BY <2>1
  <2>5. g = [i \in 0 .. n + 1 |-> g[i]]
    OBVIOUS
  <2> HIDE DEF g
  <2>6. ASSUME NEW i \in 0 .. n + 1
        PROVE  g[i] = FillStep(g, m, queue, i)
    <3>1. CASE i = 0
      BY <3>1, <2>1, <2>3 DEF FillStep
    <3>2. CASE i # 0 /\ i <= n
      <4>1. i \in 0 .. n /\ i - 1 \in 0 .. n
        BY <3>2, <2>1
      <4> QED BY <4>1, <3>2, <2>3 DEF FillStep
    <3>3. CASE i = n + 1
      <4>1. n \in 0 .. n /\ i - 1 = n /\ i # 0
        BY <3>3, <2>1
      <4> QED BY <4>1, <3>3, <2>3, <2>4 DEF FillStep
    <3> QED BY <3>1, <3>2, <3>3, <2>1
  <2>7. g = [i \in 0 .. n + 1 |-> FillStep(g, m, queue, i)]
    <3>1. [i \in 0 .. n + 1 |-> g[i]] = [i \in 0 .. n + 1 |-> FillStep(g, m, queue, i)]
      BY <2>6
    <3> QED BY <2>5, <3>1, Zenon
  <2>8. Filled(g, m, queue, n + 1) /\ n + 1 \in Nat
    BY <2>1, <2>7 DEF Filled
  <2> QED BY <2>8
<1>3. T = Nat
  <2>1. T \in SUBSET Nat
    OBVIOUS
  <2> HIDE DEF T
  <2> QED BY <1>1, <1>2, <2>1, SetInduction
<1> QED BY <1>3

\* What a queue of fills comes to is what a solution does.
LEMMA FillAllIs ==
  ASSUME NEW m, NEW queue, Len(queue) \in Nat
  PROVE  \E f : Filled(f, m, queue, Len(queue)) /\ FillAll(m, queue) = f[Len(queue)]
<1> DEFINE len == Len(queue)
           f == CHOOSE f : f = [n \in 0 .. len |->
                  IF n = 0 THEN m ELSE Fill(f[n - 1], queue[n])]
<1>1. FillAll(m, queue) = f[len]
  BY DEF FillAll
<1>2. \E g : g = [n \in 0 .. len |-> IF n = 0 THEN m ELSE Fill(g[n - 1], queue[n])]
  <2>1. PICK g : Filled(g, m, queue, len)
    BY FillsExist
  <2> QED BY <2>1, Zenon DEF Filled, FillStep
<1>3. f = [n \in 0 .. len |-> IF n = 0 THEN m ELSE Fill(f[n - 1], queue[n])]
  BY <1>2
<1>4. Filled(f, m, queue, len)
  BY <1>3 DEF Filled, FillStep
<1> HIDE DEF f
<1> QED BY <1>1, <1>4

\* A queue of orders filled one after another.
LEMMA FillAllKeeps ==
  ASSUME NEW m, InOrder(m), NEW S \in SUBSET m.book, NEW queue \in SetToSeqs(S)
  PROVE  InOrder(FillAll(m, queue)) /\ NothingMoves(m, FillAll(m, queue))
<1> DEFINE len == Cardinality(S)
<1>1. len \in Nat
  <2>1. IsFiniteSet(S)
    BY FS_Subset DEF InOrder, Formed
  <2> QED BY <2>1, FS_CardinalityType
<1>2. /\ queue \in [1 .. len -> S]
      /\ \A i, j \in 1 .. len : i # j => queue[i] # queue[j]
  BY DEF SetToSeqs
<1> HIDE DEF len
<1>3. Len(queue) = len
  <2>1. queue \in Seq(S)
    BY <1>1, <1>2
  <2> QED BY <1>1, <1>2, <2>1
<1>4. PICK f : Filled(f, m, queue, len) /\ FillAll(m, queue) = f[len]
  BY <1>1, <1>3, FillAllIs
<1>5. \A n \in 0 .. len : f[n] = FillStep(f, m, queue, n)
  BY <1>4 DEF Filled
<1> DEFINE T == {n \in Nat : n <= len =>
                  /\ InOrder(f[n]) /\ NothingMoves(m, f[n])
                  /\ \A i \in n + 1 .. len : queue[i] \in f[n].book}
<1>6. 0 \in T
  <2>1. f[0] = m
    BY <1>1, <1>5 DEF FillStep
  <2>2. NothingMoves(m, m)
    BY DEF NothingMoves
  <2>3. \A i \in 1 .. len : queue[i] \in m.book
    BY <1>2
  <2> QED BY <2>1, <2>2, <2>3
<1>7. ASSUME NEW n \in T
      PROVE  n + 1 \in T
  <2> SUFFICES ASSUME n + 1 <= len
               PROVE  /\ InOrder(f[n + 1]) /\ NothingMoves(m, f[n + 1])
                      /\ \A i \in (n + 1) + 1 .. len : queue[i] \in f[n + 1].book
    OBVIOUS
  <2>1. n \in Nat /\ n <= len /\ n + 1 \in 0 .. len /\ (n + 1) - 1 = n /\ n + 1 # 0
        /\ n + 1 \in n + 1 .. len
    BY <1>1
  <2>2. f[n + 1] = Fill(f[n], queue[n + 1])
    BY <1>5, <2>1 DEF FillStep
  <2>3. InOrder(f[n]) /\ NothingMoves(m, f[n]) /\ queue[n + 1] \in f[n].book
        /\ \A i \in n + 1 .. len : queue[i] \in f[n].book
    BY <2>1
  <2>4. InOrder(f[n + 1]) /\ NothingMoves(f[n], f[n + 1])
        /\ f[n + 1].book = f[n].book \ {queue[n + 1]}
    BY <2>2, <2>3, FillKeeps
  <2>5. \A i \in (n + 1) + 1 .. len : queue[i] \in f[n].book /\ queue[i] # queue[n + 1]
    <3> SUFFICES ASSUME NEW i \in (n + 1) + 1 .. len
                 PROVE  queue[i] \in f[n].book /\ queue[i] # queue[n + 1]
      OBVIOUS
    <3>1. i \in n + 1 .. len /\ i \in 1 .. len /\ n + 1 \in 1 .. len /\ i # n + 1
      BY <1>1, <2>1
    <3> QED BY <1>2, <2>3, <3>1
  <2> QED BY <2>3, <2>4, <2>5 DEF NothingMoves
<1>8. T = Nat
  <2>1. T \in SUBSET Nat
    OBVIOUS
  <2> HIDE DEF T
  <2> QED BY <1>6, <1>7, <2>1, SetInduction
<1>9. len \in T
  BY <1>1, <1>8
<1> QED BY <1>1, <1>4, <1>9

-----------------------------------------------------------------------------
(* The price *)

\* The recursion of ExDividend, and its solutions.
JumpStep(f, price, pending, n) == IF n = 0 THEN price ELSE Jump(f[n - 1], pending[n])

Jumped(f, price, pending, len) == f = [n \in 0 .. len |-> JumpStep(f, price, pending, n)]

\* It has a solution.
LEMMA JumpsExist ==
  ASSUME NEW price, NEW pending, NEW len \in Nat
  PROVE  \E f : Jumped(f, price, pending, len)
<1> DEFINE T == {n \in Nat : \E f : Jumped(f, price, pending, n)}
<1>1. 0 \in T
  <2> DEFINE f == [n \in 0 .. 0 |-> price]
  <2>1. \A n \in 0 .. 0 : JumpStep(f, price, pending, n) = price
    BY DEF JumpStep
  <2>2. Jumped(f, price, pending, 0)
    BY <2>1 DEF Jumped
  <2> HIDE DEF f
  <2> QED BY <2>2
<1>2. ASSUME NEW n \in T
      PROVE  n + 1 \in T
  <2>1. n \in Nat
    OBVIOUS
  <2>2. PICK f : Jumped(f, price, pending, n)
    OBVIOUS
  <2> DEFINE last == Jump(f[n], pending[n + 1])
             g == [i \in 0 .. n + 1 |-> IF i = n + 1 THEN last ELSE f[i]]
  <2>3. \A i \in 0 .. n : g[i] = f[i] /\ f[i] = JumpStep(f, price, pending, i)
    BY <2>1, <2>2 DEF Jumped
  <2>4. g[n + 1] = Jump(f[n], pending[n + 1])
    BY <2>1
  <2>5. g = [i \in 0 .. n + 1 |-> g[i]]
    OBVIOUS
  <2> HIDE DEF g
  <2>6. ASSUME NEW i \in 0 .. n + 1
        PROVE  g[i] = JumpStep(g, price, pending, i)
    <3>1. CASE i = 0
      BY <3>1, <2>1, <2>3 DEF JumpStep
    <3>2. CASE i # 0 /\ i <= n
      <4>1. i \in 0 .. n /\ i - 1 \in 0 .. n
        BY <3>2, <2>1
      <4> QED BY <4>1, <3>2, <2>3 DEF JumpStep
    <3>3. CASE i = n + 1
      <4>1. n \in 0 .. n /\ i - 1 = n /\ i # 0
        BY <3>3, <2>1
      <4> QED BY <4>1, <3>3, <2>3, <2>4 DEF JumpStep
    <3> QED BY <3>1, <3>2, <3>3, <2>1
  <2>7. g = [i \in 0 .. n + 1 |-> JumpStep(g, price, pending, i)]
    <3>1. [i \in 0 .. n + 1 |-> g[i]] = [i \in 0 .. n + 1 |-> JumpStep(g, price, pending, i)]
      BY <2>6
    <3> QED BY <2>5, <3>1, Zenon
  <2>8. Jumped(g, price, pending, n + 1) /\ n + 1 \in Nat
    BY <2>1, <2>7 DEF Jumped
  <2> QED BY <2>8
<1>3. T = Nat
  <2>1. T \in SUBSET Nat
    OBVIOUS
  <2> HIDE DEF T
  <2> QED BY <1>1, <1>2, <2>1, SetInduction
<1> QED BY <1>3

\* What a price ex its dividends comes to is what a solution does.
LEMMA ExDividendIs ==
  ASSUME NEW price, NEW pending, Len(pending) \in Nat
  PROVE  \E f : /\ Jumped(f, price, pending, Len(pending))
               /\ ExDividend(price, pending) = f[Len(pending)]
<1> DEFINE len == Len(pending)
           f == CHOOSE f : f = [n \in 0 .. len |->
                  IF n = 0 THEN price ELSE Jump(f[n - 1], pending[n])]
<1>1. ExDividend(price, pending) = f[len]
  BY DEF ExDividend
<1>2. \E g : g = [n \in 0 .. len |-> IF n = 0 THEN price ELSE Jump(g[n - 1], pending[n])]
  <2>1. PICK g : Jumped(g, price, pending, len)
    BY JumpsExist
  <2> QED BY <2>1, Zenon DEF Jumped, JumpStep
<1>3. f = [n \in 0 .. len |-> IF n = 0 THEN price ELSE Jump(f[n - 1], pending[n])]
  BY <1>2
<1>4. Jumped(f, price, pending, len)
  BY <1>3 DEF Jumped, JumpStep
<1> HIDE DEF f
<1> QED BY <1>1, <1>4

\* A price ex its dividends is a whole number of cents.
LEMMA ExDividendType ==
  ASSUME NEW price \in Int, NEW pending \in Seq([cents : Int, declared : Nat \ {0}])
  PROVE  ExDividend(price, pending) \in Int
<1>1. Len(pending) \in Nat /\ \A n \in 1 .. Len(pending) :
        pending[n].cents \in Int /\ pending[n].declared \in Nat \ {0}
  <2> DEFINE E == [cents : Int, declared : Nat \ {0}]
  <2>1. \A e \in E : e.cents \in Int /\ e.declared \in Nat \ {0}
    OBVIOUS
  <2> HIDE DEF E
  <2>2. pending \in Seq(E)
    BY DEF E
  <2>3. Len(pending) \in Nat /\ \A n \in 1 .. Len(pending) : pending[n] \in E
    BY <2>2
  <2> QED BY <2>1, <2>3
<1> DEFINE len == Len(pending)
<1>2. PICK f : Jumped(f, price, pending, len) /\ ExDividend(price, pending) = f[len]
  BY <1>1, ExDividendIs
<1>3. \A n \in 0 .. len : f[n] = JumpStep(f, price, pending, n)
  BY <1>2 DEF Jumped
<1>4. len \in Nat
  BY <1>1
<1> HIDE DEF len
<1> DEFINE T == {n \in Nat : n <= len => f[n] \in Int}
<1>5. 0 \in T
  BY <1>3, <1>4 DEF JumpStep
<1>6. ASSUME NEW n \in T
      PROVE  n + 1 \in T
  <2> SUFFICES ASSUME n + 1 <= len PROVE f[n + 1] \in Int
    OBVIOUS
  <2>1. n \in Nat /\ n <= len /\ n + 1 \in 0 .. len /\ (n + 1) - 1 = n /\ n + 1 # 0
        /\ n + 1 \in 1 .. len
    BY <1>4
  <2>2. f[n + 1] = Jump(f[n], pending[n + 1]) /\ f[n] \in Int
    BY <1>3, <2>1 DEF JumpStep
  <2>3. pending[n + 1].cents \in Int /\ pending[n + 1].declared \in Nat \ {0}
    BY <1>1, <2>1 DEF len
  <2>4. \A p, c \in Int, d \in Nat \ {0} : p - (p * c) \div d \in Int
    OBVIOUS
  <2>5. Jump(f[n], pending[n + 1])
          = f[n] - (f[n] * pending[n + 1].cents) \div pending[n + 1].declared
    BY DEF Jump
  <2>6. f[n] - (f[n] * pending[n + 1].cents) \div pending[n + 1].declared \in Int
    BY <2>2, <2>3, <2>4
  <2> QED BY <2>2, <2>5, <2>6, Zenon
<1>7. T = Nat
  <2>1. T \in SUBSET Nat
    OBVIOUS
  <2> HIDE DEF T
  <2> QED BY <1>5, <1>6, <2>1, SetInduction
<1>8. len \in T
  BY <1>4, <1>7
<1> QED BY <1>2, <1>4, <1>8 DEF len

\* A symbol's own state changed.
LEMMA SymbolChanges ==
  ASSUME NEW m, InOrder(m), NEW sym \in Tickers, NEW s \in Symbol,
         s.delisted => BookOf(m, sym) = {} /\ IsListed(m, sym)
  PROVE  InOrder([m EXCEPT !.symbols[sym] = s])
<1> DEFINE e == [m EXCEPT !.symbols[sym] = s]
<1>1. /\ DOMAIN e = Fields /\ e.symbols = [m.symbols EXCEPT ![sym] = s]
      /\ e.wallets = m.wallets /\ e.issuers = m.issuers /\ e.listed = m.listed
      /\ e.book = m.book /\ e.held = m.held /\ e.reserved_shares = m.reserved_shares
      /\ e.next_order_id = m.next_order_id /\ e.orders = m.orders
  BY DEF InOrder, Formed, Fields
<1>2. m.symbols \in [Tickers -> Symbol]
  BY DEF InOrder, Formed
<1> HIDE DEF e
<1>3. /\ e.symbols \in [Tickers -> Symbol] /\ e.symbols[sym] = s
      /\ \A t \in Tickers : t # sym => e.symbols[t] = m.symbols[t]
  BY <1>1, <1>2
<1>4. Formed(e)
  BY <1>1, <1>3 DEF InOrder, Formed
<1>5. Covered(e)
  BY <1>1 DEF InOrder, Covered
<1>6. Logged(e)
  BY <1>1 DEF InOrder, Logged
<1>7. \A t \in Tickers : ListingOK(e, t)
  BY <1>1, <1>3 DEF InOrder, ListingOK, BookOf, IsListed
<1>8. InOrder(e)
  BY <1>4, <1>5, <1>6, <1>7 DEF InOrder
<1> QED BY <1>8 DEF e

\* A tick, with the dividends it takes off the price, leaves the market in
\* order and moves no money (SymbolState::step).
LEMMA TickedKeeps ==
  ASSUME NEW m, InOrder(m), NEW sym \in Tickers, NEW noise \in Int,
         PriceAfter(m, sym, noise) <= MaxPrice
  PROVE  /\ InOrder(Ticked(m, sym, noise)) /\ NothingMoves(m, Ticked(m, sym, noise))
         /\ Ticked(m, sym, noise).book = m.book
<1> DEFINE s == m.symbols[sym]
           p == PriceAfter(m, sym, noise)
           n == [s EXCEPT !.price = p, !.pending = <<>>]
           e == Ticked(m, sym, noise)
<1>1. s \in Symbol /\ DOMAIN m = Fields /\ m.symbols \in [Tickers -> Symbol]
  BY DEF InOrder, Formed
<1>2. s.price \in Int /\ s.pending \in Seq([cents : Int, declared : Nat \ {0}])
  BY <1>1, PayoutsAssumption DEF Symbol
<1>3. ExDividend(s.price, s.pending) + noise \in Int
  BY <1>2, ExDividendType
<1>4. p \in 1 .. MaxPrice
  <2> DEFINE x == ExDividend(s.price, s.pending) + noise
  <2>1. p = Max({x, 1})
    BY DEF PriceAfter
  <2>2. x \in Int /\ p <= MaxPrice
    BY <1>3
  <2> HIDE DEF x, p
  <2>3. p = IF x >= 1 THEN x ELSE 1
    BY <2>1, <2>2, MaxOfTwo
  <2> QED BY <2>2, <2>3, PayoutsAssumption
<1>5. n \in Symbol /\ n.delisted = s.delisted
  <2> DEFINE D == [cents : Int, declared : Nat \ {0}]
  <2>1. <<>> \in Seq(D)
    OBVIOUS
  <2> HIDE DEF D
  <2>2. Symbol = [price : 1 .. MaxPrice, pending : Seq(D), delisted : BOOLEAN, next_id : Nat]
    BY DEF Symbol, D
  <2>3. s \in Symbol
    BY <1>1
  <2> HIDE DEF p, s
  <2> QED BY <1>4, <2>1, <2>2, <2>3
<1>6. e = [m EXCEPT !.symbols[sym] = n]
  <2>1. e = [m EXCEPT !.symbols[sym].price = p, !.symbols[sym].pending = <<>>]
    BY DEF Ticked
  <2>2. [m EXCEPT !.symbols[sym].price = p, !.symbols[sym].pending = <<>>]
          = [m EXCEPT !.symbols[sym] = n]
    <3> DEFINE x == [m.symbols EXCEPT ![sym].price = p, ![sym].pending = <<>>]
               y == [m.symbols EXCEPT ![sym] = n]
    <3>1. x = y
      <4> HIDE DEF p
      <4> QED BY <1>1
    <3>2. [m EXCEPT !.symbols[sym].price = p, !.symbols[sym].pending = <<>>]
            = [m EXCEPT !.symbols = x]
      <4> HIDE DEF p
      <4> QED BY <1>1 DEF Fields
    <3>3. [m EXCEPT !.symbols[sym] = n] = [m EXCEPT !.symbols = y]
      OBVIOUS
    <3> QED BY <3>1, <3>2, <3>3, Zenon
  <2> QED BY <2>1, <2>2, Zenon
<1>7. s.delisted => BookOf(m, sym) = {} /\ IsListed(m, sym)
  BY DEF InOrder, ListingOK
<1>8. InOrder(e)
  <2> HIDE DEF n, e, s
  <2> QED BY <1>5, <1>6, <1>7, SymbolChanges
<1>9. e.book = m.book /\ e.listed = m.listed /\ e.wallets = m.wallets
  <2> HIDE DEF n, e
  <2> QED BY <1>1, <1>6 DEF Fields
<1> QED BY <1>8, <1>9 DEF NothingMoves

-----------------------------------------------------------------------------
(* An order that rests *)

\* Rest, field by field.
RestsAs(m, sym, o, id, e) ==
  /\ DOMAIN e = Fields
  /\ e.issuers = m.issuers /\ e.listed = m.listed /\ e.held = m.held
  /\ e.book = m.book \cup {o}
  /\ e.symbols = [m.symbols EXCEPT ![sym].next_id = id + 1]
  /\ e.next_order_id = id + 1
  /\ e.orders = [i \in DOMAIN m.orders \cup {id} |->
                   IF i = id THEN [trader |-> o.trader, symbol |-> sym, live |-> TRUE]
                   ELSE m.orders[i]]

\* What resting an order changes.
LEMMA RestIs ==
  ASSUME NEW m, DOMAIN m = Fields, NEW sym, NEW r, NEW id, NEW e, e = Rest(m, sym, r, id),
         NEW o, o = [id |-> id, trader |-> r.trader, symbol |-> sym, side |-> r.side,
                     qty |-> r.qty, price |-> r.price]
  PROVE  /\ RestsAs(m, sym, o, id, e)
         /\ e.wallets = IF r.side = "Buy"
                        THEN ReserveCash(m.wallets, AccountOf[r.trader], r.qty * r.price)
                        ELSE m.wallets
         /\ e.reserved_shares = IF r.side = "Buy" THEN m.reserved_shares
                                ELSE [m.reserved_shares EXCEPT ![r.trader][sym] = @ + r.qty]
<1> DEFINE k == Reserve(m, sym, r)
           book == k.book \cup {o}
           orders == [i \in DOMAIN k.orders \cup {id} |->
                        IF i = id THEN [trader |-> r.trader, symbol |-> sym, live |-> TRUE]
                        ELSE k.orders[i]]
<1>1. e = [k EXCEPT !.book = book, !.symbols[sym].next_id = id + 1,
                    !.next_order_id = id + 1, !.orders = orders]
  BY DEF Rest
<1>2. k = IF r.side = "Buy"
          THEN [m EXCEPT !.wallets = ReserveCash(@, AccountOf[r.trader], r.qty * r.price)]
          ELSE [m EXCEPT !.reserved_shares[r.trader][sym] = @ + r.qty]
  BY DEF Reserve
<1> DEFINE cash == ReserveCash(m.wallets, AccountOf[r.trader], r.qty * r.price)
           shares == [m.reserved_shares EXCEPT ![r.trader][sym] = @ + r.qty]
<1>3. k = IF r.side = "Buy" THEN [m EXCEPT !.wallets = cash]
          ELSE [m EXCEPT !.reserved_shares = shares]
  BY <1>2
<1> HIDE DEF k, cash, shares
<1>4. /\ DOMAIN k = Fields
      /\ k.issuers = m.issuers /\ k.listed = m.listed /\ k.held = m.held /\ k.book = m.book
      /\ k.symbols = m.symbols /\ k.next_order_id = m.next_order_id /\ k.orders = m.orders
      /\ k.wallets = IF r.side = "Buy" THEN cash ELSE m.wallets
      /\ k.reserved_shares = IF r.side = "Buy" THEN m.reserved_shares ELSE shares
  BY <1>3 DEF Fields
<1>5. book = m.book \cup {o} /\ r.trader = o.trader
      /\ orders = [i \in DOMAIN m.orders \cup {id} |->
                    IF i = id THEN [trader |-> o.trader, symbol |-> sym, live |-> TRUE]
                    ELSE m.orders[i]]
  BY <1>4
<1> HIDE DEF book, orders
<1>6. /\ DOMAIN e = Fields
      /\ e.issuers = k.issuers /\ e.listed = k.listed /\ e.held = k.held
      /\ e.book = book /\ e.symbols = [k.symbols EXCEPT ![sym].next_id = id + 1]
      /\ e.next_order_id = id + 1 /\ e.orders = orders
      /\ e.wallets = k.wallets /\ e.reserved_shares = k.reserved_shares
  BY <1>1, <1>4 DEF Fields
<1>7. RestsAs(m, sym, o, id, e)
  BY <1>4, <1>5, <1>6 DEF RestsAs
<1> QED BY <1>4, <1>6, <1>7 DEF cash, shares

\* An accepted order holds back what it may cost, and takes an id no order had.
LEMMA RestKeeps ==
  ASSUME NEW m, InOrder(m), NEW sym \in Tickers, NEW r \in Request, Accepts(m, sym, r),
         NEW id, id = AllocateOrderId(m, sym)
  PROVE  InOrder(Rest(m, sym, r, id)) /\ NothingMoves(m, Rest(m, sym, r, id))
<1> DEFINE o == [id |-> id, trader |-> r.trader, symbol |-> sym, side |-> r.side,
                 qty |-> r.qty, price |-> r.price]
           e == Rest(m, sym, r, id)
           a == AccountOf[r.trader]
           cents == r.qty * r.price
<1>1. /\ RestsAs(m, sym, o, id, e)
      /\ e.wallets = IF r.side = "Buy" THEN ReserveCash(m.wallets, a, cents) ELSE m.wallets
      /\ e.reserved_shares = IF r.side = "Buy" THEN m.reserved_shares
                             ELSE [m.reserved_shares EXCEPT ![r.trader][sym] = @ + r.qty]
  <2>1. DOMAIN m = Fields
    BY DEF InOrder, Formed
  <2> QED BY <2>1, RestIs
<1>2. /\ r.trader \in Traders /\ r.side \in {"Buy", "Sell"} /\ r.qty \in Nat /\ r.price \in Nat
      /\ a \in Accounts /\ a \in Purses /\ cents \in Nat
  BY NatTimes, PayoutsAssumption DEF Request, Purses
<1>3. id \in Nat /\ m.next_order_id <= id /\ m.next_order_id \in Nat
  <2>1. m.next_order_id \in Nat /\ m.symbols[sym] \in Symbol
    BY DEF InOrder, Formed
  <2>2. m.symbols[sym].next_id \in Nat
    BY <2>1 DEF Symbol
  <2> QED BY <2>1, <2>2, MaxOfTwo DEF AllocateOrderId
<1>4. o \in OrderType
  BY <1>2, <1>3 DEF OrderType
<1>5. \A p \in m.book : p.id # id
  <2> SUFFICES ASSUME NEW p \in m.book PROVE p.id # id
    OBVIOUS
  <2>1. p.id \in DOMAIN m.orders
    BY DEF InOrder, Logged
  <2>2. p.id \in Nat /\ p.id < m.next_order_id
    BY <2>1 DEF InOrder, Formed
  <2> QED BY <1>3, <2>2
<1>6. o.id = id /\ o.trader = r.trader /\ o.symbol = sym /\ o.side = r.side
      /\ o.qty = r.qty /\ o.price = r.price
  OBVIOUS
<1>7. IsListed(m, sym) /\ ~m.symbols[sym].delisted
  BY DEF Accepts, IsQuoted
<1> HIDE DEF o, e
<1>8. /\ e.book \in SUBSET OrderType /\ IsFiniteSet(e.book) /\ {o} \in SUBSET e.book
      /\ e.book \ {o} = m.book /\ o \notin m.book
  <2>1. m.book \in SUBSET OrderType /\ IsFiniteSet(m.book)
    BY DEF InOrder, Formed
  <2>2. e.book = m.book \cup {o} /\ o \notin m.book
    BY <1>1, <1>5, <1>6 DEF RestsAs
  <2>3. IsFiniteSet(m.book \cup {o})
    BY <2>1, FS_AddElement
  <2> QED BY <1>4, <2>1, <2>2, <2>3
<1>9. ASSUME NEW w
      PROVE  /\ BidCents(e.book, w) = BidCents({o}, w) + BidCents(m.book, w)
             /\ BidCents({o}, w) = IF r.side = "Buy" /\ a = w THEN cents ELSE 0
             /\ BidCents(m.book, w) \in Nat
  <2>1. /\ BidCents(e.book, w) = BidCents({o}, w) + BidCents(e.book \ {o}, w)
        /\ BidCents(e.book \ {o}, w) \in Nat
    BY <1>8, BidCentsSplit
  <2>2. BidCents({o}, w) =
          IF o.side = "Buy" /\ AccountOf[o.trader] = w THEN o.qty * o.price ELSE 0
    BY <1>4, BidCentsOne
  <2> QED BY <1>6, <1>8, <2>1, <2>2
<1>10. ASSUME NEW t, NEW s
       PROVE  /\ AskShares(e.book, t, s) = AskShares({o}, t, s) + AskShares(m.book, t, s)
              /\ AskShares({o}, t, s) =
                   IF r.side = "Sell" /\ r.trader = t /\ sym = s THEN r.qty ELSE 0
              /\ AskShares(m.book, t, s) \in Nat
  <2>1. /\ AskShares(e.book, t, s) = AskShares({o}, t, s) + AskShares(e.book \ {o}, t, s)
        /\ AskShares(e.book \ {o}, t, s) \in Nat
    BY <1>8, AskSharesSplit
  <2>2. AskShares({o}, t, s) =
          IF o.side = "Sell" /\ o.trader = t /\ o.symbol = s THEN o.qty ELSE 0
    BY <1>4, AskSharesOne
  <2> QED BY <1>6, <1>8, <2>1, <2>2
<1>11. ASSUME NEW w \in Purses
       PROVE  /\ e.wallets[w] \in Wallet
              /\ e.wallets[w].balance = m.wallets[w].balance
              /\ e.wallets[w].reserved =
                   m.wallets[w].reserved + IF r.side = "Buy" /\ a = w THEN cents ELSE 0
  <2>1. m.wallets \in [Purses -> Wallet]
    BY DEF InOrder, Formed
  <2>2. m.wallets[w] \in Wallet /\ m.wallets[w].reserved \in Nat /\ m.wallets[w].balance \in Int
    BY <2>1 DEF Wallet
  <2>3. CASE r.side # "Buy"
    BY <1>1, <2>2, <2>3
  <2>4. CASE r.side = "Buy"
    <3>1. e.wallets = ReserveCash(m.wallets, a, cents)
      BY <1>1, <2>4
    <3>2. m.wallets[a].status = "Active" /\ cents <= AvailableCents(m.wallets[a])
      BY <2>4 DEF Accepts
    <3>3. m.wallets[a].reserved \in Nat /\ m.wallets[a].balance \in Int
      BY <1>2, <2>1 DEF Wallet
    <3>4. cents = 0 \/ m.wallets[a].reserved + cents <= m.wallets[a].balance
      <4>1. m.wallets[a].balance - m.wallets[a].reserved \in Int
        BY <3>3
      <4>2. AvailableCents(m.wallets[a])
              = IF m.wallets[a].balance - m.wallets[a].reserved >= 0
                THEN m.wallets[a].balance - m.wallets[a].reserved ELSE 0
        BY <4>1, MaxOfTwo DEF AvailableCents
      <4> HIDE DEF cents, a
      <4> QED BY <1>2, <3>2, <3>3, <4>2
    <3> DEFINE x == [m.wallets EXCEPT ![a].reserved = @ + cents]
    <3>5. /\ x \in [Purses -> Wallet] /\ x[w].balance = m.wallets[w].balance
          /\ x[w].reserved = m.wallets[w].reserved + IF a = w THEN cents ELSE 0
      <4>1. \A v \in Wallet : \A c \in Nat :
              /\ [v EXCEPT !.reserved = @ + c] \in Wallet
              /\ [v EXCEPT !.reserved = @ + c].balance = v.balance
              /\ [v EXCEPT !.reserved = @ + c].reserved = v.reserved + c
        BY DEF Wallet
      <4>2. x = [m.wallets EXCEPT ![a] = [m.wallets[a] EXCEPT !.reserved = @ + cents]]
        OBVIOUS
      <4> DEFINE y == [m.wallets[a] EXCEPT !.reserved = @ + cents]
      <4>3. /\ y \in Wallet /\ y.balance = m.wallets[a].balance
            /\ y.reserved = m.wallets[a].reserved + cents
        BY <1>2, <2>1, <4>1
      <4>4. x = [m.wallets EXCEPT ![a] = y]
        BY <4>2
      <4> HIDE DEF x, y, cents, a
      <4> QED BY <1>2, <2>1, <2>2, <4>3, <4>4
    <3>6. e.wallets = x \/ (cents = 0 /\ e.wallets = m.wallets)
      <4>1. e.wallets = IF m.wallets[a].status = "Active"
                           /\ m.wallets[a].reserved + cents <= m.wallets[a].balance
                        THEN x ELSE m.wallets
        BY <3>1 DEF ReserveCash
      <4> HIDE DEF x, cents, a
      <4> QED BY <3>2, <3>4, <4>1
    <3> HIDE DEF x, cents, a
    <3>7. CASE e.wallets = x
      BY <2>4, <3>5, <3>7
    <3>8. CASE cents = 0 /\ e.wallets = m.wallets
      BY <2>2, <2>4, <3>8
    <3> QED BY <3>6, <3>7, <3>8
  <2> QED BY <2>3, <2>4
<1>12. ASSUME NEW t \in Traders, NEW s \in Tickers
       PROVE  /\ e.reserved_shares[t][s] \in Nat
              /\ e.reserved_shares[t][s] = m.reserved_shares[t][s]
                   + IF r.side = "Sell" /\ r.trader = t /\ sym = s THEN r.qty ELSE 0
              /\ e.reserved_shares[t][s] <= e.held[t][s]
  <2>1. /\ m.reserved_shares \in [Traders -> [Tickers -> Nat]]
        /\ m.held \in [Traders -> [Tickers -> Nat]] /\ e.held = m.held
    BY <1>1 DEF InOrder, Formed, RestsAs
  <2>2. m.reserved_shares[t][s] <= m.held[t][s]
    BY DEF InOrder, Covered
  <2>3. CASE r.side = "Buy"
    BY <1>1, <2>1, <2>2, <2>3
  <2>4. CASE r.side # "Buy"
    <3>1. e.reserved_shares = [m.reserved_shares EXCEPT ![r.trader][sym] = @ + r.qty]
      BY <1>1, <2>4
    <3>2. r.qty <= FreeShares(m, r.trader, sym)
      BY <2>4 DEF Accepts
    <3>3. m.held[r.trader][sym] \in Nat /\ m.reserved_shares[r.trader][sym] \in Nat
          /\ m.reserved_shares[r.trader][sym] <= m.held[r.trader][sym]
      BY <1>2, <2>1 DEF InOrder, Covered
    <3>4. FreeShares(m, r.trader, sym) = m.held[r.trader][sym] - m.reserved_shares[r.trader][sym]
      <4> DEFINE h == m.held[r.trader][sym]
                 k == m.reserved_shares[r.trader][sym]
      <4>1. h - k \in Int /\ h - k >= 0
        BY <3>3
      <4>2. FreeShares(m, r.trader, sym) = Max({h - k, 0})
        BY DEF FreeShares
      <4> HIDE DEF h, k
      <4>3. Max({h - k, 0}) = h - k
        BY <4>1, MaxOfTwo
      <4>4. FreeShares(m, r.trader, sym) = h - k
        BY <4>2, <4>3
      <4> QED BY <4>4 DEF h, k
    <3>5. r.side = "Sell"
      BY <1>2, <2>4
    <3> QED BY <1>2, <2>1, <2>2, <3>1, <3>2, <3>3, <3>4, <3>5
  <2> QED BY <2>3, <2>4
<1>13. Formed(e)
  <2>1. e.wallets \in [Purses -> Wallet]
    <3>1. DOMAIN e.wallets = Purses /\ e.wallets = [w \in DOMAIN e.wallets |-> e.wallets[w]]
      BY <1>1 DEF InOrder, Formed, ReserveCash
    <3> QED BY <1>11, <3>1
  <2>2. e.reserved_shares \in [Traders -> [Tickers -> Nat]]
    <3>1. m.reserved_shares \in [Traders -> [Tickers -> Nat]]
      BY DEF InOrder, Formed
    <3> QED BY <1>1, <1>2, <3>1
  <2>3. e.symbols \in [Tickers -> Symbol]
    <3>1. m.symbols \in [Tickers -> Symbol] /\ id + 1 \in Nat
      BY <1>3 DEF InOrder, Formed
    <3>2. \A s \in Symbol, n \in Nat : [s EXCEPT !.next_id = n] \in Symbol
      BY DEF Symbol
    <3>3. e.symbols = [m.symbols EXCEPT ![sym] = [m.symbols[sym] EXCEPT !.next_id = id + 1]]
      BY <1>1 DEF RestsAs
    <3>4. [m.symbols[sym] EXCEPT !.next_id = id + 1] \in Symbol
      BY <3>1, <3>2
    <3> QED BY <3>1, <3>3, <3>4
  <2>4. e.next_order_id \in Nat
    BY <1>1, <1>3 DEF RestsAs
  <2>5. /\ e.orders \in [DOMAIN e.orders -> Record]
        /\ \A i \in DOMAIN e.orders : i \in Nat /\ i < e.next_order_id
    <3>1. [trader |-> o.trader, symbol |-> sym, live |-> TRUE] \in Record
      BY <1>2, <1>6 DEF Record
    <3>2. /\ m.orders \in [DOMAIN m.orders -> Record]
          /\ \A i \in DOMAIN m.orders : i \in Nat /\ i < m.next_order_id
      BY DEF InOrder, Formed
    <3> DEFINE rec == [trader |-> o.trader, symbol |-> sym, live |-> TRUE]
    <3>3. e.orders = [i \in DOMAIN m.orders \cup {id} |-> IF i = id THEN rec ELSE m.orders[i]]
      BY <1>1 DEF RestsAs
    <3>4. rec \in Record
      BY <3>1
    <3> HIDE DEF rec
    <3>5. e.orders \in [DOMAIN e.orders -> Record]
      BY <3>2, <3>3, <3>4
    <3>6. e.next_order_id = id + 1
      BY <1>1 DEF RestsAs
    <3>7. DOMAIN e.orders = DOMAIN m.orders \cup {id}
      BY <3>3
    <3> QED BY <1>3, <3>2, <3>5, <3>6, <3>7
  <2> QED BY <1>1, <1>8, <2>1, <2>2, <2>3, <2>4, <2>5 DEF InOrder, Formed, RestsAs
<1>14. Covered(e)
  <2>1. ASSUME NEW w \in Accounts
        PROVE  e.wallets[w].reserved = BidCents(e.book, w)
    <3>1. w \in Purses /\ m.wallets[w].reserved = BidCents(m.book, w)
      BY DEF InOrder, Covered, Purses
    <3> DEFINE x == IF r.side = "Buy" /\ a = w THEN cents ELSE 0
    <3>2. x \in Nat
      BY <1>2
    <3>3. e.wallets[w].reserved = m.wallets[w].reserved + x
      BY <1>11, <3>1
    <3>4. BidCents(e.book, w) = x + BidCents(m.book, w) /\ BidCents(m.book, w) \in Nat
      BY <1>9
    <3> HIDE DEF x
    <3> QED BY <3>1, <3>2, <3>3, <3>4
  <2>2. ASSUME NEW t \in Traders, NEW s \in Tickers
        PROVE  e.reserved_shares[t][s] = AskShares(e.book, t, s)
    <3>1. m.reserved_shares[t][s] = AskShares(m.book, t, s)
      BY DEF InOrder, Covered
    <3> DEFINE x == IF r.side = "Sell" /\ r.trader = t /\ sym = s THEN r.qty ELSE 0
    <3>2. x \in Nat
      BY <1>2
    <3>3. e.reserved_shares[t][s] = m.reserved_shares[t][s] + x
      BY <1>12
    <3>4. AskShares(e.book, t, s) = x + AskShares(m.book, t, s) /\ AskShares(m.book, t, s) \in Nat
      BY <1>10
    <3> HIDE DEF x
    <3> QED BY <3>1, <3>2, <3>3, <3>4
  <2> QED BY <1>12, <2>1, <2>2 DEF Covered
<1>15. Logged(e)
  <2>0. /\ e.book = m.book \cup {o} /\ DOMAIN e.orders = DOMAIN m.orders \cup {id}
        /\ e.orders[id] = [trader |-> o.trader, symbol |-> sym, live |-> TRUE]
        /\ \A i \in DOMAIN m.orders : i # id => e.orders[i] = m.orders[i]
    BY <1>1 DEF RestsAs
  <2>1. ASSUME NEW i \in DOMAIN e.orders, e.orders[i].live
        PROVE  \E p \in e.book : p.id = i
    <3>1. CASE i = id
      BY <1>6, <2>0, <3>1
    <3>2. CASE i # id
      <4>1. i \in DOMAIN m.orders /\ m.orders[i].live
        BY <2>0, <2>1, <3>2
      <4>2. PICK p \in m.book : p.id = i
        BY <4>1 DEF InOrder, Logged
      <4> QED BY <2>0, <4>2
    <3> QED BY <3>1, <3>2
  <2>2. ASSUME NEW p \in e.book
        PROVE  /\ p.id \in DOMAIN e.orders
               /\ e.orders[p.id] = [trader |-> p.trader, symbol |-> p.symbol, live |-> TRUE]
               /\ \A q \in e.book : q.id = p.id => q = p
    <3>1. CASE p = o
      <4>1. \A q \in e.book : q.id = p.id => q = p
        BY <1>5, <1>6, <2>0, <3>1
      <4> QED BY <1>6, <2>0, <3>1, <4>1
    <3>2. CASE p \in m.book
      <4>1. /\ p.id \in DOMAIN m.orders
            /\ m.orders[p.id] = [trader |-> p.trader, symbol |-> p.symbol, live |-> TRUE]
            /\ \A q \in m.book : q.id = p.id => q = p
        BY <3>2 DEF InOrder, Logged
      <4>2. p.id # id
        BY <1>5, <3>2
      <4> QED BY <1>6, <2>0, <4>1, <4>2
    <3> QED BY <2>0, <3>1, <3>2
  <2> QED BY <2>1, <2>2 DEF Logged
<1>16. \A s \in Tickers : ListingOK(e, s)
  <2> SUFFICES ASSUME NEW s \in Tickers PROVE ListingOK(e, s)
    OBVIOUS
  <2>1. ListingOK(m, s) /\ m.symbols \in [Tickers -> Symbol]
    BY DEF InOrder, Formed
  <2>2. e.symbols[s].delisted = m.symbols[s].delisted
    <3>1. e.symbols = [m.symbols EXCEPT ![sym] = [m.symbols[sym] EXCEPT !.next_id = id + 1]]
      BY <1>1 DEF RestsAs
    <3>2. \A v \in Symbol : [v EXCEPT !.next_id = id + 1].delisted = v.delisted
      BY DEF Symbol
    <3> QED BY <2>1, <3>1, <3>2
  <2>3. e.listed = m.listed /\ e.held = m.held /\ e.book = m.book \cup {o}
    BY <1>1 DEF RestsAs
  <2>4. CASE s = sym
    BY <1>7, <2>2, <2>3, <2>4 DEF ListingOK, IsListed
  <2>5. CASE s # sym
    <3>1. BookOf(e, s) = BookOf(m, s)
      BY <1>6, <2>3, <2>5 DEF BookOf
    <3> QED BY <2>1, <2>2, <2>3, <3>1 DEF ListingOK, IsListed
  <2> QED BY <2>4, <2>5
<1>17. InOrder(e)
  BY <1>13, <1>14, <1>15, <1>16 DEF InOrder
<1>18. NothingMoves(m, e)
  <2>1. Tickers \subseteq Purses
    BY DEF Purses
  <2> QED BY <1>1, <1>11, <2>1 DEF NothingMoves, RestsAs
<1> QED BY <1>17, <1>18 DEF e

-----------------------------------------------------------------------------
(* Listing *)

\* What is true of a market that may list sym: in order, but for what is
\* held of sym.
Listable(m, sym) ==
  /\ Formed(m) /\ Covered(m) /\ Logged(m)
  /\ ~IsListed(m, sym) /\ Cardinality(m.listed) < MAX_SYMBOLS /\ BookOf(m, sym) = {}
  /\ \A s \in Tickers : s # sym => ListingOK(m, s)

\* A symbol as it is listed is one.
LEMMA NewSymbolType == NewSymbol \in Symbol /\ ~NewSymbol.delisted
<1> DEFINE D == [cents : Int, declared : Nat \ {0}]
<1>1. <<>> \in Seq(D)
  OBVIOUS
<1> HIDE DEF D
<1>2. Symbol = [price : 1 .. MaxPrice, pending : Seq(D), delisted : BOOLEAN, next_id : Nat]
  BY DEF Symbol, D
<1> QED BY <1>1, <1>2, PayoutsAssumption DEF NewSymbol

\* A symbol's state begun anew, where nothing rests on it.
LEMMA RenewedIs ==
  ASSUME NEW m, DOMAIN m = Fields, NEW sym, BookOf(m, sym) = {}
  PROVE  /\ DOMAIN Renewed(m, sym) = Fields /\ Renewed(m, sym).book = m.book
         /\ Renewed(m, sym).symbols = [m.symbols EXCEPT ![sym] = NewSymbol]
         /\ Renewed(m, sym).wallets = m.wallets /\ Renewed(m, sym).issuers = m.issuers
         /\ Renewed(m, sym).listed = m.listed /\ Renewed(m, sym).held = m.held
         /\ Renewed(m, sym).reserved_shares = m.reserved_shares
         /\ Renewed(m, sym).next_order_id = m.next_order_id /\ Renewed(m, sym).orders = m.orders
<1>1. {o \in m.book : o.symbol # sym} = m.book
  BY DEF BookOf
<1> DEFINE b == {o \in m.book : o.symbol # sym}
<1>2. Renewed(m, sym) = [m EXCEPT !.symbols[sym] = NewSymbol, !.book = b]
  BY DEF Renewed
<1> HIDE DEF b
<1>3. b = m.book
  BY <1>1 DEF b
<1> QED BY <1>2, <1>3 DEF Fields

\* A symbol with nothing left of an earlier listing may be listed.
LEMMA ListedKeeps ==
  ASSUME NEW m, NEW sym \in Tickers, Listable(m, sym),
         NEW e, e = [Renewed(m, sym) EXCEPT !.listed = @ \cup {sym}]
  PROVE  InOrder(e) /\ e.listed = m.listed \cup {sym} /\ e.wallets = m.wallets
<1> DEFINE k == Renewed(m, sym)
<1>1. /\ DOMAIN k = Fields /\ k.book = m.book
      /\ k.symbols = [m.symbols EXCEPT ![sym] = NewSymbol]
      /\ k.wallets = m.wallets /\ k.issuers = m.issuers
      /\ k.listed = m.listed /\ k.held = m.held
      /\ k.reserved_shares = m.reserved_shares
      /\ k.next_order_id = m.next_order_id /\ k.orders = m.orders
  BY RenewedIs DEF Listable, Formed
<1> HIDE DEF k
<1>2. e = [k EXCEPT !.listed = @ \cup {sym}]
  BY DEF k
<1>3. /\ DOMAIN e = Fields /\ e.book = m.book
      /\ e.symbols = [m.symbols EXCEPT ![sym] = NewSymbol]
      /\ e.wallets = m.wallets /\ e.issuers = m.issuers
      /\ e.listed = m.listed \cup {sym} /\ e.held = m.held
      /\ e.reserved_shares = m.reserved_shares
      /\ e.next_order_id = m.next_order_id /\ e.orders = m.orders
  BY <1>1, <1>2 DEF Fields
<1>4. Formed(m) /\ sym \notin m.listed /\ Cardinality(m.listed) < MAX_SYMBOLS
  BY DEF Listable, IsListed
<1>5. Cardinality(e.listed) <= MAX_SYMBOLS
  <2>1. IsFiniteSet(m.listed)
    BY <1>4, FS_Subset, PayoutsAssumption DEF Formed
  <2>2. Cardinality(m.listed \cup {sym}) = Cardinality(m.listed) + 1
    BY <1>4, <2>1, FS_AddElement
  <2>3. Cardinality(m.listed) \in Nat /\ MAX_SYMBOLS \in Nat
    BY <2>1, FS_CardinalityType, PayoutsAssumption
  <2> QED BY <1>3, <1>4, <2>2, <2>3
<1>6. e.symbols \in [Tickers -> Symbol]
  BY <1>3, <1>4, NewSymbolType DEF Formed
<1>7. Formed(e)
  BY <1>3, <1>4, <1>5, <1>6 DEF Formed
<1>8. Covered(e)
  BY <1>3 DEF Listable, Covered
<1>9. Logged(e)
  BY <1>3 DEF Listable, Logged
<1>10. \A s \in Tickers : ListingOK(e, s)
  <2> SUFFICES ASSUME NEW s \in Tickers PROVE ListingOK(e, s)
    OBVIOUS
  <2>1. m.symbols \in [Tickers -> Symbol]
    BY <1>4 DEF Formed
  <2>2. CASE s = sym
    <3>1. IsListed(e, s) /\ ~e.symbols[s].delisted
      BY <1>3, <2>1, <2>2, NewSymbolType DEF IsListed
    <3> QED BY <3>1 DEF ListingOK
  <2>3. CASE s # sym
    <3>1. ListingOK(m, s) /\ e.symbols[s] = m.symbols[s] /\ BookOf(e, s) = BookOf(m, s)
          /\ (IsListed(e, s) <=> IsListed(m, s))
      BY <1>3, <2>1, <2>3 DEF Listable, BookOf, IsListed
    <3> QED BY <1>3, <3>1 DEF ListingOK
  <2> QED BY <2>2, <2>3
<1> QED BY <1>3, <1>7, <1>8, <1>9, <1>10 DEF InOrder

\* No issuer is poorer for a listing: the treasury funds a float.
Richer(m, e) ==
  \A sym \in Tickers :
    /\ m.wallets[sym].balance \in Int /\ e.wallets[sym].balance \in Int
    /\ e.wallets[sym].balance >= m.wallets[sym].balance

\* Tickers, accounts and the special wallets are different purses.
LEMMA PursesAre ==
  /\ Tickers \subseteq Purses /\ Accounts \subseteq Purses
  /\ {"Treasury", "Venue", "Synthetic"} \subseteq Purses
  /\ Tickers \cap (Accounts \cup {"Treasury", "Venue", "Synthetic"}) = {}
  /\ Accounts \cap {"Treasury", "Venue", "Synthetic"} = {}
BY PayoutsAssumption DEF Purses

\* Balances are integers, and nothing available is negative.
LEMMA BalanceIsInt ==
  ASSUME NEW m, InOrder(m), NEW w \in Purses
  PROVE  m.wallets[w].balance \in Int /\ m.wallets[w].reserved \in Nat
         /\ AvailableCents(m.wallets[w]) \in Nat
<1>1. m.wallets[w] \in Wallet
  BY DEF InOrder, Formed
<1>2. m.wallets[w].balance \in Int /\ m.wallets[w].reserved \in Nat
  BY <1>1 DEF Wallet
<1> DEFINE x == m.wallets[w].balance - m.wallets[w].reserved
<1>3. x \in Int /\ AvailableCents(m.wallets[w]) = Max({x, 0})
  BY <1>2 DEF AvailableCents
<1> HIDE DEF x
<1>4. AvailableCents(m.wallets[w]) \in Nat
  BY <1>3, MaxOfTwo
<1> QED BY <1>2, <1>4

\* Funding an issuer's float only adds to it, where the treasury can.
LEMMA FundKeeps ==
  ASSUME NEW m, InOrder(m), NEW sym \in Tickers, NEW float \in Nat
  PROVE  /\ InOrder(FundIssuer(m, sym, float)) /\ Richer(m, FundIssuer(m, sym, float))
         /\ FundIssuer(m, sym, float).listed = m.listed
<1> DEFINE cents == Min({float, AvailableCents(m.wallets["Treasury"])})
           net == Movement("Treasury", sym, cents)
           e == FundIssuer(m, sym, float)
           paid == [m EXCEPT !.issuers = @ \cup {sym}, !.wallets = Pay(@, net)]
           open == [m EXCEPT !.issuers = @ \cup {sym}]
<1>1. e = IF float = 0 THEN m ELSE IF cents > 0 /\ CanPost(m.wallets, net) THEN paid ELSE open
  BY DEF FundIssuer
<1>2. /\ sym \in Purses /\ "Treasury" \in Purses /\ sym # "Treasury"
      /\ Tickers \subseteq Purses /\ "Treasury" \notin Tickers
  BY PursesAre
<1>3. cents \in Nat
  BY <1>2, BalanceIsInt, MinOfTwo
<1>4. DOMAIN m = Fields /\ m.issuers \subseteq Tickers /\ m.wallets \in [Purses -> Wallet]
  BY DEF InOrder, Formed
<1>5. \A s \in Tickers : m.wallets[s].balance \in Int
  BY <1>2, BalanceIsInt
<1> HIDE DEF cents
<1>6. InOrder(m) /\ Richer(m, m) /\ m.listed = m.listed
  BY <1>5 DEF Richer
<1>7. InOrder(open) /\ Richer(m, open) /\ open.listed = m.listed
  <2>1. SameButMoney(m, open) /\ open.issuers = m.issuers \cup {sym} /\ open.wallets = m.wallets
    BY <1>4 DEF SameButMoney, Fields
  <2> HIDE DEF open
  <2>2. InOrder(open)
    BY <1>4, <2>1, MoneyChanges
  <2> QED BY <1>5, <2>1, <2>2 DEF Richer, SameButMoney
<1>8. InOrder(paid) /\ Richer(m, paid) /\ paid.listed = m.listed
  <2>1. SameButMoney(m, paid) /\ paid.issuers = m.issuers \cup {sym}
        /\ paid.wallets = Pay(m.wallets, net)
    <3> HIDE DEF net
    <3> QED BY <1>4 DEF SameButMoney, Fields
  <2>2. paid.wallets = Pay(m.wallets, Movement("Treasury", sym, cents))
    BY <2>1
  <2> HIDE DEF paid, net
  <2>3. /\ InOrder(paid)
        /\ \A w \in Purses : w \notin {"Treasury", sym} => paid.wallets[w] = m.wallets[w]
        /\ paid.wallets[sym].balance = m.wallets[sym].balance + cents
    BY <1>2, <1>3, <1>4, <2>1, <2>2, Moved
  <2>4. Richer(m, paid)
    BY <1>2, <1>3, <1>5, <2>3 DEF Richer
  <2> QED BY <2>1, <2>3, <2>4 DEF SameButMoney
<1> HIDE DEF paid, open, net
<1> QED BY <1>1, <1>6, <1>7, <1>8

\* A listing keeps the market in order and takes nothing from an issuer
\* (list_symbol).
LEMMA ListKeeps ==
  ASSUME NEW m, NEW sym \in Tickers, Listable(m, sym)
  PROVE  InOrder(List(m, sym)) /\ Richer(m, List(m, sym)) /\ m.listed \subseteq List(m, sym).listed
<1> DEFINE k == [Renewed(m, sym) EXCEPT !.listed = @ \cup {sym}]
           float == IF sym \in Goods THEN 0 ELSE ISSUER_FLOAT
<1>1. InOrder(k) /\ k.listed = m.listed \cup {sym} /\ k.wallets = m.wallets
  BY ListedKeeps
<1>2. float \in Nat
  BY PayoutsAssumption
<1>3. List(m, sym) = FundIssuer(k, sym, float)
  BY DEF List
<1> HIDE DEF k, float
<1>4. /\ InOrder(FundIssuer(k, sym, float)) /\ Richer(k, FundIssuer(k, sym, float))
      /\ FundIssuer(k, sym, float).listed = k.listed
  BY <1>1, <1>2, FundKeeps
<1> QED BY <1>1, <1>3, <1>4 DEF Richer

-----------------------------------------------------------------------------
(* Holders paid *)

\* What all traders hold is what the accounts hold, account by account.
LEMMA HoldingsAre ==
  ASSUME NEW m, InOrder(m), NEW sym \in Tickers
  PROVE  /\ \A a \in Accounts : Holding(m, sym, a) \in Nat
         /\ HeldShares(m, sym)
              = SumFunctionOnSet([a \in Accounts |-> Holding(m, sym, a)], Accounts)
<1> DEFINE f == [t \in Traders |-> m.held[t][sym]]
           on(a) == {t \in Traders : AccountOf[t] = a}
<1>1. /\ IsFiniteSet(Traders) /\ IsFiniteSet(Accounts) /\ AccountOf \in [Traders -> Accounts]
      /\ m.held \in [Traders -> [Tickers -> Nat]]
  BY PayoutsAssumption DEF InOrder, Formed
<1>2. \A t \in Traders : f[t] \in Nat /\ f[t] = m.held[t][sym]
  BY <1>1
<1>3. HeldShares(m, sym) = SumFunctionOnSet(f, Traders)
  BY DEF HeldShares, SumFunction, SumFunctionOnSet
<1>4. ASSUME NEW a \in Accounts
      PROVE  /\ Holding(m, sym, a) = SumFunctionOnSet(f, on(a))
             /\ SumFunctionOnSet(f, on(a)) \in Nat
  <2> DEFINE g == [t \in TradersOn(a) |-> m.held[t][sym]]
  <2>1. TradersOn(a) = on(a)
    BY DEF TradersOn
  <2>2. Holding(m, sym, a) = SumFunction(g)
    BY DEF Holding
  <2>3. DOMAIN g = on(a) /\ \A t \in on(a) : g[t] = f[t]
    BY <2>1
  <2>4. on(a) \in SUBSET Traders
    OBVIOUS
  <2>5. \A t \in Traders : f[t] \in Int
    BY <1>2
  <2>6. IsFiniteSet(on(a)) /\ \A t \in on(a) : f[t] \in Nat
    BY <1>1, <1>2, FS_Subset
  <2> HIDE DEF g, f, on
  <2>7. SumFunction(g) = SumFunctionOnSet(f, on(a))
    BY <1>1, <2>3, <2>4, <2>5, SumOfPart
  <2>8. SumFunctionOnSet(f, on(a)) \in Nat
    BY <2>6, SumNat
  <2> QED BY <2>2, <2>7, <2>8
<1>5. SumFunctionOnSet(f, Traders)
        = SumFunctionOnSet([a \in Accounts |->
                              SumFunctionOnSet(f, {t \in Traders : AccountOf[t] = a})],
                           Accounts)
  <2>1. \A t \in Traders : f[t] \in Int
    BY <1>2
  <2> HIDE DEF f
  <2>2. SumFunctionOnSet(f, Traders)
          = SumFunctionOnSet(GroupSums(f, Traders, AccountOf, Accounts), Accounts)
    BY <1>1, <2>1, SumByGroup
  <2> QED BY <2>2, Zenon DEF GroupSums
<1>6. [a \in Accounts |-> SumFunctionOnSet(f, {t \in Traders : AccountOf[t] = a})]
        = [a \in Accounts |-> Holding(m, sym, a)]
  <2> HIDE DEF f
  <2> QED BY <1>4
<1> HIDE DEF f, on
<1> QED BY <1>3, <1>4, <1>5, <1>6

\* What is owed to all the holders is the price times the shares held.
LEMMA OwedIs ==
  ASSUME NEW m, InOrder(m), NEW sym \in Tickers, NEW cents \in Nat
  PROVE  /\ DOMAIN Owed(m, sym, cents) \subseteq Accounts
         /\ \A a \in Accounts :
              /\ cents * Holding(m, sym, a) \in Nat
              /\ a \in DOMAIN Owed(m, sym, cents)
                   => Owed(m, sym, cents)[a] = cents * Holding(m, sym, a)
              /\ a \notin DOMAIN Owed(m, sym, cents) => cents * Holding(m, sym, a) = 0
         /\ SumFunction(Owed(m, sym, cents)) = cents * HeldShares(m, sym)
         /\ SumFunction(Owed(m, sym, cents)) \in Nat
         /\ SumFunction(Owed(m, sym, cents)) = 0
              => \A a \in Accounts : cents * Holding(m, sym, a) = 0
<1> DEFINE h == [a \in Accounts |-> Holding(m, sym, a)]
           g == [a \in Accounts |-> cents * Holding(m, sym, a)]
           D == {a \in Accounts : Holding(m, sym, a) > 0}
           owed == Owed(m, sym, cents)
<1>1. IsFiniteSet(Accounts)
  BY PayoutsAssumption
<1>2. /\ \A a \in Accounts : Holding(m, sym, a) \in Nat
      /\ HeldShares(m, sym) = SumFunctionOnSet(h, Accounts)
  BY HoldingsAre
<1>3. ASSUME NEW a \in Accounts
      PROVE  cents * Holding(m, sym, a) \in Nat /\ (a \notin D => cents * Holding(m, sym, a) = 0)
  <2>1. \A n \in Nat : cents * n \in Nat /\ (~(n > 0) => cents * n = 0)
    OBVIOUS
  <2> QED BY <1>2, <2>1
<1>4. owed = [a \in D |-> cents * Holding(m, sym, a)]
  BY DEF Owed
<1>5. DOMAIN owed = D /\ \A a \in D : owed[a] = cents * Holding(m, sym, a)
  BY <1>4, Zenon
<1>6. D \in SUBSET Accounts
  OBVIOUS
<1>7. \A a \in Accounts : g[a] = cents * Holding(m, sym, a) /\ h[a] = Holding(m, sym, a)
  BY Zenon
<1> HIDE DEF h, g, D, owed
<1>8. \A a \in D : a \in Accounts /\ owed[a] = g[a]
  BY <1>5, <1>6, <1>7
<1>9. \A a \in Accounts : g[a] \in Nat /\ g[a] \in Int /\ h[a] \in Int /\ g[a] = cents * h[a]
  <2>1. \A a \in Accounts : g[a] \in Nat /\ g[a] = cents * h[a]
    BY <1>3, <1>7
  <2>2. \A a \in Accounts : h[a] \in Int
    BY <1>2, <1>7
  <2> QED BY <2>1, <2>2
<1>10. SumFunction(owed) = SumFunctionOnSet(g, D)
  BY <1>1, <1>5, <1>6, <1>8, <1>9, SumOfPart
<1>11. SumFunctionOnSet(g, Accounts) = SumFunctionOnSet(g, D)
  <2>1. \A a \in Accounts \ D : g[a] = 0
    BY <1>3, <1>7
  <2> QED BY <1>1, <1>6, <1>9, <2>1, SumSupport
<1>12. SumFunctionOnSet(g, Accounts) = cents * SumFunctionOnSet(h, Accounts)
  <2>1. cents \in Int
    OBVIOUS
  <2> QED BY <1>1, <1>9, <2>1, SumTimes
<1>13. SumFunctionOnSet(g, Accounts) \in Nat
  BY <1>1, <1>9, SumNat
<1>14. ASSUME SumFunctionOnSet(g, Accounts) = 0, NEW a \in Accounts
       PROVE  g[a] = 0
  <2>1. SumFunctionOnSet(g, Accounts) = g[a] + SumFunctionOnSet(g, Accounts \ {a})
    BY <1>1, <1>9, SumRemove
  <2>2. IsFiniteSet(Accounts \ {a}) /\ \A b \in Accounts \ {a} : g[b] \in Nat
    BY <1>1, <1>9, FS_Subset
  <2>3. SumFunctionOnSet(g, Accounts \ {a}) \in Nat
    BY <2>2, SumNat
  <2> QED BY <1>9, <1>14, <2>1, <2>3
<1>15. SumFunction(owed) = cents * HeldShares(m, sym)
  BY <1>2, <1>10, <1>11, <1>12
<1>16. SumFunction(owed) \in Nat
  BY <1>10, <1>11, <1>13
<1>17. SumFunction(owed) = 0 => \A a \in Accounts : cents * Holding(m, sym, a) = 0
  BY <1>7, <1>10, <1>11, <1>14
<1>18. DOMAIN owed \subseteq Accounts
  BY <1>5, <1>6
<1>19. \A a \in Accounts :
         /\ cents * Holding(m, sym, a) \in Nat
         /\ a \in DOMAIN owed => owed[a] = cents * Holding(m, sym, a)
         /\ a \notin DOMAIN owed => cents * Holding(m, sym, a) = 0
  BY <1>3, <1>5
<1> QED BY <1>15, <1>16, <1>17, <1>18, <1>19 DEF owed

\* All the holders are paid, out of one wallet, or nobody is.
LEMMA PayHoldersIs ==
  ASSUME NEW m, InOrder(m), NEW sym \in Tickers, NEW cents \in Nat,
         NEW p, p = PayHolders(m, sym, Owed(m, sym, cents))
  PROVE  /\ InOrder(p.market) /\ SameButMoney(m, p.market)
         /\ p.market.wallets["Treasury"] = m.wallets["Treasury"]
         /\ \A s \in Tickers : s # sym => p.market.wallets[s] = m.wallets[s]
         /\ p.paid => PaidOut(m, p.market, sym, cents)
         /\ ~p.paid => p.market.wallets = m.wallets
<1> DEFINE owed == Owed(m, sym, cents)
           total == SumFunction(owed)
           net == PayoutDraft(owed, sym)
           open == [m EXCEPT !.issuers = @ \cup {sym}]
           paid == [open EXCEPT !.wallets = Pay(@, net)]
<1>1. p = IF total = 0 THEN [paid |-> TRUE, market |-> m]
          ELSE IF CanPost(m.wallets, net) THEN [paid |-> TRUE, market |-> paid]
          ELSE [paid |-> FALSE, market |-> open]
  BY DEF PayHolders
<1>2. /\ DOMAIN owed \subseteq Accounts
      /\ \A a \in Accounts :
           /\ cents * Holding(m, sym, a) \in Nat
           /\ a \in DOMAIN owed => owed[a] = cents * Holding(m, sym, a)
           /\ a \notin DOMAIN owed => cents * Holding(m, sym, a) = 0
      /\ total = cents * HeldShares(m, sym)
      /\ total \in Nat
      /\ total = 0 => \A a \in Accounts : cents * Holding(m, sym, a) = 0
  BY OwedIs
<1>3. /\ sym \in Purses /\ sym \notin Accounts /\ Accounts \subseteq Purses
      /\ "Treasury" \in Purses /\ "Treasury" \notin Accounts /\ "Treasury" \notin Tickers
      /\ Tickers \subseteq Purses /\ Tickers \cap Accounts = {}
  BY PursesAre
<1>4. DOMAIN m = Fields /\ m.issuers \subseteq Tickers /\ m.wallets \in [Purses -> Wallet]
  BY DEF InOrder, Formed
<1>5. \A w \in Purses : m.wallets[w].balance \in Int
  BY BalanceIsInt
<1>6. net = [w \in DOMAIN owed \cup {sym} |-> IF w = sym THEN -total ELSE owed[w]]
  BY DEF PayoutDraft
<1> HIDE DEF owed, total, net
<1>7. CASE total = 0
  <2>1. SameButMoney(m, m)
    BY <1>4 DEF SameButMoney
  <2>2. PaidOut(m, m, sym, cents)
    <3>1. \A n \in Int : n - 0 = n /\ n + 0 = n
      OBVIOUS
    <3> QED BY <1>2, <1>3, <1>5, <1>7, <3>1 DEF PaidOut
  <2>3. p = [paid |-> TRUE, market |-> m]
    BY <1>1, <1>7
  <2> HIDE DEF paid, open
  <2> QED BY <2>1, <2>2, <2>3
<1>8. SameButMoney(m, open) /\ open.issuers = m.issuers \cup {sym} /\ open.wallets = m.wallets
  BY <1>4 DEF SameButMoney, Fields
<1>9. CASE total # 0 /\ ~CanPost(m.wallets, net)
  <2>1. p = [paid |-> FALSE, market |-> open]
    BY <1>1, <1>9
  <2> HIDE DEF paid, open
  <2>2. InOrder(open)
    BY <1>4, <1>8, MoneyChanges
  <2> QED BY <1>8, <2>1, <2>2
<1>10. CASE total # 0 /\ CanPost(m.wallets, net)
  <2>1. SameButMoney(m, paid) /\ paid.issuers = m.issuers \cup {sym}
        /\ paid.wallets = Pay(m.wallets, net)
    <3> HIDE DEF open
    <3>1. DOMAIN open = Fields /\ open.wallets = m.wallets
      BY <1>8 DEF SameButMoney
    <3> QED BY <1>8, <3>1 DEF SameButMoney, Fields
  <2>2. p = [paid |-> TRUE, market |-> paid]
    BY <1>1, <1>10
  <2> HIDE DEF paid, open
  <2>3. DOMAIN net = DOMAIN owed \cup {sym} /\ net[sym] = -total
        /\ \A a \in DOMAIN owed : net[a] = owed[a]
    BY <1>2, <1>3, <1>6
  <2>4. DOMAIN net \subseteq Purses /\ \A w \in DOMAIN net : net[w] \in Int
    BY <1>2, <1>3, <2>3
  <2>5. /\ paid.wallets \in [Purses -> Wallet]
        /\ \A w \in Purses :
             /\ paid.wallets[w].reserved = m.wallets[w].reserved
             /\ paid.wallets[w].balance =
                  m.wallets[w].balance + IF w \in DOMAIN net THEN net[w] ELSE 0
             /\ w \notin DOMAIN net => paid.wallets[w] = m.wallets[w]
    BY <1>4, <2>1, <2>4, PayIs
  <2>6. InOrder(paid)
    BY <1>3, <1>4, <2>1, <2>5, MoneyChanges
  <2>7. paid.wallets["Treasury"] = m.wallets["Treasury"]
        /\ \A s \in Tickers : s # sym => paid.wallets[s] = m.wallets[s]
    <3>1. "Treasury" \notin DOMAIN net /\ \A s \in Tickers : s # sym => s \notin DOMAIN net
      BY <1>2, <1>3, <2>3
    <3> QED BY <1>3, <2>5, <3>1
  <2>8. PaidOut(m, paid, sym, cents)
    <3>1. paid.wallets[sym].balance = m.wallets[sym].balance - total
      BY <1>2, <1>3, <1>5, <2>3, <2>5
    <3>2. ASSUME NEW a \in Accounts
          PROVE  paid.wallets[a].balance = m.wallets[a].balance + cents * Holding(m, sym, a)
      <4>1. a \in Purses /\ a # sym /\ m.wallets[a].balance \in Int
        BY <1>3, <1>5
      <4>2. CASE a \in DOMAIN owed
        <5>1. net[a] = cents * Holding(m, sym, a) /\ a \in DOMAIN net
          BY <1>2, <2>3, <4>2
        <5> QED BY <2>5, <4>1, <5>1
      <4>3. CASE a \notin DOMAIN owed
        <5>1. cents * Holding(m, sym, a) = 0 /\ a \notin DOMAIN net
          BY <1>2, <2>3, <4>1, <4>3
        <5> QED BY <2>5, <4>1, <5>1
      <4> QED BY <4>2, <4>3
    <3> QED BY <1>2, <3>1, <3>2 DEF PaidOut
  <2> QED BY <2>1, <2>2, <2>6, <2>7, <2>8
<1> QED BY <1>7, <1>9, <1>10

\* When a symbol's book is empty, every order is another's.
LEMMA OrdersElsewhere ==
  ASSUME NEW m, NEW sym, BookOf(m, sym) = {}
  PROVE  \A o \in m.book : o.symbol # sym
BY DEF BookOf

-----------------------------------------------------------------------------
(* Dividends and delistings *)

\* An issuer paid its holders, or no money moved and all stayed listed; the
\* other issuers are as they were.
LEMMA AlikeAfter ==
  ASSUME NEW m, InOrder(m), NEW e, NEW sym \in Tickers, NEW cents \in 0 .. MaxPrice,
         \/ PaidOut(m, e, sym, cents)
         \/ e.wallets[sym].balance = m.wallets[sym].balance
            /\ (IsListed(m, sym) => IsListed(e, sym)),
         \A s \in Tickers : s # sym => /\ e.wallets[s].balance = m.wallets[s].balance
                                       /\ IsListed(m, s) => IsListed(e, s)
  PROVE  Alike(m, e)
<1>1. \A s \in Tickers : m.wallets[s].balance \in Int
  BY BalanceIsInt, PursesAre
<1>2. \A n \in Int : ~(n < n)
  OBVIOUS
<1> SUFFICES ASSUME NEW s \in Tickers,
                    \/ e.wallets[s].balance < m.wallets[s].balance
                    \/ IsListed(m, s) /\ ~IsListed(e, s)
             PROVE  \E c \in 0 .. MaxPrice : PaidOut(m, e, s, c)
  BY Zenon DEF Alike
<1>3. s = sym
  BY <1>1, <1>2, Zenon
<1>4. ~(e.wallets[sym].balance = m.wallets[sym].balance
        /\ (IsListed(m, sym) => IsListed(e, sym)))
  BY <1>1, <1>2, <1>3, Zenon
<1> QED BY <1>3, <1>4, Zenon

\* Where nothing moves, holders are treated alike.
LEMMA NothingMovesAlike ==
  ASSUME NEW m, InOrder(m), NEW e, NothingMoves(m, e)
  PROVE  Alike(m, e)
<1>1. \A s \in Tickers : m.wallets[s].balance \in Int
  BY BalanceIsInt, PursesAre
<1>2. \A n \in Int : ~(n < n)
  OBVIOUS
<1> QED BY <1>1, <1>2, Zenon DEF Alike, NothingMoves, IsListed

\* A dividend, paid or refused, leaves the market in order and pays every
\* share alike (pay_dividend).
LEMMA PayDividendKeeps ==
  ASSUME NEW m, InOrder(m), NEW sym \in Tickers, NEW cents \in 0 .. MaxPrice, IsQuoted(m, sym)
  PROVE  InOrder(PayDividend(m, sym, cents)) /\ Alike(m, PayDividend(m, sym, cents))
<1> DEFINE p == PayHolders(m, sym, Owed(m, sym, cents))
           event == [cents |-> cents, declared |-> m.symbols[sym].price]
           ex == [p.market EXCEPT !.symbols[sym].pending = Append(@, event)]
           e == PayDividend(m, sym, cents)
<1>1. e = IF p.paid THEN ex ELSE p.market
  BY DEF PayDividend
<1>2. cents \in Nat
  BY PayoutsAssumption
<1>3. /\ InOrder(p.market) /\ SameButMoney(m, p.market)
      /\ \A s \in Tickers : s # sym => p.market.wallets[s] = m.wallets[s]
      /\ p.paid => PaidOut(m, p.market, sym, cents)
      /\ ~p.paid => p.market.wallets = m.wallets
  BY <1>2, PayHoldersIs
<1> HIDE DEF p
<1> DEFINE s == p.market.symbols[sym]
           n == [s EXCEPT !.pending = Append(@, event)]
<1>4. s \in Symbol /\ DOMAIN p.market = Fields /\ s = m.symbols[sym] /\ ~s.delisted
      /\ p.market.symbols \in [Tickers -> Symbol]
  BY <1>3 DEF InOrder, Formed, SameButMoney, IsQuoted
<1>5. n \in Symbol /\ ~n.delisted
  <2> DEFINE D == [cents : Int, declared : Nat \ {0}]
  <2>1. event \in D
    <3>1. s \in Symbol /\ m.symbols[sym].price = s.price
      BY <1>4
    <3> HIDE DEF s, e, n, ex, event, D
    <3>2. s.price \in 1 .. MaxPrice
      BY <3>1 DEF Symbol
    <3>3. MaxPrice \in Nat
      BY PayoutsAssumption
    <3>4. s.price \in Nat \ {0}
      BY <3>2, <3>3
    <3>5. m.symbols[sym].price \in Nat \ {0}
      BY <3>1, <3>4
    <3>6. cents \in Int
      BY <1>2
    <3> QED BY <3>5, <3>6 DEF event, D
  <2> HIDE DEF D, event
  <2>2. Symbol = [price : 1 .. MaxPrice, pending : Seq(D), delisted : BOOLEAN, next_id : Nat]
    BY DEF Symbol, D
  <2>3. s.pending \in Seq(D)
    BY <1>4, <2>2
  <2>4. Append(s.pending, event) \in Seq(D)
    BY <2>1, <2>3
  <2> DEFINE q == Append(s.pending, event)
  <2>5. n = [s EXCEPT !.pending = q]
    OBVIOUS
  <2>6. s \in Symbol /\ ~s.delisted /\ q \in Seq(D)
    BY <1>4, <2>4
  <2> HIDE DEF n, s, q
  <2> QED BY <2>2, <2>5, <2>6
<1>6. ex = [p.market EXCEPT !.symbols[sym] = n]
  OBVIOUS
<1>7. InOrder(ex) /\ ex.wallets = p.market.wallets /\ ex.listed = p.market.listed
      /\ ex.held = p.market.held
  <2> HIDE DEF n, ex
  <2>1. InOrder(ex)
    BY <1>3, <1>5, <1>6, SymbolChanges
  <2>2. ex.wallets = p.market.wallets /\ ex.listed = p.market.listed /\ ex.held = p.market.held
    BY <1>4, <1>6 DEF Fields
  <2> QED BY <2>1, <2>2
<1> HIDE DEF ex, e
<1>8. InOrder(e) /\ e.wallets = p.market.wallets /\ e.listed = m.listed
  BY <1>1, <1>3, <1>7 DEF SameButMoney
<1>9. PaidOut(m, e, sym, cents) \/ e.wallets = m.wallets
  BY <1>3, <1>8 DEF PaidOut
<1>10. Alike(m, e)
  <2>1. \A t \in Tickers : IsListed(m, t) => IsListed(e, t)
    BY <1>8 DEF IsListed
  <2>2. \A t \in Tickers : t # sym => e.wallets[t].balance = m.wallets[t].balance
    BY <1>3, <1>8
  <2>3. PaidOut(m, e, sym, cents) \/ e.wallets[sym].balance = m.wallets[sym].balance
    BY <1>9
  <2> QED BY <2>1, <2>2, <2>3, AlikeAfter
<1> QED BY <1>8, <1>10 DEF e

\* The market wound up in a symbol: its orders withdrawn, and no more taken.
LEMMA WindUpKeeps ==
  ASSUME NEW m, InOrder(m), NEW sym \in Tickers, IsListed(m, sym)
  PROVE  /\ InOrder(WindUp(m, sym)) /\ BookOf(WindUp(m, sym), sym) = {}
         /\ WindUp(m, sym).listed = m.listed /\ WindUp(m, sym).held = m.held
         /\ \A w \in Purses : WindUp(m, sym).wallets[w].balance = m.wallets[w].balance
<1> DEFINE k == Withdraw(m, BookOf(m, sym))
           s == k.symbols[sym]
           n == [s EXCEPT !.delisted = TRUE]
           e == WindUp(m, sym)
<1>1. BookOf(m, sym) \in SUBSET m.book
  BY DEF BookOf
<1>2. /\ InOrder(k) /\ k.listed = m.listed /\ k.held = m.held
      /\ k.book = m.book \ BookOf(m, sym)
      /\ \A w \in Purses : k.wallets[w].balance = m.wallets[w].balance
  BY <1>1, WithdrawKeeps
<1>3. BookOf(k, sym) = {} /\ IsListed(k, sym)
  BY <1>2 DEF BookOf, IsListed
<1>4. e = [k EXCEPT !.symbols[sym] = n]
  BY DEF WindUp
<1> HIDE DEF k
<1>5. s \in Symbol /\ DOMAIN k = Fields
  BY <1>2 DEF InOrder, Formed
<1>6. n \in Symbol
  <2> HIDE DEF s
  <2> QED BY <1>5 DEF Symbol
<1> HIDE DEF n, e
<1>7. InOrder(e)
  BY <1>2, <1>3, <1>4, <1>6, SymbolChanges
<1>8. e.book = k.book /\ e.listed = k.listed /\ e.held = k.held /\ e.wallets = k.wallets
  BY <1>4, <1>5 DEF Fields
<1> QED BY <1>2, <1>3, <1>7, <1>8 DEF e, BookOf

\* A symbol with nothing on its book taken off the market, and its shares
\* with it.
LEMMA UnlistKeeps ==
  ASSUME NEW m, InOrder(m), NEW sym \in Tickers, BookOf(m, sym) = {}
  PROVE  /\ InOrder(Unlist(m, sym)) /\ Unlist(m, sym).wallets = m.wallets
         /\ Unlist(m, sym).listed = m.listed \ {sym}
<1> DEFINE k == Renewed(m, sym)
           e == Unlist(m, sym)
           H == [t \in Traders |-> [m.held[t] EXCEPT ![sym] = 0]]
           R == [t \in Traders |-> [m.reserved_shares[t] EXCEPT ![sym] = 0]]
           N == Max({m.next_order_id, m.symbols[sym].next_id})
<1>1. /\ DOMAIN k = Fields /\ k.book = m.book
      /\ k.symbols = [m.symbols EXCEPT ![sym] = NewSymbol]
      /\ k.wallets = m.wallets /\ k.issuers = m.issuers
      /\ k.listed = m.listed /\ k.held = m.held
      /\ k.reserved_shares = m.reserved_shares
      /\ k.next_order_id = m.next_order_id /\ k.orders = m.orders
  BY RenewedIs DEF InOrder, Formed
<1>2. e = [k EXCEPT !.held = H, !.reserved_shares = R, !.next_order_id = N,
                    !.listed = k.listed \ {sym}]
  <2>1. e = [k EXCEPT !.held = H, !.reserved_shares = R,
                      !.next_order_id = Max({k.next_order_id, m.symbols[sym].next_id}),
                      !.listed = k.listed \ {sym}]
    BY DEF Unlist
  <2>2. N = Max({k.next_order_id, m.symbols[sym].next_id})
    BY <1>1
  <2> HIDE DEF k, H, R, N, e
  <2> QED BY <2>1, <2>2
<1> HIDE DEF k, H, R, N, e
<1>3. /\ DOMAIN e = Fields /\ e.book = m.book
      /\ e.symbols = [m.symbols EXCEPT ![sym] = NewSymbol]
      /\ e.wallets = m.wallets /\ e.issuers = m.issuers
      /\ e.listed = m.listed \ {sym} /\ e.held = H /\ e.reserved_shares = R
      /\ e.next_order_id = N /\ e.orders = m.orders
  BY <1>1, <1>2 DEF Fields
<1>4. Formed(m) /\ Covered(m)
  BY DEF InOrder
<1>5. N \in Nat /\ m.next_order_id <= N
  <2>1. m.next_order_id \in Nat /\ m.symbols[sym].next_id \in Nat
    BY <1>4 DEF Formed, Symbol
  <2> QED BY <2>1, MaxOfTwo DEF N
<1>6. ASSUME NEW t \in Traders, NEW s \in Tickers
      PROVE  /\ H[t][s] \in Nat /\ H[t][s] = IF s = sym THEN 0 ELSE m.held[t][s]
             /\ R[t][s] \in Nat /\ R[t][s] = IF s = sym THEN 0 ELSE m.reserved_shares[t][s]
  BY <1>4 DEF H, R, Formed
<1>7. H \in [Traders -> [Tickers -> Nat]] /\ R \in [Traders -> [Tickers -> Nat]]
  BY <1>4 DEF H, R, Formed
<1>8. Cardinality(m.listed \ {sym}) <= MAX_SYMBOLS
  <2>1. IsFiniteSet(m.listed)
    BY <1>4, FS_Subset, PayoutsAssumption DEF Formed
  <2>2. /\ Cardinality(m.listed \ {sym}) <= Cardinality(m.listed)
        /\ Cardinality(m.listed \ {sym}) \in Nat /\ Cardinality(m.listed) \in Nat
    <3>1. m.listed \ {sym} \in SUBSET m.listed
      OBVIOUS
    <3>2. IsFiniteSet(m.listed \ {sym}) /\ Cardinality(m.listed \ {sym}) <= Cardinality(m.listed)
      BY <2>1, <3>1, FS_Subset
    <3> QED BY <2>1, <3>2, FS_CardinalityType
  <2> QED BY <1>4, <2>2, PayoutsAssumption DEF Formed
<1>9. Formed(e)
  <2>1. e.symbols \in [Tickers -> Symbol]
    BY <1>3, <1>4, NewSymbolType DEF Formed
  <2>2. \A id \in DOMAIN e.orders : id \in Nat /\ id < e.next_order_id
    BY <1>3, <1>4, <1>5 DEF Formed
  <2> QED BY <1>3, <1>4, <1>5, <1>7, <1>8, <2>1, <2>2 DEF Formed
<1>10. Covered(e)
  <2>1. ASSUME NEW t \in Traders, NEW s \in Tickers
        PROVE  /\ e.reserved_shares[t][s] = AskShares(e.book, t, s)
               /\ e.reserved_shares[t][s] <= e.held[t][s]
    <3>1. CASE s = sym
      <4>1. AskShares(m.book, t, sym) = 0
        BY OrdersElsewhere, AskSharesNone
      <4> QED BY <1>3, <1>6, <3>1, <4>1
    <3>2. CASE s # sym
      BY <1>3, <1>4, <1>6, <3>2 DEF Covered
    <3> QED BY <3>1, <3>2
  <2> QED BY <1>3, <1>4, <2>1 DEF Covered
<1>11. Logged(e)
  BY <1>3 DEF InOrder, Logged
<1>12. \A s \in Tickers : ListingOK(e, s)
  <2> SUFFICES ASSUME NEW s \in Tickers PROVE ListingOK(e, s)
    OBVIOUS
  <2>1. m.symbols \in [Tickers -> Symbol] /\ BookOf(e, s) = BookOf(m, s)
    BY <1>3, <1>4 DEF Formed, BookOf
  <2>2. CASE s = sym
    <3>1. ~IsListed(e, s) /\ ~e.symbols[s].delisted /\ BookOf(e, s) = {}
      BY <1>3, <2>1, <2>2, NewSymbolType DEF IsListed
    <3>2. \A t \in Traders : e.held[t][s] = 0
      BY <1>3, <1>6, <2>2
    <3> QED BY <3>1, <3>2 DEF ListingOK
  <2>3. CASE s # sym
    <3>1. ListingOK(m, s) /\ e.symbols[s] = m.symbols[s] /\ (IsListed(e, s) <=> IsListed(m, s))
      BY <1>3, <2>1, <2>3 DEF InOrder, IsListed
    <3>2. \A t \in Traders : e.held[t][s] = m.held[t][s]
      BY <1>3, <1>6, <2>3
    <3> QED BY <2>1, <3>1, <3>2 DEF ListingOK
  <2> QED BY <2>2, <2>3
<1>13. InOrder(e)
  BY <1>9, <1>10, <1>11, <1>12 DEF InOrder
<1> QED BY <1>3, <1>13 DEF e

\* A delisting, done or refused, leaves the market in order and pays every
\* share alike (Market::delist).
LEMMA DelistKeeps ==
  ASSUME NEW m, InOrder(m), NEW sym \in Tickers, NEW cents \in 0 .. MaxPrice, IsListed(m, sym)
  PROVE  InOrder(Delist(m, sym, cents)) /\ Alike(m, Delist(m, sym, cents))
<1> DEFINE wound == WindUp(m, sym)
           p == PayHolders(wound, sym, Owed(wound, sym, cents))
           gone == Unlist(p.market, sym)
           e == Delist(m, sym, cents)
<1>1. /\ InOrder(wound) /\ BookOf(wound, sym) = {}
      /\ wound.listed = m.listed /\ wound.held = m.held
      /\ \A w \in Purses : wound.wallets[w].balance = m.wallets[w].balance
  BY WindUpKeeps
<1>2. cents \in Nat /\ Tickers \subseteq Purses /\ Accounts \subseteq Purses
  BY PayoutsAssumption, PursesAre
<1>3. e = IF p.paid THEN gone ELSE p.market
  BY DEF Delist
<1> HIDE DEF wound, e
<1>4. /\ InOrder(p.market) /\ SameButMoney(wound, p.market)
      /\ \A s \in Tickers : s # sym => p.market.wallets[s] = wound.wallets[s]
      /\ p.paid => PaidOut(wound, p.market, sym, cents)
      /\ ~p.paid => p.market.wallets = wound.wallets
  BY <1>1, <1>2, PayHoldersIs
<1> HIDE DEF p
<1>5. BookOf(p.market, sym) = {} /\ p.market.listed = m.listed
  BY <1>1, <1>4 DEF SameButMoney, BookOf
<1>6. /\ InOrder(gone) /\ gone.wallets = p.market.wallets
      /\ gone.listed = p.market.listed \ {sym}
  BY <1>4, <1>5, UnlistKeeps
<1> HIDE DEF gone
<1>7. InOrder(e) /\ e.wallets = p.market.wallets
      /\ \A s \in Tickers : s # sym => (IsListed(m, s) => IsListed(e, s))
  BY <1>3, <1>4, <1>5, <1>6 DEF IsListed
<1>8. ~p.paid => IsListed(e, sym) /\ e.wallets[sym].balance = m.wallets[sym].balance
  BY <1>1, <1>2, <1>3, <1>4, <1>5 DEF IsListed
<1>9. p.paid => PaidOut(m, e, sym, cents)
  <2>1. HeldShares(wound, sym) = HeldShares(m, sym)
    BY <1>1 DEF HeldShares
  <2>2. \A a \in Accounts : Holding(wound, sym, a) = Holding(m, sym, a)
    BY <1>1 DEF Holding
  <2> QED BY <1>1, <1>2, <1>4, <1>7, <2>1, <2>2 DEF PaidOut
<1>10. \A s \in Tickers : s # sym => e.wallets[s].balance = m.wallets[s].balance
  BY <1>1, <1>2, <1>4, <1>7
<1>11. Alike(m, e)
  BY <1>7, <1>8, <1>9, <1>10, AlikeAfter
<1> QED BY <1>7, <1>11 DEF e

-----------------------------------------------------------------------------
(* The jobs *)

\* A wallet's status may change, and nothing moves.
LEMMA StatusChanges ==
  ASSUME NEW m, InOrder(m), NEW a \in Accounts, NEW status \in {"Active", "Frozen", "Closed"},
         NEW e, e = [m EXCEPT !.wallets[a].status = status]
  PROVE  InOrder(e) /\ NothingMoves(m, e)
<1> DEFINE W == [m.wallets EXCEPT ![a].status = status]
<1>1. DOMAIN m = Fields /\ m.wallets \in [Purses -> Wallet] /\ m.issuers \subseteq Tickers
  BY DEF InOrder, Formed
<1>2. a \in Purses /\ Tickers \subseteq Purses /\ Accounts \subseteq Purses /\ a \notin Tickers
  BY PursesAre
<1>3. /\ W \in [Purses -> Wallet]
      /\ \A w \in Purses : /\ W[w].reserved = m.wallets[w].reserved
                           /\ W[w].balance = m.wallets[w].balance
  BY <1>1, <1>2 DEF Wallet
<1>4. e = [m EXCEPT !.wallets = W]
  OBVIOUS
<1> HIDE DEF W
<1>5. SameButMoney(m, e) /\ e.issuers = m.issuers /\ e.wallets = W
  BY <1>1, <1>4 DEF SameButMoney, Fields
<1>6. InOrder(e)
  BY <1>1, <1>2, <1>3, <1>5, MoneyChanges
<1>7. NothingMoves(m, e)
  BY <1>2, <1>3, <1>5 DEF NothingMoves, SameButMoney
<1> QED BY <1>6, <1>7

\* Where issuers only gain, none has paid.
LEMMA RicherIsNoPayout ==
  ASSUME NEW m, NEW e, Richer(m, e), m.listed \subseteq e.listed
  PROVE  Alike(m, e)
<1>1. NoPayout(m, e)
  BY DEF Richer, NoPayout, IsListed
<1>2. \A sym \in Tickers : e.wallets[sym].balance \in Int /\ m.wallets[sym].balance \in Int
  BY DEF Richer
<1> QED BY <1>1, <1>2, NoPayoutAlike

\* The command that rests an order.
LEMMA PlaceOrderKeeps ==
  ASSUME PInv, PlaceOrder
  PROVE  InOrder(market') /\ Alike(market, market')
<1>1. PICK sym \in Tickers, r \in flow.requests :
        /\ Accepts(market, sym, r)
        /\ market' = Rest(market, sym, r, AllocateOrderId(market, sym))
  BY DEF PlaceOrder, End
<1>2. r \in Request /\ InOrder(market)
  BY FlowsAssumption DEF PInv
<1>3. InOrder(market') /\ NothingMoves(market, market')
  BY <1>1, <1>2, RestKeeps
<1> QED BY <1>2, <1>3, NothingMovesAlike

\* The command that withdraws one.
LEMMA CancelOrderKeeps ==
  ASSUME PInv, CancelOrder
  PROVE  InOrder(market') /\ Alike(market, market')
<1>1. PICK o \in market.book : market' = Withdraw(market, {o})
  BY DEF CancelOrder, End
<1>2. {o} \in SUBSET market.book /\ InOrder(market)
  BY DEF PInv
<1>3. /\ InOrder(market') /\ market'.listed = market.listed
      /\ \A w \in Purses : market'.wallets[w].balance = market.wallets[w].balance
  BY <1>1, <1>2, WithdrawKeeps
<1>4. NothingMoves(market, market')
  BY <1>3, PursesAre DEF NothingMoves
<1> QED BY <1>2, <1>3, <1>4, NothingMovesAlike

\* The tick, and then the fills.
LEMMA StepKeeps ==
  ASSUME PInv, Step
  PROVE  InOrder(market') /\ Alike(market, market')
<1>1. PICK sym \in Tickers, noise \in flow.noise :
        LET price == PriceAfter(market, sym, noise) IN
        /\ IsListed(market, sym) /\ price <= MaxPrice
        /\ \E filled \in SUBSET Reached(sym, price) : \E queue \in SetToSeqs(filled) :
             End(FillAll(Ticked(market, sym, noise), queue))
  BY DEF Step
<1> DEFINE price == PriceAfter(market, sym, noise)
           t == Ticked(market, sym, noise)
<1>2. PICK filled \in SUBSET Reached(sym, price) :
        \E queue \in SetToSeqs(filled) : market' = FillAll(t, queue)
  BY <1>1 DEF End
<1>3. PICK queue \in SetToSeqs(filled) : market' = FillAll(t, queue)
  BY <1>2
<1>4. noise \in Int /\ InOrder(market)
  BY FlowsAssumption DEF PInv
<1>5. InOrder(t) /\ NothingMoves(market, t) /\ t.book = market.book
  BY <1>1, <1>4, TickedKeeps
<1>6. filled \in SUBSET t.book
  BY <1>5 DEF Reached, BookOf
<1> HIDE DEF t
<1>7. InOrder(market') /\ NothingMoves(t, market')
  BY <1>3, <1>5, <1>6, FillAllKeeps
<1>8. NothingMoves(market, market')
  BY <1>5, <1>7 DEF NothingMoves
<1> QED BY <1>4, <1>7, <1>8, NothingMovesAlike

\* The command that lists a symbol.
LEMMA ListSymbolKeeps ==
  ASSUME PInv, ListSymbol
  PROVE  InOrder(market') /\ Alike(market, market')
<1>1. PICK sym \in flow.listings :
        /\ ~IsListed(market, sym) /\ Cardinality(market.listed) < MAX_SYMBOLS
        /\ market' = List(market, sym)
  BY DEF ListSymbol, End
<1>2. sym \in Tickers /\ InOrder(market)
  BY FlowsAssumption DEF PInv
<1>3. Listable(market, sym)
  BY <1>1, <1>2 DEF Listable, InOrder, ListingOK
<1>4. InOrder(market') /\ Richer(market, market') /\ market.listed \subseteq market'.listed
  BY <1>1, <1>2, <1>3, ListKeeps
<1> QED BY <1>4, RicherIsNoPayout

\* The command that pays a dividend.
LEMMA DividendKeeps ==
  ASSUME PInv, Dividend
  PROVE  InOrder(market') /\ Alike(market, market')
<1>1. PICK sym \in Tickers, cents \in flow.prices :
        IsQuoted(market, sym) /\ market' = PayDividend(market, sym, cents)
  BY DEF Dividend, End
<1>2. cents \in 0 .. MaxPrice /\ InOrder(market)
  BY FlowsAssumption DEF PInv
<1> QED BY <1>1, <1>2, PayDividendKeeps

\* The command that delists a symbol at a price it names.
LEMMA DelistAtPriceKeeps ==
  ASSUME PInv, DelistAtPrice
  PROVE  InOrder(market') /\ Alike(market, market')
<1>1. PICK sym \in Tickers, cents \in flow.prices :
        IsListed(market, sym) /\ market' = Delist(market, sym, cents)
  BY DEF DelistAtPrice, End
<1>2. cents \in 0 .. MaxPrice /\ InOrder(market)
  BY FlowsAssumption DEF PInv
<1> QED BY <1>1, <1>2, DelistKeeps

\* The command that delists a symbol at its last price.
LEMMA DelistAtLastKeeps ==
  ASSUME PInv, DelistAtLast
  PROVE  InOrder(market') /\ Alike(market, market')
<1>1. PICK sym \in Tickers :
        /\ IsListed(market, sym)
        /\ market' = Delist(market, sym, market.symbols[sym].price)
  BY DEF DelistAtLast, End
<1>2. InOrder(market)
  BY DEF PInv
<1>3. market.symbols[sym].price \in 0 .. MaxPrice
  BY <1>2, PayoutsAssumption DEF InOrder, Formed, Symbol
<1> QED BY <1>1, <1>2, <1>3, DelistKeeps

\* Money leaves an issuer for the treasury, which has the more.
LEMMA SweepKeeps ==
  ASSUME PInv, Sweep
  PROVE  InOrder(market') /\ Alike(market, market')
<1>1. PICK takings \in market.issuers \cup {"Venue"} :
        \E cents \in flow.sweeps \cup {AvailableCents(market.wallets[takings])} :
          /\ cents > 0
          /\ market' = [market EXCEPT !.wallets = Pay(@, Movement(takings, "Treasury", cents))]
  BY DEF Sweep, End
<1>2. PICK cents \in flow.sweeps \cup {AvailableCents(market.wallets[takings])} :
        /\ cents > 0
        /\ market' = [market EXCEPT !.wallets = Pay(@, Movement(takings, "Treasury", cents))]
  BY <1>1
<1>3. InOrder(market) /\ DOMAIN market = Fields /\ market.issuers \subseteq Tickers
  BY DEF PInv, InOrder, Formed
<1>4. takings \in Purses /\ "Treasury" \in Purses /\ takings # "Treasury"
  BY <1>3, PursesAre
<1>5. cents \in Nat
  BY <1>3, <1>4, BalanceIsInt, FlowsAssumption DEF PInv
<1>6. SameButMoney(market, market') /\ market'.issuers = market.issuers
      /\ market'.wallets = Pay(market.wallets, Movement(takings, "Treasury", cents))
  BY <1>2, <1>3 DEF SameButMoney, Fields
<1>7. /\ InOrder(market')
      /\ market'.wallets["Treasury"].balance = market.wallets["Treasury"].balance + cents
  BY <1>3, <1>4, <1>5, <1>6, Moved
<1>8. market.wallets["Treasury"].balance \in Int
  BY <1>3, <1>4, BalanceIsInt
<1>9. market'.wallets["Treasury"] # market.wallets["Treasury"]
  BY <1>2, <1>5, <1>7, <1>8
<1>10. NoPayout(market, market')
  BY <1>6, <1>9 DEF NoPayout, SameButMoney, IsListed
<1>11. \A s \in Tickers : market'.wallets[s].balance \in Int /\ market.wallets[s].balance \in Int
  BY <1>3, <1>7, BalanceIsInt, PursesAre
<1> QED BY <1>7, <1>10, <1>11, NoPayoutAlike

\* The command that moves cash from one account to another.
LEMMA TransferKeeps ==
  ASSUME PInv, Transfer
  PROVE  InOrder(market') /\ Alike(market, market')
<1>1. PICK from \in Accounts, to \in Accounts, cents \in flow.transfers :
        /\ from # to
        /\ market' = [market EXCEPT !.wallets = Pay(@, Movement(from, to, cents))]
  BY DEF Transfer, End
<1>2. InOrder(market) /\ DOMAIN market = Fields /\ market.issuers \subseteq Tickers
  BY DEF PInv, InOrder, Formed
<1>3. from \in Purses /\ to \in Purses /\ cents \in Nat
  BY PursesAre, FlowsAssumption DEF PInv
<1>4. SameButMoney(market, market') /\ market'.issuers = market.issuers
      /\ market'.wallets = Pay(market.wallets, Movement(from, to, cents))
  BY <1>1, <1>2 DEF SameButMoney, Fields
<1>5. InOrder(market')
      /\ \A w \in Purses : w \notin {from, to} => market'.wallets[w] = market.wallets[w]
  <2>1. market'.issuers \subseteq Tickers /\ from # to
    BY <1>1, <1>2, <1>4
  <2>2. market'.wallets = Pay(market.wallets, Movement(from, to, cents))
    BY <1>4
  <2> QED BY <1>2, <1>3, <1>4, <2>1, <2>2, Moved
<1>6. NothingMoves(market, market')
  BY <1>4, <1>5, PursesAre DEF NothingMoves, SameButMoney
<1> QED BY <1>2, <1>5, <1>6, NothingMovesAlike

\* The command that freezes an account, its orders withdrawn first.
LEMMA FreezeAccountKeeps ==
  ASSUME PInv, FreezeAccount
  PROVE  InOrder(market') /\ Alike(market, market')
<1> DEFINE gone(a) == {o \in market.book : AccountOf[o.trader] = a}
           quiet(a) == Withdraw(market, gone(a))
<1>1. PICK a \in flow.freezes :
        market' = IF market.wallets[a].status = "Closed" THEN quiet(a)
                  ELSE [quiet(a) EXCEPT !.wallets[a].status = "Frozen"]
  BY DEF FreezeAccount, End
<1>2. a \in Accounts /\ InOrder(market)
  BY FlowsAssumption DEF PInv
<1> DEFINE q == quiet(a)
           froze == [q EXCEPT !.wallets[a].status = "Frozen"]
<1>3. /\ InOrder(q) /\ q.listed = market.listed
      /\ \A w \in Purses : q.wallets[w].balance = market.wallets[w].balance
  <2>1. gone(a) \in SUBSET market.book
    OBVIOUS
  <2> QED BY <1>2, <2>1, WithdrawKeeps
<1>4. market' = q \/ market' = froze
  BY <1>1
<1> HIDE DEF q, quiet, gone
<1>5. NothingMoves(market, q)
  BY <1>3, PursesAre DEF NothingMoves
<1>6. InOrder(froze) /\ NothingMoves(q, froze)
  BY <1>2, <1>3, StatusChanges
<1> HIDE DEF froze
<1>7. NothingMoves(market, froze)
  BY <1>5, <1>6 DEF NothingMoves
<1>8. Alike(market, q) /\ Alike(market, froze)
  BY <1>2, <1>5, <1>7, NothingMovesAlike
<1> QED BY <1>3, <1>4, <1>6, <1>8

\* The command that thaws one.
LEMMA UnfreezeAccountKeeps ==
  ASSUME PInv, UnfreezeAccount
  PROVE  InOrder(market') /\ Alike(market, market')
<1>1. PICK a \in flow.freezes : market' = [market EXCEPT !.wallets[a].status = "Active"]
  BY DEF UnfreezeAccount, End
<1>2. a \in Accounts /\ InOrder(market)
  BY FlowsAssumption DEF PInv
<1>3. InOrder(market') /\ NothingMoves(market, market')
  BY <1>1, <1>2, StatusChanges
<1> QED BY <1>2, <1>3, NothingMovesAlike

\* The command that closes an account with nothing in it.
LEMMA CloseAccountKeeps ==
  ASSUME PInv, CloseAccount
  PROVE  InOrder(market') /\ Alike(market, market')
<1>1. PICK a \in flow.closures : market' = [market EXCEPT !.wallets[a].status = "Closed"]
  BY DEF CloseAccount, End
<1>2. a \in Accounts /\ InOrder(market)
  BY FlowsAssumption DEF PInv
<1>3. InOrder(market') /\ NothingMoves(market, market')
  BY <1>1, <1>2, StatusChanges
<1> QED BY <1>2, <1>3, NothingMovesAlike

\* A world starts with one stock, no orders, and nothing held back.
LEMMA InitInv ==
  ASSUME Init
  PROVE  PInv
<1> DEFINE purse(w) == IF w \in Accounts THEN Cash[w]
                       ELSE IF w = "Treasury" THEN TREASURY ELSE 0
           holding(t, sym) == IF sym = Floated THEN Held[t] ELSE 0
           W == [w \in Purses |-> Opened(purse(w))]
           Y == [sym \in Tickers |-> NewSymbol]
           H == [t \in Traders |-> [sym \in Tickers |-> holding(t, sym)]]
           R == [t \in Traders |-> [sym \in Tickers |-> 0]]
           m == [wallets |-> W, issuers |-> {}, listed |-> {}, book |-> {}, symbols |-> Y,
                 held |-> H, reserved_shares |-> R, next_order_id |-> 1, orders |-> <<>>]
<1>1. flow \in Flows /\ market = List(m, Floated)
  BY DEF Init
<1>2. /\ DOMAIN m = Fields
      /\ m.wallets = W /\ m.issuers = {} /\ m.listed = {} /\ m.book = {} /\ m.symbols = Y
      /\ m.held = H /\ m.reserved_shares = R /\ m.next_order_id = 1 /\ m.orders = <<>>
  <2> HIDE DEF W, Y, H, R
  <2> QED BY DEF Fields
<1>3. W \in [Purses -> Wallet] /\ \A w \in Purses : W[w].reserved = 0
  <2>1. \A w \in Purses : purse(w) \in Int
    BY PayoutsAssumption
  <2> HIDE DEF purse
  <2> QED BY <2>1 DEF Opened, Wallet
<1>4. Y \in [Tickers -> Symbol] /\ \A sym \in Tickers : ~Y[sym].delisted
  BY NewSymbolType
<1>5. H \in [Traders -> [Tickers -> Nat]]
      /\ \A t \in Traders, sym \in Tickers : sym # Floated => H[t][sym] = 0
  <2>1. \A t \in Traders, sym \in Tickers : holding(t, sym) \in Nat
    BY PayoutsAssumption
  <2> QED BY <2>1
<1>6. R \in [Traders -> [Tickers -> Nat]] /\ \A t \in Traders, sym \in Tickers : R[t][sym] = 0
  OBVIOUS
<1> HIDE DEF W, Y, H, R, m
<1>7. \A a : BidCents({}, a) = 0
  BY BidCentsNone
<1>8. \A t, sym : AskShares({}, t, sym) = 0
  BY AskSharesNone
<1>9. Cardinality({}) = 0 /\ IsFiniteSet({})
  BY FS_EmptySet
<1>10. Formed(m)
  <2>1. Cardinality(m.listed) <= MAX_SYMBOLS
    BY <1>2, <1>9, PayoutsAssumption
  <2>2. DOMAIN m.orders = {}
    BY <1>2
  <2>3. m.orders \in [DOMAIN m.orders -> Record]
    BY <1>2, <2>2
  <2> QED BY <1>2, <1>3, <1>4, <1>5, <1>6, <1>9, <2>1, <2>2, <2>3 DEF Formed
<1>11. Covered(m)
  BY <1>2, <1>3, <1>5, <1>6, <1>7, <1>8, PursesAre DEF Covered
<1>12. Logged(m)
  BY <1>2 DEF Logged
<1>13. Listable(m, Floated)
  <2>1. \A sym \in Tickers : BookOf(m, sym) = {}
    BY <1>2 DEF BookOf
  <2>2. \A sym \in Tickers : sym # Floated => ListingOK(m, sym)
    BY <1>2, <1>4, <1>5, <2>1 DEF ListingOK
  <2> QED BY <1>2, <1>9, <1>10, <1>11, <1>12, <2>1, <2>2, PayoutsAssumption
         DEF Listable, IsListed
<1> QED BY <1>1, <1>13, ListKeeps, PayoutsAssumption DEF PInv

\* The invariant is inductive, and every step pays holders alike.
LEMMA NextKeeps ==
  ASSUME PInv, Next
  PROVE  PInv' /\ Alike(market, market')
<1>1. InOrder(market') /\ Alike(market, market')
  BY PlaceOrderKeeps, CancelOrderKeeps, StepKeeps, ListSymbolKeeps, DividendKeeps,
     DelistAtPriceKeeps, DelistAtLastKeeps, SweepKeeps, TransferKeeps, FreezeAccountKeeps,
     UnfreezeAccountKeeps, CloseAccountKeeps DEF Next
<1>2. UNCHANGED flow
  BY DEF Next, End, PlaceOrder, CancelOrder, Step, ListSymbol, Dividend, DelistAtPrice,
         DelistAtLast, Sweep, Transfer, FreezeAccount, UnfreezeAccount, CloseAccount
<1> QED BY <1>1, <1>2 DEF PInv

\* The invariant carries from a step to the next.
LEMMA StepInv ==
  ASSUME PInv, [Next]_vars
  PROVE  PInv'
<1>1. CASE Next
  BY <1>1, NextKeeps
<1>2. CASE UNCHANGED vars
  BY <1>2 DEF PInv, vars
<1> QED BY <1>1, <1>2

\* A market in order keeps what the runs check.
LEMMA InvImplies ==
  ASSUME PInv
  PROVE  TypeOK /\ PromisesFollowListings
<1>1. Formed(market) /\ Covered(market) /\ Logged(market)
      /\ \A sym \in Tickers : ListingOK(market, sym)
  BY DEF PInv, InOrder
<1>2. TypeOK
  <2>1. \A sym \in Tickers :
          /\ market.symbols[sym].price \in 1 .. MaxPrice
          /\ market.symbols[sym].delisted => BookOf(market, sym) = {} /\ IsListed(market, sym)
    BY <1>1 DEF Formed, Symbol, ListingOK
  <2>2. \A t \in Traders, sym \in Tickers :
          market.held[t][sym] \in Nat /\ market.reserved_shares[t][sym] \in Nat
    BY <1>1 DEF Formed
  <2> QED BY <1>1, <2>1, <2>2 DEF TypeOK, Formed, Wallet
<1>3. PromisesMatchBooks
  BY <1>1 DEF PromisesMatchBooks, Covered, ListingOK
<1>4. LogNamesTheBooks
  BY <1>1 DEF LogNamesTheBooks, Logged
<1> QED BY <1>2, <1>3, <1>4 DEF PromisesFollowListings

-----------------------------------------------------------------------------
(* The theorems *)

\* Through any jobs of the market actor, in any order: the market stays well
\* formed, what it holds back is what rests on its books, its log names each
\* order for good, and nothing is left in a symbol that is gone.
THEOREM PayoutsInvariant == Spec => []PInv
<1>1. Init => PInv
  BY InitInv
<1>2. PInv /\ [Next]_vars => PInv'
  BY StepInv
<1> QED BY <1>1, <1>2, PTL DEF Spec

\* Types, in every state, and a symbol wound up is still listed and has
\* nothing on its book.
THEOREM PayoutsTypes == Spec => []TypeOK
<1>1. PInv => TypeOK
  BY InvImplies
<1> QED BY <1>1, PayoutsInvariant, PTL

\* Market::wind_up, release and the order log: cash and shares are held back
\* for exactly the orders that rest, and no promise, order or share outlives
\* its listing, however symbols come, go and come back.
THEOREM PromisesAlwaysFollow == Spec => []PromisesFollowListings
<1>1. PInv => PromisesFollowListings
  BY InvImplies
<1> QED BY <1>1, PayoutsInvariant, PTL

\* PayoutError, "nothing is paid to some holders and not others": whatever
\* the holders, the holdings, the frozen accounts and the price, a payout and
\* a delisting pay every share alike in one step, or nobody.
THEOREM HoldersAlwaysPaidAlike == Spec => HoldersPaidAlike
<1> DEFINE Paid(sym) == market'.wallets[sym].balance < market.wallets[sym].balance
                        /\ market'.wallets["Treasury"] = market.wallets["Treasury"]
           Left(sym) == IsListed(market, sym) /\ ~IsListed(market', sym)
           Fair == \A sym \in Tickers :
                     Paid(sym) \/ Left(sym) =>
                       \E cents \in 0 .. MaxPrice : PaidPerShare(sym, cents)
<1>1. PInv /\ [Next]_vars => [Fair]_vars
  <2> SUFFICES ASSUME PInv, Next PROVE Fair
    OBVIOUS
  <2>1. Alike(market, market')
    BY NextKeeps
  <2> QED BY <2>1 DEF Alike, PaidOut, PaidPerShare
<1>2. Spec => [][Fair]_vars
  BY <1>1, PayoutsInvariant, PTL DEF Spec
<1> QED BY <1>2 DEF HoldersPaidAlike
=============================================================================
