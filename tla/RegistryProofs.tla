---------------------------- MODULE RegistryProofs ----------------------------
(***************************************************************************)
(* Theorems of Registry.tla: the directories agree and nothing a client    *)
(* was told of anybody is taken back, currency is accounted for to the     *)
(* cent, a source is not paid twice within the length of the log, and a    *)
(* replay builds the world that is served but for what two refusals leave  *)
(* behind, for any amounts, any limits and any sequence of commands.       *)
(*                                                                         *)
(* A world is in order (WorldOK) when its counters, keys, accounts,        *)
(* traders, players, wallets and sources are.  Each way a command changes  *)
(* a world has a lemma of its own (a user inserted, a wallet opened, money *)
(* moved, a receipt recorded); each command is a few of these; and each    *)
(* action applies a command, to the world and to the disk.                 *)
(***************************************************************************)
EXTENDS Registry, Sums

-----------------------------------------------------------------------------
(* A world in order *)

Fields ==
  {"next_user", "next_account", "next_trader", "next_service", "next_wallet", "users", "keys",
   "accounts", "traders", "players", "services", "wallets", "budgets", "rules", "paid"}

\* Ids count from one and none is left out.
CountersOK(w) ==
  /\ DOMAIN w = Fields
  /\ w.next_user \in Nat \ {0} /\ w.next_account \in Nat \ {0} /\ w.next_trader \in Nat \ {0}
  /\ w.next_service \in Nat \ {0} /\ w.next_wallet \in Nat \ {0, 1}
  /\ DOMAIN w.users = 1 .. w.next_user - 1
  /\ DOMAIN w.accounts = 1 .. w.next_account - 1
  /\ DOMAIN w.traders = 1 .. w.next_trader - 1
  /\ w.services \in [1 .. w.next_service - 1 -> [key : Nat, revoked : BOOLEAN]]

\* The key the next credential is given: every user has one, and every
\* service.
KeyFor(w) == w.next_user + w.next_service - 1

KeysOK(w) ==
  /\ IsFiniteSet(DOMAIN w.keys) /\ Cardinality(DOMAIN w.keys) = w.next_user - 1
  /\ DOMAIN w.keys \subseteq 1 .. KeyFor(w) - 1
  /\ \A k \in DOMAIN w.keys : w.keys[k] \in DOMAIN w.users
  /\ \A k, l \in DOMAIN w.keys : w.keys[k] = w.keys[l] => k = l
  /\ \A u \in DOMAIN w.users : \E k \in DOMAIN w.keys : w.keys[k] = u

\* An account's wallet is neither the treasury nor a budget.
AccountsOK(w) ==
  /\ \A a \in DOMAIN w.accounts :
       /\ w.accounts[a].user \in DOMAIN w.users
       /\ w.accounts[a].wallet \in DOMAIN w.wallets \ {Treasury}
       /\ w.accounts[a].wallet \notin DOMAIN w.budgets
  /\ \A u \in DOMAIN w.users :
       w.users[u] = {a \in DOMAIN w.accounts : w.accounts[a].user = u}

TradersOK(w) ==
  \A t \in DOMAIN w.traders :
    /\ w.traders[t].user \in DOMAIN w.users /\ w.traders[t].account \in DOMAIN w.accounts
    /\ w.accounts[w.traders[t].account].user = w.traders[t].user

PlayersOK(w) ==
  \A x \in DOMAIN w.players :
    /\ w.players[x].trader \in DOMAIN w.traders
    /\ w.traders[w.players[x].trader] =
         [user |-> w.players[x].user, account |-> w.players[x].account]
    /\ w.players[x].user \in DOMAIN w.users
    /\ \A y \in DOMAIN w.players : w.players[y].user = w.players[x].user => y = x

\* A budget is a wallet of its own, and every rule has one to pay from.
WalletsOK(w) ==
  /\ w.wallets \in [1 .. w.next_wallet - 1 -> Nat]
  /\ DOMAIN w.budgets \subseteq DOMAIN w.wallets \ {Treasury}
  /\ \A b \in DOMAIN w.budgets : w.budgets[b] \in Nat
  /\ \A r \in DOMAIN w.rules : w.rules[r].budget \in DOMAIN w.budgets /\ w.rules[r].cents \in Nat

PaidOK(w) == w.paid \in Seq(Sources) /\ Len(w.paid) <= REWARD_LOG

WorldOK(w) ==
  /\ CountersOK(w) /\ KeysOK(w) /\ AccountsOK(w) /\ TradersOK(w) /\ PlayersOK(w)
  /\ WalletsOK(w) /\ PaidOK(w)

\* What w said of anybody, e still says.
Kept(w, e) ==
  /\ \A k \in DOMAIN w.keys : k \in DOMAIN e.keys /\ e.keys[k] = w.keys[k]
  /\ \A a \in DOMAIN w.accounts : a \in DOMAIN e.accounts /\ e.accounts[a] = w.accounts[a]
  /\ \A t \in DOMAIN w.traders : t \in DOMAIN e.traders /\ e.traders[t] = w.traders[t]
  /\ \A x \in DOMAIN w.players : x \in DOMAIN e.players /\ e.players[x] = w.players[x]
  /\ \A s \in DOMAIN w.services :
       w.services[s].revoked => s \in DOMAIN e.services /\ e.services[s].revoked

-----------------------------------------------------------------------------
(* Money *)

Money(w) == SumFunctionOnSet(w.wallets, DOMAIN w.wallets)

\* What is in a budget's wallet and what was paid out of it.
PutIn(w) == [b \in DOMAIN w.budgets |-> w.wallets[b] + w.budgets[b]]

Budgeted(w) == SumFunctionOnSet(PutIn(w), DOMAIN w.budgets)

\* The sources remembered are the latest that clients were told of.
Latest(paid, sources) ==
  /\ Len(paid) = IF Len(sources) < REWARD_LOG THEN Len(sources) ELSE REWARD_LOG
  /\ \A i \in 1 .. Len(paid) : paid[i] = sources[Len(sources) - Len(paid) + i]

-----------------------------------------------------------------------------
(* What the theorems ask of the flows *)

\* The commands that may come before a behaviour: people arrive, with keys
\* nobody has, and nothing is minted, budgeted or paid yet.
Arriving == {"CreateUser", "OpenAccount", "SignUp", "JoinUser", "ProvisionPlayer"}

PastOK(f) ==
  /\ f.restarts \in Nat /\ f.sign_up_cash \subseteq Nat /\ f.budgets \in Nat
  /\ \E S : f.past \in Seq(S)
  /\ \A n \in 1 .. Len(f.past) :
       /\ f.past[n].kind \in Arriving /\ f.past[n].cash \in Nat
       /\ f.past[n].key = KeyFor(Replay(SubSeq(f.past, 1, n - 1)))

\* No command is refused after it has changed something: sign-ups ask for
\* nothing, and there is room for every budget.
NothingLeft(f) == f.sign_up_cash \subseteq {0} /\ f.budgets <= MAX_BUDGETS

\* Without that, a restart is another world.
Sound == \A f \in Flows : PastOK(f) /\ (f.restarts = 0 \/ NothingLeft(f))

-----------------------------------------------------------------------------
(* The inductive invariant *)

ToldOK ==
  /\ told.minted \in Int /\ told.funded \in Int /\ told.paid \in Seq(Sources)
  /\ Money(world) = GENESIS + told.minted /\ Budgeted(world) = told.funded
  /\ Latest(world.paid, told.paid) /\ SourcePaidOnce

RInv ==
  /\ flow \in Flows /\ restarts \in Nat /\ DOMAIN told = {"minted", "funded", "paid"}
  /\ NothingLeft(flow) => world = disk
  /\ WorldOK(world) /\ ToldOK
-----------------------------------------------------------------------------
(* Numbers and functions *)

\* One more id.
LEMMA OneMoreId ==
  ASSUME NEW n \in Nat \ {0}
  PROVE  /\ 1 .. (n + 1) - 1 = 1 .. n - 1 \cup {n} /\ n \notin 1 .. n - 1 /\ n + 1 \in Nat \ {0}
         /\ \A i \in 1 .. n - 1 : i # n
OBVIOUS

\* What w said is what e says, when both say the same.
LEMMA KeptIs ==
  ASSUME NEW w, NEW e, e.keys = w.keys, e.accounts = w.accounts, e.traders = w.traders,
         e.players = w.players, e.services = w.services
  PROVE  Kept(w, e)
BY DEF Kept

\* What is kept twice is kept.
LEMMA KeptTwice ==
  ASSUME NEW u, NEW v, NEW w, Kept(u, v), Kept(v, w)
  PROVE  Kept(u, w)
BY DEF Kept

\* The wallets, the budgets and the rules of e are those of w.
SameMoney(w, e) ==
  /\ e.wallets = w.wallets /\ e.next_wallet = w.next_wallet /\ e.budgets = w.budgets
  /\ e.rules = w.rules

\* Who is who is the same in both.
SameNames(w, e) ==
  /\ e.next_user = w.next_user /\ e.next_account = w.next_account
  /\ e.next_trader = w.next_trader /\ e.next_service = w.next_service /\ e.users = w.users
  /\ e.keys = w.keys /\ e.accounts = w.accounts /\ e.traders = w.traders
  /\ e.players = w.players /\ e.services = w.services

\* A world that differs in its wallets is as good if the wallets are, and
\* no wallet is taken from an account.
LEMMA NamesStay ==
  ASSUME NEW w, WorldOK(w), NEW e, DOMAIN e = Fields, SameNames(w, e), e.next_wallet \in Nat \ {0, 1},
         WalletsOK(e), PaidOK(e), DOMAIN w.wallets \subseteq DOMAIN e.wallets,
         \A a \in DOMAIN w.accounts : w.accounts[a].wallet \notin DOMAIN e.budgets
  PROVE  WorldOK(e) /\ Kept(w, e)
<1>1. CountersOK(e)
  BY DEF SameNames, WorldOK, CountersOK
<1>a. KeysOK(e)
  <2>1. KeyFor(e) = KeyFor(w)
    BY DEF KeyFor, SameNames
  <2> QED BY <2>1 DEF SameNames, WorldOK, KeysOK
<1>b. TradersOK(e) /\ PlayersOK(e)
  BY DEF SameNames, WorldOK, TradersOK, PlayersOK
<1>2. AccountsOK(e)
  BY DEF SameNames, WorldOK, AccountsOK
<1>3. Kept(w, e)
  BY KeptIs DEF SameNames
<1> QED BY <1>1, <1>a, <1>b, <1>2, <1>3 DEF WorldOK

\* The same wallets and budgets are worth as much.
LEMMA SameMoneyIs ==
  ASSUME NEW w, NEW e, SameMoney(w, e)
  PROVE  Money(e) = Money(w) /\ Budgeted(e) = Budgeted(w) /\ (WalletsOK(w) => WalletsOK(e))
BY DEF SameMoney, Money, Budgeted, PutIn, WalletsOK

-----------------------------------------------------------------------------
(* Users, accounts, traders, players and services *)

\* A user under the next id, with a key nobody has.
LEMMA UserInserted ==
  ASSUME NEW w, WorldOK(w), NEW e, e = InsertUser(w, KeyFor(w))
  PROVE  /\ WorldOK(e) /\ Kept(w, e) /\ SameMoney(w, e) /\ e.paid = w.paid
         /\ w.next_user \in DOMAIN e.users
         /\ \A x \in DOMAIN e.players : e.players[x].user # w.next_user
         /\ e.next_account = w.next_account /\ e.next_trader = w.next_trader
         /\ e.players = w.players /\ e.accounts = w.accounts
<1> DEFINE n == w.next_user
           own == KeyFor(w)
<1>1. /\ DOMAIN e = Fields /\ e.next_user = n + 1 /\ e.next_account = w.next_account
      /\ e.next_trader = w.next_trader /\ e.next_service = w.next_service
      /\ e.next_wallet = w.next_wallet /\ e.users = With(w.users, n, {})
      /\ e.keys = With(w.keys, own, n) /\ e.accounts = w.accounts /\ e.traders = w.traders
      /\ e.players = w.players /\ e.services = w.services /\ e.wallets = w.wallets
      /\ e.budgets = w.budgets /\ e.rules = w.rules /\ e.paid = w.paid
  BY DEF WorldOK, CountersOK, InsertUser, Fields
<1>2. /\ n \in Nat \ {0} /\ w.next_service \in Nat \ {0} /\ DOMAIN w.users = 1 .. n - 1
      /\ own = n + w.next_service - 1
      /\ IsFiniteSet(DOMAIN w.keys) /\ Cardinality(DOMAIN w.keys) = n - 1
      /\ DOMAIN w.keys \subseteq 1 .. own - 1
      /\ \A l \in DOMAIN w.keys : w.keys[l] \in DOMAIN w.users
      /\ \A j, l \in DOMAIN w.keys : w.keys[j] = w.keys[l] => j = l
      /\ \A u \in DOMAIN w.users : \E l \in DOMAIN w.keys : w.keys[l] = u
      /\ \A t \in DOMAIN w.traders : w.traders[t].user \in DOMAIN w.users
      /\ \A a \in DOMAIN w.accounts : w.accounts[a].user \in DOMAIN w.users
      /\ \A x \in DOMAIN w.players : w.players[x].user \in DOMAIN w.users
  BY DEF WorldOK, CountersOK, KeysOK, KeyFor, AccountsOK, TradersOK, PlayersOK
<1>3. KeyFor(e) = own + 1
  BY <1>1, <1>2 DEF KeyFor
<1> HIDE DEF n, own
<1>4. /\ DOMAIN e.users = DOMAIN w.users \cup {n} /\ n \notin DOMAIN w.users /\ e.users[n] = {}
      /\ \A u \in DOMAIN w.users : e.users[u] = w.users[u]
      /\ DOMAIN e.users = 1 .. e.next_user - 1 /\ e.next_user \in Nat \ {0}
  <2>1. /\ 1 .. (n + 1) - 1 = 1 .. n - 1 \cup {n} /\ n \notin 1 .. n - 1
        /\ n + 1 \in Nat \ {0}
    BY <1>2, OneMoreId
  <2>2. /\ DOMAIN e.users = DOMAIN w.users \cup {n} /\ e.users[n] = {}
        /\ \A u \in DOMAIN w.users : u # n => e.users[u] = w.users[u]
    BY <1>1 DEF With
  <2> QED BY <1>1, <1>2, <2>1, <2>2
<1>5. /\ DOMAIN e.keys = DOMAIN w.keys \cup {own} /\ own \notin DOMAIN w.keys /\ e.keys[own] = n
      /\ \A l \in DOMAIN w.keys : e.keys[l] = w.keys[l]
  <2>1. own \notin 1 .. own - 1
    BY <1>2
  <2>2. /\ DOMAIN e.keys = DOMAIN w.keys \cup {own} /\ e.keys[own] = n
        /\ \A l \in DOMAIN w.keys : l # own => e.keys[l] = w.keys[l]
    BY <1>1 DEF With
  <2> QED BY <1>2, <2>1, <2>2
<1>6. CountersOK(e)
  BY <1>1, <1>4 DEF WorldOK, CountersOK
<1>7. KeysOK(e)
  <2>1. IsFiniteSet(DOMAIN e.keys) /\ Cardinality(DOMAIN e.keys) = e.next_user - 1
    <3> DEFINE ks == DOMAIN w.keys
    <3>a. IsFiniteSet(ks) /\ own \notin ks
      BY <1>2, <1>5
    <3> HIDE DEF ks
    <3>b. IsFiniteSet(ks \cup {own}) /\ Cardinality(ks \cup {own}) = Cardinality(ks) + 1
      BY <3>a, FS_AddElement
    <3>1. IsFiniteSet(DOMAIN w.keys \cup {own})
          /\ Cardinality(DOMAIN w.keys \cup {own}) = Cardinality(DOMAIN w.keys) + 1
      BY <3>b DEF ks
    <3>2. n - 1 + 1 = n + 1 - 1
      BY <1>2
    <3> QED BY <1>1, <1>2, <1>5, <3>1, <3>2
  <2>2. DOMAIN e.keys \subseteq 1 .. KeyFor(e) - 1
    <3>1. own \in Nat /\ own >= 1
      BY <1>2
    <3>2. 1 .. own - 1 \cup {own} \subseteq 1 .. (own + 1) - 1
      BY <3>1
    <3> QED BY <1>2, <1>3, <1>5, <3>2
  <2>3. \A l \in DOMAIN e.keys : e.keys[l] \in DOMAIN e.users
    BY <1>2, <1>4, <1>5
  <2>4. \A j, l \in DOMAIN e.keys : e.keys[j] = e.keys[l] => j = l
    BY <1>2, <1>4, <1>5
  <2>5. \A u \in DOMAIN e.users : \E l \in DOMAIN e.keys : e.keys[l] = u
    BY <1>2, <1>4, <1>5
  <2> QED BY <2>1, <2>2, <2>3, <2>4, <2>5 DEF KeysOK
<1>8. AccountsOK(e)
  <2>1. \A a \in DOMAIN e.accounts :
          /\ e.accounts[a].user \in DOMAIN e.users
          /\ e.accounts[a].wallet \in DOMAIN e.wallets \ {Treasury}
          /\ e.accounts[a].wallet \notin DOMAIN e.budgets
    BY <1>1, <1>4 DEF WorldOK, AccountsOK
  <2>2. \A u \in DOMAIN w.users :
          e.users[u] = {a \in DOMAIN e.accounts : e.accounts[a].user = u}
    BY <1>1, <1>4 DEF WorldOK, AccountsOK
  <2>3. e.users[n] = {a \in DOMAIN e.accounts : e.accounts[a].user = n}
    <3>1. \A a \in DOMAIN e.accounts : e.accounts[a].user \in DOMAIN w.users
      BY <1>1, <1>2
    <3>2. \A a \in DOMAIN e.accounts : e.accounts[a].user # n
      BY <1>4, <3>1
    <3> QED BY <1>4, <3>2
  <2> QED BY <1>4, <2>1, <2>2, <2>3 DEF AccountsOK
<1>9. TradersOK(e) /\ PlayersOK(e)
  BY <1>1, <1>4 DEF WorldOK, TradersOK, PlayersOK
<1>10. SameMoney(w, e) /\ WalletsOK(e) /\ PaidOK(e)
  <2>1. SameMoney(w, e)
    BY <1>1 DEF SameMoney
  <2> QED BY <1>1, <2>1, SameMoneyIs DEF WorldOK, PaidOK
<1>11. Kept(w, e)
  BY <1>1, <1>5 DEF Kept
<1>12. \A x \in DOMAIN e.players : e.players[x].user # n
  BY <1>1, <1>2, <1>4
<1> QED BY <1>1, <1>4, <1>6, <1>7, <1>8, <1>9, <1>10, <1>11, <1>12 DEF WorldOK, n

\* A sum over one element more.
LEMMA SumMore ==
  ASSUME NEW S, IsFiniteSet(S), NEW x, x \notin S, NEW f, NEW g,
         \A y \in S : f[y] \in Int /\ g[y] = f[y], g[x] \in Int
  PROVE  SumFunctionOnSet(g, S \cup {x}) = SumFunctionOnSet(f, S) + g[x]
<1>1. IsFiniteSet(S \cup {x}) /\ (S \cup {x}) \ {x} = S
  BY FS_AddElement
<1>2. SumFunctionOnSet(g, S \cup {x}) = g[x] + SumFunctionOnSet(g, S)
  <2> DEFINE T == S \cup {x}
  <2>1. IsFiniteSet(T) /\ x \in T /\ (\A y \in T : g[y] \in Int) /\ T \ {x} = S
    BY <1>1
  <2> HIDE DEF T
  <2>2. SumFunctionOnSet(g, T) = g[x] + SumFunctionOnSet(g, T \ {x})
    BY <2>1, SumRemove
  <2> QED BY <2>1, <2>2 DEF T
<1>3. SumFunctionOnSet(g, S) = SumFunctionOnSet(f, S)
  BY SumSame
<1>4. SumFunctionOnSet(f, S) \in Int
  BY SumByChosen
<1> QED BY <1>1, <1>2, <1>3, <1>4

\* What the types say of a world's money.
LEMMA MoneyIs ==
  ASSUME NEW w, WorldOK(w)
  PROVE  /\ DOMAIN w.wallets = 1 .. w.next_wallet - 1 /\ w.next_wallet \in Nat \ {0, 1}
         /\ IsFiniteSet(DOMAIN w.wallets) /\ \A x \in DOMAIN w.wallets : w.wallets[x] \in Nat
         /\ Treasury \in DOMAIN w.wallets /\ w.next_wallet \notin DOMAIN w.wallets
         /\ IsFiniteSet(DOMAIN w.budgets) /\ DOMAIN w.budgets \subseteq DOMAIN w.wallets
         /\ Treasury \notin DOMAIN w.budgets
         /\ \A b \in DOMAIN w.budgets : w.budgets[b] \in Nat
         /\ DOMAIN PutIn(w) = DOMAIN w.budgets
         /\ \A b \in DOMAIN w.budgets :
              PutIn(w)[b] = w.wallets[b] + w.budgets[b] /\ PutIn(w)[b] \in Int
         /\ Money(w) \in Int /\ Budgeted(w) \in Int
<1>1. /\ DOMAIN w.wallets = 1 .. w.next_wallet - 1 /\ w.next_wallet \in Nat \ {0, 1}
      /\ \A x \in DOMAIN w.wallets : w.wallets[x] \in Nat
      /\ DOMAIN w.budgets \subseteq DOMAIN w.wallets \ {Treasury}
      /\ \A b \in DOMAIN w.budgets : w.budgets[b] \in Nat
  BY DEF WorldOK, CountersOK, WalletsOK
<1>2. IsFiniteSet(DOMAIN w.wallets) /\ IsFiniteSet(DOMAIN w.budgets)
  <2>1. IsFiniteSet(1 .. w.next_wallet - 1)
    BY <1>1, FS_Interval
  <2> QED BY <1>1, <2>1, FS_Subset
<1>3. Treasury \in DOMAIN w.wallets /\ w.next_wallet \notin DOMAIN w.wallets
  BY <1>1 DEF Treasury
<1>4. /\ DOMAIN PutIn(w) = DOMAIN w.budgets
      /\ \A b \in DOMAIN w.budgets : PutIn(w)[b] = w.wallets[b] + w.budgets[b]
  BY DEF PutIn
<1>5. \A b \in DOMAIN w.budgets : PutIn(w)[b] \in Int
  BY <1>1, <1>4
<1>6. \A x \in DOMAIN w.wallets : w.wallets[x] \in Int
  BY <1>1
<1>7. Money(w) \in Int
  BY <1>2, <1>6, SumByChosen DEF Money
<1>8. Budgeted(w) \in Int
  BY <1>2, <1>5, SumByChosen DEF Budgeted
<1> QED BY <1>1, <1>2, <1>3, <1>4, <1>5, <1>7, <1>8

\* An empty wallet under the next id.
LEMMA WalletOpened ==
  ASSUME NEW w, WorldOK(w), NEW e, e = OpenWallet(w, 0)
  PROVE  /\ WorldOK(e) /\ Kept(w, e) /\ SameNames(w, e) /\ e.paid = w.paid
         /\ e.budgets = w.budgets /\ e.rules = w.rules
         /\ e.next_wallet = w.next_wallet + 1
         /\ w.next_wallet \in DOMAIN e.wallets /\ w.next_wallet \notin DOMAIN w.budgets
         /\ w.next_wallet # Treasury /\ e.wallets[w.next_wallet] = 0
         /\ \A x \in DOMAIN w.wallets : x \in DOMAIN e.wallets /\ e.wallets[x] = w.wallets[x]
         /\ \A a \in DOMAIN w.accounts : w.accounts[a].wallet # w.next_wallet
         /\ Money(e) = Money(w) /\ Budgeted(e) = Budgeted(w)
<1> DEFINE n == w.next_wallet
<1>1. /\ DOMAIN e = Fields /\ SameNames(w, e) /\ e.paid = w.paid /\ e.budgets = w.budgets
      /\ e.rules = w.rules /\ e.next_wallet = n + 1 /\ e.wallets = With(w.wallets, n, 0)
  BY DEF WorldOK, CountersOK, OpenWallet, Fields, SameNames
<1>2. /\ n \in Nat \ {0, 1} /\ DOMAIN w.wallets = 1 .. n - 1 /\ n \notin DOMAIN w.wallets
      /\ IsFiniteSet(DOMAIN w.wallets) /\ IsFiniteSet(DOMAIN w.budgets)
      /\ \A x \in DOMAIN w.wallets : w.wallets[x] \in Nat
      /\ DOMAIN w.budgets \subseteq DOMAIN w.wallets
  BY MoneyIs
<1> HIDE DEF n
<1>3. /\ DOMAIN e.wallets = DOMAIN w.wallets \cup {n} /\ e.wallets[n] = 0
      /\ \A x \in DOMAIN w.wallets : e.wallets[x] = w.wallets[x]
  BY <1>1, <1>2 DEF With
<1>4. DOMAIN e.wallets = 1 .. e.next_wallet - 1 /\ e.next_wallet \in Nat \ {0, 1}
  <2>1. 1 .. e.next_wallet - 1 = 1 .. n - 1 \cup {n} /\ n + 1 \in Nat \ {0, 1}
    BY <1>1, <1>2
  <2> QED BY <1>1, <1>2, <1>3, <2>1
<1>5. e.wallets \in [1 .. e.next_wallet - 1 -> Nat]
  <2>1. e.wallets = [x \in 1 .. e.next_wallet - 1 |-> e.wallets[x]]
    BY <1>1, <1>4 DEF With
  <2>2. \A x \in DOMAIN e.wallets : e.wallets[x] \in Nat
    BY <1>2, <1>3
  <2> QED BY <1>4, <2>1, <2>2
<1>6. WalletsOK(e)
  BY <1>1, <1>3, <1>5 DEF WorldOK, WalletsOK
<1>7. WorldOK(e) /\ Kept(w, e)
  <2>1. \A a \in DOMAIN w.accounts : w.accounts[a].wallet \notin DOMAIN e.budgets
    BY <1>1 DEF WorldOK, AccountsOK
  <2>2. PaidOK(e)
    BY <1>1 DEF WorldOK, PaidOK
  <2> QED BY <1>1, <1>3, <1>4, <1>6, <2>1, <2>2, NamesStay
<1>8. Money(e) = Money(w)
  <2> DEFINE S == DOMAIN w.wallets
             f == w.wallets
             g == e.wallets
  <2>1. /\ IsFiniteSet(S) /\ n \notin S /\ g[n] \in Int /\ g[n] = 0
        /\ \A y \in S : f[y] \in Int /\ g[y] = f[y]
    BY <1>2, <1>3
  <2>2. DOMAIN g = S \cup {n}
    BY <1>3
  <2>3. Money(w) = SumFunctionOnSet(f, S) /\ Money(e) = SumFunctionOnSet(g, S \cup {n})
    BY <2>2 DEF Money
  <2> HIDE DEF S, f, g
  <2>4. SumFunctionOnSet(g, S \cup {n}) = SumFunctionOnSet(f, S) + g[n]
    BY <2>1, SumMore
  <2>5. Money(w) \in Int
    BY MoneyIs
  <2> QED BY <2>1, <2>3, <2>4, <2>5
<1>9. Budgeted(e) = Budgeted(w)
  <2>1. PutIn(e) = PutIn(w)
    <3>1. \A b \in DOMAIN w.budgets : e.wallets[b] = w.wallets[b]
      BY <1>2, <1>3
    <3> QED BY <1>1, <3>1 DEF PutIn
  <2> QED BY <1>1, <2>1 DEF Budgeted
<1>10. \A a \in DOMAIN w.accounts : w.accounts[a].wallet # n
  BY <1>2 DEF WorldOK, AccountsOK
<1> QED BY <1>1, <1>2, <1>3, <1>7, <1>8, <1>9, <1>10 DEF n, Treasury

\* An account under the next id, with a wallet of its own.
LEMMA AccountInserted ==
  ASSUME NEW w, WorldOK(w), NEW user \in DOMAIN w.users, NEW e, e = InsertAccount(w, user)
  PROVE  /\ WorldOK(e) /\ Kept(w, e) /\ e.paid = w.paid
         /\ Money(e) = Money(w) /\ Budgeted(e) = Budgeted(w)
         /\ e.players = w.players /\ e.budgets = w.budgets /\ e.next_trader = w.next_trader
         /\ DOMAIN e.users = DOMAIN w.users
         /\ \A x \in DOMAIN w.wallets : x \in DOMAIN e.wallets /\ e.wallets[x] = w.wallets[x]
         /\ w.next_account \in DOMAIN e.accounts /\ e.accounts[w.next_account].user = user
         /\ e.accounts[w.next_account].wallet \in DOMAIN e.wallets \ {Treasury}
<1> DEFINE o == OpenWallet(w, 0)
           n == w.next_account
           new == [user |-> user, wallet |-> w.next_wallet]
<1>1. /\ WorldOK(o) /\ Kept(w, o) /\ SameNames(w, o) /\ o.paid = w.paid
      /\ o.budgets = w.budgets /\ o.rules = w.rules
      /\ w.next_wallet \in DOMAIN o.wallets /\ w.next_wallet \notin DOMAIN w.budgets
      /\ w.next_wallet # Treasury /\ o.wallets[w.next_wallet] = 0
      /\ \A x \in DOMAIN w.wallets : x \in DOMAIN o.wallets /\ o.wallets[x] = w.wallets[x]
      /\ Money(o) = Money(w) /\ Budgeted(o) = Budgeted(w)
  BY WalletOpened
<1>2. e = [o EXCEPT !.accounts = With(@, n, new), !.users[user] = @ \cup {n}, !.next_account = @ + 1]
  BY DEF InsertAccount
<1>3. DOMAIN o = Fields
  BY <1>1 DEF WorldOK, CountersOK
<1>4. new.user = user /\ new.wallet = w.next_wallet
  OBVIOUS
<1> HIDE DEF o, new
<1>5. /\ DOMAIN e = Fields /\ e.next_user = w.next_user /\ e.next_account = n + 1
      /\ e.next_trader = w.next_trader /\ e.next_service = w.next_service
      /\ e.users = [w.users EXCEPT ![user] = @ \cup {n}] /\ e.keys = w.keys
      /\ e.accounts = With(w.accounts, n, new) /\ e.traders = w.traders
      /\ e.players = w.players /\ e.services = w.services /\ e.paid = w.paid
      /\ SameMoney(o, e)
  BY <1>1, <1>2, <1>3 DEF Fields, SameNames, SameMoney
<1>6. /\ n \in Nat \ {0} /\ DOMAIN w.accounts = 1 .. n - 1
      /\ \A u \in DOMAIN w.users :
           w.users[u] = {a \in DOMAIN w.accounts : w.accounts[a].user = u}
      /\ \A a \in DOMAIN w.accounts :
           /\ w.accounts[a].user \in DOMAIN w.users
           /\ w.accounts[a].wallet \in DOMAIN w.wallets \ {Treasury}
           /\ w.accounts[a].wallet \notin DOMAIN w.budgets
  BY DEF WorldOK, CountersOK, AccountsOK
<1> HIDE DEF n
<1>7. /\ DOMAIN e.accounts = DOMAIN w.accounts \cup {n} /\ e.accounts[n] = new
      /\ n \notin DOMAIN w.accounts
      /\ \A a \in DOMAIN w.accounts : e.accounts[a] = w.accounts[a]
      /\ DOMAIN e.accounts = 1 .. e.next_account - 1 /\ e.next_account \in Nat \ {0}
  <2>1. n \notin DOMAIN w.accounts
    BY <1>6
  <2>2. /\ DOMAIN e.accounts = DOMAIN w.accounts \cup {n} /\ e.accounts[n] = new
        /\ \A a \in DOMAIN w.accounts : e.accounts[a] = w.accounts[a]
    BY <1>5, <2>1 DEF With
  <2>3. 1 .. e.next_account - 1 = 1 .. n - 1 \cup {n} /\ n + 1 \in Nat \ {0}
    BY <1>5, <1>6
  <2> QED BY <1>5, <1>6, <2>1, <2>2, <2>3
<1>8. /\ DOMAIN e.users = DOMAIN w.users /\ e.users[user] = w.users[user] \cup {n}
      /\ \A u \in DOMAIN w.users : u # user => e.users[u] = w.users[u]
  BY <1>5
<1>9. CountersOK(e)
  BY <1>5, <1>7, <1>8, <1>1 DEF WorldOK, CountersOK, SameNames, SameMoney
<1>10. KeysOK(e)
  <2>1. KeyFor(e) = KeyFor(w)
    BY <1>5 DEF KeyFor
  <2> QED BY <1>5, <1>8, <2>1 DEF WorldOK, KeysOK
<1>11. AccountsOK(e)
  <2>1. \A a \in DOMAIN e.accounts :
          /\ e.accounts[a].user \in DOMAIN e.users
          /\ e.accounts[a].wallet \in DOMAIN e.wallets \ {Treasury}
          /\ e.accounts[a].wallet \notin DOMAIN e.budgets
    BY <1>1, <1>4, <1>5, <1>6, <1>7, <1>8 DEF SameMoney
  <2>2. ASSUME NEW u \in DOMAIN w.users
        PROVE  e.users[u] = {a \in DOMAIN e.accounts : e.accounts[a].user = u}
    <3>1. w.users[u] = {a \in DOMAIN w.accounts : w.accounts[a].user = u}
      BY <1>6
    <3>2. CASE u = user
      <4>1. {a \in DOMAIN e.accounts : e.accounts[a].user = u}
              = {a \in DOMAIN w.accounts : w.accounts[a].user = u} \cup {n}
        BY <1>4, <1>7, <3>2
      <4> QED BY <1>8, <3>1, <3>2, <4>1
    <3>3. CASE u # user
      <4>1. {a \in DOMAIN e.accounts : e.accounts[a].user = u}
              = {a \in DOMAIN w.accounts : w.accounts[a].user = u}
        BY <1>4, <1>7, <3>3
      <4> QED BY <1>8, <3>1, <3>3, <4>1
    <3> QED BY <3>2, <3>3
  <2> QED BY <1>8, <2>1, <2>2 DEF AccountsOK
<1>12. TradersOK(e) /\ PlayersOK(e)
  BY <1>5, <1>7, <1>8 DEF WorldOK, TradersOK, PlayersOK
<1>13. WalletsOK(e) /\ PaidOK(e) /\ Money(e) = Money(w) /\ Budgeted(e) = Budgeted(w)
  BY <1>1, <1>5, SameMoneyIs DEF WorldOK, PaidOK
<1>14. Kept(w, e)
  BY <1>5, <1>7 DEF Kept
<1>15. /\ WorldOK(e) /\ e.budgets = w.budgets
       /\ \A x \in DOMAIN w.wallets : x \in DOMAIN e.wallets /\ e.wallets[x] = w.wallets[x]
  BY <1>1, <1>5, <1>9, <1>10, <1>11, <1>12, <1>13 DEF WorldOK, SameMoney
<1>16. e.accounts[n].user = user /\ e.accounts[n].wallet \in DOMAIN e.wallets \ {Treasury}
  BY <1>1, <1>4, <1>5, <1>7 DEF SameMoney
<1> QED BY <1>5, <1>7, <1>8, <1>13, <1>14, <1>15, <1>16 DEF n

\* A trader under the next id, on an account of its user's.
LEMMA TraderInserted ==
  ASSUME NEW w, WorldOK(w), NEW account \in DOMAIN w.accounts, NEW user,
         w.accounts[account].user = user, NEW e, e = InsertTrader(w, user, account)
  PROVE  /\ WorldOK(e) /\ Kept(w, e) /\ e.paid = w.paid /\ SameMoney(w, e)
         /\ e.players = w.players /\ e.users = w.users
         /\ w.next_trader \in DOMAIN e.traders
         /\ e.traders[w.next_trader] = [user |-> user, account |-> account]
<1> DEFINE n == w.next_trader
           new == [user |-> user, account |-> account]
<1>1. /\ DOMAIN e = Fields /\ e.next_user = w.next_user /\ e.next_account = w.next_account
      /\ e.next_trader = n + 1 /\ e.next_service = w.next_service /\ e.users = w.users
      /\ e.keys = w.keys /\ e.accounts = w.accounts /\ e.traders = With(w.traders, n, new)
      /\ e.players = w.players /\ e.services = w.services /\ e.paid = w.paid
      /\ SameMoney(w, e)
  BY DEF WorldOK, CountersOK, InsertTrader, Fields, SameMoney
<1>2. n \in Nat \ {0} /\ DOMAIN w.traders = 1 .. n - 1 /\ user \in DOMAIN w.users
  BY DEF WorldOK, CountersOK, AccountsOK
<1>3. new.user = user /\ new.account = account
  OBVIOUS
<1> HIDE DEF n, new
<1>4. /\ DOMAIN e.traders = DOMAIN w.traders \cup {n} /\ e.traders[n] = new
      /\ \A t \in DOMAIN w.traders : e.traders[t] = w.traders[t]
      /\ DOMAIN e.traders = 1 .. e.next_trader - 1 /\ e.next_trader \in Nat \ {0}
  <2>1. n \notin DOMAIN w.traders
    BY <1>2
  <2>2. /\ DOMAIN e.traders = DOMAIN w.traders \cup {n} /\ e.traders[n] = new
        /\ \A t \in DOMAIN w.traders : e.traders[t] = w.traders[t]
    BY <1>1, <2>1 DEF With
  <2>3. 1 .. e.next_trader - 1 = 1 .. n - 1 \cup {n} /\ n + 1 \in Nat \ {0}
    BY <1>1, <1>2
  <2> QED BY <1>1, <1>2, <2>2, <2>3
<1>5. CountersOK(e)
  BY <1>1, <1>4 DEF WorldOK, CountersOK, SameMoney
<1>6. KeysOK(e)
  <2>1. KeyFor(e) = KeyFor(w)
    BY <1>1 DEF KeyFor
  <2> QED BY <1>1, <2>1 DEF WorldOK, KeysOK
<1>7. AccountsOK(e)
  BY <1>1 DEF WorldOK, AccountsOK, SameMoney
<1>8. TradersOK(e)
  BY <1>1, <1>2, <1>3, <1>4 DEF WorldOK, TradersOK
<1>9. PlayersOK(e)
  BY <1>1, <1>4 DEF WorldOK, PlayersOK
<1>10. WalletsOK(e) /\ PaidOK(e)
  BY <1>1, SameMoneyIs DEF WorldOK, PaidOK
<1>11. Kept(w, e)
  BY <1>1, <1>4 DEF Kept
<1> QED BY <1>1, <1>4, <1>5, <1>6, <1>7, <1>8, <1>9, <1>10, <1>11 DEF WorldOK, n, new

\* An external id bound to a trader whose user is no player's.
LEMMA PlayerBound ==
  ASSUME NEW w, WorldOK(w), NEW id, id \notin DOMAIN w.players, NEW user \in DOMAIN w.users,
         NEW account, NEW trader \in DOMAIN w.traders,
         w.traders[trader] = [user |-> user, account |-> account],
         \A x \in DOMAIN w.players : w.players[x].user # user,
         NEW e, e = [w EXCEPT !.players = With(@, id,
                       [user |-> user, account |-> account, trader |-> trader])]
  PROVE  WorldOK(e) /\ Kept(w, e) /\ e.paid = w.paid /\ SameMoney(w, e)
<1> DEFINE new == [user |-> user, account |-> account, trader |-> trader]
<1>1. /\ DOMAIN e = Fields /\ e.next_user = w.next_user /\ e.next_account = w.next_account
      /\ e.next_trader = w.next_trader /\ e.next_service = w.next_service /\ e.users = w.users
      /\ e.keys = w.keys /\ e.accounts = w.accounts /\ e.traders = w.traders
      /\ e.players = With(w.players, id, new) /\ e.services = w.services /\ e.paid = w.paid
      /\ SameMoney(w, e)
  BY DEF WorldOK, CountersOK, Fields, SameMoney
<1>2. new.user = user /\ new.account = account /\ new.trader = trader
  OBVIOUS
<1> HIDE DEF new
<1>3. /\ DOMAIN e.players = DOMAIN w.players \cup {id} /\ e.players[id] = new
      /\ \A x \in DOMAIN w.players : x # id /\ e.players[x] = w.players[x]
  BY <1>1 DEF With
<1>4. PlayersOK(e)
  <2> SUFFICES ASSUME NEW x \in DOMAIN e.players
               PROVE  /\ e.players[x].trader \in DOMAIN e.traders
                      /\ e.traders[e.players[x].trader] =
                           [user |-> e.players[x].user, account |-> e.players[x].account]
                      /\ e.players[x].user \in DOMAIN e.users
                      /\ \A y \in DOMAIN e.players : e.players[y].user = e.players[x].user => y = x
    BY DEF PlayersOK
  <2>1. CASE x = id
    BY <1>1, <1>2, <1>3, <2>1
  <2>2. CASE x \in DOMAIN w.players
    <3>1. /\ w.players[x].trader \in DOMAIN w.traders
          /\ w.traders[w.players[x].trader] =
               [user |-> w.players[x].user, account |-> w.players[x].account]
          /\ w.players[x].user \in DOMAIN w.users
          /\ \A y \in DOMAIN w.players : w.players[y].user = w.players[x].user => y = x
      BY <2>2 DEF WorldOK, PlayersOK
    <3>2. e.players[x] = w.players[x] /\ w.players[x].user # user
      BY <1>3, <2>2
    <3> QED BY <1>1, <1>2, <1>3, <3>1, <3>2
  <2> QED BY <1>3, <2>1, <2>2
<1>5. CountersOK(e)
  BY <1>1 DEF WorldOK, CountersOK, SameMoney
<1>9. AccountsOK(e) /\ TradersOK(e)
  BY <1>1 DEF WorldOK, AccountsOK, TradersOK, SameMoney
<1>6. KeysOK(e)
  <2>1. KeyFor(e) = KeyFor(w)
    BY <1>1 DEF KeyFor
  <2> QED BY <1>1, <2>1 DEF WorldOK, KeysOK
<1>7. WalletsOK(e) /\ PaidOK(e)
  BY <1>1, SameMoneyIs DEF WorldOK, PaidOK
<1>8. Kept(w, e)
  BY <1>1, <1>3 DEF Kept
<1> QED BY <1>1, <1>4, <1>5, <1>6, <1>7, <1>8, <1>9 DEF WorldOK

\* The services under ids below n.
ServicesType(n) == [1 .. n - 1 -> [key : Nat, revoked : BOOLEAN]]

\* Services may come and be revoked, and nothing else changes.
LEMMA ServicesChange ==
  ASSUME NEW w, WorldOK(w), NEW n \in Nat \ {0}, n >= w.next_service,
         NEW services \in ServicesType(n),
         \A s \in DOMAIN w.services :
            w.services[s].revoked => s \in DOMAIN services /\ services[s].revoked,
         NEW e, e = [w EXCEPT !.services = services, !.next_service = n]
  PROVE  WorldOK(e) /\ Kept(w, e) /\ e.paid = w.paid /\ SameMoney(w, e)
<1>1. /\ DOMAIN e = Fields /\ e.next_user = w.next_user /\ e.next_account = w.next_account
      /\ e.next_trader = w.next_trader /\ e.next_service = n /\ e.users = w.users
      /\ e.keys = w.keys /\ e.accounts = w.accounts /\ e.traders = w.traders
      /\ e.players = w.players /\ e.services = services /\ e.paid = w.paid
      /\ SameMoney(w, e)
  BY DEF WorldOK, CountersOK, Fields, SameMoney
<1>2. CountersOK(e)
  BY <1>1 DEF WorldOK, CountersOK, SameMoney, ServicesType
<1>3. KeysOK(e)
  <2>0. w.next_user \in Nat /\ w.next_service \in Nat /\ e.next_user = w.next_user
        /\ e.next_service = n
    BY <1>1 DEF WorldOK, CountersOK
  <2>1. KeyFor(w) \in Int /\ KeyFor(e) \in Int /\ KeyFor(w) <= KeyFor(e)
    BY <2>0 DEF KeyFor
  <2>2. 1 .. KeyFor(w) - 1 \subseteq 1 .. KeyFor(e) - 1
    BY <2>1
  <2> QED BY <1>1, <2>2 DEF WorldOK, KeysOK
<1>4. AccountsOK(e) /\ TradersOK(e)
  BY <1>1 DEF WorldOK, AccountsOK, TradersOK, SameMoney
<1>5. PlayersOK(e)
  BY <1>1 DEF WorldOK, PlayersOK
<1>6. WalletsOK(e) /\ PaidOK(e)
  BY <1>1, SameMoneyIs DEF WorldOK, PaidOK
<1>7. Kept(w, e)
  BY <1>1 DEF Kept
<1> QED BY <1>1, <1>2, <1>3, <1>4, <1>5, <1>6, <1>7 DEF WorldOK

\* A service under the next id.
LEMMA ServiceInserted ==
  ASSUME NEW w, WorldOK(w), NEW key \in Nat,
         NEW e, e = [w EXCEPT !.services = With(@, w.next_service, [key |-> key, revoked |-> FALSE]),
                              !.next_service = @ + 1]
  PROVE  WorldOK(e) /\ Kept(w, e) /\ e.paid = w.paid /\ SameMoney(w, e)
<1> DEFINE n == w.next_service
           new == [key |-> key, revoked |-> FALSE]
           T == [key : Nat, revoked : BOOLEAN]
           services == With(w.services, n, new)
<1>1. n \in Nat \ {0} /\ w.services \in [1 .. n - 1 -> T] /\ new \in T
  BY DEF WorldOK, CountersOK
<1>2. DOMAIN w = Fields
  BY DEF WorldOK, CountersOK
<1>3. e = [w EXCEPT !.services = services, !.next_service = n + 1]
  BY <1>2 DEF Fields
<1> HIDE DEF n, new, T
<1>4. DOMAIN services = DOMAIN w.services \cup {n} /\ services[n] = new
      /\ \A s \in DOMAIN w.services : services[s] = w.services[s]
  BY <1>1 DEF With
<1>5. n + 1 \in Nat \ {0} /\ n + 1 >= n /\ 1 .. (n + 1) - 1 = 1 .. n - 1 \cup {n}
  BY <1>1
<1>6. services \in [1 .. (n + 1) - 1 -> T]
  BY <1>1, <1>4, <1>5 DEF With
<1>7. services \in ServicesType(n + 1)
  BY <1>6 DEF ServicesType, T
<1>8. \A s \in DOMAIN w.services :
         w.services[s].revoked => s \in DOMAIN services /\ services[s].revoked
  BY <1>4
<1> HIDE DEF services
<1> QED BY <1>3, <1>5, <1>7, <1>8, ServicesChange DEF n

\* A revoked service stays where it was.
LEMMA ServiceRevoked ==
  ASSUME NEW w, WorldOK(w), NEW s \in DOMAIN w.services,
         NEW e, e = [w EXCEPT !.services[s].revoked = TRUE]
  PROVE  WorldOK(e) /\ Kept(w, e) /\ e.paid = w.paid /\ SameMoney(w, e)
<1> DEFINE n == w.next_service
           T == [key : Nat, revoked : BOOLEAN]
           services == [w.services EXCEPT ![s].revoked = TRUE]
<1>1. n \in Nat \ {0} /\ w.services \in [1 .. n - 1 -> T]
  BY DEF WorldOK, CountersOK
<1>2. DOMAIN w = Fields
  BY DEF WorldOK, CountersOK
<1>3. e = [w EXCEPT !.services = services, !.next_service = n]
  BY <1>2 DEF Fields
<1>4. services \in [1 .. n - 1 -> T]
  BY <1>1
<1>5. /\ DOMAIN services = DOMAIN w.services /\ services[s].revoked
      /\ \A t \in DOMAIN w.services : t # s => services[t] = w.services[t]
  BY <1>1
<1>6. services \in ServicesType(n)
  BY <1>4 DEF ServicesType
<1>7. \A t \in DOMAIN w.services :
         w.services[t].revoked => t \in DOMAIN services /\ services[t].revoked
  BY <1>5
<1>8. n >= w.next_service
  BY <1>1
<1> HIDE DEF services, n
<1> QED BY <1>1, <1>3, <1>6, <1>7, <1>8, ServicesChange

-----------------------------------------------------------------------------
(* What moves money *)

\* A world that differs in its wallets' amounts, its budgets' accounts and
\* its sources.
LEMMA AmountsChange ==
  ASSUME NEW w, WorldOK(w), NEW e, DOMAIN e = Fields, SameNames(w, e),
         e.next_wallet = w.next_wallet, e.wallets \in [DOMAIN w.wallets -> Nat],
         DOMAIN e.budgets = DOMAIN w.budgets, \A b \in DOMAIN w.budgets : e.budgets[b] \in Nat,
         e.rules = w.rules, PaidOK(e)
  PROVE  WorldOK(e) /\ Kept(w, e)
<1>1. /\ w.next_wallet \in Nat \ {0, 1} /\ DOMAIN w.wallets = 1 .. w.next_wallet - 1
      /\ DOMAIN w.budgets \subseteq DOMAIN w.wallets \ {Treasury}
      /\ \A r \in DOMAIN w.rules : w.rules[r].budget \in DOMAIN w.budgets /\ w.rules[r].cents \in Nat
      /\ \A a \in DOMAIN w.accounts : w.accounts[a].wallet \notin DOMAIN w.budgets
  BY DEF WorldOK, CountersOK, WalletsOK, AccountsOK
<1>2. WalletsOK(e)
  BY <1>1 DEF WalletsOK
<1> QED BY <1>1, <1>2, NamesStay

\* One wallet's amount changes by d.
LEMMA Credited ==
  ASSUME NEW w, WorldOK(w), NEW x \in DOMAIN w.wallets, NEW d \in Int, w.wallets[x] + d >= 0,
         NEW e, e = [w EXCEPT !.wallets[x] = @ + d]
  PROVE  /\ WorldOK(e) /\ Kept(w, e) /\ e.paid = w.paid /\ SameNames(w, e)
         /\ e.budgets = w.budgets /\ e.rules = w.rules
         /\ DOMAIN e.wallets = DOMAIN w.wallets
         /\ e.wallets[x] = w.wallets[x] + d
         /\ \A y \in DOMAIN w.wallets : y # x => e.wallets[y] = w.wallets[y]
         /\ Money(e) = Money(w) + d
         /\ x \in DOMAIN w.budgets => Budgeted(e) = Budgeted(w) + d
         /\ x \notin DOMAIN w.budgets => Budgeted(e) = Budgeted(w)
<1>1. DOMAIN w = Fields
  BY DEF WorldOK, CountersOK
<1>2. /\ DOMAIN e = Fields /\ SameNames(w, e) /\ e.next_wallet = w.next_wallet
      /\ e.budgets = w.budgets /\ e.rules = w.rules /\ e.paid = w.paid
      /\ e.wallets = [w.wallets EXCEPT ![x] = @ + d]
  BY <1>1 DEF Fields, SameNames
<1>3. /\ IsFiniteSet(DOMAIN w.wallets) /\ \A y \in DOMAIN w.wallets : w.wallets[y] \in Nat
      /\ IsFiniteSet(DOMAIN w.budgets) /\ DOMAIN w.budgets \subseteq DOMAIN w.wallets
      /\ \A b \in DOMAIN w.budgets : w.budgets[b] \in Nat
      /\ DOMAIN PutIn(w) = DOMAIN w.budgets
      /\ \A b \in DOMAIN w.budgets :
           PutIn(w)[b] = w.wallets[b] + w.budgets[b] /\ PutIn(w)[b] \in Int
      /\ Money(w) \in Int /\ Budgeted(w) \in Int
  BY MoneyIs
<1>4. /\ DOMAIN e.wallets = DOMAIN w.wallets /\ e.wallets[x] = w.wallets[x] + d
      /\ \A y \in DOMAIN w.wallets : y # x => e.wallets[y] = w.wallets[y]
      /\ e.wallets = [y \in DOMAIN w.wallets |-> e.wallets[y]]
  BY <1>2
<1>5. \A y \in DOMAIN w.wallets : e.wallets[y] \in Nat
  <2>1. e.wallets[x] \in Nat
    BY <1>3, <1>4
  <2> QED BY <1>3, <1>4, <2>1
<1>6. e.wallets \in [DOMAIN w.wallets -> Nat]
  BY <1>4, <1>5
<1>7. WorldOK(e) /\ Kept(w, e)
  <2>1. PaidOK(e)
    BY <1>2 DEF WorldOK, PaidOK
  <2> QED BY <1>2, <1>3, <1>6, <2>1, AmountsChange
<1>8. Money(e) = Money(w) + d
  <2> DEFINE S == DOMAIN w.wallets
             f == w.wallets
             g == e.wallets
  <2>1. /\ IsFiniteSet(S) /\ x \in S /\ \A y \in S \ {x} : g[y] = f[y]
        /\ \A y \in S : f[y] \in Int /\ g[y] \in Int
        /\ g[x] = f[x] + d /\ f[x] \in Int
    BY <1>3, <1>4, <1>5
  <2>2. Money(w) = SumFunctionOnSet(f, S) /\ Money(e) = SumFunctionOnSet(g, S)
    BY <1>4 DEF Money
  <2>3. SumFunctionOnSet(f, S) \in Int
    BY <1>3, <2>2
  <2> HIDE DEF S, f, g
  <2>4. SumFunctionOnSet(g, S) = SumFunctionOnSet(f, S) - f[x] + g[x]
    BY <2>1, SumUpdate
  <2> QED BY <2>1, <2>2, <2>3, <2>4
<1>9. ASSUME x \in DOMAIN w.budgets PROVE Budgeted(e) = Budgeted(w) + d
  <2> DEFINE S == DOMAIN w.budgets
             f == PutIn(w)
             g == PutIn(e)
  <2>1. \A b \in S : g[b] = e.wallets[b] + w.budgets[b]
    BY <1>2 DEF PutIn
  <2>2. \A b \in S : f[b] = w.wallets[b] + w.budgets[b] /\ f[b] \in Int
    BY <1>3
  <2>3. \A b \in S : g[b] \in Int
    BY <1>3, <1>5, <2>1
  <2>4. g[x] = f[x] + d
    <3>1. w.wallets[x] \in Int /\ w.budgets[x] \in Int
      BY <1>3, <1>9
    <3> HIDE DEF f, g
    <3> QED BY <1>4, <1>9, <2>1, <2>2, <3>1
  <2>5. \A b \in S \ {x} : g[b] = f[b]
    BY <1>3, <1>4, <2>1, <2>2
  <2>6. Budgeted(w) = SumFunctionOnSet(f, S) /\ Budgeted(e) = SumFunctionOnSet(g, S)
    BY <1>2 DEF Budgeted
  <2>7. SumFunctionOnSet(f, S) \in Int /\ IsFiniteSet(S) /\ x \in S
    BY <1>3, <1>9, <2>6
  <2> HIDE DEF S, f, g
  <2>8. SumFunctionOnSet(g, S) = SumFunctionOnSet(f, S) - f[x] + g[x]
    BY <2>2, <2>3, <2>5, <2>7, SumUpdate
  <2> QED BY <2>2, <2>4, <2>6, <2>7, <2>8
<1>10. ASSUME x \notin DOMAIN w.budgets PROVE Budgeted(e) = Budgeted(w)
  <2>1. PutIn(e) = PutIn(w)
    <3>1. \A b \in DOMAIN w.budgets : e.wallets[b] = w.wallets[b]
      BY <1>3, <1>4, <1>10
    <3> QED BY <1>2, <3>1 DEF PutIn
  <2> QED BY <1>2, <2>1 DEF Budgeted
<1> QED BY <1>2, <1>4, <1>7, <1>8, <1>9, <1>10

\* Money that moves between two wallets stays in the world.
LEMMA Moved ==
  ASSUME NEW w, WorldOK(w), NEW from \in DOMAIN w.wallets, NEW to \in DOMAIN w.wallets,
         from # to, NEW cents \in Nat, cents <= w.wallets[from],
         NEW e, e = Move(w, from, to, cents)
  PROVE  /\ WorldOK(e) /\ Kept(w, e) /\ e.paid = w.paid /\ SameNames(w, e)
         /\ e.budgets = w.budgets /\ e.rules = w.rules
         /\ DOMAIN e.wallets = DOMAIN w.wallets
         /\ e.wallets[to] = w.wallets[to] + cents
         /\ Money(e) = Money(w)
         /\ from \notin DOMAIN w.budgets /\ to \in DOMAIN w.budgets
              => Budgeted(e) = Budgeted(w) + cents
         /\ from \in DOMAIN w.budgets /\ to \notin DOMAIN w.budgets
              => Budgeted(e) = Budgeted(w) - cents
         /\ from \notin DOMAIN w.budgets /\ to \notin DOMAIN w.budgets
              => Budgeted(e) = Budgeted(w)
<1> DEFINE m == [w EXCEPT !.wallets[from] = @ + (0 - cents)]
<1>1. /\ DOMAIN w = Fields /\ \A x \in DOMAIN w.wallets : w.wallets[x] \in Nat
      /\ Money(w) \in Int /\ Budgeted(w) \in Int
  BY MoneyIs DEF WorldOK, CountersOK
<1>2. 0 - cents \in Int /\ w.wallets[from] + (0 - cents) >= 0
      /\ w.wallets[from] - cents = w.wallets[from] + (0 - cents)
  BY <1>1
<1>3. /\ WorldOK(m) /\ Kept(w, m) /\ m.paid = w.paid /\ SameNames(w, m)
      /\ m.budgets = w.budgets /\ m.rules = w.rules
      /\ DOMAIN m.wallets = DOMAIN w.wallets
      /\ \A y \in DOMAIN w.wallets : y # from => m.wallets[y] = w.wallets[y]
      /\ Money(m) = Money(w) + (0 - cents)
      /\ from \in DOMAIN w.budgets => Budgeted(m) = Budgeted(w) + (0 - cents)
      /\ from \notin DOMAIN w.budgets => Budgeted(m) = Budgeted(w)
  BY <1>2, Credited
<1>4. e = [m EXCEPT !.wallets[to] = @ + cents]
  <2>1. e = [[w EXCEPT !.wallets[from] = w.wallets[from] - cents] EXCEPT !.wallets[to] = @ + cents]
    BY DEF Move
  <2>2. m = [w EXCEPT !.wallets[from] = w.wallets[from] - cents]
    BY <1>2
  <2> QED BY <2>1, <2>2, Zenon
<1> HIDE DEF m
<1>5. /\ m.wallets[to] = w.wallets[to] /\ to \in DOMAIN m.wallets /\ cents \in Int
      /\ m.wallets[to] + cents >= 0
  BY <1>1, <1>3
<1>6. /\ WorldOK(e) /\ Kept(m, e) /\ e.paid = m.paid /\ SameNames(m, e)
      /\ e.budgets = m.budgets /\ e.rules = m.rules
      /\ DOMAIN e.wallets = DOMAIN m.wallets
      /\ e.wallets[to] = m.wallets[to] + cents
      /\ Money(e) = Money(m) + cents
      /\ to \in DOMAIN m.budgets => Budgeted(e) = Budgeted(m) + cents
      /\ to \notin DOMAIN m.budgets => Budgeted(e) = Budgeted(m)
  BY <1>3, <1>4, <1>5, Credited
<1>7. Kept(w, e) /\ SameNames(w, e)
  BY <1>3, <1>6, KeptTwice DEF SameNames
<1>8. Money(e) = Money(w)
  BY <1>1, <1>3, <1>6
<1>9. ASSUME from \notin DOMAIN w.budgets, to \in DOMAIN w.budgets
      PROVE  Budgeted(e) = Budgeted(w) + cents
  BY <1>3, <1>6, <1>9
<1>10. ASSUME from \in DOMAIN w.budgets, to \notin DOMAIN w.budgets
       PROVE  Budgeted(e) = Budgeted(w) - cents
  BY <1>1, <1>3, <1>6, <1>10
<1>11. ASSUME from \notin DOMAIN w.budgets, to \notin DOMAIN w.budgets
       PROVE  Budgeted(e) = Budgeted(w)
  BY <1>3, <1>6, <1>11
<1> QED BY <1>3, <1>5, <1>6, <1>7, <1>8, <1>9, <1>10, <1>11

\* A wallet nobody has becomes a budget, with what is in it.
LEMMA BudgetAdded ==
  ASSUME NEW w, WorldOK(w), NEW x \in DOMAIN w.wallets, x # Treasury, x \notin DOMAIN w.budgets,
         \A a \in DOMAIN w.accounts : w.accounts[a].wallet # x, NEW e, e = AddBudget(w, x)
  PROVE  /\ WorldOK(e) /\ Kept(w, e) /\ e.paid = w.paid
         /\ Money(e) = Money(w) /\ Budgeted(e) = Budgeted(w) + w.wallets[x]
<1>1. DOMAIN w = Fields
  BY DEF WorldOK, CountersOK
<1>2. /\ DOMAIN e = Fields /\ SameNames(w, e) /\ e.next_wallet = w.next_wallet
      /\ e.wallets = w.wallets /\ e.rules = w.rules /\ e.paid = w.paid
      /\ e.budgets = With(w.budgets, x, 0)
  BY <1>1 DEF Fields, SameNames, AddBudget
<1>3. /\ w.next_wallet \in Nat \ {0, 1} /\ \A y \in DOMAIN w.wallets : w.wallets[y] \in Nat
      /\ IsFiniteSet(DOMAIN w.budgets) /\ DOMAIN w.budgets \subseteq DOMAIN w.wallets
      /\ \A b \in DOMAIN w.budgets : w.budgets[b] \in Nat
      /\ \A b \in DOMAIN w.budgets :
           PutIn(w)[b] = w.wallets[b] + w.budgets[b] /\ PutIn(w)[b] \in Int
      /\ Budgeted(w) \in Int
  BY MoneyIs
<1>4. /\ DOMAIN e.budgets = DOMAIN w.budgets \cup {x} /\ e.budgets[x] = 0
      /\ \A b \in DOMAIN w.budgets : e.budgets[b] = w.budgets[b]
  BY <1>2 DEF With
<1>5. WorldOK(e) /\ Kept(w, e)
  <2>1. WalletsOK(e)
    BY <1>2, <1>3, <1>4 DEF WorldOK, WalletsOK
  <2>2. \A a \in DOMAIN w.accounts : w.accounts[a].wallet \notin DOMAIN e.budgets
    BY <1>4 DEF WorldOK, AccountsOK
  <2>3. PaidOK(e)
    BY <1>2 DEF WorldOK, PaidOK
  <2> QED BY <1>2, <1>3, <2>1, <2>2, <2>3, NamesStay
<1>6. Money(e) = Money(w)
  BY <1>2 DEF Money
<1>7. Budgeted(e) = Budgeted(w) + w.wallets[x]
  <2> DEFINE S == DOMAIN w.budgets
             f == PutIn(w)
             g == PutIn(e)
  <2>1. \A b \in S \cup {x} : g[b] = w.wallets[b] + e.budgets[b]
    BY <1>2, <1>4 DEF PutIn
  <2>2. \A b \in S : f[b] \in Int /\ g[b] = f[b]
    BY <1>3, <1>4, <2>1
  <2>3. g[x] = w.wallets[x] /\ g[x] \in Int
    <3>1. w.wallets[x] \in Nat /\ x \in S \cup {x}
      BY <1>3
    <3> HIDE DEF S, f, g
    <3> QED BY <1>4, <2>1, <3>1
  <2>4. Budgeted(w) = SumFunctionOnSet(f, S) /\ Budgeted(e) = SumFunctionOnSet(g, S \cup {x})
    BY <1>4 DEF Budgeted
  <2>5. IsFiniteSet(S) /\ x \notin S
    BY <1>3
  <2> HIDE DEF S, f, g
  <2>6. SumFunctionOnSet(g, S \cup {x}) = SumFunctionOnSet(f, S) + g[x]
    <3>1. /\ IsFiniteSet(S) /\ x \notin S /\ g[x] \in Int
          /\ \A y \in S : f[y] \in Int /\ g[y] = f[y]
      BY <2>2, <2>3, <2>5
    <3>2. \A h : h[x] \in Int /\ (\A y \in S : h[y] = f[y])
                  => SumFunctionOnSet(h, S \cup {x}) = SumFunctionOnSet(f, S) + h[x]
      BY <3>1, SumMore
    <3> QED BY <3>1, <3>2
  <2> QED BY <2>3, <2>4, <2>6
<1> QED BY <1>2, <1>5, <1>6, <1>7

\* Rules that pay from budgets.
LEMMA RulesChange ==
  ASSUME NEW w, WorldOK(w), NEW rules,
         \A r \in DOMAIN rules : rules[r].budget \in DOMAIN w.budgets /\ rules[r].cents \in Nat,
         NEW e, e = [w EXCEPT !.rules = rules]
  PROVE  /\ WorldOK(e) /\ Kept(w, e) /\ e.paid = w.paid
         /\ Money(e) = Money(w) /\ Budgeted(e) = Budgeted(w)
<1>1. DOMAIN w = Fields /\ w.next_wallet \in Nat \ {0, 1}
  BY DEF WorldOK, CountersOK
<1>2. /\ DOMAIN e = Fields /\ SameNames(w, e) /\ e.next_wallet = w.next_wallet
      /\ e.wallets = w.wallets /\ e.rules = rules /\ e.paid = w.paid /\ e.budgets = w.budgets
  BY <1>1 DEF Fields, SameNames
<1>3. WalletsOK(e) /\ PaidOK(e)
  BY <1>2 DEF WorldOK, WalletsOK, PaidOK
<1>4. \A a \in DOMAIN w.accounts : w.accounts[a].wallet \notin DOMAIN e.budgets
  BY <1>2 DEF WorldOK, AccountsOK
<1>5. WorldOK(e) /\ Kept(w, e)
  BY <1>1, <1>2, <1>3, <1>4, NamesStay
<1> QED BY <1>2, <1>5 DEF Money, Budgeted, PutIn

\* The log of sources is cut at its cap.
LEMMA RememberedIs ==
  ASSUME NEW paid \in Seq(Sources), Len(paid) <= REWARD_LOG + 1, NEW p, p = Remembered(paid)
  PROVE  /\ p \in Seq(Sources)
         /\ Len(p) = IF Len(paid) > REWARD_LOG THEN REWARD_LOG ELSE Len(paid)
         /\ \A i \in 1 .. Len(p) : p[i] = paid[Len(paid) - Len(p) + i]
<1>1. REWARD_LOG \in Nat /\ REWARD_LOG >= 1 /\ Len(paid) \in Nat
  BY RegistryAssumption
<1>2. CASE Len(paid) > REWARD_LOG
  <2>1. p = SubSeq(paid, 2, Len(paid)) /\ Len(paid) = REWARD_LOG + 1
    BY <1>1, <1>2 DEF Remembered
  <2>2. p \in Seq(Sources) /\ Len(p) = REWARD_LOG
    BY <1>1, <2>1
  <2>3. \A i \in 1 .. REWARD_LOG : p[i] = paid[i + 1]
    BY <1>1, <2>1
  <2> QED BY <1>1, <1>2, <2>1, <2>2, <2>3
<1>3. CASE ~(Len(paid) > REWARD_LOG)
  <2>1. p = SubSeq(paid, 1, Len(paid))
    BY <1>1, <1>3 DEF Remembered
  <2>2. p = paid
    BY <2>1
  <2> QED BY <1>1, <1>3, <2>2
<1> QED BY <1>2, <1>3

\* A receipt: what was paid stays counted with its budget.
LEMMA Recorded ==
  ASSUME NEW w, WorldOK(w), NEW source \in Sources, NEW b \in DOMAIN w.budgets,
         NEW cents \in Nat, NEW e, e = Record(w, source, b, cents)
  PROVE  /\ WorldOK(e) /\ Kept(w, e) /\ e.paid = Remembered(Append(w.paid, source))
         /\ Money(e) = Money(w) /\ Budgeted(e) = Budgeted(w) + cents
<1>1. DOMAIN w = Fields
  BY DEF WorldOK, CountersOK
<1>2. /\ DOMAIN e = Fields /\ SameNames(w, e) /\ e.next_wallet = w.next_wallet
      /\ e.wallets = w.wallets /\ e.rules = w.rules
      /\ e.paid = Remembered(Append(w.paid, source))
      /\ e.budgets = [w.budgets EXCEPT ![b] = @ + cents]
  BY <1>1 DEF Fields, SameNames, Record
<1>3. /\ \A y \in DOMAIN w.wallets : w.wallets[y] \in Nat
      /\ w.wallets \in [DOMAIN w.wallets -> Nat]
      /\ IsFiniteSet(DOMAIN w.budgets) /\ DOMAIN w.budgets \subseteq DOMAIN w.wallets
      /\ \A x \in DOMAIN w.budgets : w.budgets[x] \in Nat
      /\ \A x \in DOMAIN w.budgets :
           PutIn(w)[x] = w.wallets[x] + w.budgets[x] /\ PutIn(w)[x] \in Int
      /\ Budgeted(w) \in Int
  BY MoneyIs DEF WorldOK, WalletsOK
<1>4. /\ DOMAIN e.budgets = DOMAIN w.budgets /\ e.budgets[b] = w.budgets[b] + cents
      /\ \A x \in DOMAIN w.budgets : x # b => e.budgets[x] = w.budgets[x]
  BY <1>2
<1>5. \A x \in DOMAIN w.budgets : e.budgets[x] \in Nat
  BY <1>3, <1>4
<1>6. PaidOK(e)
  <2> DEFINE more == Append(w.paid, source)
  <2>1. w.paid \in Seq(Sources) /\ Len(w.paid) <= REWARD_LOG /\ REWARD_LOG \in Nat
    BY RegistryAssumption DEF WorldOK, PaidOK
  <2>2. more \in Seq(Sources) /\ Len(more) <= REWARD_LOG + 1 /\ Len(more) \in Nat
    BY <2>1
  <2> HIDE DEF more
  <2>3. Remembered(more) \in Seq(Sources) /\ Len(Remembered(more)) <= REWARD_LOG
    BY <2>1, <2>2, RememberedIs
  <2> QED BY <1>2, <2>3 DEF PaidOK, more
<1>7. WorldOK(e) /\ Kept(w, e)
  BY <1>2, <1>3, <1>4, <1>5, <1>6, AmountsChange
<1>8. Budgeted(e) = Budgeted(w) + cents
  <2> DEFINE S == DOMAIN w.budgets
             f == PutIn(w)
             g == PutIn(e)
  <2>1. \A x \in S : g[x] = w.wallets[x] + e.budgets[x]
    BY <1>2, <1>4 DEF PutIn
  <2>2. \A x \in S : f[x] = w.wallets[x] + w.budgets[x] /\ f[x] \in Int
    BY <1>3
  <2>3. \A x \in S : g[x] \in Int
    BY <1>3, <1>5, <2>1
  <2>4. g[b] = f[b] + cents
    <3>1. w.wallets[b] \in Int /\ w.budgets[b] \in Int /\ b \in S
      BY <1>3
    <3> HIDE DEF f, g, S
    <3> QED BY <1>4, <2>1, <2>2, <3>1
  <2>5. \A x \in S \ {b} : g[x] = f[x]
    BY <1>4, <2>1, <2>2
  <2>6. Budgeted(w) = SumFunctionOnSet(f, S) /\ Budgeted(e) = SumFunctionOnSet(g, S)
    BY <1>4 DEF Budgeted
  <2>7. SumFunctionOnSet(f, S) \in Int /\ IsFiniteSet(S) /\ b \in S
    BY <1>3, <2>6
  <2> HIDE DEF S, f, g
  <2>8. SumFunctionOnSet(g, S) = SumFunctionOnSet(f, S) - f[b] + g[b]
    BY <2>2, <2>3, <2>5, <2>7, SumUpdate
  <2> QED BY <2>2, <2>4, <2>6, <2>7, <2>8
<1>9. Money(e) = Money(w)
  BY <1>2 DEF Money
<1> QED BY <1>2, <1>7, <1>8, <1>9

-----------------------------------------------------------------------------
(* Applying a command *)

\* What applying a command to w comes to, whatever it returns: a world in
\* order in which everybody stays who they were.  Unless it is refused half
\* done, minted is what it adds to the wallets and budgeted to the budgets.
Applies(w, now, minted, budgeted) ==
  /\ WorldOK(now.world) /\ Kept(w, now.world)
  /\ now.status \in {"Created", "Repeated", "Refused"}
  /\ now.status = "Created" =>
       /\ Money(now.world) = Money(w) + minted
       /\ Budgeted(now.world) = Budgeted(w) + budgeted
  /\ now.status # "Created" => Money(now.world) = Money(w) /\ Budgeted(now.world) = Budgeted(w)

\* A refusal or a repeat that changed nothing.
LEMMA NothingApplied ==
  ASSUME NEW w, WorldOK(w), NEW minted, NEW budgeted
  PROVE  Applies(w, Refused(w), minted, budgeted) /\ Applies(w, Repeated(w), minted, budgeted)
BY DEF Applies, Refused, Repeated, Kept

\* What e was reached by changing nobody's money.
LEMMA NoMoneyApplied ==
  ASSUME NEW w, WorldOK(w), NEW e, WorldOK(e), Kept(w, e), Money(e) = Money(w),
         Budgeted(e) = Budgeted(w)
  PROVE  Applies(w, Accepted(e), 0, 0) /\ Applies(w, Refused(e), 0, 0)
<1>1. Money(w) \in Int /\ Budgeted(w) \in Int
  BY MoneyIs
<1>2. /\ Accepted(e).world = e /\ Accepted(e).status = "Created"
      /\ Refused(e).world = e /\ Refused(e).status = "Refused"
  BY DEF Accepted, Refused
<1> QED BY <1>1, <1>2 DEF Applies

\* An account that the treasury can fund.
LEMMA AccountOpened ==
  ASSUME NEW w, WorldOK(w), NEW user \in DOMAIN w.users, NEW cash \in Nat,
         NEW now, now = OpenAccountFor(w, user, cash)
  PROVE  /\ Applies(w, now, 0, 0) /\ now.world.paid = w.paid
         /\ now.status \in {"Created", "Refused"}
         /\ now.status = "Refused" => now.world = w /\ cash # 0
         /\ now.status = "Created" =>
              /\ w.next_account \in DOMAIN now.world.accounts
              /\ now.world.accounts[w.next_account].user = user
              /\ DOMAIN now.world.users = DOMAIN w.users
              /\ now.world.next_trader = w.next_trader /\ now.world.players = w.players
<1> DEFINE opened == InsertAccount(w, user)
           wallet == opened.accounts[w.next_account].wallet
           moved == Move(opened, Treasury, wallet, cash)
<1>1. /\ WorldOK(opened) /\ Kept(w, opened) /\ opened.paid = w.paid
      /\ Money(opened) = Money(w) /\ Budgeted(opened) = Budgeted(w)
      /\ opened.players = w.players /\ opened.budgets = w.budgets
      /\ opened.next_trader = w.next_trader /\ DOMAIN opened.users = DOMAIN w.users
      /\ \A x \in DOMAIN w.wallets : x \in DOMAIN opened.wallets /\ opened.wallets[x] = w.wallets[x]
      /\ w.next_account \in DOMAIN opened.accounts
      /\ opened.accounts[w.next_account].user = user
      /\ wallet \in DOMAIN opened.wallets \ {Treasury}
  BY AccountInserted
<1>2. wallet \notin DOMAIN opened.budgets
  BY <1>1 DEF WorldOK, AccountsOK
<1>3. /\ Treasury \in DOMAIN w.wallets /\ Treasury \notin DOMAIN w.budgets
      /\ w.wallets[Treasury] \in Nat
  BY MoneyIs
<1>4. now = IF cash = 0 THEN Accepted(opened)
            ELSE IF Transferable(cash) /\ cash <= w.wallets[Treasury] THEN Accepted(moved)
            ELSE Refused(w)
  BY DEF OpenAccountFor
<1> HIDE DEF opened, wallet
<1>5. CASE cash = 0
  <2>1. now = Accepted(opened)
    BY <1>4, <1>5
  <2>2. now.status = "Created" /\ now.world = opened
    BY <2>1 DEF Accepted
  <2>3. Applies(w, now, 0, 0)
    BY <1>1, <2>1, NoMoneyApplied
  <2> QED BY <1>1, <2>2, <2>3
<1>6. CASE cash # 0 /\ Transferable(cash) /\ cash <= w.wallets[Treasury]
  <2>1. /\ WorldOK(moved) /\ Kept(opened, moved) /\ moved.paid = opened.paid
        /\ SameNames(opened, moved) /\ Money(moved) = Money(opened)
        /\ Treasury \notin DOMAIN opened.budgets /\ wallet \notin DOMAIN opened.budgets
             => Budgeted(moved) = Budgeted(opened)
    <3>1. /\ Treasury \in DOMAIN opened.wallets /\ wallet \in DOMAIN opened.wallets
          /\ Treasury # wallet /\ cash <= opened.wallets[Treasury]
      BY <1>1, <1>3, <1>6
    <3> QED BY <1>1, <3>1, Moved
  <2> HIDE DEF moved
  <2>2. now = Accepted(moved)
    BY <1>4, <1>6
  <2>3. now.status = "Created" /\ now.world = moved
    BY <2>2 DEF Accepted
  <2>4. Kept(w, moved)
    BY <1>1, <2>1, KeptTwice
  <2>5. Applies(w, now, 0, 0)
    BY <1>1, <1>2, <1>3, <2>1, <2>2, <2>4, NoMoneyApplied
  <2> QED BY <1>1, <2>1, <2>3, <2>5 DEF SameNames
<1>7. CASE cash # 0 /\ ~(Transferable(cash) /\ cash <= w.wallets[Treasury])
  <2>1. now = Refused(w)
    BY <1>4, <1>7
  <2>2. now.status = "Refused" /\ now.world = w
    BY <2>1 DEF Refused
  <2> QED BY <1>7, <2>1, <2>2, NothingApplied
<1> QED BY <1>5, <1>6, <1>7

\* Nothing is paid, and nothing forgotten.
SamePaid(w, e) == e.paid = w.paid

\* A user, an account and a trader; a refusal leaves the user.
LEMMA UserSignedUp ==
  ASSUME NEW w, WorldOK(w), NEW cash \in Nat, NEW now, now = SignedUp(w, cash, KeyFor(w))
  PROVE  /\ Applies(w, now, 0, 0) /\ SamePaid(w, now.world)
         /\ now.status \in {"Created", "Refused"} /\ (now.status = "Refused" => cash # 0)
         /\ now.status = "Created" =>
              /\ w.next_user \in DOMAIN now.world.users
              /\ w.next_trader \in DOMAIN now.world.traders
              /\ now.world.traders[w.next_trader] =
                   [user |-> w.next_user, account |-> w.next_account]
              /\ now.world.players = w.players
              /\ \A x \in DOMAIN w.players : w.players[x].user # w.next_user
<1> DEFINE u == InsertUser(w, KeyFor(w))
           account == OpenAccountFor(u, w.next_user, cash)
           t == InsertTrader(account.world, w.next_user, w.next_account)
<1>1. /\ WorldOK(u) /\ Kept(w, u) /\ SameMoney(w, u) /\ u.paid = w.paid
      /\ w.next_user \in DOMAIN u.users
      /\ \A x \in DOMAIN u.players : u.players[x].user # w.next_user
      /\ u.next_account = w.next_account /\ u.next_trader = w.next_trader
      /\ u.players = w.players
  BY UserInserted
<1>2. now = IF account.status = "Refused" THEN account ELSE Accepted(t)
  BY DEF SignedUp
<1>3. Money(u) = Money(w) /\ Budgeted(u) = Budgeted(w)
  BY <1>1, SameMoneyIs
<1> HIDE DEF u
<1>4. /\ Applies(u, account, 0, 0) /\ account.world.paid = u.paid
      /\ account.status \in {"Created", "Refused"}
      /\ account.status = "Refused" => account.world = u /\ cash # 0
      /\ account.status = "Created" =>
           /\ u.next_account \in DOMAIN account.world.accounts
           /\ account.world.accounts[u.next_account].user = w.next_user
           /\ DOMAIN account.world.users = DOMAIN u.users
           /\ account.world.next_trader = u.next_trader /\ account.world.players = u.players
  BY <1>1, AccountOpened
<1>5. Money(w) \in Int /\ Budgeted(w) \in Int
  BY MoneyIs
<1> HIDE DEF account
<1>6. CASE account.status = "Refused"
  <2>1. now = account /\ now.world = u /\ now.status = "Refused" /\ cash # 0
    BY <1>2, <1>4, <1>6
  <2>2. Applies(w, now, 0, 0)
    BY <1>1, <1>3, <2>1 DEF Applies
  <2> QED BY <1>1, <2>1, <2>2 DEF SamePaid
<1>7. CASE account.status = "Created"
  <2> DEFINE a == account.world
  <2>1. /\ WorldOK(a) /\ Kept(u, a) /\ Money(a) = Money(u) /\ Budgeted(a) = Budgeted(u)
    BY <1>1, <1>3, <1>4, <1>5, <1>7 DEF Applies
  <2>2. /\ w.next_account \in DOMAIN a.accounts /\ a.accounts[w.next_account].user = w.next_user
        /\ a.next_trader = w.next_trader /\ a.players = w.players /\ a.paid = w.paid
        /\ w.next_user \in DOMAIN a.users
    BY <1>1, <1>4, <1>7
  <2>3. t = InsertTrader(a, w.next_user, w.next_account)
    OBVIOUS
  <2> HIDE DEF a, t
  <2>4. /\ WorldOK(t) /\ Kept(a, t) /\ t.paid = a.paid /\ SameMoney(a, t)
        /\ t.players = a.players /\ t.users = a.users
        /\ a.next_trader \in DOMAIN t.traders
        /\ t.traders[a.next_trader] = [user |-> w.next_user, account |-> w.next_account]
    BY <2>1, <2>2, <2>3, TraderInserted
  <2>5. now = Accepted(t) /\ now.world = t /\ now.status = "Created"
    BY <1>2, <1>7 DEF Accepted
  <2>6. Kept(w, t)
    BY <1>1, <2>1, <2>4, KeptTwice
  <2>7. Money(t) = Money(w) /\ Budgeted(t) = Budgeted(w)
    BY <1>3, <2>1, <2>4, SameMoneyIs
  <2>8. Applies(w, now, 0, 0)
    BY <2>4, <2>5, <2>6, <2>7, NoMoneyApplied
  <2> QED BY <1>1, <2>2, <2>4, <2>5, <2>8 DEF SamePaid
<1> QED BY <1>4, <1>6, <1>7

\* It leaves the sources alone, and a refusal leaves nothing behind.
AppliesClean(w, now, minted, budgeted) ==
  /\ Applies(w, now, minted, budgeted) /\ now.world.paid = w.paid
  /\ now.status = "Refused" => now.world = w

\* A refusal or a repeat that changed nothing left nothing behind.
LEMMA NothingLeftBehind ==
  ASSUME NEW w, WorldOK(w), NEW minted, NEW budgeted
  PROVE  /\ AppliesClean(w, Refused(w), minted, budgeted)
         /\ AppliesClean(w, Repeated(w), minted, budgeted)
<1>1. Refused(w).world = w /\ Repeated(w).world = w
  BY DEF Refused, Repeated
<1> QED BY <1>1, NothingApplied DEF AppliesClean

\* Nor did an acceptance that moved no money.
LEMMA NoMoneyClean ==
  ASSUME NEW w, WorldOK(w), NEW e, WorldOK(e), Kept(w, e), Money(e) = Money(w),
         Budgeted(e) = Budgeted(w), e.paid = w.paid
  PROVE  AppliesClean(w, Accepted(e), 0, 0)
<1>1. Accepted(e).world = e /\ Accepted(e).status = "Created"
  BY DEF Accepted
<1>2. Applies(w, Accepted(e), 0, 0)
  BY NoMoneyApplied
<1> QED BY <1>1, <1>2 DEF AppliesClean

\* An acceptance counts from the world before, when money and sources were
\* as they are.
LEMMA AcceptedAfter ==
  ASSUME NEW w, WorldOK(w), NEW a, WorldOK(a), Kept(w, a), Money(a) = Money(w),
         Budgeted(a) = Budgeted(w), a.paid = w.paid, NEW e, AppliesClean(a, Accepted(e), 0, 0)
  PROVE  AppliesClean(w, Accepted(e), 0, 0)
<1>1. Accepted(e).world = e /\ Accepted(e).status = "Created"
  BY DEF Accepted
<1>2. Money(w) \in Int /\ Budgeted(w) \in Int
  BY MoneyIs
<1>3. /\ WorldOK(e) /\ Kept(a, e) /\ Money(e) = Money(w) /\ Budgeted(e) = Budgeted(w)
      /\ e.paid = w.paid
  BY <1>1, <1>2 DEF AppliesClean, Applies
<1>4. Kept(w, e)
  BY <1>3, KeptTwice
<1> QED BY <1>3, <1>4, NoMoneyClean

\* Command::CreateAccount.
LEMMA OpenAccountApplies ==
  ASSUME NEW w, WorldOK(w), NEW c, c.cash \in Nat, NEW now, now = ApplyOpenAccount(w, c)
  PROVE  AppliesClean(w, now, 0, 0)
<1>1. CASE c.user \notin DOMAIN w.users
  BY <1>1, NothingLeftBehind DEF ApplyOpenAccount
<1>2. CASE c.user \in DOMAIN w.users
  <2>1. now = OpenAccountFor(w, c.user, c.cash)
    BY <1>2 DEF ApplyOpenAccount
  <2> QED BY <1>2, <2>1, AccountOpened DEF AppliesClean
<1> QED BY <1>1, <1>2

\* A trader on an account that is there moves no money.
LEMMA TraderApplies ==
  ASSUME NEW w, WorldOK(w), NEW account \in DOMAIN w.accounts, NEW user,
         w.accounts[account].user = user
  PROVE  AppliesClean(w, Accepted(InsertTrader(w, user, account)), 0, 0)
<1> DEFINE t == InsertTrader(w, user, account)
<1>0. \A e : e = InsertTrader(w, user, account)
                => WorldOK(e) /\ Kept(w, e) /\ SameMoney(w, e)
  BY TraderInserted
<1>1. WorldOK(t) /\ Kept(w, t) /\ t.paid = w.paid /\ SameMoney(w, t)
  <2>1. t.paid = w.paid
    BY DEF InsertTrader
  <2> QED BY <1>0, <2>1, Zenon
<1> HIDE DEF t
<1>2. Money(t) = Money(w) /\ Budgeted(t) = Budgeted(w)
  BY <1>1, SameMoneyIs
<1> QED BY <1>1, <1>2, NoMoneyClean DEF t

\* Command::CreateTrader, for a user who is there.
LEMMA JoinApplies ==
  ASSUME NEW w, WorldOK(w), NEW c, c.cash \in Nat, NEW now, now = ApplyJoin(w, c)
  PROVE  AppliesClean(w, now, 0, 0)
<1> DEFINE account == OpenAccountFor(w, c.user, c.cash)
           a == account.world
           t == InsertTrader(a, c.user, w.next_account)
<1>1. CASE c.user \notin DOMAIN w.users \/ c.caller # c.user
  BY <1>1, NothingLeftBehind DEF ApplyJoin
<1>2. CASE c.user \in DOMAIN w.users /\ c.caller = c.user /\ c.account = None
  <2>1. now = IF account.status = "Refused" THEN account ELSE Accepted(t)
    BY <1>2 DEF ApplyJoin
  <2>2. /\ Applies(w, account, 0, 0) /\ a.paid = w.paid
        /\ account.status \in {"Created", "Refused"}
        /\ account.status = "Refused" => a = w
        /\ account.status = "Created" =>
             w.next_account \in DOMAIN a.accounts /\ a.accounts[w.next_account].user = c.user
    BY <1>2, AccountOpened
  <2> HIDE DEF account
  <2>3. CASE account.status = "Refused"
    BY <2>1, <2>2, <2>3 DEF AppliesClean
  <2>4. CASE account.status = "Created"
    <3>1. Money(w) \in Int /\ Budgeted(w) \in Int
      BY MoneyIs
    <3>2. WorldOK(a) /\ Kept(w, a) /\ Money(a) = Money(w) /\ Budgeted(a) = Budgeted(w)
      BY <2>2, <2>4, <3>1 DEF Applies
    <3>3. now = Accepted(t)
      BY <2>1, <2>4
    <3>4. AppliesClean(a, Accepted(t), 0, 0)
      <4>1. w.next_account \in DOMAIN a.accounts /\ a.accounts[w.next_account].user = c.user
        BY <2>2, <2>4
      <4> HIDE DEF a
      <4> QED BY <3>2, <4>1, TraderApplies
    <3> HIDE DEF a, t
    <3> QED BY <2>2, <3>2, <3>3, <3>4, AcceptedAfter
  <2> QED BY <2>2, <2>3, <2>4
<1>3. CASE /\ c.user \in DOMAIN w.users /\ c.caller = c.user /\ c.account # None
           /\ c.account \in DOMAIN w.accounts /\ w.accounts[c.account].user = c.user
  <2>1. now = Accepted(InsertTrader(w, c.user, c.account))
    BY <1>3 DEF ApplyJoin
  <2> QED BY <1>3, <2>1, TraderApplies
<1>4. CASE /\ c.user \in DOMAIN w.users /\ c.caller = c.user /\ c.account # None
           /\ ~(c.account \in DOMAIN w.accounts /\ w.accounts[c.account].user = c.user)
  <2>1. now = Refused(w)
    BY <1>4 DEF ApplyJoin
  <2> QED BY <2>1, NothingLeftBehind
<1> QED BY <1>1, <1>2, <1>3, <1>4

\* Command::ProvisionPlayer.
LEMMA ProvisionApplies ==
  ASSUME NEW w, WorldOK(w), NEW c, c.key = KeyFor(w), NEW now, now = ApplyProvision(w, c)
  PROVE  AppliesClean(w, now, 0, 0)
<1> DEFINE signed == SignedUp(w, 0, c.key)
           made == signed.world
           new == [user |-> w.next_user, account |-> w.next_account, trader |-> w.next_trader]
           e == [made EXCEPT !.players = With(@, c.external_id, new)]
<1>1. CASE c.external_id \in DOMAIN w.players
  BY <1>1, NothingLeftBehind DEF ApplyProvision
<1>2. CASE c.external_id \notin DOMAIN w.players
  <2>1. now = Accepted(e)
    BY <1>2 DEF ApplyProvision
  <2>2. /\ Applies(w, signed, 0, 0) /\ SamePaid(w, made)
        /\ signed.status \in {"Created", "Refused"} /\ signed.status # "Refused"
        /\ signed.status = "Created" =>
             /\ w.next_user \in DOMAIN made.users /\ w.next_trader \in DOMAIN made.traders
             /\ made.traders[w.next_trader] = [user |-> w.next_user, account |-> w.next_account]
             /\ made.players = w.players
             /\ \A x \in DOMAIN w.players : w.players[x].user # w.next_user
    BY UserSignedUp
  <2> HIDE DEF signed
  <2>3. Money(w) \in Int /\ Budgeted(w) \in Int
    BY MoneyIs
  <2>4. WorldOK(made) /\ Kept(w, made) /\ Money(made) = Money(w) /\ Budgeted(made) = Budgeted(w)
    BY <2>2, <2>3 DEF Applies
  <2> HIDE DEF made
  <2>5. WorldOK(e) /\ Kept(made, e) /\ e.paid = made.paid /\ SameMoney(made, e)
    <3>1. /\ c.external_id \notin DOMAIN made.players
          /\ \A x \in DOMAIN made.players : made.players[x].user # w.next_user
      BY <1>2, <2>2
    <3> QED BY <2>2, <2>4, <3>1, PlayerBound
  <2> HIDE DEF e
  <2>6. Kept(w, e) /\ Money(e) = Money(w) /\ Budgeted(e) = Budgeted(w)
    BY <2>4, <2>5, KeptTwice, SameMoneyIs
  <2> QED BY <2>1, <2>2, <2>5, <2>6, NoMoneyClean DEF SamePaid
<1> QED BY <1>1, <1>2

\* Command::CreateUser.
LEMMA UserApplies ==
  ASSUME NEW w, WorldOK(w)
  PROVE  AppliesClean(w, Accepted(InsertUser(w, KeyFor(w))), 0, 0)
<1> DEFINE e == InsertUser(w, KeyFor(w))
<1>1. WorldOK(e) /\ Kept(w, e) /\ SameMoney(w, e) /\ e.paid = w.paid
  BY UserInserted
<1> HIDE DEF e
<1>2. Money(e) = Money(w) /\ Budgeted(e) = Budgeted(w)
  BY <1>1, SameMoneyIs
<1> QED BY <1>1, <1>2, NoMoneyClean DEF e

\* Command::CreateService.
LEMMA ServiceApplies ==
  ASSUME NEW w, WorldOK(w), NEW c, c.key \in Nat, NEW now, now = ApplyCreateService(w, c)
  PROVE  AppliesClean(w, now, 0, 0)
<1> DEFINE e == [w EXCEPT
                   !.services = With(@, w.next_service, [key |-> c.key, revoked |-> FALSE]),
                   !.next_service = @ + 1]
<1>1. now = IF c.scopes = {} THEN Refused(w) ELSE Accepted(e)
  BY DEF ApplyCreateService
<1>2. WorldOK(e) /\ Kept(w, e) /\ e.paid = w.paid /\ SameMoney(w, e)
  BY ServiceInserted
<1> HIDE DEF e
<1>3. Money(e) = Money(w) /\ Budgeted(e) = Budgeted(w)
  BY <1>2, SameMoneyIs
<1>4. AppliesClean(w, Accepted(e), 0, 0) /\ AppliesClean(w, Refused(w), 0, 0)
  BY <1>2, <1>3, NoMoneyClean, NothingLeftBehind
<1> QED BY <1>1, <1>4

\* Command::RevokeService.
LEMMA RevokeApplies ==
  ASSUME NEW w, WorldOK(w), NEW c, NEW now, now = ApplyRevokeService(w, c)
  PROVE  AppliesClean(w, now, 0, 0)
<1> DEFINE e == [w EXCEPT !.services[c.service].revoked = TRUE]
<1>1. CASE c.service \notin DOMAIN w.services
  BY <1>1, NothingLeftBehind DEF ApplyRevokeService
<1>2. CASE c.service \in DOMAIN w.services
  <2>1. now = Accepted(e)
    BY <1>2 DEF ApplyRevokeService
  <2>2. WorldOK(e) /\ Kept(w, e) /\ e.paid = w.paid /\ SameMoney(w, e)
    BY <1>2, ServiceRevoked
  <2> HIDE DEF e
  <2>3. Money(e) = Money(w) /\ Budgeted(e) = Budgeted(w)
    BY <2>2, SameMoneyIs
  <2> QED BY <2>1, <2>2, <2>3, NoMoneyClean
<1> QED BY <1>1, <1>2

\* What an acceptance did to the money.
LEMMA AcceptedClean ==
  ASSUME NEW w, WorldOK(w), NEW e, WorldOK(e), Kept(w, e), e.paid = w.paid,
         NEW minted, NEW budgeted, Money(e) = Money(w) + minted,
         Budgeted(e) = Budgeted(w) + budgeted
  PROVE  AppliesClean(w, Accepted(e), minted, budgeted)
<1>1. Accepted(e).world = e /\ Accepted(e).status = "Created"
  BY DEF Accepted
<1> QED BY <1>1 DEF AppliesClean, Applies

\* An account's wallet is a wallet and no budget.
LEMMA AccountWallet ==
  ASSUME NEW w, WorldOK(w), NEW a \in DOMAIN w.accounts
  PROVE  /\ w.accounts[a].wallet \in DOMAIN w.wallets
         /\ w.accounts[a].wallet \notin DOMAIN w.budgets
         /\ w.wallets[w.accounts[a].wallet] \in Nat
<1>1. /\ w.accounts[a].wallet \in DOMAIN w.wallets
      /\ w.accounts[a].wallet \notin DOMAIN w.budgets
  BY DEF WorldOK, AccountsOK
<1>2. \A x \in DOMAIN w.wallets : w.wallets[x] \in Nat
  BY MoneyIs
<1> QED BY <1>1, <1>2

\* Currency into or out of an account's wallet.
LEMMA WalletChanges ==
  ASSUME NEW w, WorldOK(w), NEW a \in DOMAIN w.accounts, NEW d \in Int,
         w.wallets[w.accounts[a].wallet] + d >= 0,
         NEW e, e = [w EXCEPT !.wallets[w.accounts[a].wallet] = @ + d]
  PROVE  AppliesClean(w, Accepted(e), d, 0)
<1> DEFINE x == w.accounts[a].wallet
<1>1. x \in DOMAIN w.wallets /\ x \notin DOMAIN w.budgets
  BY AccountWallet
<1>2. w.wallets[x] + d >= 0 /\ e = [w EXCEPT !.wallets[x] = @ + d]
  OBVIOUS
<1> HIDE DEF x
<1>3. /\ WorldOK(e) /\ Kept(w, e) /\ e.paid = w.paid /\ Money(e) = Money(w) + d
      /\ x \notin DOMAIN w.budgets => Budgeted(e) = Budgeted(w)
  BY <1>1, <1>2, Credited
<1>4. Budgeted(w) \in Int
  BY MoneyIs
<1>5. Budgeted(e) = Budgeted(w) + 0
  BY <1>1, <1>3, <1>4
<1> QED BY <1>3, <1>5, AcceptedClean

\* Command::Mint.
LEMMA MintApplies ==
  ASSUME NEW w, WorldOK(w), NEW c, c.cents \in Nat, NEW now, now = ApplyMint(w, c)
  PROVE  AppliesClean(w, now, c.cents, 0)
<1> DEFINE e == [w EXCEPT !.wallets[w.accounts[c.account].wallet] = @ + c.cents]
<1>1. CASE c.account \in DOMAIN w.accounts /\ Transferable(c.cents)
  <2>1. now = Accepted(e)
    BY <1>1 DEF ApplyMint
  <2>2. w.wallets[w.accounts[c.account].wallet] + c.cents >= 0
    BY <1>1, AccountWallet
  <2>3. AppliesClean(w, Accepted(e), c.cents, 0)
    BY <1>1, <2>2, WalletChanges
  <2> QED BY <2>1, <2>3
<1>2. CASE ~(c.account \in DOMAIN w.accounts /\ Transferable(c.cents))
  <2>1. now = Refused(w)
    BY <1>2 DEF ApplyMint
  <2> QED BY <2>1, NothingLeftBehind
<1> QED BY <1>1, <1>2

\* Command::Mint, naming a trader.
LEMMA MintToTraderApplies ==
  ASSUME NEW w, WorldOK(w), NEW c, c.cents \in Nat, "account" \in DOMAIN c,
         NEW now, now = ApplyMintToTrader(w, c)
  PROVE  AppliesClean(w, now, c.cents, 0)
<1> DEFINE on == [c EXCEPT !.account = w.traders[c.trader].account]
<1>1. CASE c.trader \in DOMAIN w.traders
  <2>1. now = ApplyMint(w, on)
    BY <1>1 DEF ApplyMintToTrader
  <2>2. on.cents = c.cents
    OBVIOUS
  <2> HIDE DEF on
  <2>3. AppliesClean(w, now, on.cents, 0)
    BY <2>1, <2>2, MintApplies
  <2> QED BY <2>2, <2>3
<1>2. CASE c.trader \notin DOMAIN w.traders
  BY <1>2, NothingLeftBehind DEF ApplyMintToTrader
<1> QED BY <1>1, <1>2

\* Command::Burn.
LEMMA BurnApplies ==
  ASSUME NEW w, WorldOK(w), NEW c, c.cents \in Nat, NEW now, now = ApplyBurn(w, c)
  PROVE  AppliesClean(w, now, 0 - c.cents, 0)
<1> DEFINE x == w.accounts[c.account].wallet
           ok == c.account \in DOMAIN w.accounts /\ Transferable(c.cents) /\ c.cents <= w.wallets[x]
           e == [w EXCEPT !.wallets[x] = @ - c.cents]
<1>1. CASE ok
  <2>1. now = Accepted(e)
    BY <1>1 DEF ApplyBurn
  <2>2. w.wallets[x] \in Nat /\ w.wallets[x] + (0 - c.cents) >= 0 /\ 0 - c.cents \in Int
        /\ w.wallets[x] - c.cents = w.wallets[x] + (0 - c.cents)
    <3>1. w.wallets[x] \in Nat
      BY <1>1, AccountWallet
    <3> QED BY <1>1, <3>1
  <2>3. e = [w EXCEPT !.wallets[x] = @ + (0 - c.cents)]
    BY <2>2
  <2>4. AppliesClean(w, Accepted(e), 0 - c.cents, 0)
    <3>1. c.account \in DOMAIN w.accounts /\ w.wallets[w.accounts[c.account].wallet] + (0 - c.cents) >= 0
      BY <1>1, <2>2
    <3>2. e = [w EXCEPT !.wallets[w.accounts[c.account].wallet] = @ + (0 - c.cents)]
      BY <2>3
    <3> HIDE DEF e, x
    <3> QED BY <2>2, <3>1, <3>2, WalletChanges
  <2> QED BY <2>1, <2>4
<1>2. CASE ~ok
  <2>1. now = Refused(w)
    BY <1>2 DEF ApplyBurn
  <2> QED BY <2>1, NothingLeftBehind
<1> QED BY <1>1, <1>2

-----------------------------------------------------------------------------
(* Budgets and rewards *)

\* Command::CreateBudget: a full book refuses, and leaves the wallet.
LEMMA CreateBudgetApplies ==
  ASSUME NEW w, WorldOK(w), NEW c, c.cash \in Nat, NEW now, now = ApplyCreateBudget(w, c)
  PROVE  /\ Applies(w, now, 0, c.cash) /\ now.world.paid = w.paid
         /\ now.status = "Refused" =>
              now.world = w \/ Cardinality(DOMAIN w.budgets) >= MAX_BUDGETS
<1> DEFINE o == OpenWallet(w, 0)
           n == w.next_wallet
           m == Move(o, Treasury, n, c.cash)
           full == Cardinality(DOMAIN w.budgets) >= MAX_BUDGETS
           dry == c.cash # 0 /\ ~(Transferable(c.cash) /\ c.cash <= w.wallets[Treasury])
<1>1. CASE dry
  <2>1. now = Refused(w)
    BY <1>1 DEF ApplyCreateBudget
  <2>2. now.world = w
    BY <2>1 DEF Refused
  <2> QED BY <2>1, <2>2, NothingLeftBehind DEF AppliesClean
<1>2. CASE ~dry
  <2>1. now = IF full THEN Refused(m) ELSE Accepted(AddBudget(m, n))
    BY <1>2 DEF ApplyCreateBudget
  <2>2. /\ WorldOK(o) /\ Kept(w, o) /\ SameNames(w, o) /\ o.paid = w.paid
        /\ o.budgets = w.budgets /\ n \in DOMAIN o.wallets /\ n \notin DOMAIN w.budgets
        /\ n # Treasury /\ o.wallets[n] = 0
        /\ \A x \in DOMAIN w.wallets : x \in DOMAIN o.wallets /\ o.wallets[x] = w.wallets[x]
        /\ \A a \in DOMAIN w.accounts : w.accounts[a].wallet # n
        /\ Money(o) = Money(w) /\ Budgeted(o) = Budgeted(w)
    BY WalletOpened
  <2>3. /\ Treasury \in DOMAIN w.wallets /\ Treasury \notin DOMAIN w.budgets
        /\ w.wallets[Treasury] \in Nat /\ Budgeted(w) \in Int
    BY MoneyIs
  <2>4. Treasury \in DOMAIN o.wallets /\ c.cash <= o.wallets[Treasury]
    BY <1>2, <2>2, <2>3
  <2> HIDE DEF o, n
  <2>5. /\ WorldOK(m) /\ Kept(o, m) /\ m.paid = o.paid /\ SameNames(o, m)
        /\ m.budgets = o.budgets /\ DOMAIN m.wallets = DOMAIN o.wallets
        /\ m.wallets[n] = o.wallets[n] + c.cash /\ Money(m) = Money(o)
        /\ Treasury \notin DOMAIN o.budgets /\ n \notin DOMAIN o.budgets
             => Budgeted(m) = Budgeted(o)
    BY <2>2, <2>4, Moved
  <2> HIDE DEF m
  <2>6. /\ Kept(w, m) /\ m.paid = w.paid /\ Money(m) = Money(w) /\ Budgeted(m) = Budgeted(w)
        /\ m.wallets[n] = c.cash
    BY <2>2, <2>3, <2>5, KeptTwice
  <2>7. CASE full
    <3>1. now = Refused(m) /\ now.status = "Refused" /\ now.world = m
      BY <2>1, <2>7 DEF Refused
    <3> QED BY <2>5, <2>6, <2>7, <3>1 DEF Applies
  <2>8. CASE ~full
    <3> DEFINE e == AddBudget(m, n)
    <3>1. now = Accepted(e)
      BY <2>1, <2>8
    <3>2. /\ n \in DOMAIN m.wallets /\ n \notin DOMAIN m.budgets /\ n # Treasury
          /\ \A a \in DOMAIN m.accounts : m.accounts[a].wallet # n
      BY <2>2, <2>5 DEF SameNames
    <3>3. /\ WorldOK(e) /\ Kept(m, e) /\ e.paid = m.paid
          /\ Money(e) = Money(m) /\ Budgeted(e) = Budgeted(m) + m.wallets[n]
      BY <2>5, <3>2, BudgetAdded
    <3> HIDE DEF e
    <3>4. Kept(w, e) /\ Money(e) = Money(w) + 0
      <4>1. Money(w) \in Int
        BY MoneyIs
      <4> QED BY <2>6, <3>3, <4>1, KeptTwice
    <3>5. AppliesClean(w, Accepted(e), 0, c.cash)
      BY <2>6, <3>3, <3>4, AcceptedClean
    <3> QED BY <3>1, <3>5 DEF AppliesClean
  <2> QED BY <2>7, <2>8
<1> HIDE DEF dry
<1> QED BY <1>1, <1>2

\* Command::FundBudget.
LEMMA FundBudgetApplies ==
  ASSUME NEW w, WorldOK(w), NEW c, c.cash \in Nat, NEW now, now = ApplyFundBudget(w, c)
  PROVE  AppliesClean(w, now, 0, c.cash)
<1> DEFINE ok == /\ Transferable(c.cash) /\ c.wallet \in DOMAIN w.budgets
                 /\ c.cash <= w.wallets[Treasury]
           m == Move(w, Treasury, c.wallet, c.cash)
<1>1. CASE ok
  <2>1. now = Accepted(m)
    BY <1>1 DEF ApplyFundBudget
  <2>2. /\ Treasury \in DOMAIN w.wallets /\ Treasury \notin DOMAIN w.budgets
        /\ c.wallet \in DOMAIN w.wallets /\ Treasury # c.wallet /\ Money(w) \in Int
    BY <1>1, MoneyIs
  <2>3. /\ WorldOK(m) /\ Kept(w, m) /\ m.paid = w.paid /\ Money(m) = Money(w)
        /\ Treasury \notin DOMAIN w.budgets /\ c.wallet \in DOMAIN w.budgets
              => Budgeted(m) = Budgeted(w) + c.cash
    BY <1>1, <2>2, Moved
  <2> HIDE DEF m
  <2>4. Money(m) = Money(w) + 0 /\ Budgeted(m) = Budgeted(w) + c.cash
    BY <1>1, <2>2, <2>3
  <2> QED BY <2>1, <2>3, <2>4, AcceptedClean
<1>2. CASE ~ok
  <2>1. now = Refused(w)
    BY <1>2 DEF ApplyFundBudget
  <2> QED BY <2>1, NothingLeftBehind
<1> QED BY <1>1, <1>2

\* Command::SetRewardRule.
LEMMA SetRuleApplies ==
  ASSUME NEW w, WorldOK(w), NEW c, c.cents \in Nat, NEW now, now = ApplySetRewardRule(w, c)
  PROVE  AppliesClean(w, now, 0, 0)
<1> DEFINE rules == With(w.rules, c.rule, [budget |-> c.wallet, cents |-> c.cents])
           e == [w EXCEPT !.rules = rules]
           ok == /\ c.wallet \in DOMAIN w.budgets /\ c.cents > 0
                 /\ c.rule \in DOMAIN w.rules \/ Cardinality(DOMAIN w.rules) < MAX_RULES
<1>1. CASE ok
  <2>1. now = Accepted(e)
    BY <1>1 DEF ApplySetRewardRule, WorldOK, CountersOK, Fields
  <2>2. \A r \in DOMAIN rules : rules[r].budget \in DOMAIN w.budgets /\ rules[r].cents \in Nat
    BY <1>1 DEF With, WorldOK, WalletsOK
  <2> HIDE DEF rules
  <2>3. /\ WorldOK(e) /\ Kept(w, e) /\ e.paid = w.paid
        /\ Money(e) = Money(w) /\ Budgeted(e) = Budgeted(w)
    BY <2>2, RulesChange
  <2> HIDE DEF e
  <2> QED BY <2>1, <2>3, NoMoneyClean
<1>2. CASE ~ok
  <2>1. now = Refused(w)
    BY <1>2 DEF ApplySetRewardRule
  <2> QED BY <2>1, NothingLeftBehind
<1> QED BY <1>1, <1>2

\* Command::RemoveRewardRule.
LEMMA RemoveRuleApplies ==
  ASSUME NEW w, WorldOK(w), NEW c, NEW now, now = ApplyRemoveRewardRule(w, c)
  PROVE  AppliesClean(w, now, 0, 0)
<1> DEFINE rules == [r \in DOMAIN w.rules \ {c.rule} |-> w.rules[r]]
           e == [w EXCEPT !.rules = rules]
<1>1. CASE c.rule \in DOMAIN w.rules
  <2>1. now = Accepted(e)
    BY <1>1 DEF ApplyRemoveRewardRule, WorldOK, CountersOK, Fields
  <2>2. \A r \in DOMAIN rules : rules[r].budget \in DOMAIN w.budgets /\ rules[r].cents \in Nat
    BY DEF WorldOK, WalletsOK
  <2> HIDE DEF rules
  <2>3. /\ WorldOK(e) /\ Kept(w, e) /\ e.paid = w.paid
        /\ Money(e) = Money(w) /\ Budgeted(e) = Budgeted(w)
    BY <2>2, RulesChange
  <2> HIDE DEF e
  <2> QED BY <2>1, <2>3, NoMoneyClean
<1>2. CASE c.rule \notin DOMAIN w.rules
  <2>1. now = Refused(w)
    BY <1>2 DEF ApplyRemoveRewardRule
  <2> QED BY <2>1, NothingLeftBehind
<1> QED BY <1>1, <1>2

\* Command::PayReward: what leaves a budget's wallet is put to its account,
\* and the source is remembered, which was not among those remembered.
LEMMA PayRewardApplies ==
  ASSUME NEW w, WorldOK(w), NEW c, c.source \in Sources, NEW now, now = ApplyPayReward(w, c)
  PROVE  /\ Applies(w, now, 0, 0)
         /\ now.status = "Refused" => now.world = w
         /\ now.status = "Created" =>
              /\ now.world.paid = Remembered(Append(w.paid, c.source))
              /\ \A i \in 1 .. Len(w.paid) : w.paid[i] # c.source
         /\ now.status # "Created" => now.world.paid = w.paid
<1> DEFINE rule == w.rules[c.rule]
           to == WalletOfTrader(w, c.trader)
           m == Move(w, rule.budget, to, rule.cents)
           e == Record(m, c.source, rule.budget, rule.cents)
           paid == Contains(w.paid, c.source)
           there == c.rule \in DOMAIN w.rules /\ c.trader \in DOMAIN w.traders
           enough == rule.cents <= w.wallets[rule.budget]
<1>1. CASE paid
  <2>1. now = Repeated(w) /\ now.status = "Repeated" /\ now.world = w
    BY <1>1 DEF ApplyPayReward, Repeated
  <2> QED BY <2>1, NothingApplied
<1>2. CASE ~paid /\ ~(there /\ enough)
  <2>1. now = Refused(w) /\ now.status = "Refused" /\ now.world = w
    BY <1>2 DEF ApplyPayReward, Refused
  <2> QED BY <2>1, NothingApplied
<1>3. CASE ~paid /\ there /\ enough
  <2>1. now = Accepted(e)
    BY <1>3 DEF ApplyPayReward
  <2>2. /\ rule.budget \in DOMAIN w.budgets /\ rule.cents \in Nat
        /\ rule.budget \in DOMAIN w.wallets
    BY <1>3, MoneyIs DEF WorldOK, WalletsOK
  <2>3. to \in DOMAIN w.wallets /\ to \notin DOMAIN w.budgets
    <3>1. w.traders[c.trader].account \in DOMAIN w.accounts
      BY <1>3 DEF WorldOK, TradersOK
    <3> QED BY <3>1, AccountWallet DEF WalletOfTrader
  <2>4. \A i \in 1 .. Len(w.paid) : w.paid[i] # c.source
    <3>1. w.paid \in Seq(Sources)
      BY DEF WorldOK, PaidOK
    <3> QED BY <1>3, <3>1 DEF Contains
  <2>5. enough
    BY <1>3
  <2> HIDE DEF to, rule
  <2>6. /\ WorldOK(m) /\ Kept(w, m) /\ m.paid = w.paid /\ m.budgets = w.budgets
        /\ Money(m) = Money(w)
        /\ rule.budget \in DOMAIN w.budgets /\ to \notin DOMAIN w.budgets
              => Budgeted(m) = Budgeted(w) - rule.cents
    BY <2>2, <2>3, <2>5, Moved
  <2>7. Budgeted(w) \in Int /\ Money(w) \in Int
    BY MoneyIs
  <2> HIDE DEF m
  <2>8. /\ WorldOK(e) /\ Kept(m, e) /\ e.paid = Remembered(Append(m.paid, c.source))
        /\ Money(e) = Money(m) /\ Budgeted(e) = Budgeted(m) + rule.cents
    BY <2>2, <2>6, Recorded
  <2> HIDE DEF e
  <2>9. Kept(w, e)
    BY <2>6, <2>8, KeptTwice
  <2>10. Money(e) = Money(w) /\ Budgeted(e) = Budgeted(w)
    BY <2>2, <2>3, <2>6, <2>7, <2>8
  <2>11. now.status = "Created" /\ now.world = e
    BY <2>1 DEF Accepted
  <2>12. e.paid = Remembered(Append(w.paid, c.source))
    BY <2>6, <2>8
  <2>13. Applies(w, now, 0, 0)
    BY <2>1, <2>8, <2>9, <2>10, NoMoneyApplied
  <2> QED BY <2>4, <2>11, <2>12, <2>13
<1> QED BY <1>1, <1>2, <1>3

-----------------------------------------------------------------------------
(* Any command *)

\* Apply does what its command's kind says.
LEMMA ApplyIs ==
  ASSUME NEW w, NEW c
  PROVE  /\ c.kind = "CreateUser" => Apply(w, c) = Accepted(InsertUser(w, c.key))
         /\ c.kind = "OpenAccount" => Apply(w, c) = ApplyOpenAccount(w, c)
         /\ c.kind = "SignUp" => Apply(w, c) = SignedUp(w, c.cash, c.key)
         /\ c.kind = "JoinUser" => Apply(w, c) = ApplyJoin(w, c)
         /\ c.kind = "ProvisionPlayer" => Apply(w, c) = ApplyProvision(w, c)
         /\ c.kind = "CreateService" => Apply(w, c) = ApplyCreateService(w, c)
         /\ c.kind = "RevokeService" => Apply(w, c) = ApplyRevokeService(w, c)
         /\ c.kind = "Mint" => Apply(w, c) = ApplyMint(w, c)
         /\ c.kind = "MintToTrader" => Apply(w, c) = ApplyMintToTrader(w, c)
         /\ c.kind = "Burn" => Apply(w, c) = ApplyBurn(w, c)
         /\ c.kind = "CreateBudget" => Apply(w, c) = ApplyCreateBudget(w, c)
         /\ c.kind = "FundBudget" => Apply(w, c) = ApplyFundBudget(w, c)
         /\ c.kind = "SetRewardRule" => Apply(w, c) = ApplySetRewardRule(w, c)
         /\ c.kind = "RemoveRewardRule" => Apply(w, c) = ApplyRemoveRewardRule(w, c)
         /\ c.kind = "PayReward" => Apply(w, c) = ApplyPayReward(w, c)
BY DEF Apply

\* An arrival moves no money and is paid nothing.
LEMMA ArrivingApplies ==
  ASSUME NEW w, WorldOK(w), NEW c, c.kind \in Arriving, c.cash \in Nat, c.key = KeyFor(w)
  PROVE  Applies(w, Apply(w, c), 0, 0) /\ Apply(w, c).world.paid = w.paid
<1>1. CASE c.kind = "CreateUser"
  <2>1. Apply(w, c) = Accepted(InsertUser(w, KeyFor(w)))
    BY <1>1, ApplyIs
  <2> QED BY <2>1, UserApplies DEF AppliesClean
<1>2. CASE c.kind = "OpenAccount"
  <2>1. Apply(w, c) = ApplyOpenAccount(w, c)
    BY <1>2, ApplyIs
  <2> QED BY <2>1, OpenAccountApplies DEF AppliesClean
<1>3. CASE c.kind = "SignUp"
  <2>1. Apply(w, c) = SignedUp(w, c.cash, KeyFor(w))
    BY <1>3, ApplyIs
  <2>2. Applies(w, Apply(w, c), 0, 0) /\ SamePaid(w, Apply(w, c).world)
    BY <2>1, UserSignedUp
  <2> QED BY <2>2 DEF SamePaid
<1>4. CASE c.kind = "JoinUser"
  <2>1. Apply(w, c) = ApplyJoin(w, c)
    BY <1>4, ApplyIs
  <2> QED BY <2>1, JoinApplies DEF AppliesClean
<1>5. CASE c.kind = "ProvisionPlayer"
  <2>1. Apply(w, c) = ApplyProvision(w, c)
    BY <1>5, ApplyIs
  <2> QED BY <2>1, ProvisionApplies DEF AppliesClean
<1> QED BY <1>1, <1>2, <1>3, <1>4, <1>5 DEF Arriving

-----------------------------------------------------------------------------
(* Replay *)

\* The recursion of Replay, and its solutions.
ReplayStep(f, cmds, n) == IF n = 0 THEN Born ELSE Apply(f[n - 1], cmds[n]).world

Replayed(f, cmds, len) == f = [n \in 0 .. len |-> ReplayStep(f, cmds, n)]

\* It has a solution.
LEMMA ReplayExists ==
  ASSUME NEW cmds, NEW len \in Nat
  PROVE  \E f : Replayed(f, cmds, len)
<1> DEFINE T == {n \in Nat : \E f : Replayed(f, cmds, n)}
<1>1. 0 \in T
  <2> DEFINE f == [n \in 0 .. 0 |-> Born]
  <2>1. \A n \in 0 .. 0 : ReplayStep(f, cmds, n) = Born
    BY DEF ReplayStep
  <2>2. Replayed(f, cmds, 0)
    BY <2>1 DEF Replayed
  <2> HIDE DEF f
  <2> QED BY <2>2
<1>2. ASSUME NEW n \in T
      PROVE  n + 1 \in T
  <2>1. n \in Nat
    OBVIOUS
  <2>2. PICK f : Replayed(f, cmds, n)
    OBVIOUS
  <2> DEFINE last == Apply(f[n], cmds[n + 1]).world
             g == [i \in 0 .. n + 1 |-> IF i = n + 1 THEN last ELSE f[i]]
  <2>3. \A i \in 0 .. n : g[i] = f[i] /\ f[i] = ReplayStep(f, cmds, i)
    BY <2>1, <2>2 DEF Replayed
  <2>4. g[n + 1] = Apply(f[n], cmds[n + 1]).world
    BY <2>1
  <2>5. g = [i \in 0 .. n + 1 |-> g[i]]
    OBVIOUS
  <2> HIDE DEF g
  <2>6. ASSUME NEW i \in 0 .. n + 1
        PROVE  g[i] = ReplayStep(g, cmds, i)
    <3>1. CASE i = 0
      BY <3>1, <2>1, <2>3 DEF ReplayStep
    <3>2. CASE i # 0 /\ i <= n
      <4>1. i \in 0 .. n /\ i - 1 \in 0 .. n
        BY <3>2, <2>1
      <4> QED BY <4>1, <3>2, <2>3 DEF ReplayStep
    <3>3. CASE i = n + 1
      <4>1. n \in 0 .. n /\ i - 1 = n /\ i # 0
        BY <3>3, <2>1
      <4> QED BY <4>1, <3>3, <2>3, <2>4 DEF ReplayStep
    <3> QED BY <3>1, <3>2, <3>3, <2>1
  <2>7. g = [i \in 0 .. n + 1 |-> ReplayStep(g, cmds, i)]
    <3>1. [i \in 0 .. n + 1 |-> g[i]] = [i \in 0 .. n + 1 |-> ReplayStep(g, cmds, i)]
      BY <2>6
    <3> QED BY <2>5, <3>1, Zenon
  <2>8. Replayed(g, cmds, n + 1) /\ n + 1 \in Nat
    BY <2>1, <2>7 DEF Replayed
  <2> QED BY <2>8
<1>3. T = Nat
  <2>1. T \in SUBSET Nat
    OBVIOUS
  <2> HIDE DEF T
  <2> QED BY <1>1, <1>2, <2>1, SetInduction
<1> QED BY <1>3

\* Two solutions agree where the commands do.
LEMMA ReplaysAgree ==
  ASSUME NEW cmds, NEW more, NEW n \in Nat, NEW m \in Nat, n <= m,
         \A i \in 1 .. n : cmds[i] = more[i]
  PROVE  \A f, g : Replayed(f, cmds, n) /\ Replayed(g, more, m) => f[n] = g[n]
<1> SUFFICES ASSUME NEW f, Replayed(f, cmds, n), NEW g, Replayed(g, more, m)
             PROVE  f[n] = g[n]
  OBVIOUS
<1> DEFINE T == {i \in Nat : i <= n => f[i] = g[i]}
<1>0. /\ \A i \in 0 .. n : f[i] = ReplayStep(f, cmds, i)
      /\ \A i \in 0 .. n : g[i] = ReplayStep(g, more, i)
  <2>1. \A i \in 0 .. n : i \in 0 .. m
    OBVIOUS
  <2> QED BY <2>1 DEF Replayed
<1>1. 0 \in T
  BY <1>0 DEF ReplayStep
<1>2. ASSUME NEW i \in T
      PROVE  i + 1 \in T
  <2> SUFFICES ASSUME i + 1 <= n PROVE f[i + 1] = g[i + 1]
    OBVIOUS
  <2>1. i + 1 \in 0 .. n /\ i + 1 \in 1 .. n /\ i + 1 # 0 /\ (i + 1) - 1 = i /\ i <= n
    OBVIOUS
  <2>2. f[i] = g[i]
    BY <2>1
  <2> QED BY <2>1, <2>2, <1>0 DEF ReplayStep
<1>3. T = Nat
  <2>1. T \in SUBSET Nat
    OBVIOUS
  <2> HIDE DEF T
  <2> QED BY <1>1, <1>2, <2>1, SetInduction
<1> QED BY <1>3

\* A replay comes to what a solution does.
LEMMA ReplayIs ==
  ASSUME NEW cmds, Len(cmds) \in Nat
  PROVE  \E f : Replayed(f, cmds, Len(cmds)) /\ Replay(cmds) = f[Len(cmds)]
<1> DEFINE len == Len(cmds)
           f == CHOOSE f : f = [n \in 0 .. len |-> IF n = 0 THEN Born ELSE Apply(f[n - 1], cmds[n]).world]
<1>1. Replay(cmds) = f[len]
  BY DEF Replay
<1>2. \E g : g = [n \in 0 .. len |-> IF n = 0 THEN Born ELSE Apply(g[n - 1], cmds[n]).world]
  <2>1. PICK g : Replayed(g, cmds, len)
    BY ReplayExists
  <2> QED BY <2>1, Zenon DEF Replayed, ReplayStep
<1>3. f = [n \in 0 .. len |-> IF n = 0 THEN Born ELSE Apply(f[n - 1], cmds[n]).world]
  BY <1>2
<1>4. Replayed(f, cmds, len)
  BY <1>3 DEF Replayed, ReplayStep
<1> HIDE DEF f
<1> QED BY <1>1, <1>4

\* A replay of nothing is a world just born.
LEMMA ReplayNone ==
  ASSUME NEW cmds, Len(cmds) = 0
  PROVE  Replay(cmds) = Born
<1>1. PICK f : Replayed(f, cmds, 0) /\ Replay(cmds) = f[0]
  BY ReplayIs
<1> QED BY <1>1 DEF Replayed, ReplayStep

\* A replay of one command more applies it last.
LEMMA ReplayMore ==
  ASSUME NEW cmds, NEW more, NEW len \in Nat, Len(cmds) = len, Len(more) = len + 1,
         \A i \in 1 .. len : cmds[i] = more[i]
  PROVE  Replay(more) = Apply(Replay(cmds), more[len + 1]).world
<1>2. PICK f : Replayed(f, cmds, len) /\ Replay(cmds) = f[len]
  BY ReplayIs
<1>3. PICK g : Replayed(g, more, len + 1) /\ Replay(more) = g[len + 1]
  BY ReplayIs
<1>4. f[len] = g[len]
  <2>0. len + 1 \in Nat /\ len <= len + 1
    OBVIOUS
  <2>1. \A p, q : Replayed(p, cmds, len) /\ Replayed(q, more, len + 1) => p[len] = q[len]
    BY <2>0, ReplaysAgree
  <2> QED BY <2>1, <1>2, <1>3
<1>5. g[len + 1] = Apply(g[len], more[len + 1]).world
  <2>1. len + 1 \in 0 .. len + 1 /\ (len + 1) - 1 = len /\ len + 1 # 0
    OBVIOUS
  <2>2. g[len + 1] = ReplayStep(g, more, len + 1)
    BY <1>3, <2>1 DEF Replayed
  <2> QED BY <2>1, <2>2 DEF ReplayStep
<1> QED BY <1>2, <1>3, <1>4, <1>5

\* A world just born is in order: genesis is all there is.
LEMMA BornOK ==
  /\ WorldOK(Born) /\ Money(Born) = GENESIS /\ Budgeted(Born) = 0 /\ Born.paid = <<>>
<1> DEFINE b == Born
<1>1. /\ DOMAIN b = Fields /\ b.next_user = 1 /\ b.next_account = 1 /\ b.next_trader = 1
      /\ b.next_service = 1 /\ b.next_wallet = 2 /\ b.users = <<>> /\ b.keys = <<>>
      /\ b.accounts = <<>> /\ b.traders = <<>> /\ b.players = <<>> /\ b.services = <<>>
      /\ b.wallets = [x \in {Treasury} |-> GENESIS] /\ b.budgets = <<>> /\ b.rules = <<>>
      /\ b.paid = <<>>
  BY DEF Born, Fields, Treasury
<1>2. DOMAIN <<>> = {} /\ 1 .. 1 - 1 = {} /\ 1 .. 2 - 1 = {1} /\ Treasury = 1
  BY DEF Treasury
<1>3. IsFiniteSet({}) /\ Cardinality({}) = 0
  BY FS_EmptySet
<1> HIDE DEF b
<1>4. CountersOK(b)
  <2>1. b.services \in [1 .. b.next_service - 1 -> [key : Nat, revoked : BOOLEAN]]
    BY <1>1, <1>2
  <2> QED BY <1>1, <1>2, <2>1 DEF CountersOK
<1>5. KeysOK(b)
  BY <1>1, <1>2, <1>3 DEF KeysOK
<1>6. AccountsOK(b) /\ TradersOK(b) /\ PlayersOK(b)
  BY <1>1, <1>2 DEF AccountsOK, TradersOK, PlayersOK
<1>7. WalletsOK(b)
  BY <1>1, <1>2, RegistryAssumption DEF WalletsOK
<1>8. PaidOK(b)
  BY <1>1, RegistryAssumption DEF PaidOK
<1>9. Money(b) = GENESIS
  <2>1. GENESIS \in Int /\ IsFiniteSet({1}) /\ {1} \ {1} = {}
    BY RegistryAssumption, FS_Singleton
  <2>2. b.wallets[1] = GENESIS /\ DOMAIN b.wallets = {1}
    BY <1>1, <1>2
  <2> DEFINE g == b.wallets
  <2>3. 1 \in {1} /\ \A x \in {1} : g[x] \in Int
    BY <2>1, <2>2
  <2> HIDE DEF g
  <2>4. SumFunctionOnSet(g, {1}) = g[1] + SumFunctionOnSet(g, {1} \ {1})
    BY <2>1, <2>3, SumRemove
  <2>5. SumFunctionOnSet(g, {}) = 0
    BY SumEmpty
  <2>6. SumFunctionOnSet(g, {1}) = GENESIS
    BY <2>1, <2>2, <2>4, <2>5 DEF g
  <2> QED BY <2>2, <2>6 DEF Money, g
<1>10. Budgeted(b) = 0
  BY <1>1, <1>2, SumEmpty DEF Budgeted
<1> QED BY <1>1, <1>4, <1>5, <1>6, <1>7, <1>8, <1>9, <1>10 DEF WorldOK, b

\* So is one in which some people have arrived.
LEMMA PastReplayed ==
  ASSUME NEW f, PastOK(f)
  PROVE  /\ WorldOK(Replay(f.past)) /\ Money(Replay(f.past)) = GENESIS
         /\ Budgeted(Replay(f.past)) = 0 /\ Replay(f.past).paid = <<>>
<1> DEFINE past == f.past
           len == Len(past)
           At(n) == Replay(SubSeq(past, 1, n))
           Good(w) == WorldOK(w) /\ Money(w) = GENESIS /\ Budgeted(w) = 0 /\ w.paid = <<>>
           T == {n \in Nat : n <= len => Good(At(n))}
<1>1. PICK S : past \in Seq(S)
  BY DEF PastOK
<1>2. len \in Nat
  BY <1>1
<1>3. \A n \in 1 .. len :
        past[n].kind \in Arriving /\ past[n].cash \in Nat /\ past[n].key = KeyFor(At(n - 1))
  BY DEF PastOK
<1> HIDE DEF past
<1>4. 0 \in T
  <2>1. Len(SubSeq(past, 1, 0)) = 0
    BY <1>1
  <2>2. At(0) = Born
    BY <2>1, ReplayNone
  <2> QED BY <2>2, BornOK
<1>5. ASSUME NEW n \in T
      PROVE  n + 1 \in T
  <2> SUFFICES ASSUME n + 1 <= len
               PROVE  Good(At(n + 1))
    OBVIOUS
  <2>1. n \in Nat /\ n + 1 \in 1 .. len /\ (n + 1) - 1 = n
    BY <1>2
  <2> DEFINE w == At(n)
             c == past[n + 1]
             cmds == SubSeq(past, 1, n)
             more == SubSeq(past, 1, n + 1)
  <2>2. Good(w)
    BY <1>2, <2>1
  <2>3. /\ Len(cmds) = n /\ Len(more) = n + 1 /\ more[n + 1] = c
        /\ \A i \in 1 .. n : cmds[i] = more[i]
    BY <1>1, <1>2, <2>1
  <2>4. At(n + 1) = Apply(w, c).world
    <3> HIDE DEF cmds, more, c
    <3>1. Replay(more) = Apply(Replay(cmds), more[n + 1]).world
      BY <2>1, <2>3, ReplayMore
    <3> QED BY <2>3, <3>1 DEF cmds, more
  <2>5. c.kind \in Arriving /\ c.cash \in Nat /\ c.key = KeyFor(w)
    BY <1>3, <2>1
  <2> HIDE DEF w, c, cmds, more
  <2>6. Applies(w, Apply(w, c), 0, 0) /\ Apply(w, c).world.paid = w.paid
    BY <2>2, <2>5, ArrivingApplies
  <2>7. WorldOK(Apply(w, c).world)
    BY <2>6 DEF Applies
  <2>8. Money(Apply(w, c).world) = GENESIS /\ Budgeted(Apply(w, c).world) = 0
    BY <2>2, <2>6, RegistryAssumption DEF Applies
  <2> QED BY <2>2, <2>4, <2>6, <2>7, <2>8
<1>6. T = Nat
  <2>1. T \in SUBSET Nat
    OBVIOUS
  <2> HIDE DEF T
  <2> QED BY <1>4, <1>5, <2>1, SetInduction
<1>7. Good(At(len))
  BY <1>2, <1>6
<1>8. SubSeq(past, 1, len) = past
  BY <1>1
<1> QED BY <1>7, <1>8 DEF past

-----------------------------------------------------------------------------
(* The sources remembered *)

\* No source twice within the length of the log.
PaidOnce(sources) ==
  \A i, j \in DOMAIN sources :
     i < j /\ sources[i] = sources[j] => j - i > REWARD_LOG

\* A source that is not remembered has not been paid for a while; and the
\* log goes on with the latest.
LEMMA PaidAgain ==
  ASSUME NEW paid \in Seq(Sources), NEW sources \in Seq(Sources), Latest(paid, sources),
         PaidOnce(sources), NEW source \in Sources, \A i \in 1 .. Len(paid) : paid[i] # source
  PROVE  /\ Latest(Remembered(Append(paid, source)), Append(sources, source))
         /\ PaidOnce(Append(sources, source)) /\ Append(sources, source) \in Seq(Sources)
<1> DEFINE more == Append(paid, source)
           all == Append(sources, source)
           n == Len(sources)
           k == Len(paid)
           p == Remembered(more)
<1>1. /\ n \in Nat /\ k \in Nat /\ REWARD_LOG \in Nat \ {0}
      /\ k = IF n < REWARD_LOG THEN n ELSE REWARD_LOG
      /\ \A i \in 1 .. k : paid[i] = sources[n - k + i]
  <2>1. n \in Nat /\ k \in Nat
    OBVIOUS
  <2>2. k = IF n < REWARD_LOG THEN n ELSE REWARD_LOG
    BY DEF Latest
  <2>3. \A i \in 1 .. k : paid[i] = sources[n - k + i]
    BY DEF Latest
  <2> QED BY <2>1, <2>2, <2>3, RegistryAssumption
<1>2. /\ all \in Seq(Sources) /\ Len(all) = n + 1 /\ all[n + 1] = source
      /\ \A i \in 1 .. n : all[i] = sources[i]
  OBVIOUS
<1>3. /\ more \in Seq(Sources) /\ Len(more) = k + 1 /\ more[k + 1] = source
      /\ \A i \in 1 .. k : more[i] = paid[i]
  OBVIOUS
<1> HIDE DEF more, all, p
<1>4. /\ Len(p) = IF k + 1 > REWARD_LOG THEN REWARD_LOG ELSE k + 1
      /\ \A i \in 1 .. Len(p) : p[i] = more[(k + 1) - Len(p) + i]
  <2>1. Len(more) <= REWARD_LOG + 1
    BY <1>1, <1>3
  <2>2. /\ Len(p) = IF Len(more) > REWARD_LOG THEN REWARD_LOG ELSE Len(more)
        /\ \A i \in 1 .. Len(p) : p[i] = more[Len(more) - Len(p) + i]
    BY <1>3, <2>1, RememberedIs DEF p
  <2> QED BY <1>3, <2>2
<1> DEFINE m == Len(p)
<1> HIDE DEF n, k, m
<1>5. m = IF n + 1 < REWARD_LOG THEN n + 1 ELSE REWARD_LOG
  BY <1>1, <1>4 DEF m
<1>6. ASSUME NEW i \in 1 .. m
      PROVE  p[i] = all[(n + 1) - m + i]
  <2>1. m \in Nat /\ m <= k + 1 /\ m <= n + 1 /\ k <= n
    BY <1>1, <1>4, <1>5 DEF m
  <2>2. p[i] = more[(k + 1) - m + i]
    BY <1>4 DEF m
  <2>3. CASE i = m
    <3>1. (k + 1) - m + i = k + 1 /\ (n + 1) - m + i = n + 1
      BY <1>1, <2>1, <2>3
    <3> QED BY <1>2, <1>3, <2>2, <3>1
  <2>4. CASE i # m
    <3> DEFINE j == (k + 1) - m + i
    <3>1. j \in 1 .. k /\ n - k + j = (n + 1) - m + i /\ n - k + j \in 1 .. n
      BY <1>1, <2>1, <2>4
    <3>2. more[j] = paid[j] /\ paid[j] = sources[n - k + j]
      BY <1>1, <1>3, <3>1
    <3>3. all[n - k + j] = sources[n - k + j]
      BY <1>2, <3>1
    <3> HIDE DEF j
    <3> QED BY <2>2, <3>1, <3>2, <3>3 DEF j
  <2> QED BY <2>3, <2>4
<1>7. Latest(p, all)
  BY <1>2, <1>5, <1>6 DEF Latest, m
<1>8. ASSUME NEW i \in 1 .. n + 1, NEW j \in 1 .. n + 1, i < j, all[i] = all[j],
             ~(j - i > REWARD_LOG)
      PROVE  FALSE
  <2>1. CASE j <= n
    <3>1. i \in 1 .. n /\ j \in 1 .. n /\ DOMAIN sources = 1 .. n
      BY <1>1, <1>8, <2>1 DEF n
    <3>2. sources[i] = sources[j]
      BY <1>2, <1>8, <3>1
    <3> QED BY <1>8, <3>1, <3>2 DEF PaidOnce
  <2>2. CASE j = n + 1
    <3> DEFINE l == i - (n - k)
    <3>1. i \in 1 .. n /\ l \in 1 .. k /\ n - k + l = i
      BY <1>1, <1>8, <2>2
    <3>2. paid[l] = sources[i]
      BY <1>1, <3>1
    <3>3. sources[i] = source
      BY <1>2, <1>8, <2>2, <3>1
    <3> QED BY <3>1, <3>2, <3>3 DEF k
  <2> QED BY <1>1, <2>1, <2>2
<1>9. PaidOnce(all)
  <2>1. DOMAIN all = 1 .. n + 1
    BY <1>2
  <2> QED BY <1>8, <2>1 DEF PaidOnce
<1> QED BY <1>2, <1>7, <1>9 DEF all, p, more

-----------------------------------------------------------------------------
(* The steps *)

\* A key nobody has is the next one.
LEMMA NewKeyIs ==
  ASSUME WorldOK(world)
  PROVE  NewKey = KeyFor(world) /\ NewKey \in Nat
<1>1. /\ world.next_user \in Nat \ {0} /\ world.next_service \in Nat \ {0}
      /\ Cardinality(DOMAIN world.keys) = world.next_user - 1
      /\ DOMAIN world.services = 1 .. world.next_service - 1
  BY DEF WorldOK, CountersOK, KeysOK
<1>2. Cardinality(1 .. world.next_service - 1) = world.next_service - 1
  <2> DEFINE b == world.next_service - 1
  <2>1. b \in Int /\ b >= 0 /\ 1 \in Int
    BY <1>1
  <2> HIDE DEF b
  <2>2. Cardinality(1 .. b) = IF 1 > b THEN 0 ELSE b - 1 + 1
    BY <2>1, FS_Interval
  <2>3. Cardinality(1 .. b) = b
    BY <2>1, <2>2
  <2> QED BY <2>3 DEF b
<1> QED BY <1>1, <1>2 DEF NewKey, KeyFor

\* What an accepted command adds to what clients were told.
LEMMA HeardIs ==
  ASSUME NEW c, DOMAIN told = {"minted", "funded", "paid"}, told.minted \in Int,
         told.funded \in Int, c.cents \in Nat, c.cash \in Nat
  PROVE  /\ DOMAIN Heard(c) = {"minted", "funded", "paid"}
         /\ c.kind \in {"Mint", "MintToTrader"} =>
              Heard(c).minted = told.minted + c.cents /\ Heard(c).funded = told.funded
         /\ c.kind = "Burn" =>
              Heard(c).minted = told.minted + (0 - c.cents) /\ Heard(c).funded = told.funded
         /\ c.kind \in {"CreateBudget", "FundBudget"} =>
              Heard(c).minted = told.minted /\ Heard(c).funded = told.funded + c.cash
         /\ c.kind \notin {"Mint", "MintToTrader", "Burn", "CreateBudget", "FundBudget"} =>
              Heard(c).minted = told.minted /\ Heard(c).funded = told.funded
         /\ c.kind = "PayReward" => Heard(c).paid = Append(told.paid, c.source)
         /\ c.kind # "PayReward" => Heard(c).paid = told.paid
BY DEF Heard

\* A command answered.
LEMMA RequestSteps ==
  ASSUME RInv, NEW c, Request(c), NEW minted \in Int, NEW funded \in Int,
         NEW now, now = Apply(world, c), Applies(world, now, minted, funded),
         NothingLeft(flow) /\ now.status = "Refused" => now.world = world,
         now.status = "Created" =>
           /\ DOMAIN Heard(c) = {"minted", "funded", "paid"}
           /\ Heard(c).minted = told.minted + minted /\ Heard(c).funded = told.funded + funded
           /\ Heard(c).paid \in Seq(Sources) /\ Latest(now.world.paid, Heard(c).paid)
           /\ PaidOnce(Heard(c).paid),
         now.status # "Created" => now.world.paid = world.paid
  PROVE  RInv' /\ Kept(world, world')
<1>1. /\ world' = now.world /\ flow' = flow /\ restarts' = restarts
      /\ disk' = IF now.status = "Refused" THEN disk ELSE Apply(disk, c).world
      /\ told' = IF now.status = "Created" THEN Heard(c) ELSE told
  BY DEF Request
<1>2. WorldOK(now.world) /\ Kept(world, now.world)
  BY DEF Applies
<1>3. /\ flow \in Flows /\ restarts \in Nat /\ DOMAIN told = {"minted", "funded", "paid"}
      /\ NothingLeft(flow) => world = disk
      /\ told.minted \in Int /\ told.funded \in Int /\ told.paid \in Seq(Sources)
      /\ Money(world) = GENESIS + told.minted /\ Budgeted(world) = told.funded
      /\ Latest(world.paid, told.paid) /\ PaidOnce(told.paid)
  BY DEF RInv, ToldOK, SourcePaidOnce, PaidOnce
<1>4. /\ DOMAIN told' = {"minted", "funded", "paid"}
      /\ told'.minted \in Int /\ told'.funded \in Int /\ told'.paid \in Seq(Sources)
      /\ Money(now.world) = GENESIS + told'.minted /\ Budgeted(now.world) = told'.funded
      /\ Latest(now.world.paid, told'.paid) /\ PaidOnce(told'.paid)
  <2>1. CASE now.status = "Created"
    <3>1. told' = Heard(c)
      BY <1>1, <2>1
    <3>2. /\ Money(now.world) = Money(world) + minted
          /\ Budgeted(now.world) = Budgeted(world) + funded
      BY <2>1 DEF Applies
    <3> HIDE DEF Heard
    <3> QED BY <1>3, <2>1, <3>1, <3>2, RegistryAssumption
  <2>2. CASE now.status # "Created"
    <3>1. told' = told
      BY <1>1, <2>2
    <3>2. Money(now.world) = Money(world) /\ Budgeted(now.world) = Budgeted(world)
      BY <2>2 DEF Applies
    <3> QED BY <1>3, <2>2, <3>1, <3>2
  <2> QED BY <2>1, <2>2
<1>5. NothingLeft(flow) => now.world = disk'
  <2>1. CASE now.status = "Refused"
    BY <1>1, <1>3, <2>1
  <2>2. CASE now.status # "Refused"
    BY <1>1, <1>3, <2>2
  <2> QED BY <2>1, <2>2
<1>6. ToldOK'
  BY <1>1, <1>4 DEF ToldOK, SourcePaidOnce, PaidOnce
<1>7. RInv'
  BY <1>1, <1>2, <1>3, <1>4, <1>5, <1>6 DEF RInv
<1> QED BY <1>1, <1>2, <1>7

\* A command that pays nothing, and is refused without a trace in a flow
\* that asks for no more than there is.
Unpaid(now, minted, funded) ==
  /\ Applies(world, now, minted, funded) /\ now.world.paid = world.paid
  /\ NothingLeft(flow) /\ now.status = "Refused" => now.world = world

\* One that leaves nothing behind in any flow is one.
LEMMA CleanIsUnpaid ==
  ASSUME NEW now, NEW minted, NEW funded, AppliesClean(world, now, minted, funded)
  PROVE  Unpaid(now, minted, funded)
BY DEF AppliesClean, Unpaid

\* Such a command, answered.
LEMMA UnpaidSteps ==
  ASSUME RInv, NEW c, Request(c), NEW minted \in Int, NEW funded \in Int,
         Unpaid(Apply(world, c), minted, funded), c.kind # "PayReward", c.cents \in Nat,
         c.cash \in Nat, Heard(c).minted = told.minted + minted,
         Heard(c).funded = told.funded + funded
  PROVE  RInv' /\ Kept(world, world')
<1> DEFINE now == Apply(world, c)
<1>1. /\ Applies(world, now, minted, funded) /\ now.world.paid = world.paid
      /\ NothingLeft(flow) /\ now.status = "Refused" => now.world = world
  BY DEF Unpaid
<1>2. now = Apply(world, c)
  OBVIOUS
<1> HIDE DEF now
<1>3. /\ DOMAIN told = {"minted", "funded", "paid"} /\ told.minted \in Int /\ told.funded \in Int
      /\ told.paid \in Seq(Sources) /\ Latest(world.paid, told.paid) /\ PaidOnce(told.paid)
  BY DEF RInv, ToldOK, SourcePaidOnce, PaidOnce
<1>4. DOMAIN Heard(c) = {"minted", "funded", "paid"} /\ Heard(c).paid = told.paid
  BY <1>3, HeardIs
<1>5. now.status = "Created" =>
        /\ DOMAIN Heard(c) = {"minted", "funded", "paid"}
        /\ Heard(c).minted = told.minted + minted /\ Heard(c).funded = told.funded + funded
        /\ Heard(c).paid \in Seq(Sources) /\ Latest(now.world.paid, Heard(c).paid)
        /\ PaidOnce(Heard(c).paid)
  BY <1>1, <1>3, <1>4
<1> QED BY <1>1, <1>2, <1>5, RequestSteps

\* A command that moves no currency in or out, and into no budget.
LEMMA QuietSteps ==
  ASSUME RInv, NEW c, Request(c), Unpaid(Apply(world, c), 0, 0), c.cents \in Nat, c.cash \in Nat,
         c.kind \notin {"Mint", "MintToTrader", "Burn", "CreateBudget", "FundBudget", "PayReward"}
  PROVE  RInv' /\ Kept(world, world')
<1>1. DOMAIN told = {"minted", "funded", "paid"} /\ told.minted \in Int /\ told.funded \in Int
  BY DEF RInv, ToldOK
<1>2. Heard(c).minted = told.minted /\ Heard(c).funded = told.funded
  BY <1>1, HeardIs
<1>3. Heard(c).minted = told.minted + 0 /\ Heard(c).funded = told.funded + 0 /\ 0 \in Int
  BY <1>1, <1>2
<1> QED BY <1>3, UnpaidSteps

\* The fields of a command.
LEMMA CommandIs ==
  ASSUME WorldOK(world), NEW kind
  PROVE  LET c == Command(kind) IN
         /\ DOMAIN c = {"kind", "user", "caller", "account", "trader", "service", "wallet",
                        "cash", "cents", "key", "scopes", "external_id", "rule", "source"}
         /\ c.kind = kind /\ c.cash = 0 /\ c.cents = 0 /\ c.key = KeyFor(world) /\ c.key \in Nat
BY NewKeyIs DEF Command, Blank

\* Every action keeps the invariant, and everybody who they are.
LEMMA NextSteps ==
  ASSUME Sound, RInv, Next
  PROVE  RInv' /\ Kept(world, world')
<1>0. /\ WorldOK(world) /\ flow \in Flows /\ restarts \in Nat /\ Amounts \subseteq Nat
      /\ PastOK(flow) /\ (flow.restarts = 0 \/ NothingLeft(flow))
      /\ DOMAIN told = {"minted", "funded", "paid"} /\ told.minted \in Int /\ told.funded \in Int
  BY RegistryAssumption DEF RInv, ToldOK, Sound
<1> HIDE DEF Sound
<1>1. CASE CreateUser
  <2>1. Request(Command("CreateUser"))
    BY <1>1 DEF CreateUser
  <2> DEFINE c == Command("CreateUser")
  <2>2. Request(c)
    BY <2>1
  <2>3. c.kind = "CreateUser" /\ c.key = KeyFor(world) /\ c.cents \in Nat /\ c.cash \in Nat
    BY <1>0, CommandIs
  <2> HIDE DEF c
  <2>4. Apply(world, c) = Accepted(InsertUser(world, KeyFor(world)))
    BY <2>3, ApplyIs
  <2>5. AppliesClean(world, Apply(world, c), 0, 0)
    BY <1>0, <2>3, <2>4, UserApplies
  <2> QED BY <2>2, <2>3, <2>5, CleanIsUnpaid, QuietSteps
<1>2. CASE OpenAccount
  <2>1. PICK user \in Ids, cash \in Amounts :
          Request([Command("OpenAccount") EXCEPT !.user = user, !.cash = cash])
    BY <1>2 DEF OpenAccount
  <2> DEFINE c == [Command("OpenAccount") EXCEPT !.user = user, !.cash = cash]
  <2>2. Request(c)
    BY <2>1
  <2>3. c.kind = "OpenAccount" /\ c.cents \in Nat /\ c.cash \in Nat
    BY <1>0, CommandIs
  <2> HIDE DEF c
  <2>4. Apply(world, c) = ApplyOpenAccount(world, c)
    BY <2>3, ApplyIs
  <2>5. AppliesClean(world, Apply(world, c), 0, 0)
    BY <1>0, <2>3, <2>4, OpenAccountApplies
  <2> QED BY <2>2, <2>3, <2>5, CleanIsUnpaid, QuietSteps
<1>3. CASE SignUp
  <2>1. PICK cash \in flow.sign_up_cash : Request([Command("SignUp") EXCEPT !.cash = cash])
    BY <1>3 DEF SignUp
  <2> DEFINE c == [Command("SignUp") EXCEPT !.cash = cash]
             now == Apply(world, c)
  <2>2. Request(c)
    BY <2>1
  <2>3. c.kind = "SignUp" /\ c.key = KeyFor(world) /\ c.cents \in Nat /\ c.cash \in Nat
        /\ c.cash = cash
    BY <1>0, CommandIs DEF PastOK
  <2> HIDE DEF c
  <2>4. now = SignedUp(world, c.cash, KeyFor(world))
    BY <2>3, ApplyIs
  <2> HIDE DEF now
  <2>5. /\ Applies(world, now, 0, 0) /\ SamePaid(world, now.world)
        /\ now.status = "Refused" => c.cash # 0
    BY <1>0, <2>3, <2>4, UserSignedUp
  <2>6. NothingLeft(flow) => c.cash = 0
    BY <2>1, <2>3 DEF NothingLeft
  <2>7. Unpaid(now, 0, 0)
    BY <2>5, <2>6 DEF Unpaid, SamePaid
  <2> QED BY <2>2, <2>3, <2>7, QuietSteps DEF now
<1>4. CASE JoinUser
  <2>1. PICK user \in Ids, caller \in Ids, account \in Ids \cup {None}, cash \in Amounts :
          Request([Command("JoinUser") EXCEPT !.user = user, !.caller = caller,
                                          !.account = account, !.cash = cash])
    BY <1>4 DEF JoinUser
  <2> DEFINE c == [Command("JoinUser") EXCEPT !.user = user, !.caller = caller,
                                          !.account = account, !.cash = cash]
  <2>2. Request(c)
    BY <2>1
  <2>3. c.kind = "JoinUser" /\ c.cents \in Nat /\ c.cash \in Nat
    BY <1>0, CommandIs
  <2> HIDE DEF c
  <2>4. Apply(world, c) = ApplyJoin(world, c)
    BY <2>3, ApplyIs
  <2>5. AppliesClean(world, Apply(world, c), 0, 0)
    BY <1>0, <2>3, <2>4, JoinApplies
  <2> QED BY <2>2, <2>3, <2>5, CleanIsUnpaid, QuietSteps
<1>5. CASE ProvisionPlayer
  <2>1. PICK id \in ExternalIds :
          Request([Command("ProvisionPlayer") EXCEPT !.external_id = id])
    BY <1>5 DEF ProvisionPlayer
  <2> DEFINE c == [Command("ProvisionPlayer") EXCEPT !.external_id = id]
  <2>2. Request(c)
    BY <2>1
  <2>3. c.kind = "ProvisionPlayer" /\ c.key = KeyFor(world) /\ c.cents \in Nat /\ c.cash \in Nat
    BY <1>0, CommandIs
  <2> HIDE DEF c
  <2>4. Apply(world, c) = ApplyProvision(world, c)
    BY <2>3, ApplyIs
  <2>5. AppliesClean(world, Apply(world, c), 0, 0)
    BY <1>0, <2>3, <2>4, ProvisionApplies
  <2> QED BY <2>2, <2>3, <2>5, CleanIsUnpaid, QuietSteps
<1>6. CASE CreateService
  <2>1. PICK scopes \in {{}, {"Reward"}} :
          Request([Command("CreateService") EXCEPT !.scopes = scopes])
    BY <1>6 DEF CreateService
  <2> DEFINE c == [Command("CreateService") EXCEPT !.scopes = scopes]
  <2>2. Request(c)
    BY <2>1
  <2>3. c.kind = "CreateService" /\ c.key \in Nat /\ c.cents \in Nat /\ c.cash \in Nat
    BY <1>0, CommandIs
  <2> HIDE DEF c
  <2>4. Apply(world, c) = ApplyCreateService(world, c)
    BY <2>3, ApplyIs
  <2>5. AppliesClean(world, Apply(world, c), 0, 0)
    BY <1>0, <2>3, <2>4, ServiceApplies
  <2> QED BY <2>2, <2>3, <2>5, CleanIsUnpaid, QuietSteps
<1>7. CASE RevokeService
  <2>1. PICK service \in Ids :
          Request([Command("RevokeService") EXCEPT !.service = service])
    BY <1>7 DEF RevokeService
  <2> DEFINE c == [Command("RevokeService") EXCEPT !.service = service]
  <2>2. Request(c)
    BY <2>1
  <2>3. c.kind = "RevokeService" /\ c.cents \in Nat /\ c.cash \in Nat
    BY <1>0, CommandIs
  <2> HIDE DEF c
  <2>4. Apply(world, c) = ApplyRevokeService(world, c)
    BY <2>3, ApplyIs
  <2>5. AppliesClean(world, Apply(world, c), 0, 0)
    BY <1>0, <2>3, <2>4, RevokeApplies
  <2> QED BY <2>2, <2>3, <2>5, CleanIsUnpaid, QuietSteps
<1>8. CASE SetRewardRule
  <2>1. PICK rule \in RuleIds, wallet \in DOMAIN world.wallets, cents \in Amounts :
          Request([Command("SetRewardRule") EXCEPT !.rule = rule, !.wallet = wallet,
                                               !.cents = cents])
    BY <1>8 DEF SetRewardRule
  <2> DEFINE c == [Command("SetRewardRule") EXCEPT !.rule = rule, !.wallet = wallet,
                                               !.cents = cents]
  <2>2. Request(c)
    BY <2>1
  <2>3. c.kind = "SetRewardRule" /\ c.cents \in Nat /\ c.cash \in Nat
    BY <1>0, CommandIs
  <2> HIDE DEF c
  <2>4. Apply(world, c) = ApplySetRewardRule(world, c)
    BY <2>3, ApplyIs
  <2>5. AppliesClean(world, Apply(world, c), 0, 0)
    BY <1>0, <2>3, <2>4, SetRuleApplies
  <2> QED BY <2>2, <2>3, <2>5, CleanIsUnpaid, QuietSteps
<1>9. CASE RemoveRewardRule
  <2>1. PICK rule \in RuleIds :
          Request([Command("RemoveRewardRule") EXCEPT !.rule = rule])
    BY <1>9 DEF RemoveRewardRule
  <2> DEFINE c == [Command("RemoveRewardRule") EXCEPT !.rule = rule]
  <2>2. Request(c)
    BY <2>1
  <2>3. c.kind = "RemoveRewardRule" /\ c.cents \in Nat /\ c.cash \in Nat
    BY <1>0, CommandIs
  <2> HIDE DEF c
  <2>4. Apply(world, c) = ApplyRemoveRewardRule(world, c)
    BY <2>3, ApplyIs
  <2>5. AppliesClean(world, Apply(world, c), 0, 0)
    BY <1>0, <2>3, <2>4, RemoveRuleApplies
  <2> QED BY <2>2, <2>3, <2>5, CleanIsUnpaid, QuietSteps
<1>10. CASE Mint
  <2>1. PICK account \in Ids, cents \in Amounts :
          Request([Command("Mint") EXCEPT !.account = account, !.cents = cents])
    BY <1>10 DEF Mint
  <2> DEFINE c == [Command("Mint") EXCEPT !.account = account, !.cents = cents]
  <2>2. Request(c)
    BY <2>1
  <2>3. c.kind = "Mint" /\ c.cents \in Nat /\ c.cash \in Nat
    BY <1>0, CommandIs
  <2> HIDE DEF c
  <2>4. Apply(world, c) = ApplyMint(world, c)
    BY <2>3, ApplyIs
  <2>5. Unpaid(Apply(world, c), c.cents, 0)
    BY <1>0, <2>3, <2>4, MintApplies, CleanIsUnpaid
  <2>6. Heard(c).minted = told.minted + c.cents /\ Heard(c).funded = told.funded + 0
    <3>1. Heard(c).minted = told.minted + c.cents /\ Heard(c).funded = told.funded
      BY <1>0, <2>3, HeardIs
    <3> QED BY <1>0, <3>1
  <2>7. c.cents \in Int /\ 0 \in Int
    BY <2>3
  <2> QED BY <2>2, <2>3, <2>5, <2>6, <2>7, UnpaidSteps
<1>11. CASE MintToTrader
  <2>1. PICK trader \in Ids, cents \in Amounts :
          Request([Command("MintToTrader") EXCEPT !.trader = trader, !.cents = cents])
    BY <1>11 DEF MintToTrader
  <2> DEFINE c == [Command("MintToTrader") EXCEPT !.trader = trader, !.cents = cents]
  <2>2. Request(c)
    BY <2>1
  <2>3. c.kind = "MintToTrader" /\ c.cents \in Nat /\ c.cash \in Nat /\ "account" \in DOMAIN c
    BY <1>0, CommandIs
  <2> HIDE DEF c
  <2>4. Apply(world, c) = ApplyMintToTrader(world, c)
    BY <2>3, ApplyIs
  <2>5. Unpaid(Apply(world, c), c.cents, 0)
    BY <1>0, <2>3, <2>4, MintToTraderApplies, CleanIsUnpaid
  <2>6. Heard(c).minted = told.minted + c.cents /\ Heard(c).funded = told.funded + 0
    <3>1. Heard(c).minted = told.minted + c.cents /\ Heard(c).funded = told.funded
      BY <1>0, <2>3, HeardIs
    <3> QED BY <1>0, <3>1
  <2>7. c.cents \in Int /\ 0 \in Int
    BY <2>3
  <2> QED BY <2>2, <2>3, <2>5, <2>6, <2>7, UnpaidSteps
<1>12. CASE Burn
  <2>1. PICK account \in Ids, cents \in Amounts :
          Request([Command("Burn") EXCEPT !.account = account, !.cents = cents])
    BY <1>12 DEF Burn
  <2> DEFINE c == [Command("Burn") EXCEPT !.account = account, !.cents = cents]
  <2>2. Request(c)
    BY <2>1
  <2>3. c.kind = "Burn" /\ c.cents \in Nat /\ c.cash \in Nat
    BY <1>0, CommandIs
  <2> HIDE DEF c
  <2>4. Apply(world, c) = ApplyBurn(world, c)
    BY <2>3, ApplyIs
  <2>5. Unpaid(Apply(world, c), (0 - c.cents), 0)
    BY <1>0, <2>3, <2>4, BurnApplies, CleanIsUnpaid
  <2>6. Heard(c).minted = told.minted + (0 - c.cents) /\ Heard(c).funded = told.funded + 0
    <3>1. Heard(c).minted = told.minted + (0 - c.cents) /\ Heard(c).funded = told.funded
      BY <1>0, <2>3, HeardIs
    <3> QED BY <1>0, <3>1
  <2>7. (0 - c.cents) \in Int /\ 0 \in Int
    BY <2>3
  <2> QED BY <2>2, <2>3, <2>5, <2>6, <2>7, UnpaidSteps
<1>13. CASE FundBudget
  <2>1. PICK wallet \in DOMAIN world.wallets, cash \in Amounts :
          Request([Command("FundBudget") EXCEPT !.wallet = wallet, !.cash = cash])
    BY <1>13 DEF FundBudget
  <2> DEFINE c == [Command("FundBudget") EXCEPT !.wallet = wallet, !.cash = cash]
  <2>2. Request(c)
    BY <2>1
  <2>3. c.kind = "FundBudget" /\ c.cents \in Nat /\ c.cash \in Nat
    BY <1>0, CommandIs
  <2> HIDE DEF c
  <2>4. Apply(world, c) = ApplyFundBudget(world, c)
    BY <2>3, ApplyIs
  <2>5. Unpaid(Apply(world, c), 0, c.cash)
    BY <1>0, <2>3, <2>4, FundBudgetApplies, CleanIsUnpaid
  <2>6. Heard(c).minted = told.minted + 0 /\ Heard(c).funded = told.funded + c.cash
    <3>1. Heard(c).minted = told.minted /\ Heard(c).funded = told.funded + c.cash
      BY <1>0, <2>3, HeardIs
    <3> QED BY <1>0, <3>1
  <2>7. 0 \in Int /\ c.cash \in Int
    BY <2>3
  <2> QED BY <2>2, <2>3, <2>5, <2>6, <2>7, UnpaidSteps
<1>14. CASE CreateBudget
  <2>1. PICK cash \in Amounts : Request([Command("CreateBudget") EXCEPT !.cash = cash])
    BY <1>14 DEF CreateBudget
  <2> DEFINE c == [Command("CreateBudget") EXCEPT !.cash = cash]
             now == Apply(world, c)
  <2>2. Request(c)
    BY <2>1
  <2>3. c.kind = "CreateBudget" /\ c.cents \in Nat /\ c.cash \in Nat
    BY <1>0, CommandIs
  <2> HIDE DEF c
  <2>4. now = ApplyCreateBudget(world, c)
    BY <2>3, ApplyIs
  <2> HIDE DEF now
  <2>5. /\ Applies(world, now, 0, c.cash) /\ SamePaid(world, now.world)
        /\ now.status = "Refused" =>
             now.world = world \/ Cardinality(DOMAIN world.budgets) >= MAX_BUDGETS
    BY <1>0, <2>3, <2>4, CreateBudgetApplies DEF SamePaid
  <2>6. ~(NothingLeft(flow) /\ Cardinality(DOMAIN world.budgets) >= MAX_BUDGETS)
    <3>1. Cardinality(DOMAIN world.budgets) \in Nat
      BY <1>0, MoneyIs, FS_CardinalityType
    <3>2. Cardinality(DOMAIN world.budgets) < flow.budgets
      BY <1>14 DEF CreateBudget
    <3> QED BY <1>0, <3>1, <3>2, RegistryAssumption DEF NothingLeft, PastOK
  <2>7. Unpaid(now, 0, c.cash)
    BY <2>5, <2>6 DEF Unpaid, SamePaid
  <2>8. Heard(c).minted = told.minted + 0 /\ Heard(c).funded = told.funded + c.cash
    <3>1. Heard(c).minted = told.minted /\ Heard(c).funded = told.funded + c.cash
      BY <1>0, <2>3, HeardIs
    <3> QED BY <1>0, <3>1
  <2>9. 0 \in Int /\ c.cash \in Int
    BY <2>3
  <2> QED BY <2>2, <2>3, <2>7, <2>8, <2>9, UnpaidSteps DEF now
<1>15. CASE PayReward
  <2>1. PICK rule \in RuleIds, trader \in Ids, source \in Sources :
          Request([Command("PayReward") EXCEPT !.rule = rule, !.trader = trader,
                                               !.source = source])
    BY <1>15 DEF PayReward
  <2> DEFINE c == [Command("PayReward") EXCEPT !.rule = rule, !.trader = trader,
                                               !.source = source]
             now == Apply(world, c)
  <2>2. Request(c)
    BY <2>1
  <2>3. c.kind = "PayReward" /\ c.cents \in Nat /\ c.cash \in Nat /\ c.source \in Sources
    BY <1>0, CommandIs
  <2> HIDE DEF c
  <2>4. now = ApplyPayReward(world, c)
    BY <2>3, ApplyIs
  <2>5. now = Apply(world, c)
    OBVIOUS
  <2> HIDE DEF now
  <2>6. /\ Applies(world, now, 0, 0)
        /\ now.status = "Refused" => now.world = world
        /\ now.status = "Created" =>
             /\ now.world.paid = Remembered(Append(world.paid, c.source))
             /\ \A i \in 1 .. Len(world.paid) : world.paid[i] # c.source
        /\ now.status # "Created" => now.world.paid = world.paid
    BY <1>0, <2>3, <2>4, PayRewardApplies
  <2>7. /\ DOMAIN Heard(c) = {"minted", "funded", "paid"}
        /\ Heard(c).minted = told.minted + 0 /\ Heard(c).funded = told.funded + 0
        /\ Heard(c).paid = Append(told.paid, c.source)
    <3>1. Heard(c).minted = told.minted /\ Heard(c).funded = told.funded
      BY <1>0, <2>3, HeardIs
    <3>2. DOMAIN Heard(c) = {"minted", "funded", "paid"} /\ Heard(c).paid = Append(told.paid, c.source)
      BY <1>0, <2>3, HeardIs
    <3> QED BY <1>0, <3>1, <3>2
  <2>8. /\ world.paid \in Seq(Sources) /\ told.paid \in Seq(Sources)
        /\ Latest(world.paid, told.paid) /\ PaidOnce(told.paid)
    BY <1>0 DEF RInv, ToldOK, SourcePaidOnce, PaidOnce, WorldOK, PaidOK
  <2>9. now.status = "Created" =>
          /\ Heard(c).paid \in Seq(Sources) /\ Latest(now.world.paid, Heard(c).paid)
          /\ PaidOnce(Heard(c).paid)
    <3> SUFFICES ASSUME now.status = "Created"
                 PROVE  /\ Heard(c).paid \in Seq(Sources)
                        /\ Latest(now.world.paid, Heard(c).paid) /\ PaidOnce(Heard(c).paid)
      OBVIOUS
    <3>1. /\ Latest(Remembered(Append(world.paid, c.source)), Append(told.paid, c.source))
          /\ PaidOnce(Append(told.paid, c.source)) /\ Append(told.paid, c.source) \in Seq(Sources)
      BY <2>3, <2>6, <2>8, PaidAgain
    <3> QED BY <2>6, <2>7, <3>1
  <2>10. /\ Applies(world, now, 0, 0) /\ 0 \in Int
         /\ NothingLeft(flow) /\ now.status = "Refused" => now.world = world
         /\ now.status = "Created" =>
              /\ DOMAIN Heard(c) = {"minted", "funded", "paid"}
              /\ Heard(c).minted = told.minted + 0 /\ Heard(c).funded = told.funded + 0
              /\ Heard(c).paid \in Seq(Sources) /\ Latest(now.world.paid, Heard(c).paid)
              /\ PaidOnce(Heard(c).paid)
         /\ now.status # "Created" => now.world.paid = world.paid
    BY <2>6, <2>7, <2>9
  <2> QED BY <2>2, <2>5, <2>10, RequestSteps
<1>16. CASE Restart
  <2>1. restarts < flow.restarts /\ restarts' = restarts + 1 /\ world' = disk
        /\ disk' = disk /\ told' = told /\ flow' = flow
    BY <1>16 DEF Restart
  <2>2. NothingLeft(flow)
    BY <1>0, <2>1
  <2>3. world' = world /\ disk' = disk
    BY <2>1, <2>2 DEF RInv
  <2>4. ToldOK'
    BY <2>1, <2>3 DEF RInv, ToldOK, SourcePaidOnce
  <2>5. RInv'
    BY <1>0, <2>1, <2>3, <2>4 DEF RInv
  <2>6. Kept(world, world')
    BY <2>3, KeptIs
  <2> QED BY <2>5, <2>6
<1> QED BY <1>1, <1>2, <1>3, <1>4, <1>5, <1>6, <1>7, <1>8, <1>9, <1>10, <1>11, <1>12, <1>13, <1>14, <1>15, <1>16 DEF Next

-----------------------------------------------------------------------------
(* The invariant, and what it implies *)

\* A behaviour starts with the people who arrived before it.
LEMMA InitInv ==
  ASSUME Sound, Init
  PROVE  RInv
<1>1. /\ flow \in Flows /\ world = Replay(flow.past) /\ disk = world /\ restarts = 0
      /\ told = [minted |-> 0, funded |-> 0, paid |-> <<>>]
  BY DEF Init
<1>2. PastOK(flow)
  BY <1>1 DEF Sound
<1>3. WorldOK(world) /\ Money(world) = GENESIS /\ Budgeted(world) = 0 /\ world.paid = <<>>
  BY <1>1, <1>2, PastReplayed
<1>4. Latest(<<>>, <<>>) /\ DOMAIN <<>> = {} /\ <<>> \in Seq(Sources)
  BY RegistryAssumption DEF Latest
<1>5. SourcePaidOnce
  BY <1>1, <1>4 DEF SourcePaidOnce
<1>6. ToldOK
  BY <1>1, <1>3, <1>4, <1>5, RegistryAssumption DEF ToldOK
<1> QED BY <1>1, <1>3, <1>6 DEF RInv

\* A step of the specification, or none.
LEMMA StepInv ==
  ASSUME Sound, RInv, [Next]_vars
  PROVE  RInv' /\ Kept(world, world')
<1>1. CASE Next
  BY <1>1, NextSteps
<1>2. CASE UNCHANGED vars
  <2>1. /\ world' = world /\ disk' = disk /\ told' = told /\ flow' = flow
        /\ restarts' = restarts
    BY <1>2 DEF vars
  <2>2. ToldOK'
    BY <2>1 DEF RInv, ToldOK, SourcePaidOnce
  <2>3. RInv'
    BY <2>1, <2>2 DEF RInv
  <2>4. Kept(world, world')
    BY <2>1, KeptIs
  <2> QED BY <2>3, <2>4
<1> QED BY <1>1, <1>2

\* The invariant says what the runs check.
LEMMA InvImplies ==
  ASSUME RInv
  PROVE  TypeOK /\ CurrencyIsAccounted /\ SourcePaidOnce /\ OwnershipAgrees
<1>1. WorldOK(world) /\ ToldOK
  BY DEF RInv
<1>2. TypeOK
  <2>1. /\ DOMAIN world.users = 1 .. world.next_user - 1
        /\ DOMAIN world.accounts = 1 .. world.next_account - 1
        /\ DOMAIN world.traders = 1 .. world.next_trader - 1
        /\ DOMAIN world.services = 1 .. world.next_service - 1
    BY <1>1 DEF WorldOK, CountersOK
  <2>2. world.wallets \in [1 .. world.next_wallet - 1 -> Nat]
    BY <1>1 DEF WorldOK, WalletsOK
  <2>3. Len(world.paid) <= REWARD_LOG
    BY <1>1 DEF WorldOK, PaidOK
  <2> QED BY <2>1, <2>2, <2>3 DEF TypeOK
<1>3. CurrencyIsAccounted
  <2>1. SumFunction(world.wallets) = GENESIS + told.minted
    BY <1>1 DEF ToldOK, Money, SumFunction
  <2>2. SumFunctionOnSet(PutIn(world), DOMAIN PutIn(world)) = told.funded
    BY <1>1 DEF ToldOK, Budgeted, PutIn
  <2>3. \A f : FoldFunction(+, 0, f) = SumFunctionOnSet(f, DOMAIN f)
    BY DEF FoldFunction, SumFunctionOnSet
  <2>4. told.funded = FoldFunction(+, 0, PutIn(world))
    BY <2>2, <2>3
  <2> QED BY <2>1, <2>4 DEF CurrencyIsAccounted, PutIn
<1>4. OwnershipAgrees
  <2>1. IsInjective(world.keys) /\ Range(world.keys) = DOMAIN world.users
    BY <1>1 DEF WorldOK, KeysOK, IsInjective, Range
  <2>2. \A u \in DOMAIN world.users :
           world.users[u] = {a \in DOMAIN world.accounts : world.accounts[a].user = u}
    BY <1>1 DEF WorldOK, AccountsOK
  <2>3. \A t \in DOMAIN world.traders :
           world.accounts[world.traders[t].account].user = world.traders[t].user
    BY <1>1 DEF WorldOK, TradersOK
  <2>4. \A x \in DOMAIN world.players :
           /\ world.traders[world.players[x].trader] =
                [user |-> world.players[x].user, account |-> world.players[x].account]
           /\ \A y \in DOMAIN world.players \ {x} : world.players[y].user # world.players[x].user
    BY <1>1 DEF WorldOK, PlayersOK
  <2> QED BY <2>1, <2>2, <2>3, <2>4 DEF OwnershipAgrees
<1>5. SourcePaidOnce
  BY <1>1 DEF ToldOK
<1> QED BY <1>2, <1>3, <1>4, <1>5

\* The invariant holds in every reachable state, for every genesis, every
\* limit, every sequence of arrivals before and any number of requests.
THEOREM RegistryInvariant ==
  ASSUME Sound
  PROVE  Spec => []RInv
<1>1. Init => RInv
  BY InitInv
<1>2. RInv /\ [Next]_vars => RInv'
  BY StepInv
<1> QED BY <1>1, <1>2, PTL DEF Spec

\* Ids are dense and no wallet is overdrawn, in every reachable state.
THEOREM RegistryTypes ==
  ASSUME Sound
  PROVE  Spec => []TypeOK
<1>1. RInv => TypeOK
  BY InvImplies
<1>2. Spec => []RInv
  BY RegistryInvariant
<1> QED BY <1>1, <1>2, PTL

\* What the wallets hold is what genesis, the mints and the burns made; and
\* what clients put into budgets is there or was paid out, to the cent.
THEOREM CurrencyAlwaysAccounted ==
  ASSUME Sound
  PROVE  Spec => []CurrencyIsAccounted
<1>1. RInv => CurrencyIsAccounted
  BY InvImplies
<1>2. Spec => []RInv
  BY RegistryInvariant
<1> QED BY <1>1, <1>2, PTL

\* No source is paid twice within the length of the log, whatever rule or
\* trader it is claimed for, restarts included.
THEOREM SourcesPaidOnce ==
  ASSUME Sound
  PROVE  Spec => []SourcePaidOnce
<1>1. RInv => SourcePaidOnce
  BY InvImplies
<1>2. Spec => []RInv
  BY RegistryInvariant
<1> QED BY <1>1, <1>2, PTL

\* Who is who is settled once: the directories agree, and no step, a
\* restart's included, changes what a client was told of anybody.
THEOREM IdentitiesAlwaysStand ==
  ASSUME Sound
  PROVE  Spec => IdentitiesStand
<1>1. RInv => OwnershipAgrees
  BY InvImplies
<1>2. RInv /\ [Next]_vars =>
        [/\ \A k \in DOMAIN world.keys :
              k \in DOMAIN world.keys' /\ world.keys'[k] = world.keys[k]
         /\ \A a \in DOMAIN world.accounts :
              a \in DOMAIN world.accounts' /\ world.accounts'[a] = world.accounts[a]
         /\ \A t \in DOMAIN world.traders :
              t \in DOMAIN world.traders' /\ world.traders'[t] = world.traders[t]
         /\ \A x \in DOMAIN world.players :
              x \in DOMAIN world.players' /\ world.players'[x] = world.players[x]
         /\ \A s \in DOMAIN world.services :
              world.services[s].revoked =>
                 s \in DOMAIN world.services' /\ world.services'[s].revoked]_vars
  BY StepInv DEF Kept
<1>3. Spec => []RInv
  BY RegistryInvariant
<1> QED BY <1>1, <1>2, <1>3, PTL DEF Spec, IdentitiesStand, NamesStand

-----------------------------------------------------------------------------
(* What a refusal leaves behind *)

\* The kinds of command there are.
Kinds ==
  Arriving \cup {"CreateService", "RevokeService", "Mint", "MintToTrader", "Burn", "CreateBudget",
                 "FundBudget", "SetRewardRule", "RemoveRewardRule", "PayReward"}

\* What a refused command may leave.
LeftBy(w, left) == left = w \/ LeftUser(w, left) \/ LeftWallet(w, left)

\* An account that is refused is not opened.
LEMMA RefusedAccount ==
  ASSUME NEW w, NEW user, NEW cash, OpenAccountFor(w, user, cash).status = "Refused"
  PROVE  OpenAccountFor(w, user, cash).world = w
BY DEF OpenAccountFor, Accepted, Refused

\* A refused sign-up has made its user.
LEMMA RefusedSignUp ==
  ASSUME NEW w, NEW cash, NEW key, SignedUp(w, cash, key).status = "Refused"
  PROVE  LeftUser(w, SignedUp(w, cash, key).world)
<1> DEFINE made == InsertUser(w, key)
           account == OpenAccountFor(made, w.next_user, cash)
<1>1. account.status = "Refused" /\ SignedUp(w, cash, key) = account
  BY DEF SignedUp, Accepted
<1>2. account.world = made
  BY <1>1, RefusedAccount
<1>3. key \in DOMAIN made.keys
  BY DEF InsertUser, With
<1> QED BY <1>1, <1>2, <1>3 DEF LeftUser

\* A budget refused for want of room has been opened and paid for.
LEMMA RefusedBudget ==
  ASSUME NEW w, NEW c, ApplyCreateBudget(w, c).status = "Refused"
  PROVE  LeftBy(w, ApplyCreateBudget(w, c).world)
<1>1. CASE c.cash # 0 /\ ~(Transferable(c.cash) /\ c.cash <= w.wallets[Treasury])
  BY <1>1 DEF ApplyCreateBudget, Refused, LeftBy
<1>2. CASE ~(c.cash # 0 /\ ~(Transferable(c.cash) /\ c.cash <= w.wallets[Treasury]))
  <2> DEFINE opened == Move(OpenWallet(w, 0), Treasury, w.next_wallet, c.cash)
  <2>1. /\ Cardinality(DOMAIN w.budgets) >= MAX_BUDGETS
        /\ ApplyCreateBudget(w, c).world = opened
    BY <1>2 DEF ApplyCreateBudget, Accepted, Refused
  <2>2. c.cash \in {0} \cup 1 .. w.wallets[Treasury]
    BY <1>2, RegistryAssumption DEF Transferable
  <2> HIDE DEF opened
  <2>3. LeftWallet(w, opened)
    BY <2>1, <2>2 DEF LeftWallet, opened
  <2> QED BY <2>1, <2>3 DEF LeftBy
<1> QED BY <1>1, <1>2

\* Of all the commands only these two leave anything.
LEMMA RefusedLeaves ==
  ASSUME NEW w, NEW c, c.kind \in Kinds, Apply(w, c).status = "Refused"
  PROVE  LeftBy(w, Apply(w, c).world)
<1>1. CASE c.kind = "CreateUser"
  BY <1>1, ApplyIs DEF Accepted
<1>2. CASE c.kind = "OpenAccount"
  <2>1. Apply(w, c) = ApplyOpenAccount(w, c)
    BY <1>2, ApplyIs
  <2> QED BY <2>1, RefusedAccount DEF ApplyOpenAccount, Refused, LeftBy
<1>3. CASE c.kind = "SignUp"
  <2>1. Apply(w, c) = SignedUp(w, c.cash, c.key)
    BY <1>3, ApplyIs
  <2> QED BY <2>1, RefusedSignUp DEF LeftBy
<1>4. CASE c.kind = "JoinUser"
  <2>1. Apply(w, c) = ApplyJoin(w, c)
    BY <1>4, ApplyIs
  <2> QED BY <2>1, RefusedAccount DEF ApplyJoin, Accepted, Refused, LeftBy
<1>5. CASE c.kind = "ProvisionPlayer"
  <2>1. Apply(w, c) = ApplyProvision(w, c)
    BY <1>5, ApplyIs
  <2> QED BY <2>1 DEF ApplyProvision, Accepted, Repeated
<1>6. CASE c.kind = "CreateService"
  <2>1. Apply(w, c) = ApplyCreateService(w, c)
    BY <1>6, ApplyIs
  <2> QED BY <2>1 DEF ApplyCreateService, Accepted, Refused, LeftBy
<1>7. CASE c.kind = "RevokeService"
  <2>1. Apply(w, c) = ApplyRevokeService(w, c)
    BY <1>7, ApplyIs
  <2> QED BY <2>1 DEF ApplyRevokeService, Accepted, Refused, LeftBy
<1>8. CASE c.kind = "Mint"
  <2>1. Apply(w, c) = ApplyMint(w, c)
    BY <1>8, ApplyIs
  <2> QED BY <2>1 DEF ApplyMint, Accepted, Refused, LeftBy
<1>9. CASE c.kind = "MintToTrader"
  <2>1. Apply(w, c) = ApplyMintToTrader(w, c)
    BY <1>9, ApplyIs
  <2>2. \A d : ApplyMint(w, d).status = "Refused" => ApplyMint(w, d).world = w
    BY DEF ApplyMint, Accepted, Refused
  <2> QED BY <2>1, <2>2 DEF ApplyMintToTrader, Refused, LeftBy
<1>10. CASE c.kind = "Burn"
  <2>1. Apply(w, c) = ApplyBurn(w, c)
    BY <1>10, ApplyIs
  <2> QED BY <2>1 DEF ApplyBurn, Accepted, Refused, LeftBy
<1>11. CASE c.kind = "CreateBudget"
  <2>1. Apply(w, c) = ApplyCreateBudget(w, c)
    BY <1>11, ApplyIs
  <2> QED BY <2>1, RefusedBudget
<1>12. CASE c.kind = "FundBudget"
  <2>1. Apply(w, c) = ApplyFundBudget(w, c)
    BY <1>12, ApplyIs
  <2> QED BY <2>1 DEF ApplyFundBudget, Accepted, Refused, LeftBy
<1>13. CASE c.kind = "SetRewardRule"
  <2>1. Apply(w, c) = ApplySetRewardRule(w, c)
    BY <1>13, ApplyIs
  <2> QED BY <2>1 DEF ApplySetRewardRule, Accepted, Refused, LeftBy
<1>14. CASE c.kind = "RemoveRewardRule"
  <2>1. Apply(w, c) = ApplyRemoveRewardRule(w, c)
    BY <1>14, ApplyIs
  <2> QED BY <2>1 DEF ApplyRemoveRewardRule, Accepted, Refused, LeftBy
<1>15. CASE c.kind = "PayReward"
  <2>1. Apply(w, c) = ApplyPayReward(w, c)
    BY <1>15, ApplyIs
  <2> QED BY <2>1 DEF ApplyPayReward, Accepted, Repeated, Refused, LeftBy
<1> QED BY <1>1, <1>2, <1>3, <1>4, <1>5, <1>6, <1>7, <1>8, <1>9, <1>10, <1>11, <1>12, <1>13, <1>14, <1>15
        DEF Kinds, Arriving

\* The worlds that agreed still do, or a refusal has parted them.
Parts ==
  world = disk /\ world' # disk' =>
     disk' = disk /\ (LeftUser(world, world') \/ LeftWallet(world, world'))

\* A command that is accepted is replayed as it was served.
LEMMA RequestParts ==
  ASSUME NEW c, c.kind \in Kinds, Request(c)
  PROVE  Parts
<1> DEFINE now == Apply(world, c)
<1>1. /\ world' = now.world
      /\ disk' = IF now.status = "Refused" THEN disk ELSE Apply(disk, c).world
  BY DEF Request
<1>2. now.status = "Refused" => LeftBy(world, now.world)
  BY RefusedLeaves
<1>3. world = disk => Apply(disk, c) = now
  OBVIOUS
<1> HIDE DEF now
<1>4. CASE now.status = "Refused"
  BY <1>1, <1>2, <1>4 DEF Parts, LeftBy
<1>5. CASE now.status # "Refused"
  BY <1>1, <1>3, <1>5 DEF Parts
<1> QED BY <1>4, <1>5

\* Every action is a command of one of the kinds, or a restart.
LEMMA NextIs ==
  ASSUME Next
  PROVE  Restart \/ \E kind \in Kinds : \E c : c.kind = kind /\ Request(c)
<1>1. CASE CreateUser
  BY <1>1 DEF CreateUser, Command, Blank, Kinds, Arriving
<1>2. CASE OpenAccount
  BY <1>2 DEF OpenAccount, Command, Blank, Kinds, Arriving
<1>3. CASE SignUp
  BY <1>3 DEF SignUp, Command, Blank, Kinds, Arriving
<1>4. CASE JoinUser
  BY <1>4 DEF JoinUser, Command, Blank, Kinds, Arriving
<1>5. CASE ProvisionPlayer
  BY <1>5 DEF ProvisionPlayer, Command, Blank, Kinds, Arriving
<1>6. CASE CreateService
  BY <1>6 DEF CreateService, Command, Blank, Kinds, Arriving
<1>7. CASE RevokeService
  BY <1>7 DEF RevokeService, Command, Blank, Kinds, Arriving
<1>8. CASE Mint
  BY <1>8 DEF Mint, Command, Blank, Kinds, Arriving
<1>9. CASE MintToTrader
  BY <1>9 DEF MintToTrader, Command, Blank, Kinds, Arriving
<1>10. CASE Burn
  BY <1>10 DEF Burn, Command, Blank, Kinds, Arriving
<1>11. CASE CreateBudget
  BY <1>11 DEF CreateBudget, Command, Blank, Kinds, Arriving
<1>12. CASE FundBudget
  BY <1>12 DEF FundBudget, Command, Blank, Kinds, Arriving
<1>13. CASE SetRewardRule
  BY <1>13 DEF SetRewardRule, Command, Blank, Kinds, Arriving
<1>14. CASE RemoveRewardRule
  BY <1>14 DEF RemoveRewardRule, Command, Blank, Kinds, Arriving
<1>15. CASE PayReward
  BY <1>15 DEF PayReward, Command, Blank, Kinds, Arriving
<1> QED BY <1>1, <1>2, <1>3, <1>4, <1>5, <1>6, <1>7, <1>8, <1>9, <1>10, <1>11, <1>12, <1>13, <1>14, <1>15 DEF Next

\* A replay builds the world that is served, whatever the amounts, the limits
\* and the commands, until a sign-up is refused its account or a budget finds
\* the book full: no other step parts the two, and what these leave behind
\* is the one user, or the one wallet and what it took from the treasury.
THEOREM ReplayRebuilds ==
  Spec => ReplayReproduces
<1>1. Init => world = disk
  BY DEF Init
<1>2. [Next]_vars => [Parts]_vars
  <2> SUFFICES ASSUME Next
               PROVE  Parts
    OBVIOUS
  <2>1. CASE Restart
    BY <2>1 DEF Restart, Parts
  <2>2. CASE \E kind \in Kinds : \E c : c.kind = kind /\ Request(c)
    BY <2>2, RequestParts
  <2> QED BY <2>1, <2>2, NextIs
<1>3. [Parts]_vars =>
        [world = disk /\ world' # disk' =>
            disk' = disk /\ (LeftUser(world, world') \/ LeftWallet(world, world'))]_vars
  BY DEF Parts
<1> QED BY <1>1, <1>2, <1>3, PTL DEF Spec, ReplayReproduces
=============================================================================
