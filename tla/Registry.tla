------------------------------ MODULE Registry ------------------------------
(***************************************************************************)
(* Who is who, and who is paid what: users, accounts, traders, players,    *)
(* services, budgets and rewards (crates/fehu-economy/src/market.rs,       *)
(* auth.rs, service.rs, rewards.rs), and the one function that applies a   *)
(* command to them, live and on replay (journal.rs).                       *)
(*                                                                         *)
(* An accepted command is journaled, a refused one is not.  disk is the    *)
(* world a restart would build from the journal; it is kept up to date one *)
(* command at a time, since replay applies the same commands in the same   *)
(* order.  Crashes and lost writes are the business of Journal.tla.        *)
(***************************************************************************)
EXTENDS Integers, FiniteSets, Functions, SequencesExt

CONSTANTS
    GENESIS,            \* what the treasury is born with
    MAX_TRANSFER,       \* MAX_TRANSFER_CENTS
    MAX_BUDGETS, MAX_RULES,
    REWARD_LOG,         \* RewardBook::cap, sources remembered
    ExternalIds,        \* the game's names for its players
    RuleIds, Sources,   \* reward rules, and what the game says happened
    Amounts,            \* sums a request may name, some of them refused
    Flows,              \* what the clients of a behaviour may send, and bounds
    MaxId,              \* bound: users, accounts, traders and services
    MaxWallet,          \* bound: wallets opened by budgets, half-done ones too
    MaxMint             \* bound: currency minted after genesis

ASSUME RegistryAssumption ==
    /\ GENESIS \in Nat /\ MAX_TRANSFER \in Nat /\ Amounts \subseteq Nat
    /\ MAX_BUDGETS \in Nat /\ MAX_RULES \in Nat
    /\ REWARD_LOG \in Nat \ {0}

VARIABLES
    world,      \* the market actor's registries
    disk,       \* what a replay of the journal would build
    told,       \* history: what accepted commands were answered with
    flow,       \* an element of Flows, the same throughout a behaviour
    restarts

vars == <<world, disk, told, flow, restarts>>

Treasury == 1
None     == 0       \* no such id: ids are dense and start at 1

Born ==
    [next_user |-> 1, next_account |-> 1, next_trader |-> 1, next_service |-> 1,
     next_wallet |-> Treasury + 1,
     users |-> <<>>, keys |-> <<>>, accounts |-> <<>>, traders |-> <<>>,
     players |-> <<>>, services |-> <<>>,
     wallets |-> [x \in {Treasury} |-> GENESIS],
     budgets |-> <<>>, rules |-> <<>>, paid |-> <<>>]

\* The three ways apply returns.  A repeat is accepted and changes nothing.
Accepted(w) == [status |-> "Created", world |-> w]
Repeated(w) == [status |-> "Repeated", world |-> w]
Refused(w)  == [status |-> "Refused", world |-> w]

With(f, key, value) == [x \in DOMAIN f \cup {key} |-> IF x = key THEN value ELSE f[x]]

-----------------------------------------------------------------------------
(* Money *)

Transferable(cents) == cents \in 1 .. MAX_TRANSFER

Move(w, from, to, cents) ==
    [w EXCEPT !.wallets[from] = @ - cents, !.wallets[to] = @ + cents]

OpenWallet(w, cents) ==
    [w EXCEPT !.wallets = With(@, w.next_wallet, cents), !.next_wallet = @ + 1]

WalletOfTrader(w, t) == w.accounts[w.traders[t].account].wallet

-----------------------------------------------------------------------------
(* Users, accounts and traders *)

\* The id is spent and the key works whatever happens next.
InsertUser(w, key) ==
    [w EXCEPT !.users = With(@, w.next_user, {}),
              !.keys = With(@, key, w.next_user),
              !.next_user = @ + 1]

InsertAccount(w, user) ==
    [OpenWallet(w, 0) EXCEPT
        !.accounts = With(@, w.next_account, [user |-> user, wallet |-> w.next_wallet]),
        !.users[user] = @ \cup {w.next_account},
        !.next_account = @ + 1]

\* Mutant of OpenAccountFor: the faucet is asked after the account exists.
OpenAccountThenFund(w, user, cash) ==
    LET opened == InsertAccount(w, user)
        wallet == opened.accounts[w.next_account].wallet
    IN  IF cash = 0 THEN Accepted(opened)
        ELSE IF Transferable(cash) /\ cash <= w.wallets[Treasury]
        THEN Accepted(Move(opened, Treasury, wallet, cash))
        ELSE Refused(opened)

\* Market::open_account: the treasury is asked before the account exists.
OpenAccountFor(w, user, cash) ==
    LET opened == InsertAccount(w, user)
        wallet == opened.accounts[w.next_account].wallet
    IN  IF cash = 0 THEN Accepted(opened)
        ELSE IF Transferable(cash) /\ cash <= w.wallets[Treasury]
        THEN Accepted(Move(opened, Treasury, wallet, cash))
        ELSE Refused(w)

InsertTrader(w, user, account) ==
    [w EXCEPT !.traders = With(@, w.next_trader, [user |-> user, account |-> account]),
              !.next_trader = @ + 1]

\* Market::sign_up and the first half of provision_player: the user is
\* there before its account can be refused.
SignedUp(w, cash, key) ==
    LET account == OpenAccountFor(InsertUser(w, key), w.next_user, cash)
    IN  IF account.status = "Refused" THEN account
        ELSE Accepted(InsertTrader(account.world, w.next_user, w.next_account))

ApplyOpenAccount(w, c) ==
    IF c.user \notin DOMAIN w.users THEN Refused(w)
    ELSE OpenAccountFor(w, c.user, c.cash)

\* Command::CreateTrader naming a user: only that user may, and only on an
\* account of theirs, or on a new one.
ApplyJoin(w, c) ==
    IF c.user \notin DOMAIN w.users \/ c.caller # c.user THEN Refused(w)
    ELSE IF c.account = None
    THEN LET account == OpenAccountFor(w, c.user, c.cash)
         IN  IF account.status = "Refused" THEN account
             ELSE Accepted(InsertTrader(account.world, c.user, w.next_account))
    ELSE IF c.account \in DOMAIN w.accounts /\ w.accounts[c.account].user = c.user
    THEN Accepted(InsertTrader(w, c.user, c.account))
    ELSE Refused(w)

\* Mutant of ApplyProvision: every login is a new player.
ApplyProvisionAgain(w, c) ==
    LET made == SignedUp(w, 0, c.key).world IN
    Accepted([made EXCEPT !.players = With(@, c.external_id,
                [user |-> w.next_user, account |-> w.next_account,
                 trader |-> w.next_trader])])

ApplyProvision(w, c) ==
    IF c.external_id \in DOMAIN w.players THEN Repeated(w)
    ELSE LET made == SignedUp(w, 0, c.key).world IN
         Accepted([made EXCEPT !.players = With(@, c.external_id,
                     [user |-> w.next_user, account |-> w.next_account,
                      trader |-> w.next_trader])])

-----------------------------------------------------------------------------
(* Services *)

ApplyCreateService(w, c) ==
    IF c.scopes = {} THEN Refused(w)
    ELSE Accepted([w EXCEPT
            !.services = With(@, w.next_service, [key |-> c.key, revoked |-> FALSE]),
            !.next_service = @ + 1])

ApplyRevokeService(w, c) ==
    IF c.service \notin DOMAIN w.services THEN Refused(w)
    ELSE Accepted([w EXCEPT !.services[c.service].revoked = TRUE])

-----------------------------------------------------------------------------
(* Currency in and out *)

ApplyMint(w, c) ==
    IF c.account \in DOMAIN w.accounts /\ Transferable(c.cents)
    THEN Accepted([w EXCEPT !.wallets[w.accounts[c.account].wallet] = @ + c.cents])
    ELSE Refused(w)

ApplyMintToTrader(w, c) ==
    IF c.trader \in DOMAIN w.traders
    THEN ApplyMint(w, [c EXCEPT !.account = w.traders[c.trader].account])
    ELSE Refused(w)

\* Mutant of ApplyBurn: the wallet is not asked.
ApplyBurnUnchecked(w, c) ==
    IF c.account \in DOMAIN w.accounts /\ Transferable(c.cents)
    THEN Accepted([w EXCEPT !.wallets[w.accounts[c.account].wallet] = @ - c.cents])
    ELSE Refused(w)

ApplyBurn(w, c) ==
    IF /\ c.account \in DOMAIN w.accounts /\ Transferable(c.cents)
       /\ c.cents <= w.wallets[w.accounts[c.account].wallet]
    THEN Accepted([w EXCEPT !.wallets[w.accounts[c.account].wallet] = @ - c.cents])
    ELSE Refused(w)

-----------------------------------------------------------------------------
(* Budgets, rules and rewards *)

AddBudget(w, wallet) == [w EXCEPT !.budgets = With(@, wallet, 0)]

\* Mutant of ApplyCreateBudget: the budget opens full, and the treasury is
\* not asked to pay for it.
ApplyCreateBudgetUnpaid(w, c) ==
    IF c.cash # 0 /\ ~(Transferable(c.cash) /\ c.cash <= w.wallets[Treasury])
    THEN Refused(w)
    ELSE LET opened == OpenWallet(w, c.cash)
         IN  IF Cardinality(DOMAIN w.budgets) >= MAX_BUDGETS THEN Refused(opened)
             ELSE Accepted(AddBudget(opened, w.next_wallet))

\* The wallet is opened and funded; then the book may be full.
ApplyCreateBudget(w, c) ==
    IF c.cash # 0 /\ ~(Transferable(c.cash) /\ c.cash <= w.wallets[Treasury])
    THEN Refused(w)
    ELSE LET opened == Move(OpenWallet(w, 0), Treasury, w.next_wallet, c.cash)
         IN  IF Cardinality(DOMAIN w.budgets) >= MAX_BUDGETS THEN Refused(opened)
             ELSE Accepted(AddBudget(opened, w.next_wallet))

ApplyFundBudget(w, c) ==
    IF /\ Transferable(c.cash) /\ c.wallet \in DOMAIN w.budgets
       /\ c.cash <= w.wallets[Treasury]
    THEN Accepted(Move(w, Treasury, c.wallet, c.cash))
    ELSE Refused(w)

ApplySetRewardRule(w, c) ==
    IF /\ c.wallet \in DOMAIN w.budgets /\ c.cents > 0
       /\ c.rule \in DOMAIN w.rules \/ Cardinality(DOMAIN w.rules) < MAX_RULES
    THEN Accepted([w EXCEPT !.rules = With(@, c.rule, [budget |-> c.wallet,
                                                       cents |-> c.cents])])
    ELSE Refused(w)

ApplyRemoveRewardRule(w, c) ==
    IF c.rule \in DOMAIN w.rules
    THEN Accepted([w EXCEPT !.rules = [r \in DOMAIN @ \ {c.rule} |-> @[r]]])
    ELSE Refused(w)

\* Mutant of Remembered: a full log forgets what it was just told.
RememberedShort(paid) ==
    SubSeq(paid, IF Len(paid) >= REWARD_LOG THEN 2 ELSE 1, Len(paid))

\* RewardBook::evict, after one more source: the oldest is forgotten.
Remembered(paid) ==
    SubSeq(paid, IF Len(paid) > REWARD_LOG THEN 2 ELSE 1, Len(paid))

\* RewardBook::record.
Record(w, source, budget, cents) ==
    [w EXCEPT !.paid = Remembered(Append(@, source)),
              !.budgets[budget] = @ + cents]

ApplyPayReward(w, c) ==
    IF Contains(w.paid, c.source) THEN Repeated(w)
    ELSE IF c.rule \in DOMAIN w.rules /\ c.trader \in DOMAIN w.traders
    THEN LET rule == w.rules[c.rule] IN
         IF rule.cents <= w.wallets[rule.budget]
         THEN LET moved == Move(w, rule.budget, WalletOfTrader(w, c.trader), rule.cents)
              IN  Accepted(Record(moved, c.source, rule.budget, rule.cents))
         ELSE Refused(w)
    ELSE Refused(w)

-----------------------------------------------------------------------------
(* Running a command *)

Apply(w, c) ==
    CASE c.kind = "CreateUser"       -> Accepted(InsertUser(w, c.key))
      [] c.kind = "OpenAccount"      -> ApplyOpenAccount(w, c)
      [] c.kind = "SignUp"           -> SignedUp(w, c.cash, c.key)
      [] c.kind = "JoinUser"         -> ApplyJoin(w, c)
      [] c.kind = "ProvisionPlayer"  -> ApplyProvision(w, c)
      [] c.kind = "CreateService"    -> ApplyCreateService(w, c)
      [] c.kind = "RevokeService"    -> ApplyRevokeService(w, c)
      [] c.kind = "Mint"             -> ApplyMint(w, c)
      [] c.kind = "MintToTrader"     -> ApplyMintToTrader(w, c)
      [] c.kind = "Burn"             -> ApplyBurn(w, c)
      [] c.kind = "CreateBudget"     -> ApplyCreateBudget(w, c)
      [] c.kind = "FundBudget"       -> ApplyFundBudget(w, c)
      [] c.kind = "SetRewardRule"    -> ApplySetRewardRule(w, c)
      [] c.kind = "RemoveRewardRule" -> ApplyRemoveRewardRule(w, c)
      [] c.kind = "PayReward"        -> ApplyPayReward(w, c)

\* Replay skips what it cannot apply, and keeps what that changed.
Replay(commands) ==
    LET replayed[n \in 0 .. Len(commands)] ==
            IF n = 0 THEN Born ELSE Apply(replayed[n - 1], commands[n]).world
    IN  replayed[Len(commands)]

\* What the client of an accepted command was told, for the properties.
Heard(c) ==
    LET in(kinds, cents) == IF c.kind \in kinds THEN cents ELSE 0 IN
    [told EXCEPT
        !.minted = @ + in({"Mint", "MintToTrader"}, c.cents) - in({"Burn"}, c.cents),
        !.funded = @ + in({"CreateBudget", "FundBudget"}, c.cash),
        !.paid = IF c.kind = "PayReward" THEN Append(@, c.source) ELSE @]

Request(c) ==
    /\ c.kind \in flow.kinds
    /\ LET now == Apply(world, c) IN
       /\ world' = now.world
       /\ disk' = IF now.status = "Refused" THEN disk ELSE Apply(disk, c).world
       /\ told' = IF now.status = "Created" THEN Heard(c) ELSE told
    /\ UNCHANGED <<flow, restarts>>

\* The fields a command does not use.
Blank ==
    [kind |-> "", user |-> None, caller |-> None, account |-> None,
     trader |-> None, service |-> None, wallet |-> None, cash |-> 0,
     cents |-> 0, key |-> None, scopes |-> {}, external_id |-> None,
     rule |-> None, source |-> None]

\* A key is random: nobody has it yet.
NewKey == Cardinality(DOMAIN world.keys) + Cardinality(DOMAIN world.services) + 1

Command(kind) == [Blank EXCEPT !.kind = kind, !.key = NewKey]

Ids == 1 .. MaxId       \* the first of them may not exist yet

CreateUser ==
    /\ world.next_user <= MaxId
    /\ Request(Command("CreateUser"))

OpenAccount ==
    /\ world.next_account <= MaxId
    /\ \E user \in Ids, cash \in Amounts :
         Request([Command("OpenAccount") EXCEPT !.user = user, !.cash = cash])

SignUp ==
    /\ world.next_user <= MaxId /\ world.next_account <= MaxId
    /\ \E cash \in flow.sign_up_cash :
         Request([Command("SignUp") EXCEPT !.cash = cash])

JoinUser ==
    /\ world.next_trader <= MaxId /\ world.next_account <= MaxId
    /\ \E user \in Ids, caller \in Ids, account \in Ids \cup {None}, cash \in Amounts :
         Request([Command("JoinUser") EXCEPT !.user = user, !.caller = caller,
                                             !.account = account, !.cash = cash])

ProvisionPlayer ==
    /\ world.next_user <= MaxId /\ world.next_account <= MaxId
    /\ \E id \in ExternalIds :
         Request([Command("ProvisionPlayer") EXCEPT !.external_id = id])

CreateService ==
    /\ world.next_service <= MaxId
    /\ \E scopes \in {{}, {"Reward"}} :
         Request([Command("CreateService") EXCEPT !.scopes = scopes])

RevokeService ==
    \E service \in Ids :
       Request([Command("RevokeService") EXCEPT !.service = service])

Mint ==
    \E account \in Ids, cents \in Amounts :
       /\ told.minted + cents <= MaxMint
       /\ Request([Command("Mint") EXCEPT !.account = account, !.cents = cents])

MintToTrader ==
    \E trader \in Ids, cents \in Amounts :
       /\ told.minted + cents <= MaxMint
       /\ Request([Command("MintToTrader") EXCEPT !.trader = trader, !.cents = cents])

Burn ==
    \E account \in Ids, cents \in Amounts :
       Request([Command("Burn") EXCEPT !.account = account, !.cents = cents])

CreateBudget ==
    /\ Cardinality(DOMAIN world.budgets) < flow.budgets
    /\ world.next_wallet <= MaxWallet
    /\ \E cash \in Amounts : Request([Command("CreateBudget") EXCEPT !.cash = cash])

FundBudget ==
    \E wallet \in DOMAIN world.wallets, cash \in Amounts :
       Request([Command("FundBudget") EXCEPT !.wallet = wallet, !.cash = cash])

SetRewardRule ==
    \E rule \in RuleIds, wallet \in DOMAIN world.wallets, cents \in Amounts :
       Request([Command("SetRewardRule") EXCEPT !.rule = rule, !.wallet = wallet,
                                                !.cents = cents])

RemoveRewardRule ==
    \E rule \in RuleIds : Request([Command("RemoveRewardRule") EXCEPT !.rule = rule])

PayReward ==
    \E rule \in RuleIds, trader \in Ids, source \in Sources :
       Request([Command("PayReward") EXCEPT !.rule = rule, !.trader = trader,
                                            !.source = source])

\* A stop and a start: the journal is replayed.
Restart ==
    /\ restarts < flow.restarts
    /\ restarts' = restarts + 1
    /\ world' = disk
    /\ UNCHANGED <<disk, told, flow>>

Init ==
    /\ flow \in Flows
    /\ world = Replay(flow.past)
    /\ disk = world
    /\ told = [minted |-> 0, funded |-> 0, paid |-> <<>>]
    /\ restarts = 0

Next ==
    \/ CreateUser \/ OpenAccount \/ SignUp \/ JoinUser \/ ProvisionPlayer
    \/ CreateService \/ RevokeService
    \/ Mint \/ MintToTrader \/ Burn
    \/ CreateBudget \/ FundBudget \/ SetRewardRule \/ RemoveRewardRule \/ PayReward
    \/ Restart

Spec == Init /\ [][Next]_vars

-----------------------------------------------------------------------------
(* Properties *)

\* Ids are dense: every id below a counter is in use, and nothing is owed.
TypeOK ==
    /\ DOMAIN world.users = 1 .. world.next_user - 1
    /\ DOMAIN world.accounts = 1 .. world.next_account - 1
    /\ DOMAIN world.traders = 1 .. world.next_trader - 1
    /\ DOMAIN world.services = 1 .. world.next_service - 1
    /\ world.wallets \in [1 .. world.next_wallet - 1 -> Nat]
    /\ Len(world.paid) <= REWARD_LOG

\* What a sign-up leaves whose account is refused: a user without one, its
\* id spent and its key working.
LeftUser(w, left) == \E key \in DOMAIN left.keys : left = InsertUser(w, key)

\* What a budget leaves that found the book full: a wallet that is nobody's,
\* and what it took out of the treasury.
LeftWallet(w, left) ==
    /\ Cardinality(DOMAIN w.budgets) >= MAX_BUDGETS
    /\ \E cash \in {0} \cup 1 .. w.wallets[Treasury] :
         left = Move(OpenWallet(w, 0), Treasury, w.next_wallet, cash)

\* "A refusal changes nothing and is not journaled" (run_command), so that a
\* replay of what was accepted builds the world the clients were answered
\* from.  That is so but for two refusals: the only steps on which the world
\* served and the world a replay would build part are a sign-up whose account
\* is refused and a budget that finds the book full, neither journaled, and
\* what they leave behind is a user or a wallet and nothing else.
ReplayReproduces ==
    /\ world = disk
    /\ [][world = disk /\ world' # disk' =>
            disk' = disk /\ (LeftUser(world, world') \/ LeftWallet(world, world'))]_vars

\* A key speaks for one user and every user has one; a user's accounts are
\* the accounts that name it; a trader trades on an account of its own
\* user; a player's three ids belong together and to no other player
\* (Directory, create_trader, provision_player).
OwnershipAgrees ==
    /\ IsInjective(world.keys) /\ Range(world.keys) = DOMAIN world.users
    /\ \A u \in DOMAIN world.users :
         world.users[u] = {a \in DOMAIN world.accounts : world.accounts[a].user = u}
    /\ \A t \in DOMAIN world.traders :
         world.accounts[world.traders[t].account].user = world.traders[t].user
    /\ \A x \in DOMAIN world.players :
         LET p == world.players[x] IN
         /\ world.traders[p.trader] = [user |-> p.user, account |-> p.account]
         /\ \A y \in DOMAIN world.players \ {x} : world.players[y].user # p.user

\* The currency in every wallet together is what genesis and the accepted
\* mints and burns made, opening an account, a budget and a reward moving it;
\* and what clients were told went into budgets is there or has been paid
\* out, to the cent (RewardBook::record, the audit in reconcile.rs).
CurrencyIsAccounted ==
    /\ SumFunction(world.wallets) = GENESIS + told.minted
    /\ told.funded = FoldFunction(+, 0, [b \in DOMAIN world.budgets |->
                                           world.wallets[b] + world.budgets[b]])

\* A source is not paid twice, whatever rule or trader it is claimed for,
\* until REWARD_LOG later ones have pushed it out (RewardBook::evict).
SourcePaidOnce ==
    \A i, j \in DOMAIN told.paid :
       i < j /\ told.paid[i] = told.paid[j] => j - i > REWARD_LOG

\* An id or a key, once handed out, means the same for ever, restarts
\* included; and a revoked service stays revoked (create_user,
\* provision_player, revoke_service).
NamesStand ==
    [][/\ \A k \in DOMAIN world.keys :
            k \in DOMAIN world.keys' /\ world.keys'[k] = world.keys[k]
       /\ \A a \in DOMAIN world.accounts :
            a \in DOMAIN world.accounts' /\ world.accounts'[a] = world.accounts[a]
       /\ \A t \in DOMAIN world.traders :
            t \in DOMAIN world.traders' /\ world.traders'[t] = world.traders[t]
       /\ \A x \in DOMAIN world.players :
            x \in DOMAIN world.players' /\ world.players'[x] = world.players[x]
       /\ \A s \in DOMAIN world.services :
            world.services[s].revoked =>
               s \in DOMAIN world.services' /\ world.services'[s].revoked]_vars

\* Who is who is settled once: at every moment the three directories agree,
\* and nothing a client was ever told of them is taken back.
IdentitiesStand == []OwnershipAgrees /\ NamesStand
=============================================================================
