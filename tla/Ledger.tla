------------------------------- MODULE Ledger -------------------------------
(***************************************************************************)
(* The currency ledger of crates/fehu/src/ledger.rs: wallets, balanced     *)
(* transactions, reservations and an explicit supply.                      *)
(*                                                                         *)
(* A draft is its reason and its NET effect per wallet it names: the code  *)
(* validates and applies the net (net_postings), and every other check of  *)
(* `validate` depends only on which wallets the draft names.  A call the   *)
(* ledger refuses changes nothing, so a refusal is a stuttering step.      *)
(***************************************************************************)
EXTENDS Integers, FiniteSets, Functions

CONSTANTS
    MAX_WALLET_CENTS,   \* the cap on what a credit may leave in a wallet
    MaxI64,             \* the largest i64; the smallest is -MaxI64 - 1
    Currencies,         \* CurrencyId; the issuance wallet counts GAME
    GAME,
    Amounts,            \* the signed amounts the callers of the model use
    UsedReasons,        \* the reasons the callers of the model use
    UsedKinds,          \* the kinds of wallet the callers of the model open
    MaxWallets,         \* bound: wallets ever opened
    MaxTx,              \* bound: transactions ever posted
    SupplyBound         \* bound: magnitude of minted and of burned

Kind   == {"Player", "Treasury", "Budget", "Npc", "Issuer", "Venue",
           "Issuance", "Synthetic"}
Status == {"Active", "Frozen", "Closed"}
Reason == {"Genesis", "Mint", "Burn", "Transfer", "Faucet", "Reward",
           "Purchase", "Fee", "Rebate", "Buy", "Sell", "Dividend",
           "Delisting", "JobCost", "JobRefund", "Migration"}

IsIssuance == {"Genesis", "Mint", "Burn", "Migration"}

ASSUME LedgerAssumption ==
    /\ MAX_WALLET_CENTS \in Nat \ {0}
    /\ MaxI64 \in Nat /\ MAX_WALLET_CENTS <= MaxI64
    /\ GAME \in Currencies
    /\ Amounts \subseteq Int
    /\ UsedReasons \subseteq Reason
    /\ UsedKinds \subseteq Kind \ {"Issuance"}   \* only `new` opens that one
    /\ MaxWallets \in Nat /\ MaxTx \in Nat /\ SupplyBound \in Nat

I64 == (-MaxI64 - 1) .. MaxI64

\* Two's complement: one addition of two i64 leaves the range at most once.
Wrap(n) == IF n > MaxI64 THEN n - 2 * (MaxI64 + 1)
           ELSE IF n < -MaxI64 - 1 THEN n + 2 * (MaxI64 + 1)
           ELSE n

Saturate(n) == IF n > MaxI64 THEN MaxI64
               ELSE IF n < -MaxI64 - 1 THEN -MaxI64 - 1 ELSE n

-----------------------------------------------------------------------------
VARIABLES
    wallets,        \* BTreeMap<WalletId, Wallet>, ids sequential from one
    supply,         \* [minted, burned]
    flows,          \* what every reason has moved: [count, cents]
    next_wallet,
    next_tx

vars == <<wallets, supply, flows, next_wallet, next_tx>>

WalletType == [kind : Kind, currency : Currencies, status : Status,
               balance : Int, reserved : Int]

\* The wallet `Ledger::new` opens.
Issuance == 1

MayBeNegative(w) == wallets[w].kind \in {"Issuance", "Synthetic"}
IsCirculating(w) == wallets[w].kind # "Issuance"

CanCredit(w) == wallets[w].status # "Closed"
CanDebit(w) == wallets[w].status = "Active"

NewWallet(kind, currency) ==
    [kind |-> kind, currency |-> currency, status |-> "Active",
     balance |-> 0, reserved |-> 0]

Init ==
    /\ wallets = [w \in {Issuance} |-> NewWallet("Issuance", GAME)]
    /\ supply = [minted |-> 0, burned |-> 0]
    /\ flows = [r \in Reason |-> [count |-> 0, cents |-> 0]]
    /\ next_wallet = 2
    /\ next_tx = 1

-----------------------------------------------------------------------------
(* Posting *)

\* A synthetic wallet may owe for settling a fill, never for burning.
MayOwe(w, reason) ==
    /\ MayBeNegative(w)
    /\ wallets[w].kind = "Issuance" \/ reason \notin IsIssuance

\* Mutant of MayMove: what is reserved may be spent.
MayMoveReserved(w, amount, reason) ==
    LET balance == wallets[w].balance + amount IN
    /\ amount \in I64 /\ balance \in I64
    /\ amount < 0 => CanDebit(w) /\ (MayOwe(w, reason) \/ balance >= 0)
    /\ amount > 0 => CanCredit(w) /\ balance <= MAX_WALLET_CENTS

\* What `validate` asks of the net movement of one wallet.
MayMove(w, amount, reason) ==
    LET balance == wallets[w].balance + amount IN
    /\ amount \in I64 /\ balance \in I64
    /\ amount < 0 => /\ CanDebit(w)
                     /\ MayOwe(w, reason) \/ balance >= wallets[w].reserved
    /\ amount > 0 => CanCredit(w) /\ balance <= MAX_WALLET_CENTS

\* Mutant of Balanced: a draft may lose currency.
BalancedOrLess(net) == SumFunction(net) <= 0

Balanced(net) == SumFunction(net) = 0

Validate(reason, net) ==
    /\ DOMAIN net # {}
    /\ DOMAIN net \subseteq DOMAIN wallets
    /\ \A v, w \in DOMAIN net : wallets[v].currency = wallets[w].currency
    /\ (\E w \in DOMAIN net : wallets[w].kind = "Issuance")
         <=> reason \in IsIssuance
    /\ \A w \in DOMAIN net : MayMove(w, net[w], reason)
    /\ Balanced(net)

\* What a draft credits to the issuance wallet (negative for a mint).
ToIssuance(net) == IF Issuance \in DOMAIN net THEN net[Issuance] ELSE 0

\* The credit side of the net postings, as the flow meter counts it.
Volume(net) ==
    LET v == SumFunctionOnSet(net, {w \in DOMAIN net : net[w] > 0})
    IN  IF v \in 0 .. MaxI64 THEN v ELSE MaxI64

Minted(reason, net) ==
    IF reason \in IsIssuance \ {"Burn"} THEN supply.minted - ToIssuance(net)
    ELSE supply.minted

\* Mutant of Burned: a burn is not counted.
NeverBurned(reason, net) == supply.burned

Burned(reason, net) ==
    IF reason = "Burn" THEN supply.burned + ToIssuance(net) ELSE supply.burned

Record(reason, net) ==
    [flows EXCEPT ![reason] = [count |-> Saturate(@.count + 1),
                               cents |-> Saturate(@.cents + Volume(net))]]

Post(reason, net) ==
    /\ next_tx <= MaxTx
    /\ Minted(reason, net) \in -SupplyBound .. SupplyBound
    /\ Burned(reason, net) \in -SupplyBound .. SupplyBound
    /\ Validate(reason, net)
    /\ wallets' = [w \in DOMAIN wallets |->
                     IF w \in DOMAIN net
                     THEN [wallets[w] EXCEPT !.balance = @ + net[w]]
                     ELSE wallets[w]]
    /\ supply' = [minted |-> Wrap(Minted(reason, net)),
                  burned |-> Wrap(Burned(reason, net))]
    /\ flows' = Record(reason, net)
    /\ next_tx' = next_tx + 1
    /\ UNCHANGED next_wallet

\* What the postings "take cents out of one, put them into the other" net to.
Move(from, to, cents) ==
    IF from = to THEN [w \in {to} |-> 0]
    ELSE [w \in {from, to} |-> IF w = to THEN cents ELSE -cents]

Mint(to, cents, reason) ==
    /\ cents > 0
    /\ Post(reason, Move(Issuance, to, cents))

Burn(from, cents) ==
    /\ cents > 0
    /\ Post("Burn", Move(from, Issuance, cents))

-----------------------------------------------------------------------------
(* Wallets *)

\* Mutant of OpenIn: the id is used again.
OpenInAgain(kind, currency) ==
    /\ next_wallet <= MaxWallets
    /\ wallets' = [w \in DOMAIN wallets \cup {next_wallet} |->
                     IF w = next_wallet THEN NewWallet(kind, currency)
                     ELSE wallets[w]]
    /\ UNCHANGED <<supply, flows, next_wallet, next_tx>>

\* Only `new` opens an issuance wallet: issuance_wallet() finds that one.
OpenIn(kind, currency) ==
    /\ next_wallet <= MaxWallets
    /\ wallets' = [w \in DOMAIN wallets \cup {next_wallet} |->
                     IF w = next_wallet THEN NewWallet(kind, currency)
                     ELSE wallets[w]]
    /\ next_wallet' = next_wallet + 1
    /\ UNCHANGED <<supply, flows, next_tx>>

Reserve(w, cents) ==
    /\ cents >= 0
    /\ w \in DOMAIN wallets
    /\ CanDebit(w)
    /\ ~MayBeNegative(w)
    /\ wallets[w].reserved + cents \in I64
    /\ wallets[w].reserved + cents <= wallets[w].balance
    /\ wallets' = [wallets EXCEPT ![w].reserved = @ + cents]
    /\ UNCHANGED <<supply, flows, next_wallet, next_tx>>

\* Releasing more than is held releases what is held; any status will do.
Release(w, cents) ==
    /\ w \in DOMAIN wallets
    /\ wallets' = [wallets EXCEPT ![w].reserved =
                     IF cents <= 0 THEN @ ELSE IF @ > cents THEN @ - cents ELSE 0]
    /\ UNCHANGED <<supply, flows, next_wallet, next_tx>>

\* Mutant of SetStatus: a closed wallet opens again.
SetAnyStatus(w, status) ==
    /\ w \in DOMAIN wallets
    /\ wallets' = [wallets EXCEPT ![w].status = status]
    /\ UNCHANGED <<supply, flows, next_wallet, next_tx>>

SetStatus(w, status) ==
    /\ w \in DOMAIN wallets
    /\ wallets[w].status # "Closed"
    /\ wallets' = [wallets EXCEPT ![w].status = status]
    /\ UNCHANGED <<supply, flows, next_wallet, next_tx>>

Freeze(w)   == SetStatus(w, "Frozen")
Unfreeze(w) == SetStatus(w, "Active")

Close(w) ==
    /\ w \in DOMAIN wallets
    /\ wallets[w].balance = 0 /\ wallets[w].reserved = 0
    /\ wallets' = [wallets EXCEPT ![w].status = "Closed"]
    /\ UNCHANGED <<supply, flows, next_wallet, next_tx>>

-----------------------------------------------------------------------------
WalletIds == 1 .. MaxWallets

Nets == UNION {[S -> Amounts] : S \in SUBSET WalletIds}

Next ==
    \/ \E kind \in UsedKinds, c \in Currencies : OpenIn(kind, c)
    \/ \E reason \in UsedReasons, net \in Nets : Post(reason, net)
    \/ \E w \in WalletIds, cents \in Amounts :
         \/ \E reason \in UsedReasons \cap IsIssuance : Mint(w, cents, reason)
         \/ Burn(w, cents)
         \/ Reserve(w, cents)
         \/ Release(w, cents)
    \/ \E w \in WalletIds : Freeze(w) \/ Unfreeze(w) \/ Close(w)

Spec == Init /\ [][Next]_vars
-----------------------------------------------------------------------------
(* Properties *)

TypeOK ==
    /\ next_wallet \in 2 .. MaxWallets + 2
    /\ wallets \in [1 .. next_wallet - 1 -> WalletType]
    /\ supply \in [minted : Int, burned : Int]
    /\ flows \in [Reason -> [count : Int, cents : Int]]
    /\ next_tx \in 1 .. MaxTx + 1

\* What is in circulation, from the supply counters and from the wallets.
Outstanding == Saturate(supply.minted - supply.burned)

Circulating ==
    SumFunction([w \in {v \in DOMAIN wallets : IsCirculating(v)} |->
                   wallets[w].balance])

\* Currency is conserved: what every wallet but issuance holds, debts
\* included, is exactly what was minted and not burned.  The first audit of
\* Ledger::check, and what no single posting can see.
Conservation == Circulating = Outstanding

\* The issuance wallet is the mirror of the supply counters, which `post`
\* keeps by a separate computation over the raw postings.
IssuanceMirror ==
    wallets[Issuance].balance = supply.burned - supply.minted

\* No wallet that may not owe is overdrawn, and what it has promised is
\* there: reservations are taken and released apart from the debits that
\* could spend the money under them.
ReservationsBacked ==
    \A w \in DOMAIN wallets :
        IF MayBeNegative(w) THEN wallets[w].reserved = 0
        ELSE 0 <= wallets[w].reserved /\ wallets[w].reserved <= wallets[w].balance

\* Closing never strands currency: whatever happens after the close, the
\* wallet holds nothing and promises nothing.
ClosedIsEmpty ==
    \A w \in DOMAIN wallets :
        wallets[w].status = "Closed" =>
            wallets[w].balance = 0 /\ wallets[w].reserved = 0

\* A frozen wallet only gains: it is still paid what it is owed, and neither
\* a posting nor a new reservation takes anything from it.
FrozenPaysNothing ==
    [][\A w \in DOMAIN wallets :
         wallets[w].status = "Frozen" =>
             /\ wallets'[w].balance >= wallets[w].balance
             /\ wallets'[w].reserved <= wallets[w].reserved]_vars

\* Closed is terminal: no later call changes anything of the wallet.
ClosedIsForever ==
    [][\A w \in DOMAIN wallets :
         wallets[w].status = "Closed" => wallets'[w] = wallets[w]]_vars

\* A wallet's status governs every call that reaches it, whichever posting,
\* reservation or change of status it comes through.
StatusIsObeyed == []ClosedIsEmpty /\ FrozenPaysNothing /\ ClosedIsForever
=============================================================================
