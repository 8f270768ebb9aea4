# A TLA+ model of fehu

fehu is a market simulator in two crates: a library (`src/crates/fehu`: a
currency ledger, a limit order book, an exchange and a price simulator) and an
economy server built on it (`src/crates/fehu-economy`: accounts, orders, goods,
payouts, budgets and rewards, a command journal, snapshots, an outbox and an HTTP
API). This directory models the parts of it that keep state other parts rely on,
checks them with TLC and proves with TLAPS, for every value of the constants, what
matters most of the ledger, of the journal, of the registry of accounts and
rewards, of payouts and delisting, of goods, jobs and NPCs, of authorisation, of the
limiter and of the two feeds.

`PROJECT.json` is the index: which module models which source lines, which run
checks which property, and what can go wrong where.

## The system

All state belongs to actors (`actor.rs`): a task that runs one job to its end
before it takes the next. There is one actor for the market, one per symbol, one
for the stream and one for the limiter; the market calls the symbols and never
the reverse. A client command is one job of the market, and so are the engine's
step and the capture of a snapshot. This is the grain of every module here:
**one job, one action**. What really interleaves is (a) the order of jobs, (b) the
way of a request before and after its job, (c) the snapshot writer with the jobs,
(d) crashes with everything, (e) clients' retries, and (f) the readers of the
stream and the outbox.

| component | state | operations | what makes it correct |
|---|---|---|---|
| `fehu/ledger.rs` | wallets, supply counters, flow meter | post, mint, burn, open, reserve, release, freeze, close | currency is conserved; reservations are backed; a status is obeyed by every call |
| `fehu/book.rs` | price levels, ids, queue priorities | submit, iceberg, cancel, preview | never crossed; price-time order; quantities add up |
| `fehu/exchange.rs` | book, reference price, synthetic ladder | submit, tick, requote | what the ladder prints reaches players only through their own orders |
| `market.rs`, `trading.rs`, `symbol.rs` | positions, order log, client ids, stops, halts | place, amend, cancel, stop, freeze, step | what is reserved is what rests; every trade settles; the log agrees with the book |
| `market.rs`, `symbol.rs`: payouts | listings, issuers, holders | list, dividend, delist, sweep | holders are paid alike or nobody is; nothing outlives a listing |
| `catalog.rs`, `jobs.rs`, `npc.rs`, `world.rs` | catalogue, recipes, jobs, NPCs, modifiers | purchase, consume, start, cancel, deliver, requote, restock | units add up; quotes are backed; promises are kept |
| `market.rs`, `account.rs` | users, keys, accounts, traders, players | create, open, join, provision, mint, burn | ids are stable and belong together; a replay rebuilds them |
| `rewards.rs` | budgets, rules, receipts | create, fund, set rule, pay | budgets reconcile; a source is paid once |
| `journal.rs` | file, idempotency log | run_command, append, truncate, replay | acknowledged means durable; a key is applied once |
| `save.rs`, `main.rs` | snapshot, temporary file | write, autosave, restore | snapshot + journal = the state served |
| `outbox.rs` | facts with numbers, a cursor | commit, read, ack, evict | a number means one fact; nothing is lost silently |
| the stream (`market.rs`, `api.rs`) | numbers, replay buffer, connections | publish, subscribe, deliver | a client misses nothing it is not told of |
| `auth.rs`, `service.rs`, `api.rs` | the published directory | authorise, create, revoke | a request runs as what it may run as |
| `limit.rs` | buckets, places | take, admit | no client gets more than its rate |

The hard behaviours: a crash between any two of apply, write, flush, answer; a
torn line at the end of the journal; a failed append; a snapshot taken while
commands go on; a refusal half-way through a command; amendments, which cancel
before they check; icebergs, which hide quantity from every preview; a step that
ticks, settles, expires, delivers, fires stops and redraws quotes in one job;
accounts frozen or closed while their orders rest or their dividends are due;
symbols that come back with a book that counts from one; requests authorised
before they queue; readers that resume; and the caps of every log. `hazards` in
`PROJECT.json` lists each at its line.

## Modules

    Ledger ── LedgerProofs ── Sums
    DurableLog <── Journal ── JournalProofs
    Registry ── RegistryProofs
    Wallets ─┬─ Trading ── Exchange ── Book
             ├─ Payouts ── PayoutsProofs ── Sums
             └─ Goods ── GoodsProofs ── Sums
    Feed ── FeedProofs
    Limits ── Access ── AccessProofs

**Ledger** (`ledger.rs`). A draft is its reason and its net effect per wallet,
which is what the code validates and applies. `Post`, `Mint`, `Burn`, `OpenIn`,
`Reserve`, `Release`, `Freeze`, `Unfreeze`, `Close` are the public operations;
`Validate` is the conjunction of `Ledger::validate`'s refusals. The supply
counters wrap at the width of an `i64` (`Wrap`), the flow meter saturates.

**Wallets** is what the market's own jobs may do with wallets: the ledger's
checks as operators on a function, for the modules in which money is one part of
the state.

**DurableLog** is the abstract promise: a log of commands; an acknowledged one
stays; a key is committed once; a failure takes back only a suffix nobody was
told of.

**Journal** (`journal.rs`, `save.rs`, `main.rs`, the producer's side of
`outbox.rs`). The market is the sequence of commands applied to it, which is exact
since applying is deterministic and replay runs the same code. `RunCommand` is
`run_command`: lookup, apply, append, flush, facts, remembered answer. `TakeSave`,
`WriteTmp`, `RenameTmp`, `TruncateJournal` are the steps of `save::write`,
interleaved with commands. `Kill` keeps what the operating system has;
`PowerLoss` drops unflushed lines; `torn` lets either leave part of a line, and
`WriteLine` says what the next append makes of it. `Start` is `main`'s restore.
`faults` is drawn once per behaviour so that a run can say which failures it
tolerates. `ImplementsDurableLog` maps the abstract log to what a restart would
read from the disk.

**Registry** (`market.rs`, `rewards.rs`, the `apply` of `journal.rs`). `Apply` is
the function from world and command to world and status that live path and
replay share. `Request` applies a command to `world` and, unless refused, to
`disk`; `Restart` makes `disk` the world. The two differ exactly when a refusal
left something behind or replay depends on it.

**Book** and **Exchange** (`book.rs`, `exchange.rs`) are pure operators: a book is
a set of resting orders with queue priorities, matching is a fold of
the pass that takes the best maker's visible slice and refreshes an iceberg at the
back of its level; the exchange adds the collar of a market order, the ladder and
prints.

**Trading** (`market.rs`, `trading.rs`, `symbol.rs`) composes them for one symbol:
an operator per job from market to market, since jobs call jobs (a step places
the stops it fired, an amendment places its replacement), and an action per job.

**Payouts** (`market.rs`, `symbol.rs`) is the market across symbols: listing with
an issuer's float, dividends and the tick that takes them off the price,
delisting with and without a price, sweeps, with resting orders, freezes and
closes in between. `Owed` is who is paid what, `CheckBuyout` and `WindUp` are the
two halves of a delisting in the order the code has them. The books are one set of
orders, each with its symbol; a job that withdraws several at once is one `Withdraw`
of the set, since what it gives back does not depend on their order. A step fills
any of the orders the price reaches, in any order: whether the ledger takes a fill's
money may depend on the ones before it, so those are taken one by one (`FillAll`).

**Goods** (`catalog.rs`, `jobs.rs`, `npc.rs`, `world.rs`, `market.rs`). A unit exists
because a command issued it and ends because one consumed it. `Step` is the
engine's: the price moves, jobs due deliver, NPCs start what restocks them, and
every NPC whose quotes the market left behind withdraws and redraws them
(`StillGood`, `Requote`). Players buy from the catalogue, smelt, consume, and trade
against the quotes (`Take`). The loops of a step are recursive functions, each from
one market to the next: over the job ids (`CompleteJobs`), over the NPCs (`Restocked`,
`Requoted`), over a recipe's inputs (`Bought`) and over a ladder's levels (`Redrawn`).
Quotes are records with their place (NPC, side, level), so a book is a set of them
and withdrawing several is one `Release` of the set.

**Feed** (`market.rs`, `api.rs`, `outbox.rs`) is the two ways out. `Command`
announces to the stream at once and to the outbox when it is journaled; `Publish`
is the stream actor's job; `Connect`, `Deliver` and `Drop` are a connection's life,
`Greeted` what a client makes of its hello. `Read`, `Process`, `SendAck` and `Crash`
are the game backend, `AckOutbox` its acknowledgement arriving, in any order and
as often as it likes; `Restart` is `set_cap` on the outbox a restart brings back.

**Limits** (`limit.rs`) is the token buckets as operators. **Access** (`api.rs`,
`auth.rs`, `service.rs`, `actor.rs`) is a request on its way: `Send` (the time is
read), `Admit` (counted, then given a place), `Authorise` (from the directory as
published now), `Post` (on the mailbox), `Run` (the market's job), `Receive`;
`Disconnect` drops the request with its place and leaves its job. `Authority` is
the extractors and the handlers' ownership checks; the route groups name who may
call what, in the sections of `api.rs`. A user stands for the traders, accounts and
orders it owns, which never change hands.

No module declares a RECURSIVE operator: loops of the code are folds, so that every
module stays open to proofs. The `MC*` modules only give the constants values. A
`Flows` constant holds what the participants of one behaviour may send: each
behaviour picks one flow at the start, so a run covers several scenarios at the
cost of their sum.

Definitions marked as mutants are wrong versions of the definition that follows
them, one for each property of a passing run; with the mutant in its place the
run finds the property violated. No specification uses them.

## Runs

| run | expects | shows |
|---|---|---|
| `MCLedger` | pass | every sequence of three transactions over three wallets |
| `MCJournal` | pass | the refinement and liveness, with crashes, power loss, failed truncations and an autosave |
| `MCJournalFailures` | pass | failed appends with crashes and a final save, for a consumer of facts and a restart |
| `MCJournalTorn` | violation | a torn last line swallows an acknowledged command |
| `MCRegistry` | pass | arrivals, credentials, rewards, a dry treasury; restarts by replay |
| `MCTrading` | pass | icebergs, retries and stops, a ladder, closing of accounts, amended client ids |
| `MCTradingAmend` | violation | an amendment leaks a reservation |
| `MCPayouts` | pass | companies that come and go under resting orders; holders frozen, emptied, closed |
| `MCPayoutsDelist` | violation | a refused delisting leaves a symbol wound up |
| `MCGoods` | pass | a furnace, merchants in one good as demand for it moves, producers that restock |
| `MCFeed` | pass | a stream lost and resumed; a backend behind a small outbox |
| `MCAccess` | pass | every route, key and scope; revocations; creations retried; bursts |

What the deeper properties say:

* `ImplementsDurableLog`, `AckedSurvives`, `MemoryIsRecoverable`, `FlushedFactsStand`:
  what a client has been told survives, once; a restart serves the state that
  was served; a fact keeps its number.
* `ReplayReproduces` (`Registry`): a replay rebuilds the world clients were answered
  from, and the only steps on which the two part are a sign-up whose account is
  refused and a budget that finds the book full, which leave a user or a wallet.
* `ReservationsMatchBook`, `RecordsAgree`, `SettlementRefusals`,
  `NoForbiddenTrade` (`Trading`): reservations are what rests, the log is what the
  book says, a client id leads to its live order unless an amendment took the id,
  a trade is refused its settlement only if its seller's account is closed or a
  market buy went into an iceberg, and nobody trades while frozen, halted or
  with themselves.
* `PromisesFollowListings`, `HoldersPaidAlike` (`Payouts`): an id names one order
  although books start again from one; whenever an issuer pays or a symbol leaves,
  every share held is paid one price, in that step.
* `UnitsAccounted`, `QuotesAreBacked`, `QuotesFollowTheMarket`, `PromisesKept`
  (`Goods`): units issued and not consumed are held; an NPC's reservations are its
  quotes; a step leaves no quote the market has moved away from, and none of another
  size than demand asks for unless it is what a fill left; a job delivers
  what was promised when it was paid for, in the first step that reaches its time.
* `StreamUnbroken`, `NothingLostSilently`, `FactsAreAcknowledged` (`Feed`): a client
  that resumes has seen all it may see or was told to start again; a fact was
  acted on, or reported, or counted; a backend that keeps going gets to the end.
* `RevokedStaysOut`, `LeastPrivilege`, `KeysOpenWhatTheyName`, `NoFreeRequests`,
  `AnsweredInTheEnd` (`Access`): a published revocation is final; a job runs as no
  more than its key allows; a key handed out opens what it came with, through
  lost responses and retries; a bucket grants its burst and what time earned;
  everything sent ends.

Where the code does something other than its comments say, the flows of a passing
run contain it as far as a property can say exactly what the code does instead.
`MCRegistry` has sign-ups that ask for more than the treasury holds and one budget
more than `MAX_BUDGETS`; `MCTrading` has market buys, sent or fired by a stop, into
icebergs, accounts closed under a resting sell, and amendments with the client id
of another order; the properties name these and allow nothing else. Each violation
run adds one thing more, after which the property has nothing left to say: a torn
line, a post-only amendment that would take, a delisting without a price.

What the passing runs leave out: in `MCJournal` an append never fails, a line is never
torn, and a behaviour has kills or power losses but not both; `MCJournalFailures`
adds failed appends but only the final save. In `MCRegistry` no restart follows a
half-done refusal (those flows have none). In `MCPayouts` one dividend at a time is
pending on a symbol. In `MCFeed` clients resume from the last message they were
shown.

### Bounds, and why they are enough

* `MCLedger`: two wallets beside issuance, amounts whose sums pass the cap of 3,
  three transactions: a mint, a movement and what contradicts it.
* `MCJournal*`: two keyed commands and one engine step, two crashes, two
  snapshots. Every failure needs one entry flushed, one not, one in the snapshot
  and one after it. `MaxRepeats` allows a second application, so that applying a
  key twice is possible for the model. `LogCap` equals the number of keys: the
  log's promise is for keys it still holds.
* `MCRegistry`: three users, accounts, traders and services (two owners and a
  stranger), a treasury of 3, a reward log of one source so that it evicts. A
  sign-up asks for nothing, 1, or all of it, against a transfer limit of 2, so that
  it is refused for either reason before and after others were. `MaxWallet` bounds
  the wallets, those of refused budgets included.
* `MCTrading`: three traders on two accounts, two prices, a starting position
  of three units, four order ids in a players-only flow, eight where the ladder
  uses ids too, one stop, an order log of two, so that a live order outlasts one
  that took its client id. Fees are 25 %, so that a fee and
  a rebate are visible on prices of 2 and 4. `max_id` and `MaxStopId` bound what
  may be sent; cancels, halts and freezes go on after that, so the system is
  never stuck.
* `MCPayouts`: three traders on two accounts (one shared), two tickers for two
  places, two order ids, so that one is given out before a delisting and one after
  a relisting. An issuer's float of 4 pays a dividend of 1 on three shares and not
  a buyout after it; a closed holder makes a payout unpostable from the receiving
  side. `MaxPending` is 1.
* `MCGoods`: one player, two NPCs, two goods, one recipe; a time of 3 is a job
  started, due and delivered with an event in force before and after; a job log
  of one and one modifier make both evict; six units of a good let a delivery find
  no room. Demand for a good trebles at the second step and is twice what it was at
  the third, so quotes grow from one unit to three, are taken in part, and are drawn
  smaller. Prices to 3 and a band of 40 % make a
  cent away from 2 a move that must be followed and a cent away from 3 one that
  need not be.
* `MCFeed`: five messages and facts against buffers, channel and pages of two, so
  that each overruns; two lost connections, one crash, one restart with a cap
  smaller or larger.
* `MCAccess`: up to four requests. Each route is tried alone with every key (none,
  the operator's, a player's own and another's, the service's), on an open and on a
  locked server; each route services may use against each scope and against a
  revocation; one bucket of its own and two players, so that the table is full.
* `CHECK_DEADLOCK FALSE` where the bounds stop the system (transactions, ids,
  messages, requests and saves run out); `MCTrading`, `MCPayouts` and `MCGoods` check
  deadlock.

### Fairness

* `RequestsAnswered` (`Journal`): weak fairness of `RunCommand \/ ReplayAnswer` and
  of `Answer` per command, since the market actor takes its mailbox in order and
  answers each job, and a client with no answer retries; of `Start`, since an
  operator restarts a server that stopped. None of the snapshot writer or of the
  consumer, and crashes are finitely many. It is checked where appends do not
  fail: a broken journal refuses until a restart, and nothing in the code brings
  that restart about.
* `FactsAreAcknowledged` (`Feed`, `BackendFairness`): the game backend keeps reading,
  acting and sending its acknowledgement, which is its part of `outbox.rs`'s
  protocol, and a request sent again and again arrives. None of `Command`,
  `Restart`, or anything of the stream.
* `AnsweredInTheEnd` (`Access`, `ServerFairness`): each task of the server is run on,
  which is the async runtime's promise: the market's next job (`Run`) and each
  request's next step. None of the clients: they may never send, or give up.

## Proofs

Eight modules hold theorems. Each theorem is about `Spec` of its component with the
constants left open: any number of wallets, transactions, requests, clients,
messages and crashes, and any flows. The assumptions are the named ASSUMEs of the
components' modules, which TLC evaluates on every run, and the hypotheses given
below.

### The ledger (`LedgerProofs`, `Sums`)

They assume `LedgerAssumption` only: the cap is positive and fits the width, GAME
is a currency, and only `Ledger::new` opens an issuance wallet.

* `TypeCorrect`, `ReservationsAlwaysBacked`, `ClosedAlwaysEmpty`: invariants of
  `Spec`;
* `BooksAlwaysBalance`: in every currency the balances of all wallets, issuance
  included, sum to zero;
* `MirrorCorrect`: the supply counters mirror the issuance wallet, under
  `SupplyBound <= MaxI64`. The hypothesis is where the code is exposed: the
  counters are plain additions (`ledger.rs:966` and `974`), which beyond that
  bound wrap in a release build while the transaction is valid;
* `CurrencyConserved`: `Conservation`, which `MCLedger` checks, from the two before,
  under `2 * SupplyBound <= MaxI64`, so that the difference of the counters does
  not wrap either;
* `FrozenHeld`, `ClosedHeld`: no step takes from a frozen wallet or changes a
  closed one; `StatusAlwaysObeyed`, the property `MCLedger` checks, from these.

The inductive invariant is

    IInv == TypeOK /\ OneIssuance /\ ReservationsBacked /\ ClosedIsEmpty

The conjuncts hold each other up. Without `TypeOK` a movement's arithmetic says
nothing. `ReservationsBacked` is kept because `MayMove` leaves a debited wallet at
least what it has reserved and a posting touches no kind, status or reservation;
`Reserve` refuses a wallet that may owe. `ClosedIsEmpty` is kept because `Close`
asks for both amounts to be zero and a closed wallet takes neither side of a
posting, so its net is zero. `OneIssuance` is what ties the two computations of
the supply together: `post` picks out the issuance side of a draft by the
wallet's kind, and the mirror is about wallet 1.

`PostPreserves` treats a posting once for `Post`, `Mint` and `Burn`;
`UpdatePreserves` a change of one wallet once for reserve, release and status;
`NextCases` splits `Next`.

A sum over the wallets is `SumFunctionOnSet` of the community modules, a recursive
function on the subsets of a set. `Sums` proves what it takes to reason with it:
the recursion has a solution (`TotalsExist`), an element may be taken out
(`SumRemove`), sums add (`SumAdd`), what is zero does not count (`SumSupport`), and
one changed value changes the sum by as much (`SumUpdate`). The induction over the
subsets is stated of a *set* of naturals (`SetInduction`, from the well-foundedness
of the order on them), so nothing takes an operator as a parameter. A draft's
net effects are zero in sum within each currency, so the books' sums stay at zero
(`BooksAlwaysBalance`).

### The journal (`JournalProofs`)

Under `Covered`, which names what the code recovers from:

* `JournalTypes` (`TypeOK`): the file ends after every entry, and every part stays in
  its type;
* `AckedStays` (`AckedSurvives`): what was acknowledged is in what a restart serves;
* `RestartServesTheSame` (`MemoryIsRecoverable`): while the journal works, a restart
  rebuilds the market, the sequence, the idempotency log and the facts served;
* `FactsStand` (`FlushedFactsStand`): a fact a consumer was told of keeps its number.

`Covered` is: the server starts from a world with a snapshot; one writer saves at
a time (the autosave or the final save); no line is torn; and a behaviour has kills
or power losses, not both. Each is a place where the code does not keep the promise
("What the model disagrees with", and the hazards at `main.rs:55`, `main.rs:135` and
`journal.rs:818`). Appends may fail, truncations may fail, and there is no bound on
commands, saves or crashes.

With `NoRefusedAppends` and `Remembers` (the idempotency log has room for every key)
besides:

* `JournalIsDurable` (`ImplementsDurableLog`): the journal implements `DurableLog`. An
  applied command that reaches the file is `Commit`, an answer `Ack`, a power loss
  `Lose`; a snapshot, a rename, a truncation and a start change nothing of what a
  restart would read, and stutter;
* `NothingRunsTwice` (`AppliedOnce`): a key is applied once, in memory and on disk.

A broken journal's snapshot keeps an effect without its key, and a key that was
evicted runs again: that is why these two hypotheses are needed, and neither of
them for the first four.

The properties speak of the snapshot and the file as they are. That alone is not
inductive, since a rename replaces the one and a power loss or a truncation cuts
the other. `Bases` are the snapshots a later start may begin with: the one on disk,
and the one a writer has in its hand or in the temporary file. `Floor` is how much of
the file survives the failure the environment allows: all of it if processes are
killed, what was flushed if power is lost. Then

    IInv == TypeInv /\ NumInv /\ SafeInv /\ SameInv /\ WriterInv

`SafeInv` says that every base with every part of the file that may be left has all
that was promised (`Covers`), and so has every save under way with the entries in
memory that a truncation would write back. `SameInv` says that these starts, with
the whole file, make exactly the market being served while the journal works.
`NumInv` is what makes cutting at a number right: entries ascend, and no entry and no
base is ahead of the market. `WriterInv` ties a save to the file its writer has put it
in. Actions that only tell somebody something share `ToldInv`, those of the writer
`SavingInv`, and the two failures `GoneInv`.

For the refinement, `KeyInv` adds that every index is complete: each key in a world
is in it. What a restart would read is then known to the entry (`NextHistory`), and
`StepRefines` gives the abstract step.

Replay is a fold of commands over a snapshot; `Remembered` and `After` are written
as a recursive function and as a cut at a position so that it can be taken one entry
at a time (`RememberedMore`, `ResumeMore`).

### The registry (`RegistryProofs`)

* `RegistryTypes` (`TypeOK`): ids have no gaps, and no wallet is overdrawn;
* `CurrencyAlwaysAccounted` (`CurrencyIsAccounted`): the wallets hold what genesis,
  mints and burns made, and budgets what was put into them less what was paid;
* `SourcesPaidOnce` (`SourcePaidOnce`): no source is paid twice within the length of
  the log, for any length;
* `IdentitiesAlwaysStand` (`IdentitiesStand`): the directories agree in every state,
  and no step takes back an id, a key or a revocation;
* `ReplayRebuilds` (`ReplayReproduces`): a restart builds the world that is served,
  and what makes the two part is a refused sign-up or a refused budget and nothing
  else, whatever the flows are.

All but the last, which has no hypothesis, are under `Sound`, which asks two things
of every flow. The commands before a behaviour are arrivals with keys nobody has
(`PastOK`). And either the behaviour has no restart, or `NothingLeft` holds of it:
no sign-up asks for currency and no budget is one too many. Half-done refusals are
covered as long as nothing is replayed; after that the ids a client holds are other
people's (below), and nothing here is true of them. The flows of the run satisfy
`Sound`; `RInv` was also checked by TLC on them, and on the refusing flows without a
restart.

`RInv` says that the world is in order (`WorldOK`) and that it adds up to what
clients were told. `CurrencyIsAccounted` is not inductive without knowing that a
budget's wallet is no account's and not the treasury's: money paid out of a budget
would go back into one. `OwnershipAgrees` needs keys below the next one and players'
users that are nobody else's; `SourcePaidOnce` needs that the log is exactly the end
of what was paid (`Latest`), so that what it forgot is more than its length away.
The proof is built as the code is: one lemma for each way a world changes
(`UserInserted`, `WalletOpened`, `Moved`, `Recorded`), one for each command
(`OpenAccountApplies` to `PayRewardApplies`), which says what it adds to the wallets
and to the budgets and that everybody stays who they were (`Applies`), and one case
for each action (`NextSteps`). For `ReplayRebuilds` each of the fifteen commands is
looked at for what its refusal leaves (`RefusedLeaves`): thirteen leave the world as
it was, and the two others leave what `LeftBy` says. `Replay` is a recursive
function, whose last command can be taken off (`ReplayMore`), so that the start of a
behaviour is in order too (`PastReplayed`).

### Payouts (`PayoutsProofs`)

* `PayoutsTypes` (`TypeOK`): wallets, holdings, prices and books, and a symbol wound up
  has nothing on its book;
* `PromisesAlwaysFollow` (`PromisesFollowListings`): what is held back of cash and of
  shares is what rests, an id names one order for good, and nothing outlives its
  listing;
* `HoldersAlwaysPaidAlike` (`HoldersPaidAlike`): an issuer that pays and a symbol that
  leaves pay one price on every share held, in that step.

They assume `PayoutsAssumption` (finite sets; a ticker, an account and the three
special wallets are different wallets; a first price and room for one symbol) and
`FlowsAssumption` (nobody asks for a fraction, or names a price below nothing). Both
hold of every request the code accepts: quantities are `u64`, and a negative price
is refused. The bounds of the run (`MaxOrders`, `MaxPending`, the flows) may be any.

`PInv` says that a market is in order (`InOrder`): well formed, covered, logged, with
nothing in a symbol that is not listed. `PromisesFollowListings` is not inductive
without three of its parts. The ids given out are below the market's counter
(`Formed`), which is why a book that counts from one again cannot take an old one.
A price is in `1 .. MaxPrice` and a dividend is `declared` against one, or the next
tick divides by nothing. And a symbol wound up is *listed*: a refused delisting leaves
the symbol so, and a later one still finds it in order.

The proof is built from parts of jobs. Each has a lemma that says what it does to the
money and that the market stays in order: orders withdrawn (`WithdrawKeeps`), one
rested (`RestKeeps`), one filled, the money refused or not (`FillKeeps`), a tick
(`TickedKeeps`), a wallet paid (`MoneyChanges`), a symbol listed, wound up, taken off
(`ListKeeps`, `WindUpKeeps`, `UnlistKeeps`). Each of the twelve actions is a few of
these. `BidCents` and `AskShares` split when a set of orders does (`BidCentsSplit`),
which is what a release rests on: it gives back neither more nor less than the orders
that go. `FillAll` is a recursive function over the queue, and each of its values is a
market in order whose book is the rest (`FillAllKeeps`).

That holders are paid alike needs that the draft adds up: what the issuer is debited
is `cents` times the shares of all *traders*, and what accounts are credited goes by
account, several traders to one. `SumByGroup` of `Sums` is that regrouping, and `OwedIs`
applies it. What is left is that no other job looks like a payout (`Alike`): a listing
only adds to an issuer (`Richer`), a sweep gives to the treasury, and a refused
delisting moves nothing and leaves the symbol listed.

### Goods (`GoodsProofs`)

* `GoodsTypes` (`TypeOK`): no wallet overflows, no count of units issued passes its
  width, no price and no bid reaches zero;
* `UnitsAlwaysAccounted` (`UnitsAccounted`): what is issued of a good and not consumed
  is what the holders hold, and the purses hold the cents they held at first;
* `QuotesAlwaysBacked` (`QuotesAreBacked`): what an NPC has reserved is what it quotes,
  which it can pay for and holds; one that is off or frozen quotes nothing;
* `QuotesAlwaysFollow` (`QuotesFollowTheMarket`): after a step every quote was drawn
  around a reference within its NPC's band, is as large as demand asks, or smaller and
  then one that rested before, and crosses no other;
* `PromisesAlwaysKept` (`PromisesKept`): a running job is done in the first step that
  reaches its time and delivers what it promised, or was cancelled for no more than
  it cost.

These are all of the properties `MCGoods` checks. They assume `GoodsAssumption` (finite
sets; an NPC's account is its own and empty until the NPC is created; purses are
different from one another) and `FlowsAssumption`, which is what the market validates
on the way in: quantities, prices, costs and delays are natural numbers, a refund is a
share of the cost, a policy quotes at least one unit. Nothing bounds the number of
goods, NPCs, levels, recipes, jobs or modifiers.

The inductive invariant is

    GInv == flow \in Flows /\ Sound(market) /\ Follows(market)
    Sound(m) == Formed(m) /\ Accounted(m) /\ Unopened(m) /\ Backed(m) /\ Placed(m)

`Accounted` and `Backed` are the two properties, and neither is inductive alone.
`Backed` rests on `Placed`: a redraw puts at most one quote in each place, so a new
quote is not one of the set that rests and the set's sum grows by exactly what was
reserved. It also has what the properties say of quotes themselves: their NPC is at
work on an active account, and none crosses another, since a level that would is
left empty and neither a fill nor a withdrawal can make one cross.
`Unopened` is for `CreateNpc`, which must find an empty account. `Follows` is the part of
`QuotesFollowTheMarket` that holds at *every* state: prices are where the NPC last drew
them and sizes no larger than then. That this was around a reference still good
(`Fresh`) is true only when a step ends, and `RequotedAre` shows that it is true of every
NPC created, since redrawing one disturbs no other (`FreshStays`). That a quote smaller than
it should be is what a fill left, and no new one, is carried through the redraws as
`Whole`: a redraw places quotes of the size it was asked for.

Parts of jobs have a lemma each: units issued and used up (`IssueKeeps`, `UseUpKeeps`),
cents moved (`PayKeeps`), quotes withdrawn, placed, filled (`WithdrawKeeps`,
`PlaceQuoteKeeps`, `FillKeeps`), a purchase, a job started, cancelled and delivered
(`PurchaseKeeps`, `StartKeeps`, `CancelKeeps`, `DeliverKeeps`). The recursions share
two: one whose steps stay in a set has a solution (`RecursionExists`), and its values
stay there (`RecursionStays`). A step composes them in the code's order (`SteppedIs`):
deliveries, then producers, then the world's modifiers, then quotes.

For the promises, `Handed` counts what the jobs with ids up to some id have been given:
after each delivery a player has what it had and what it was promised so far of each
good for which all of it fits. Two things in `PromisesKept` were found by proving it and
are there because the code is so. A job that is done can be gone from the log in the
same step, when an NPC then starts a job and the log is at its cap. And a line for
which there is no room left to issue is dropped by the code, so what a player is sure
of is a good for which everything due fits.

### Authorisation (`AccessProofs`)

* `RevokedKeysStayOut` (`RevokedStaysOut`): a request that arrives after its
  service's revocation was published is refused;
* `PrivilegeIsLeast` (`LeastPrivilege`): a request that is posted or answered runs as
  no more than its key, its service's scopes or its server allow;
* `CredentialsNameTheirOwner` (`KeysOpenWhatTheyName`): a key that was handed out
  opens what the response names.

All three follow from `AccessInv`. The properties speak of requests that are posted or
late and of keys that were handed out; what makes them inductive is the directory
they are judged against. It grows (`Grows`): ids have no gaps, no key changes
hands, a tombstone stays. A key made for a job is nobody's until the job runs, no
two waiting jobs share one (`Fresh`, `DistinctKeys`), and a key a client can present
is one from the start or in use by now (`KnownKeys`): without that, a key guessed
before it was made would open something later. A job carries the
principal its key opened when it was authorised (`MayRun`), and a recorded answer
names its own owner (`EntryOK`), which is what a replayed closing rests on.
`RouteTable` goes through every route of `api.rs`: its extractor and the command's
own check together are enough (`AuthorityGrants`). One lemma per action follows
(`SendStep` to `RunStep`).

The proof is why the model says two things it did not say at first: a request to
close an account records whose it was, since a replayed answer is judged by
that; and clients present only keys they can know (`Known`).

### The limiter (`AccessProofs`)

* `NothingIsFree` (`NoFreeRequests`): no client is granted more than its burst and
  what the time that passed earned it, but for the times that went back;
* `AccessTypes` (`TypeOK`): types, places and buckets within their limits.

`AccountOK` is the account of one client: what its bucket holds and what it was
granted come to no more than the burst, the bucket's time and what went back. A
client *without* a bucket must have been granted less by a whole burst, because
it gets a full one when it comes again; that it has is what a sweep
guarantees, which takes only buckets that would be full by now (`TrackedAccount`).
`LimitsInv` adds that no request read a time that is yet to come, and stands on
`AccessInv`.

### The feeds (`FeedProofs`)

* `FeedTypes` (`TypeOK`): the outbox holds the latest facts under consecutive numbers
  within its cap, and every connection's place is one;
* `NothingIsLost` (`NothingLostSilently`): every fact up to the cursor was acted on or
  reported missing; every fact that has gone was acted on or counted;
* `StreamsNeverBreak` (`StreamUnbroken`), under `Resumes = "at_message"`: a client that
  resumes from the last message it was shown has seen everything it may see, once
  and in order. The bundled UI resumes `at_hello`, and there it is false (below).

`NothingLostSilently` is about the cursor, and alone is not inductive: an
acknowledgement may be on its way for any time. `BackendInv` says the same
(`Dealt`) of every place the backend may ever acknowledge: where it stands, the
page in its hand, and every acknowledgement sent. A page's claim must outlive the
facts in it, so `PageOK` says that what it passes over is gone from the outbox and
*said* to be. Eviction counts what it takes past the cursor (`EvictedIs`), and
everything before the cursor is dealt with, so the count is enough.

For the stream, the invariant is what a gap in the numbers means: a client counts
only messages it was shown, so its place is behind the connection's. `Viewed` says
that between the two there is nothing it may see. A replay begins right after
the place, or at the oldest message kept with a hello that says so
(`GreetedViewed`).

Two operators of `Feed` are written so that they can be reasoned about: `Page` and
`Replay` use that entries are in the order of their numbers, where the code filters;
TLC checks that order on every state, and `Numbered` proves it of the outbox.

### Model-checked and not proved

* The liveness properties (`RequestsAnswered`, `FactsAreAcknowledged`,
  `AnsweredInTheEnd`) and `ENABLED` are out of this prover's reach.
* `Journal` outside `Covered`: the violation run and the divergences below are there.
* `Registry` after a restart that follows a half-done refusal: the divergence below.
* `Trading`, with `Book` and `Exchange`: folds over sequences chosen from sets, with
  icebergs that refresh in the middle of a match. `Payouts` and `Goods` were of this
  kind until their folds were written as recursive functions and sets of orders.
  `Conserved` and `SettlementRefusals` rest on that matching too.
* `RefusedDelistingKeepsTrading` of `Payouts` is false (below).

## What the model disagrees with

Three runs show the code doing what its own comments say it does not; `findings`
in `PROJECT.json` quotes the lines.

1. A torn last line is dropped by the reader and left in the file, so the next
   acknowledged entry is written on the same line and lost (`MCJournalTorn`).
2. An amendment refused by the symbol after its withdrawal releases nothing
   (`MCTradingAmend`).
3. A delisting without a price winds the symbol up before it finds the buyout
   unfunded (`MCPayoutsDelist`). The refusal is not journaled either, so a replayed
   world trades what the live one no longer does.

Three more are in the flows of passing runs, whose properties say what the code does
instead:

4. A sign-up whose account is refused leaves its user, and a budget that finds the
   book full leaves its wallet and the money in it; neither is journaled, though
   `journal.rs:1051` and `1194` say that a refusal changes nothing and
   `market.rs:3240` that it opens no wallet. A replay then numbers what comes later
   differently from what clients were told (`MCRegistry`, `ReplayReproduces`). A
   refused NPC (its user id) and a refused purchase (the issuer wallet it opened)
   do the same in the code.
5. `market.rs:1513` calls a refused settlement a bug that everything upstream
   prevents. A market buy is priced without icebergs' hidden quantity and matches it,
   and an account with a resting sell and an empty wallet may be closed: both end in
   a refused settlement (`MCTrading`, `SettlementRefusals`). The comment adds that the
   shares have moved by then; they have not, since `book` passes over the trade.
6. `trading.rs:659` calls a client id unique per trader. `place` looks it up and
   `amend` does not, so an amendment may take the id of another live order, and a
   retry of that one is placed again once the amended order's record is evicted
   (`MCTrading`, `RecordsAgree`).

Others were met in the same way and have no run of their own; where a set of flows
or environments in an MC module is named, a cfg that uses it shows the divergence.

* A snapshot written while the journal is broken keeps the effect of a command
  that was answered with an error, without its key, and a retry after a restart
  applies it a second time: `AppendFault` with the autosave, against `AppliedOnce`.
* An entry written but not flushed before a kill is replayed and answers a retry
  without ever being flushed: `KillAndPower`, against `AckedSurvives`.
* Dividends are each held against the price of the day, and two declared before
  one tick may take more off it than it is worth; in the run `MaxPending` is 1.
* The bundled UI takes the `seq` of a `hello` for its own place before it has been
  given the replay (`ui/src/stream.ts`, `#handle`): `Resumes = "at_hello"`,
  against `StreamUnbroken`.
* A stream starts again from one with the server, and a client that asks for
  more than it has numbers is told of no gap, where the README of the server says
  the flag is set when, and only when, the buffer cannot reach that far.
* A game event set for later prunes the world's modifiers as of its own start, so
  one still in force now is forgotten (`world.rs`, `push`; `Goods.GameEvent`).
* `limit.rs` says admission bounds the market's mailbox; a client that gives up
  returns its place while its job still waits there (`Access.Disconnect`). It also
  says an untracked client is never better off: it spends the shared bucket, and
  when there is room again it starts with a full one of its own.

## Abstracted, and not modelled

* Prices are integers from a small set and the price process is a choice: the
  simulator's float arithmetic, candles, the order-flow imbalance and scheduled
  events are left out. So are the price band and the session calendar: a halt may
  begin or, if automatic, end at any step.
* Positions are quantities; cost basis and profit are not kept, for shares or for
  goods.
* In `Registry` accounts are never frozen or closed, wallets have no cap, and
  balances are natural numbers: `Ledger` has those.
* In `Payouts` orders rest, are withdrawn or fill whole, without fees; a holder whose
  amount overflows an `i64`, whom the code leaves out of the transaction without a
  word, is beyond the bounds.
* In `Goods` NPCs quote goods only (the code lets them quote stocks), a good is not
  delisted, accounts are frozen and not closed, and trades have no fee. A free job
  still asks for one available cent, as in the code; a cancelled one is refunded by
  the recipe as it is then.
* In `Feed` a message is its number and its audience; what it says, and a restart of
  the stream, are left out. The outbox's numbers across a crash are `Journal`'s.
* In `Access` a request authorised before a revocation still runs, as in the code;
  the routes only the operator has take any key on a server with no operator key.
  A body or a symbol refused is a refusal that may happen to any request. The
  places of streams, `Retry-After` and fractions of a token are left out.
* `SharesDto::fetch` asks two actors in turn and may show a sum no instant had;
  nothing depends on it, and it is not modelled.
* The snapshot is a copy of memory; its format, validation and upgrades are not
  modelled, nor are I/O errors of a truncation after its rename, two writers of
  the temporary file at once, nor directory entries that were never flushed.
* A command in `Journal` is opaque; a refused one changes nothing there. What a
  refusal may leave behind is `Registry`'s subject.
* The simulator, audits, metrics, the UI, benchmarks and examples are not modelled;
  `components` gives the reason for each.

## Plan

Done, in this order: the ledger, because everything moves through it, with its
proofs; the journal, because every promise to a client rests on it; the trading
core; the registry and rewards; payouts; goods; the feed; access and the limiter; then
the proofs of conservation, authorisation, the limiter, the feeds, the journal, the
registry, payouts and goods.

To prove next: `ReservationsMatchBook` and `RecordsAgree` of `Trading`, for the flows in
which no amendment is refused half-way, once its matching is a recursive function over
fills as the restocking of `Goods` is over purchases.

To model, if the code grows there: snapshots with two writers at once and a
truncation that fails after its rename; a stream that starts again; NPCs in stocks.
