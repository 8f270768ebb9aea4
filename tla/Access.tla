------------------------------- MODULE Access -------------------------------
(***************************************************************************)
(* A request on its way through the server (api.rs): counted against its   *)
(* client's allowance, admitted to a bounded number of places (limit.rs),  *)
(* authorised from the directory the market last published (auth.rs,       *)
(* service.rs), posted to the market actor's mailbox, run there one at a   *)
(* time, and answered, unless the client has gone: hyper then drops the    *)
(* request with its place, and the job it posted still runs.               *)
(*                                                                         *)
(* What a command does to the world is in the other modules; here one      *)
(* changes who is who or nothing.  A user stands for the traders, accounts *)
(* and orders it owns, which never change hands, so that a request names   *)
(* the user its path or body leads to.  A body or a symbol the handler     *)
(* does not take is a refusal that may happen to any request.              *)
(***************************************************************************)
EXTENDS Limits, Sequences, SequencesExt

CONSTANTS
    Flows,          \* what a behaviour consists of: routes, keys, a rate ...
    Requests,       \* the requests' numbers, 1 and up
    MAX_INFLIGHT,   \* FEHU_MAX_INFLIGHT: places for requests that change things
    MaxClock        \* bound on the time that passes

ASSUME AccessAssumption ==
    /\ Requests \subseteq Nat \ {0} /\ IsFiniteSet(Requests)
    /\ MAX_INFLIGHT \in Nat \ {0} /\ MaxClock \in Nat

VARIABLES
    requests,   \* each request: its stage, what it asks and as whom
    mailbox,    \* the jobs posted to the market actor
    directory,  \* who is who, as published
    log,        \* the answers recorded under idempotency keys
    places,     \* places left
    limiter, clock,
    handed,     \* the credentials in the responses clients have received
    spent,      \* what each client has been granted from its own bucket
    flow        \* an element of Flows, the same throughout a behaviour

vars == <<requests, mailbox, directory, log, places, limiter, clock, handed, spent, flow>>

-----------------------------------------------------------------------------
(* Credentials *)

NoKey == 0
OperatorKey == -1               \* FEHU_ADMIN_KEY
NoRetry == "no idempotency key"

Scopes == {"provision", "reward", "inventory", "events"}

Refused   == [kind |-> "Refused", id |-> 0]
Operator  == [kind |-> "Operator", id |-> 0]
Anonymous == [kind |-> "Anonymous", id |-> 0]
User(id)  == [kind |-> "User", id |-> id]
Service(id) == [kind |-> "Service", id |-> id]

\* Keyring::user_of: the user a key speaks for, none or one.
UsersOf(key) == {u \in DOMAIN directory.users : directory.users[u] = key}

\* Mutant of ServicesOf: a key taken away is a key unknown.
LiveServicesOf(key) ==
    {s \in DOMAIN directory.services :
       directory.services[s].key = key /\ ~directory.services[s].revoked}

\* Services::resolve: the service a key speaks for, revoked or not.
ServicesOf(key) == {s \in DOMAIN directory.services : directory.services[s].key = key}

\* The client whose allowance a request spends.
ClientOf(key) ==
    IF ServicesOf(key) # {} THEN Service(CHOOSE s \in ServicesOf(key) : TRUE)
    ELSE IF UsersOf(key) # {} THEN User(CHOOSE u \in UsersOf(key) : TRUE)
    ELSE NoClient

-----------------------------------------------------------------------------
(* The extractors: the principal a request runs as, or Refused *)

Caller(key) == IF UsersOf(key) = {} THEN Refused ELSE User(CHOOSE u \in UsersOf(key) : TRUE)

\* Open to anyone on a server with no FEHU_ADMIN_KEY.
Admin(key) == IF flow.locked /\ key # OperatorKey THEN Refused ELSE Operator

Owner(key, user) == IF Caller(key) = User(user) THEN User(user) ELSE Refused

\* A key the registry knows is judged as that service and as nothing else.
AsService(key, scopes) ==
    LET s == CHOOSE x \in ServicesOf(key) : TRUE
    IN  IF directory.services[s].revoked \/ directory.services[s].scopes \cap scopes = {}
        THEN Refused ELSE Service(s)

Trusted(key, scopes) == IF ServicesOf(key) # {} THEN AsService(key, scopes) ELSE Admin(key)

\* Mutant of GoodsPrincipal: any service may act for any player.
AnyGoodsPrincipal(key, user) ==
    IF ServicesOf(key) # {} THEN AsService(key, Scopes) ELSE Owner(key, user)

GoodsPrincipal(key, user) ==
    IF ServicesOf(key) # {} THEN AsService(key, {"inventory"}) ELSE Owner(key, user)

MayReadWallet(key, scopes, user) ==
    IF ServicesOf(key) # {} THEN AsService(key, scopes)
    ELSE IF Admin(key) = Operator THEN Operator ELSE Owner(key, user)

\* A caller reads its own; the operator's view is for a key that was presented.
PresentedOperatorKey(key, user) ==
    IF Caller(key) # Refused THEN Owner(key, user)
    ELSE IF flow.locked THEN Admin(key) ELSE Refused

\* get_command: whose recorded answer one may ask for.
MayRecover(key, retry) ==
    LET whose == log[retry].principal
        live  == {s \in ServicesOf(key) : ~directory.services[s].revoked}
    IN  IF retry \notin DOMAIN log THEN Refused
        ELSE IF \/ whose.kind = "Anonymous"
                \/ whose.kind = "User" /\ Caller(key) = whose
                \/ whose.kind = "Service" /\ whose.id \in live
        THEN whose
        ELSE IF whose.kind # "User" THEN Admin(key) ELSE Refused

Authority(route, key, user, retry) ==
    CASE route.by = "anyone"    -> Anonymous
      [] route.by = "operator"  -> Admin(key)
      [] route.by = "keyholder" -> Caller(key)
      [] route.by = "owner"     -> Owner(key, user)
      [] route.by = "trusted"   -> Trusted(key, route.scopes)
      [] route.by = "goods"     -> GoodsPrincipal(key, user)
      [] route.by = "wallet"    -> MayReadWallet(key, route.scopes, user)
      [] route.by = "presented" -> PresentedOperatorKey(key, user)
      [] route.by = "recovery"  -> MayRecover(key, retry)
      [] route.by = "either"    -> IF Admin(key) = Operator THEN Operator ELSE Owner(key, user)

-----------------------------------------------------------------------------
(* The routes, by the sections of api.rs.  Reads are neither counted nor   *)
(* admitted; everybody may read market data, which has no route here.      *)

Write(by, scopes, command) ==
    [by |-> by, scopes |-> scopes, command |-> command, safe |-> FALSE]
Read(by, scopes, command) ==
    [by |-> by, scopes |-> scopes, command |-> command, safe |-> TRUE]
OperatorWrites(commands) == {Write("operator", {}, c) : c \in commands}
OwnerWrites(commands) == {Write("owner", {}, c) : c \in commands}
OwnerReads(commands) == {Read("owner", {}, c) : c \in commands}

ListingRoutes == OperatorWrites({"ListSymbol", "Reconfigure"})
NpcRoutes == OperatorWrites({"CreateNpc", "SetNpcProduction", "SetNpcActive"})
CatalogRoutes == OperatorWrites({"SetCatalogItem", "RemoveCatalogItem"})
RecipeRoutes == OperatorWrites({"SetRecipe", "RemoveRecipe"})
JobRoutes ==
    OwnerWrites({"StartJob", "CancelJob"})
      \cup {Read("keyholder", {}, "ListJobs"), Read("either", {}, "GetJob")}
BudgetRoutes ==
    OperatorWrites({"CreateBudget", "FundBudget", "SetRewardRule", "RemoveRewardRule"})
      \cup {Read("trusted", {"reward"}, "GetBudgets")}
RewardRoutes == {Write("trusted", {"reward"}, "PayReward")}
ServiceRoutes ==
    OperatorWrites({"CreateService", "RevokeService"})
      \cup {Read("operator", {}, "ListServices")}
PlayerRoutes ==
    {Write("trusted", {"provision"}, "ProvisionPlayer"),
     Read("trusted", {"provision"}, "ListPlayers")}
TransferRoutes == {Write("either", {}, "Transfer")}
WalletRoutes ==
    {Read("wallet", {"provision", "reward", "inventory"}, c) :
       c \in {"GetWallet", "GetWalletTransactions"}}
      \cup OperatorWrites({"Sweep"}) \cup {Read("goods", {}, "GetInventory")}
GoodsRoutes == {Write("goods", {}, "Purchase"), Write("goods", {}, "Consume")}
OwnGoodsRoutes == OwnerWrites({"Purchase", "Consume"})
SymbolRoutes == OperatorWrites({"Delist", "Halt", "Resume"})
EventRoutes == OperatorWrites({"SimEvent"}) \cup {Write("trusted", {"events"}, "GameEvent")}
SignUpRoutes == {Write("anyone", {}, "SignUp")} \cup OwnerWrites({"CreateTrader"})
TraderRoutes ==
     OwnerReads({"GetTrader"})
      \cup {Read("keyholder", {}, "ListTraders")}
OrderEntryRoutes == OwnerWrites({"PlaceOrder"}) \cup OperatorWrites({"Dividend"})
OrderRoutes ==
    OwnerWrites({"AmendOrder", "CancelOrder", "CancelAll"})
      \cup OwnerReads({"GetOrderRecord", "ListTraderOrders", "ListOrders", "GetOrder"})
StopRoutes ==
    OwnerWrites({"PlaceStop", "CancelStop"}) \cup OwnerReads({"ListStops", "ListTraderStops"})
UserRoutes ==
    OwnerReads({"GetHoldings", "ListUserAccounts"})
      \cup {Write("anyone", {}, "CreateUser"),
            Read("presented", {}, "ListUsers"), Read("presented", {}, "GetUser")}
AccountRoutes ==
    OwnerWrites({"OpenAccount"})
      \cup OwnerReads({"GetAccount"})
      \cup {Read("keyholder", {}, "ListAccounts")}
MoneyRoutes == OperatorWrites({"Mint", "Burn"})
\* Freezing is the operator's and closing the owner's, whom the command checks.
StatusRoutes ==
    OperatorWrites({"Freeze", "Unfreeze", "MintToTrader"})
      \cup {Write("keyholder", {}, "Close")}
      \cup OwnerReads({"ValidateAccount", "GetLedger"})
BackendRoutes ==
    {Write("trusted", Scopes, "AckOutbox"), Read("trusted", Scopes, "ReadOutbox"),
     Read("operator", {}, "Backup"), Read("operator", {}, "Overview")}
RecoveryRoutes == {Read("recovery", {}, "GetCommand")}

Routes ==
    UNION {ListingRoutes, NpcRoutes, CatalogRoutes, RecipeRoutes, JobRoutes, BudgetRoutes,
           RewardRoutes, ServiceRoutes, PlayerRoutes, TransferRoutes, WalletRoutes,
           GoodsRoutes, OwnGoodsRoutes, SymbolRoutes, EventRoutes, SignUpRoutes,
           TraderRoutes, OrderEntryRoutes, OrderRoutes, StopRoutes, UserRoutes, AccountRoutes, MoneyRoutes,
           StatusRoutes, BackendRoutes, RecoveryRoutes}

-----------------------------------------------------------------------------
(* A request *)

Unsent == [stage |-> "unsent"]

Holding(r) == requests[r].stage \in {"admitted", "authorised", "posted", "answered"}
Placed(r) == Holding(r) /\ ~requests[r].route.safe

At(r, stage) == requests[r].stage = stage

\* Mutant of Ends: a client that goes away keeps its place.
EndsAnswered(r, how) ==
    /\ requests' = [requests EXCEPT ![r].stage = how]
    /\ places' = IF Placed(r) /\ how = "ended" THEN places + 1 ELSE places

\* The request ends, and gives its place back however it ends.
Ends(r, how) ==
    /\ requests' = [requests EXCEPT ![r].stage = how]
    /\ places' = IF Placed(r) THEN places + 1 ELSE places

\* What a client may present: no key, one that was there from the start, or one
\* a response has told.  A key is 128 random bits: nobody guesses another.
Known == NoKey .. 3 \cup {OperatorKey} \cup {h.key : h \in handed}

\* The limiter's answer is asked for with the time read on the way.
Send(r) ==
    \E route \in flow.routes, key \in flow.keys \cap Known, user \in flow.users, retry \in flow.retries :
        /\ r <= flow.length /\ At(r, "unsent") /\ \A q \in Requests : q < r => ~At(q, "unsent")
        /\ requests' = [requests EXCEPT ![r] =
             [stage |-> IF route.safe THEN "admitted" ELSE "sent", route |-> route,
              key |-> key, user |-> user, retry |-> retry, at |-> clock,
              client |-> ClientOf(key),
              late |-> [key |-> key, revoked |-> TRUE] \in
                         {[key |-> s.key, revoked |-> s.revoked] : s \in Range(directory.services)},
              principal |-> Refused, new_key |-> NoKey, answer |-> Unsent]]
        /\ UNCHANGED <<mailbox, directory, log, places, limiter, clock, handed, spent, flow>>

\* What the client's own bucket has granted, and how far its time went back.
\* A bucket that is swept was full at the time the sweeping request read.
Spending(who, took, at) ==
    [c \in DOMAIN spent |->
       LET before == spent[c].at
           now    == IF c \in DOMAIN took.limiter.clients
                     THEN took.limiter.clients[c].at
                     ELSE IF c \in DOMAIN limiter.clients THEN at ELSE before
       IN  [grants |-> spent[c].grants + (IF c = who /\ took.own /\ took.allowed THEN 1 ELSE 0),
            at |-> now,
            rewound |-> spent[c].rewound + (IF now < before THEN before - now ELSE 0)]]

\* rate_limit_writes, then admit: neither waits for a place.
Admit(r) ==
    /\ At(r, "sent")
    /\ \E clients \in {Tracking(limiter.clients, flow.burst, requests[r].client, requests[r].at)} :
       \E took \in {Take(limiter, clients, flow.burst, requests[r].client, requests[r].at)} :
         /\ limiter' = took.limiter
         /\ spent' = Spending(requests[r].client, took, requests[r].at)
         /\ IF took.allowed /\ places > 0
            THEN /\ requests' = [requests EXCEPT ![r].stage = "admitted"]
                 /\ places' = places - 1
            ELSE Ends(r, "ended")
    /\ UNCHANGED <<mailbox, directory, log, clock, handed, flow>>

\* The extractors and the handler's checks, from the directory as published.
Authorise(r) ==
    LET q == requests[r]
        principal == Authority(q.route, q.key, q.user, q.retry)
    IN  /\ At(r, "admitted")
        /\ IF principal = Refused THEN Ends(r, "ended")
           ELSE /\ requests' = [requests EXCEPT ![r].stage = "authorised",
                                                ![r].principal = principal]
                /\ UNCHANGED places
        /\ UNCHANGED <<mailbox, directory, log, limiter, clock, handed, spent, flow>>

Creates(route) == route.command \in {"CreateUser", "SignUp", "ProvisionPlayer", "CreateService"}

\* The body has been read: refused, or posted with the key made for it.
Post(r) ==
    /\ At(r, "authorised")
    /\ \/ /\ Ends(r, "ended")
          /\ UNCHANGED <<mailbox, directory>>
       \/ /\ requests' = [requests EXCEPT ![r].stage = "posted",
                                          ![r].new_key = directory.next_key]
          /\ directory' = IF Creates(requests[r].route)
                          THEN [directory EXCEPT !.next_key = @ + 1] ELSE directory
          /\ mailbox' = Append(mailbox, r)
          /\ UNCHANGED places
    /\ UNCHANGED <<log, limiter, clock, handed, spent, flow>>

-----------------------------------------------------------------------------
(* The market actor *)

With(f, x, y) == [z \in DOMAIN f \cup {x} |-> IF z = x THEN y ELSE f[z]]

\* Keyring::install under the next id.
AddUser(d, key) ==
    [d EXCEPT !.users = With(@, d.next_user, key), !.next_user = @ + 1]

\* Services::install under the next id.
AddService(d, key) ==
    [d EXCEPT !.services = With(@, d.next_service, [key |-> key, scopes |-> flow.scopes,
                                                    revoked |-> FALSE]),
              !.next_service = @ + 1]

\* Services::revoke: a tombstone.
Revoke(d, s) == [d EXCEPT !.services[s].revoked = TRUE]

Made(status, principal) == [status |-> status, names |-> principal]

\* What a command makes of the directory and answers.  A sign-up may be
\* refused with its user already there, the treasury being dry.
Applied(q) ==
    LET key == q.new_key
        d == directory
        user == {[directory |-> AddUser(d, key), answer |-> Made(201, User(d.next_user))]}
        refused == {[directory |-> d, answer |-> Made(400, Refused)]}
    IN  CASE q.route.command = "CreateUser" -> user
          [] q.route.command = "SignUp" ->
               user \cup {[directory |-> AddUser(d, key), answer |-> Made(400, Refused)]}
          [] q.route.command = "ProvisionPlayer" ->
               IF q.user \in DOMAIN d.players
               THEN {[directory |-> d, answer |-> Made(200, User(d.players[q.user]))]}
               ELSE {[directory |-> [AddUser(d, key) EXCEPT
                                       !.players = With(@, q.user, d.next_user)],
                      answer |-> Made(201, User(d.next_user))]}
          [] q.route.command = "CreateService" ->
               refused \cup {[directory |-> AddService(d, key),
                              answer |-> Made(201, Service(d.next_service))]}
          [] q.route.command = "RevokeService" ->
               IF q.user \in DOMAIN d.services
               THEN {[directory |-> Revoke(d, q.user), answer |-> Made(200, Refused)]}
               ELSE refused
          [] q.route.command = "Close" /\ q.principal # User(q.user) -> refused
          [] OTHER -> refused \cup {[directory |-> d, answer |-> Made(200, Refused)]}

\* What two deliveries of one request have in common: not the key made for it,
\* but a closing says whose account it is to be.
Payload(q) ==
    <<q.route.command, q.user, IF q.route.command = "Close" THEN q.principal.id ELSE 0>>

\* What run_command answers, and what it has done.  A recorded answer is given
\* again; a conflict is a refusal.
RunCommand(q) ==
    IF q.retry \in DOMAIN log /\ ~q.route.safe
    THEN {[directory |-> directory, log |-> log,
           answer |-> IF log[q.retry].payload = Payload(q)
                      THEN [made |-> log[q.retry].made, replayed |-> TRUE]
                      ELSE [made |-> Made(409, Refused), replayed |-> FALSE]]}
    ELSE {[directory |-> done.directory,
           answer |-> [made |-> done.answer, replayed |-> FALSE],
           log |-> IF q.retry = NoRetry \/ q.route.safe \/ done.answer.status >= 400 THEN log
                   ELSE With(log, q.retry, [payload |-> Payload(q), made |-> done.answer,
                                            principal |-> q.principal])] :
            done \in Applied(q)}

\* The market runs its oldest job, whose client may have gone.
RunJob(r) ==
    \E ran \in RunCommand(requests[r]) :
        /\ directory' = ran.directory /\ log' = ran.log
        /\ requests' = [requests EXCEPT ![r].stage = IF @ = "posted" THEN "answered" ELSE @,
                                       ![r].answer = ran.answer]
        /\ mailbox' = Tail(mailbox)
        /\ UNCHANGED <<places, limiter, clock, handed, spent, flow>>

\* Mutant of Run: a job whose client has gone is never finished.
RunAwaited == mailbox # <<>> /\ At(Head(mailbox), "posted") /\ RunJob(Head(mailbox))

Run == mailbox # <<>> /\ RunJob(Head(mailbox))

\* Mutant of WithKey: every answer to the request carries the key made for it.
WithKeyAlways(q) ==
    IF Creates(q.route) /\ q.answer.made.status < 300
    THEN {[key |-> q.new_key, names |-> q.answer.made.names]} ELSE {}

\* with_key: the credential goes out once, in the response that made it.
WithKey(q) ==
    IF Creates(q.route) /\ ~q.answer.replayed /\ q.answer.made.status = 201
    THEN {[key |-> q.new_key, names |-> q.answer.made.names]} ELSE {}

Receive(r) ==
    /\ At(r, "answered") /\ Ends(r, "ended")
    /\ handed' = handed \cup WithKey(requests[r])
    /\ UNCHANGED <<mailbox, directory, log, limiter, clock, spent, flow>>

\* The connection is lost: the request and its place go, its job does not.
Disconnect(r) ==
    /\ flow.losses /\ Holding(r) /\ Ends(r, "gone")
    /\ UNCHANGED <<mailbox, directory, log, limiter, clock, handed, spent, flow>>

Tick ==
    /\ flow.burst > 0 /\ clock < MaxClock /\ clock' = clock + 1
    /\ UNCHANGED <<requests, mailbox, directory, log, places, limiter, handed, spent, flow>>

-----------------------------------------------------------------------------

ASSUME FlowsAssumption ==
    \A f \in Flows :
        /\ f.routes \subseteq Routes /\ f.keys \subseteq Int /\ f.users \subseteq Nat
        /\ f.scopes \subseteq Scopes /\ f.burst \in Nat

\* Two players with keys and a service of the flow's scopes.
Init ==
    /\ flow \in Flows
    /\ requests = [r \in Requests |-> Unsent]
    /\ mailbox = <<>>
    /\ directory = [users |-> [u \in 1 .. 2 |-> u], next_user |-> 3,
                    services |-> [s \in 1 .. 1 |-> [key |-> 3, scopes |-> flow.scopes, revoked |-> FALSE]],
                    next_service |-> 2, players |-> <<>>, next_key |-> 4]
    /\ log = [k \in {} |-> 0]
    /\ places = MAX_INFLIGHT
    /\ limiter = NewLimiter(flow.burst)
    /\ clock = 0
    /\ handed = {}
    /\ spent = [c \in {User(1), User(2), Service(1)} |-> [grants |-> 0, at |-> 0, rewound |-> 0]]

\* The server's side of a request that the market is not at work on.
Serve(r) == Admit(r) \/ Authorise(r) \/ Post(r) \/ Receive(r)

Next ==
    \/ \E r \in Requests : Send(r)
    \/ \E r \in Requests : Serve(r)
    \/ Run
    \/ \E r \in Requests : Disconnect(r)
    \/ Tick

Spec == Init /\ [][Next]_vars

\* Every task of the server is run on; a client may be as slow as it likes
\* to send, and need not be there at the end.
ServerFairness == WF_vars(Run) /\ \A r \in Requests : WF_vars(Serve(r))

FairSpec == Spec /\ ServerFairness

-----------------------------------------------------------------------------
(* Properties *)

Principals == [kind : {"Operator", "Anonymous", "User", "Service", "Refused"}, id : Nat]

TypeOK ==
    /\ \A r \in Requests :
         /\ requests[r].stage \in {"unsent", "sent", "admitted", "authorised", "posted",
                                   "answered", "ended", "gone"}
         /\ ~At(r, "unsent") => requests[r].principal \in Principals
    /\ mailbox \in Seq(Requests) /\ IsInjective(mailbox)
    /\ places = MAX_INFLIGHT - Cardinality({r \in Requests : Placed(r)}) /\ places >= 0
    /\ DOMAIN directory.users = 1 .. directory.next_user - 1
    /\ DOMAIN directory.services = 1 .. directory.next_service - 1
    /\ Cardinality(DOMAIN limiter.clients) <= MAX_BUCKETS

\* A revocation that has been published is final: no request sent after it
\* with that key is ever authorised where services are judged, locked server
\* or not ("a key that was taken away is refused as revoked rather than as
\* unknown", service.rs), however long it then waits.  One authorised before
\* may still run.
RevokedStaysOut ==
    \A r \in Requests :
        /\ ~At(r, "unsent") /\ requests[r].late
        /\ requests[r].route.by \in {"trusted", "goods", "wallet"}
        => requests[r].stage \in {"sent", "admitted", "ended", "gone"}

\* What each scope opens (the table of service.rs, the reads beside them).
Opens(scope) ==
    {"AckOutbox", "ReadOutbox"} \cup
    CASE scope = "provision" -> {"ProvisionPlayer", "ListPlayers", "GetWallet",
                                 "GetWalletTransactions"}
      [] scope = "reward"    -> {"PayReward", "GetBudgets", "GetWallet", "GetWalletTransactions"}
      [] scope = "inventory" -> {"Purchase", "Consume", "GetInventory", "GetWallet",
                                 "GetWalletTransactions"}
      [] scope = "events"    -> {"GameEvent"}

ForServices == UNION {Opens(scope) : scope \in Scopes}

\* What only the operator may do.
ForOperators ==
    {"ListSymbol", "Reconfigure", "CreateNpc", "SetNpcProduction", "SetNpcActive",
     "SetCatalogItem", "RemoveCatalogItem", "SetRecipe", "RemoveRecipe", "CreateBudget",
     "FundBudget", "SetRewardRule", "RemoveRewardRule", "CreateService", "RevokeService",
     "ListServices", "Sweep", "Delist", "Halt", "Resume", "Dividend", "SimEvent", "Mint",
     "Burn", "MintToTrader", "Freeze", "Unfreeze", "Backup", "Overview"}

\* A command runs for its principal's own business and no more: a service
\* within the scopes it carries and never as the operator, not even on an
\* open server; the operator with the key, where there is one; a player on
\* what is the player's; and a recorded answer goes to whoever may have it.
LeastPrivilege ==
    \A r \in Requests :
        LET q == requests[r] IN
        ~At(r, "unsent") /\ q.stage \in {"posted", "answered"} =>
            CASE q.principal.kind = "Service" ->
                   /\ directory.services[q.principal.id].key = q.key
                   /\ \/ q.route.command = "GetCommand"
                      \/ \E scope \in directory.services[q.principal.id].scopes :
                           q.route.command \in Opens(scope)
              [] q.principal.kind = "Operator" ->
                   /\ flow.locked => q.key = OperatorKey
                   /\ q.route.command \in ForServices => ServicesOf(q.key) = {}
              [] q.principal.kind = "User" ->
                   /\ directory.users[q.principal.id] = q.key
                   /\ q.route.command \notin ForOperators
                   /\ \/ q.principal.id = q.user
                      \/ q.route.command \in {"ListJobs", "ListTraders", "ListAccounts", "GetCommand"}
                      \/ q.stage = "posted" \/ q.answer.made.status >= 400
              [] q.principal.kind = "Anonymous" ->
                   q.route.command \in {"CreateUser", "SignUp", "GetCommand"}

\* "A key exists in full exactly once, in the response that created the user"
\* (auth.rs): a credential a client has received is that of the user or the
\* service it came with, through retries, conflicts and lost responses.
KeysOpenWhatTheyName ==
    \A h \in handed :
        /\ h.names.kind = "User" => directory.users[h.names.id] = h.key
        /\ h.names.kind = "Service" => directory.services[h.names.id].key = h.key
        /\ h.names.kind \in {"User", "Service"}
        /\ \A g \in handed : g.key = h.key => g = h

\* A bucket of one's own grants no more than its burst and what time has
\* earned, plus what requests counted out of the order they read the clock
\* in give back, the one that swept the bucket included: a sweep by itself
\* hands out nothing.
NoFreeRequests ==
    \A c \in DOMAIN spent : spent[c].grants <= flow.burst + clock + spent[c].rewound

\* Whatever is sent is answered, refused or given up by its client, and the
\* market gets to every job, whoever still waits for it.
AnsweredInTheEnd ==
    \A r \in Requests :
        ~At(r, "unsent") ~> (At(r, "ended") \/ At(r, "gone")) /\ r \notin ToSet(mailbox)
=============================================================================
