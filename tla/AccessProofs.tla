---------------------------- MODULE AccessProofs ----------------------------
(***************************************************************************)
(* Theorems of Access.tla about who may do what, for every set of flows,   *)
(* every number of requests, any limit of places and any time.             *)
(*                                                                         *)
(* The properties speak of requests that are posted or late, and of keys   *)
(* that were handed out.  What makes them inductive is the directory they  *)
(* are judged against: it grows, no key in it ever changes hands, and a    *)
(* key that is made for a job is nobody's until that job runs (Grows,      *)
(* Fresh).                                                                 *)
(***************************************************************************)
EXTENDS Access, FiniteSetTheorems, TLAPS

\* The requests whose jobs are in the market actor's mailbox.
Jobs == ToSet(mailbox)

Sent(r) == requests[r] # Unsent

Answers == [made : [status : Nat, names : Principals], replayed : BOOLEAN]

Stages == {"sent", "admitted", "authorised", "posted", "answered", "ended", "gone"}

\* A request that was sent.
RequestType ==
    [stage : Stages, route : Routes, key : Int, user : Nat, retry : flow.retries, at : Nat,
     client : Principals \cup {NoClient}, late : BOOLEAN, principal : Principals,
     new_key : Nat, answer : {Unsent} \cup Answers]

\* Types, and each job's request was sent and is queued once.
Shape ==
    /\ flow \in Flows /\ clock \in Nat
    /\ requests \in [Requests -> {Unsent} \cup RequestType]
    /\ mailbox \in Seq(Requests) /\ IsInjective(mailbox)
    /\ \A r \in Jobs : Sent(r)

\* The directory: ids without gaps, and no key speaks for two (the keys
\* in use are below the next one to be made).
DirectoryOK(d) ==
    /\ DOMAIN d = {"users", "next_user", "services", "next_service", "players", "next_key"}
    /\ d.next_user \in Nat \ {0} /\ d.next_service \in Nat \ {0}
    /\ d.next_key \in Nat /\ d.next_key >= 4
    /\ d.users \in [1 .. d.next_user - 1 -> 1 .. d.next_key - 1]
    /\ d.services \in [1 .. d.next_service - 1 ->
                        [key : 1 .. d.next_key - 1, scopes : SUBSET Scopes, revoked : BOOLEAN]]
    /\ \A p \in DOMAIN d.players : d.players[p] \in DOMAIN d.users
    /\ \A u, v \in DOMAIN d.users : d.users[u] = d.users[v] => u = v
    /\ \A s, t \in DOMAIN d.services : d.services[s].key = d.services[t].key => s = t
    /\ \A u \in DOMAIN d.users, s \in DOMAIN d.services : d.users[u] # d.services[s].key

Serves(d, s, key) == s \in DOMAIN d.services /\ d.services[s].key = key

\* A key that speaks for somebody.
Taken(d, key) ==
    (\E u \in DOMAIN d.users : d.users[u] = key) \/ (\E s \in DOMAIN d.services : Serves(d, s, key))

\* What LeastPrivilege asks of a principal, with what the directory must
\* go on saying for it to stay so.  A closing may be authorised for
\* another's account: the command refuses it.
MayRun(d, locked, p, route, key, user) ==
    /\ p.kind # "Refused"
    /\ p.kind = "Service" =>
         /\ Serves(d, p.id, key)
         /\ \/ route.command = "GetCommand"
            \/ \E scope \in d.services[p.id].scopes : route.command \in Opens(scope)
    /\ p.kind = "Operator" =>
         /\ locked => key = OperatorKey
         /\ route.command \in ForServices => \A s \in DOMAIN d.services : ~Serves(d, s, key)
    /\ p.kind = "User" =>
         /\ p.id \in DOMAIN d.users /\ d.users[p.id] = key
         /\ route.command \notin ForOperators
         /\ \/ p.id = user
            \/ route.command \in {"ListJobs", "ListTraders", "ListAccounts", "GetCommand", "Close"}
    /\ p.kind = "Anonymous" => route.command \in {"CreateUser", "SignUp", "GetCommand"}

\* The key opens what it was handed out for.
Named(d, names, key) ==
    \/ names.kind = "User" /\ names.id \in DOMAIN d.users /\ d.users[names.id] = key
    \/ names.kind = "Service" /\ Serves(d, names.id, key)

\* What a request was answered: not that a closing of another's account
\* was done, and no key but its owner's.
AnswerOK(d, q, answer) ==
    /\ answer \in Answers
    /\ q.route.command = "Close" /\ q.principal.id # q.user => answer.made.status >= 400
    /\ Creates(q.route) /\ ~answer.replayed /\ answer.made.status = 201
         => Named(d, answer.made.names, q.new_key)

RevokedKey(d, key) == \E s \in DOMAIN d.services : Serves(d, s, key) /\ d.services[s].revoked

\* A request sent after its key was revoked gets no further than
\* admitted.
LateOK(d, q) ==
    q.late => /\ RevokedKey(d, q.key)
              /\ q.route.by \in {"trusted", "goods", "wallet"} =>
                   q.stage \in {"sent", "admitted", "ended", "gone"}

\* What one request must satisfy: the strengthening of the properties.
\* Its key was known when it was sent, so no key made since is its; a
\* key made for it is nobody's until its job runs.
RequestOK(d, locked, jobs, r, q) ==
    /\ q.key <= 3 \/ Taken(d, q.key)
    /\ q.stage = "sent" => ~q.route.safe
    /\ q.principal # Refused => MayRun(d, locked, q.principal, q.route, q.key, q.user)
    /\ q.stage \in {"authorised", "posted", "answered"} \/ r \in jobs => q.principal # Refused
    /\ r \in jobs => q.stage \in {"posted", "gone"}
    /\ r \in jobs /\ Creates(q.route) => q.new_key \in 4 .. d.next_key - 1 /\ ~Taken(d, q.new_key)
    /\ q.stage = "answered" => AnswerOK(d, q, q.answer)
    /\ LateOK(d, q)

RequestsOK ==
    \A r \in Requests : Sent(r) => RequestOK(directory, flow.locked, Jobs, r, requests[r])

\* No two waiting jobs have the same key made for them.
DistinctKeys ==
    \A r, q \in Jobs : /\ Creates(requests[r].route) /\ Creates(requests[q].route)
                       /\ requests[r].new_key = requests[q].new_key
                       => q = r

\* A recorded answer: a closing was its account's owner's.
EntryOK(e) ==
    /\ e.principal \in Principals /\ e.principal.kind # "Refused"
    /\ e.made \in [status : Nat, names : Principals]
    /\ e.payload[1] = "Close" => e.payload[2] = e.payload[3]

LogOK == \A k \in DOMAIN log : EntryOK(log[k])

HandedOK ==
    \A h \in handed : h \in [key : Nat, names : Principals] /\ Named(directory, h.names, h.key)

PlacesOK ==
    /\ places \in Nat
    /\ places = MAX_INFLIGHT - Cardinality({r \in Requests : Placed(r)})

\* The inductive invariant.
AccessInv ==
    /\ Shape /\ DirectoryOK(directory) /\ RequestsOK /\ DistinctKeys /\ LogOK /\ HandedOK
    /\ PlacesOK
-----------------------------------------------------------------------------
\* What the table of routes must say for its extractors to be enough.
RouteFacts(route) ==
    /\ route.by \in {"anyone", "operator", "keyholder", "owner", "trusted", "goods", "wallet",
                     "presented", "recovery", "either"}
    /\ route.by = "anyone" => route.command \in {"CreateUser", "SignUp"}
    /\ route.by = "keyholder" =>
         route.command \in {"ListJobs", "ListTraders", "ListAccounts", "Close"}
    /\ route.by = "recovery" => route.command = "GetCommand"
    /\ route.by \in {"operator", "presented", "either"} => route.command \notin ForServices
    /\ route.by \notin {"anyone", "operator", "trusted"} => route.command \notin ForOperators
    /\ route.by \in {"trusted", "wallet"} =>
         \A scope \in route.scopes : scope \in Scopes => route.command \in Opens(scope)
    /\ route.by = "goods" => route.command \in Opens("inventory")

\* Every route of api.rs has the extractor its command needs: what a
\* service may reach is in the scopes of the route, and what only the
\* operator may do asks for the operator or for a trusted service.
LEMMA RouteTable == \A route \in Routes : RouteFacts(route)
<1>a. ForServices = {"AckOutbox", "ReadOutbox", "ProvisionPlayer", "ListPlayers", "GetWallet",
                     "GetWalletTransactions", "PayReward", "GetBudgets", "Purchase", "Consume",
                     "GetInventory", "GameEvent"}
  BY DEF ForServices, Opens, Scopes
<1> DEFINE ok(S) == \A route \in S : RouteFacts(route)
<1> USE DEF RouteFacts, Write, Read, OperatorWrites, OwnerWrites, OwnerReads, ForOperators
<1>1. ok(ListingRoutes) /\ ok(NpcRoutes) /\ ok(CatalogRoutes) /\ ok(RecipeRoutes)
  BY <1>a DEF ListingRoutes, NpcRoutes, CatalogRoutes, RecipeRoutes
<1>2. ok(JobRoutes)
  BY <1>a DEF JobRoutes
<1>3. ok(BudgetRoutes) /\ ok(RewardRoutes)
  BY <1>a DEF BudgetRoutes, RewardRoutes, Opens, Scopes
<1>4. ok(ServiceRoutes)
  BY <1>a DEF ServiceRoutes
<1>5. ok(PlayerRoutes) /\ ok(TransferRoutes)
  BY <1>a DEF PlayerRoutes, TransferRoutes, Opens, Scopes
<1>6. ok(WalletRoutes)
  BY <1>a DEF WalletRoutes, Opens, Scopes
<1>7. ok(GoodsRoutes) /\ ok(OwnGoodsRoutes)
  BY <1>a DEF GoodsRoutes, OwnGoodsRoutes, Opens, Scopes
<1>8. ok(SymbolRoutes) /\ ok(EventRoutes)
  BY <1>a DEF SymbolRoutes, EventRoutes, Opens, Scopes
<1>9. ok(SignUpRoutes) /\ ok(TraderRoutes) /\ ok(OrderEntryRoutes)
  BY <1>a DEF SignUpRoutes, TraderRoutes, OrderEntryRoutes
<1>10. ok(OrderRoutes) /\ ok(StopRoutes)
  BY <1>a DEF OrderRoutes, StopRoutes
<1>11. ok(UserRoutes) /\ ok(AccountRoutes)
  BY <1>a DEF UserRoutes, AccountRoutes
<1>12. ok(MoneyRoutes) /\ ok(StatusRoutes)
  BY <1>a DEF MoneyRoutes, StatusRoutes
<1>13. ok(BackendRoutes) /\ ok(RecoveryRoutes)
  BY <1>a DEF BackendRoutes, RecoveryRoutes, Opens, Scopes
<1> HIDE DEF RouteFacts, Write, Read, OperatorWrites, OwnerWrites, OwnerReads, ForOperators
<1> QED
  BY <1>1, <1>2, <1>3, <1>4, <1>5, <1>6, <1>7, <1>8, <1>9, <1>10, <1>11, <1>12, <1>13
     DEF Routes
-----------------------------------------------------------------------------
\* At most one service has a key (Services::resolve).
LEMMA TheService ==
    ASSUME DirectoryOK(directory), NEW key,
           NEW s \in DOMAIN directory.services, directory.services[s].key = key
    PROVE  ServicesOf(key) = {s}
  BY DEF DirectoryOK, ServicesOf

\* A service that gets past the extractor has one of the scopes that
\* open the route (Services::authorize).
LEMMA ServiceGranted ==
    ASSUME DirectoryOK(directory), NEW key, ServicesOf(key) # {},
           NEW route \in Routes, NEW user, NEW scopes,
           \A scope \in scopes : scope \in Scopes => route.command \in Opens(scope),
           AsService(key, scopes).kind # "Refused"
    PROVE  /\ AsService(key, scopes) \in Principals
           /\ MayRun(directory, flow.locked, AsService(key, scopes), route, key, user)
<1>1. PICK s \in DOMAIN directory.services : directory.services[s].key = key
  BY DEF ServicesOf
<1>2. ServicesOf(key) = {s}
  BY <1>1, TheService
<1>3. /\ AsService(key, scopes) = Service(s)
      /\ directory.services[s].scopes \cap scopes # {}
  BY <1>2 DEF AsService, Refused
<1>4. \E scope \in directory.services[s].scopes : route.command \in Opens(scope)
  <2>1. directory.services[s].scopes \subseteq Scopes
    BY <1>1 DEF DirectoryOK
  <2> QED BY <1>3, <2>1
<1>5. s \in Nat
  BY <1>1 DEF DirectoryOK
<1> QED BY <1>1, <1>3, <1>4, <1>5 DEF MayRun, Service, Principals, Serves

\* An authenticated caller is a user whose key it presented
\* (Keyring::user_of).
LEMMA CallerIs ==
    ASSUME DirectoryOK(directory), NEW key, Caller(key) # Refused
    PROVE  \E u \in DOMAIN directory.users :
              u \in Nat /\ directory.users[u] = key /\ Caller(key) = User(u)
  BY DEF Caller, UsersOf, DirectoryOK

\* On a locked server only the operator's key makes an operator.
LEMMA AdminIs ==
    ASSUME NEW key, Admin(key) # Refused
    PROVE  Admin(key) = Operator /\ (flow.locked => key = OperatorKey)
  BY DEF Admin

\* An owner is the user the path or body leads to, with that user's key.
LEMMA OwnerIs ==
    ASSUME DirectoryOK(directory), NEW key, NEW user, Owner(key, user) # Refused
    PROVE  /\ Owner(key, user) = User(user)
           /\ user \in DOMAIN directory.users /\ user \in Nat /\ directory.users[user] = key
<1>1. Caller(key) = User(user) /\ Owner(key, user) = User(user)
  BY DEF Owner
<1>2. Caller(key) # Refused
  BY <1>1 DEF User, Refused
<1>3. PICK u \in DOMAIN directory.users :
              u \in Nat /\ directory.users[u] = key /\ Caller(key) = User(u)
  BY <1>2, CallerIs
<1>4. u = user
  BY <1>1, <1>3 DEF User
<1> QED BY <1>1, <1>3, <1>4

\* Whatever principal the extractors and the handler's checks come to
\* may run the command: the whole of the authorisation, route by route.
LEMMA AuthorityGrants ==
    ASSUME DirectoryOK(directory), LogOK, NEW route \in Routes, NEW key, NEW user, NEW retry,
           Authority(route, key, user, retry) # Refused
    PROVE  /\ Authority(route, key, user, retry) \in Principals
           /\ MayRun(directory, flow.locked, Authority(route, key, user, retry), route, key, user)
<1> DEFINE p == Authority(route, key, user, retry)
<1>a. RouteFacts(route)
  BY RouteTable
<1>op. ASSUME p = Operator, flow.locked => key = OperatorKey,
              route.command \notin ForServices \/ ServicesOf(key) = {}
       PROVE  p \in Principals /\ MayRun(directory, flow.locked, p, route, key, user)
  BY <1>op DEF MayRun, Operator, Principals, Serves, ServicesOf
<1>ow. ASSUME NEW u \in DOMAIN directory.users, u \in Nat, directory.users[u] = key,
              p = User(u), route.command \notin ForOperators,
              u = user \/ route.command \in {"ListJobs", "ListTraders", "ListAccounts",
                                             "GetCommand", "Close"}
       PROVE  p \in Principals /\ MayRun(directory, flow.locked, p, route, key, user)
  BY <1>ow DEF MayRun, User, Principals
<1>1. CASE route.by = "anyone"
  BY <1>1, <1>a DEF Authority, RouteFacts, MayRun, Anonymous, Principals
<1>2. CASE route.by = "operator"
  <2>1. p = Admin(key)
    BY <1>2 DEF Authority
  <2> QED BY <1>2, <2>1, <1>a, <1>op, AdminIs DEF RouteFacts
<1>3. CASE route.by = "keyholder"
  <2>1. p = Caller(key)
    BY <1>3 DEF Authority
  <2> QED BY <1>3, <2>1, <1>a, <1>ow, CallerIs DEF RouteFacts
<1>4. CASE route.by = "owner"
  <2>1. p = Owner(key, user)
    BY <1>4 DEF Authority
  <2> QED BY <1>4, <2>1, <1>a, <1>ow, OwnerIs DEF RouteFacts
<1>5. CASE route.by = "trusted"
  <2>1. p = Trusted(key, route.scopes)
    BY <1>5 DEF Authority
  <2>2. CASE ServicesOf(key) # {}
    <3>1. p = AsService(key, route.scopes)
      BY <2>1, <2>2 DEF Trusted
    <3>2. p.kind # "Refused"
      BY <3>1 DEF AsService, Refused, Service
    <3> QED BY <1>5, <1>a, <2>2, <3>1, <3>2, ServiceGranted DEF RouteFacts
  <2>3. CASE ServicesOf(key) = {}
    <3>1. p = Admin(key)
      BY <2>1, <2>3 DEF Trusted
    <3> QED BY <2>3, <3>1, <1>op, AdminIs
  <2> QED BY <2>2, <2>3
<1>6. CASE route.by = "goods"
  <2>1. p = GoodsPrincipal(key, user)
    BY <1>6 DEF Authority
  <2>2. CASE ServicesOf(key) # {}
    <3>1. p = AsService(key, {"inventory"})
      BY <2>1, <2>2 DEF GoodsPrincipal
    <3>2. p.kind # "Refused"
      BY <3>1 DEF AsService, Refused, Service
    <3> QED BY <1>6, <1>a, <2>2, <3>1, <3>2, ServiceGranted DEF RouteFacts
  <2>3. CASE ServicesOf(key) = {}
    <3>1. p = Owner(key, user)
      BY <2>1, <2>3 DEF GoodsPrincipal
    <3> QED BY <1>6, <3>1, <1>a, <1>ow, OwnerIs DEF RouteFacts
  <2> QED BY <2>2, <2>3
<1>7. CASE route.by = "wallet"
  <2>1. p = MayReadWallet(key, route.scopes, user)
    BY <1>7 DEF Authority
  <2>2. CASE ServicesOf(key) # {}
    <3>1. p = AsService(key, route.scopes)
      BY <2>1, <2>2 DEF MayReadWallet
    <3>2. p.kind # "Refused"
      BY <3>1 DEF AsService, Refused, Service
    <3> QED BY <1>7, <1>a, <2>2, <3>1, <3>2, ServiceGranted DEF RouteFacts
  <2>3. CASE ServicesOf(key) = {} /\ Admin(key) = Operator
    <3>1. p = Admin(key) /\ Admin(key) # Refused
      BY <2>1, <2>3 DEF MayReadWallet, Operator, Refused
    <3> QED BY <2>3, <3>1, <1>op, AdminIs
  <2>4. CASE ServicesOf(key) = {} /\ Admin(key) # Operator
    <3>1. p = Owner(key, user)
      BY <2>1, <2>4 DEF MayReadWallet
    <3> QED BY <1>7, <3>1, <1>a, <1>ow, OwnerIs DEF RouteFacts
  <2> QED BY <2>2, <2>3, <2>4
<1>8. CASE route.by = "presented"
  <2>1. p = Owner(key, user) \/ p = Admin(key)
    BY <1>8 DEF Authority, PresentedOperatorKey
  <2> QED BY <1>8, <2>1, <1>a, <1>op, <1>ow, OwnerIs, AdminIs DEF RouteFacts
<1>9. CASE route.by = "recovery"
  <2> DEFINE whose == log[retry].principal
  <2>1. p = MayRecover(key, retry) /\ retry \in DOMAIN log
    BY <1>9 DEF Authority, MayRecover
  <2>a. whose \in Principals /\ whose.kind # "Refused"
    BY <2>1 DEF LogOK, EntryOK
  <2>b. route.command = "GetCommand" /\ "GetCommand" \notin ForServices
        /\ "GetCommand" \notin ForOperators
    <3>1. "GetCommand" \notin ForServices /\ "GetCommand" \notin ForOperators
      BY DEF ForServices, Opens, Scopes, ForOperators
    <3> QED BY <1>9, <1>a, <3>1 DEF RouteFacts
  <2>2. CASE whose.kind = "Anonymous" /\ p = whose
    BY <2>2, <2>a, <2>b DEF MayRun
  <2>3. CASE whose.kind = "User" /\ Caller(key) = whose /\ p = whose
    BY <2>3, <2>b, <1>ow, CallerIs
  <2>4. CASE whose.kind = "Service" /\ whose.id \in ServicesOf(key) /\ p = whose
    BY <2>4, <2>a, <2>b DEF MayRun, ServicesOf, Serves
  <2>5. CASE p = Admin(key)
    BY <2>5, <2>b, <1>op, AdminIs
  <2> QED BY <2>1, <2>2, <2>3, <2>4, <2>5 DEF MayRecover
<1>10. CASE route.by = "either"
  <2>1. CASE Admin(key) = Operator
    <3>1. p = Admin(key) /\ Admin(key) # Refused
      BY <1>10, <2>1 DEF Authority, Operator, Refused
    <3> QED BY <1>10, <3>1, <1>a, <1>op, AdminIs DEF RouteFacts
  <2>2. CASE Admin(key) # Operator
    <3>1. p = Owner(key, user)
      BY <1>10, <2>2 DEF Authority
    <3> QED BY <1>10, <3>1, <1>a, <1>ow, OwnerIs DEF RouteFacts
  <2> QED BY <2>1, <2>2
<1> HIDE DEF p
<1> QED BY <1>1, <1>2, <1>3, <1>4, <1>5, <1>6, <1>7, <1>8, <1>9, <1>10, <1>a DEF p, RouteFacts
-----------------------------------------------------------------------------
\* d becomes e, with the keys `added` in use: nothing is forgotten, no
\* key changes hands, and a revocation is final.
Grows(d, e, added) ==
    /\ d.next_key <= e.next_key
    /\ \A u \in DOMAIN d.users : u \in DOMAIN e.users /\ e.users[u] = d.users[u]
    /\ \A s \in DOMAIN d.services :
         /\ s \in DOMAIN e.services /\ e.services[s].key = d.services[s].key
         /\ e.services[s].scopes = d.services[s].scopes
         /\ d.services[s].revoked => e.services[s].revoked
    /\ \A k : Taken(e, k) => Taken(d, k) \/ k \in added
    /\ \A k \in added : k >= 4 /\ ~Taken(d, k)

\* A directory that stays has grown by nothing.
LEMMA GrowsNot ==
    ASSUME NEW d, DirectoryOK(d)
    PROVE  Grows(d, d, {})
  BY DEF Grows, DirectoryOK

\* A key in use stays in use.
LEMMA TakenStays ==
    ASSUME NEW d, NEW e, NEW added, Grows(d, e, added), NEW k, Taken(d, k)
    PROVE  Taken(e, k)
  BY DEF Grows, Taken, Serves

\* A credential goes on opening what it names.
LEMMA NamedStays ==
    ASSUME NEW d, NEW e, NEW added, Grows(d, e, added), NEW k, NEW names, Named(d, names, k)
    PROVE  Named(e, names, k)
  BY DEF Grows, Named, Serves

\* What a principal may run it may go on running: no service comes to
\* have a key that was sent before it was made.
LEMMA MayRunStays ==
    ASSUME NEW d, NEW e, NEW added, Grows(d, e, added), DirectoryOK(e), NEW locked,
           NEW p, NEW route, NEW key \in Int, NEW user, key <= 3 \/ Taken(d, key),
           MayRun(d, locked, p, route, key, user)
    PROVE  MayRun(e, locked, p, route, key, user)
<1>1. key \notin added
  BY DEF Grows
<1>2. (\A s \in DOMAIN d.services : ~Serves(d, s, key)) =>
        (\A s \in DOMAIN e.services : ~Serves(e, s, key))
  <2> SUFFICES ASSUME \A s \in DOMAIN d.services : ~Serves(d, s, key),
                      NEW s \in DOMAIN e.services, Serves(e, s, key)
               PROVE  FALSE
    OBVIOUS
  <2>1. Taken(e, key)
    BY DEF Taken
  <2>2. Taken(d, key)
    BY <2>1, <1>1 DEF Grows
  <2>3. PICK u \in DOMAIN d.users : d.users[u] = key
    BY <2>2 DEF Taken
  <2> QED BY <2>3 DEF Grows, DirectoryOK, Serves
<1> QED BY <1>2 DEF MayRun, Grows, Serves

\* A request the step leaves alone stays right as the directory grows.
LEMMA RequestStays ==
    ASSUME NEW d, NEW e, NEW added, Grows(d, e, added), DirectoryOK(d), DirectoryOK(e),
           NEW locked, NEW jobs, NEW left, NEW r, r \in left => r \in jobs,
           NEW q \in RequestType, RequestOK(d, locked, jobs, r, q),
           r \in left /\ Creates(q.route) => q.new_key \notin added
    PROVE  RequestOK(e, locked, left, r, q)
<1>a. q.key \in Int /\ q.principal \in Principals /\ q.new_key \in Nat
  BY DEF RequestType
<1>1. q.key <= 3 \/ Taken(e, q.key)
  BY TakenStays DEF RequestOK
<1>2. q.principal # Refused => MayRun(e, locked, q.principal, q.route, q.key, q.user)
  BY <1>a, MayRunStays DEF RequestOK
<1>3. r \in left /\ Creates(q.route) => q.new_key \in 4 .. e.next_key - 1 /\ ~Taken(e, q.new_key)
  BY <1>a DEF RequestOK, Grows, DirectoryOK
<1>4. q.stage = "answered" => AnswerOK(e, q, q.answer)
  BY NamedStays DEF RequestOK, AnswerOK
<1>5. LateOK(e, q)
  BY DEF RequestOK, LateOK, RevokedKey, Grows, Serves
<1> QED BY <1>1, <1>2, <1>3, <1>4, <1>5 DEF RequestOK

\* Every request but r, and r itself, gives the whole.
LEMMA OneRequest ==
    ASSUME Shape, RequestsOK, DirectoryOK(directory), NEW r \in Requests, NEW q \in RequestType,
           requests' = [requests EXCEPT ![r] = q],
           UNCHANGED <<mailbox, directory, flow>>,
           RequestOK(directory, flow.locked, Jobs, r, q)
    PROVE  RequestsOK'
<1>1. Jobs' = Jobs
  BY DEF Jobs
<1>2. SUFFICES ASSUME NEW x \in Requests, Sent(x)'
               PROVE  RequestOK(directory, flow.locked, Jobs, x, requests'[x])
  BY <1>1 DEF RequestsOK
<1>3. CASE x = r
  BY <1>3 DEF Shape
<1>4. CASE x # r
  <2>1. requests'[x] = requests[x]
    BY <1>4 DEF Shape
  <2> QED BY <1>2, <2>1 DEF RequestsOK, Sent
<1> QED BY <1>3, <1>4
-----------------------------------------------------------------------------
\* A request that has one of the places of limit.rs.
HoldsPlace(q) ==
    q.stage \in {"admitted", "authorised", "posted", "answered"} /\ ~q.route.safe

\* A request that was sent does not look like one that was not.
LEMMA NotUnsent == \A q \in RequestType : q # Unsent /\ q.stage # "unsent"
  BY DEF RequestType, Unsent, Stages

\* A request's stage says whether it was sent, and its route whether it
\* holds a place.
LEMMA SentShape ==
    ASSUME Shape, NEW r \in Requests
    PROVE  /\ Sent(r) <=> ~At(r, "unsent")
           /\ Sent(r) => requests[r] \in RequestType
           /\ Placed(r) <=> Sent(r) /\ HoldsPlace(requests[r])
<1>1. CASE requests[r] = Unsent
  BY <1>1 DEF Sent, At, Placed, Holding, Unsent
<1>2. CASE requests[r] \in RequestType
  BY <1>2, NotUnsent DEF Sent, At, Placed, Holding, HoldsPlace
<1> QED BY <1>1, <1>2 DEF Shape

Held(b) == IF b THEN 1 ELSE 0

\* The places taken change with the one request that changes.
LEMMA PlacesKept ==
    ASSUME Shape, PlacesOK, NEW r \in Requests, NEW q \in RequestType,
           requests' = [requests EXCEPT ![r] = q],
           places' = places + Held(Placed(r)) - Held(HoldsPlace(q)), places' >= 0
    PROVE  PlacesOK'
<1> DEFINE P == {x \in Requests : Placed(x)}
           Q == {x \in Requests : Placed(x)'}
<1>1. IsFiniteSet(P) /\ IsFiniteSet(Q) /\ Cardinality(P) \in Nat
  <2>1. IsFiniteSet(Requests)
    BY AccessAssumption
  <2> QED BY <2>1, FS_Subset, FS_CardinalityType
<1>2. places = MAX_INFLIGHT - Cardinality(P) /\ places \in Nat /\ MAX_INFLIGHT \in Nat
  BY AccessAssumption DEF PlacesOK
<1>3. \A x \in Requests : requests'[x] = IF x = r THEN q ELSE requests[x]
  BY DEF Shape
<1>4. \A x \in Requests \ {r} : Placed(x)' <=> Placed(x)
  BY <1>3 DEF Placed, Holding
<1>5. Placed(r)' <=> HoldsPlace(q)
  BY <1>3 DEF Placed, Holding, HoldsPlace
<1>6. Cardinality(Q) = Cardinality(P) - Held(Placed(r)) + Held(HoldsPlace(q))
  <2>1. CASE Placed(r) <=> HoldsPlace(q)
    <3>1. Q = P
      BY <2>1, <1>4, <1>5
    <3> QED BY <2>1, <3>1, <1>1 DEF Held
  <2>2. CASE Placed(r) /\ ~HoldsPlace(q)
    <3>1. Q = P \ {r} /\ r \in P
      BY <2>2, <1>4, <1>5
    <3>2. Cardinality(Q) = Cardinality(P) - 1
      BY <3>1, <1>1, FS_RemoveElement
    <3> QED BY <2>2, <3>2, <1>1 DEF Held
  <2>3. CASE ~Placed(r) /\ HoldsPlace(q)
    <3>1. Q = P \cup {r} /\ r \notin P
      BY <2>3, <1>4, <1>5
    <3>2. Cardinality(Q) = Cardinality(P) + 1
      BY <3>1, <1>1, FS_AddElement
    <3> QED BY <2>3, <3>2, <1>1 DEF Held
  <2> QED BY <2>1, <2>2, <2>3
<1>7. places' = MAX_INFLIGHT - Cardinality(Q)
  BY <1>1, <1>2, <1>6 DEF Held
<1>8. Q = {x \in Requests : Placed(x)}'
  OBVIOUS
<1> QED BY <1>2, <1>7, <1>8 DEF PlacesOK, Held

\* A step that changes one request, and nothing the market keeps.
LEMMA OneRequestStep ==
    ASSUME AccessInv, NEW r \in Requests, NEW q \in RequestType,
           requests' = [requests EXCEPT ![r] = q],
           UNCHANGED <<mailbox, directory, log, flow>>, clock' \in Nat,
           RequestOK(directory, flow.locked, Jobs, r, q),
           r \in Jobs => q.route = requests[r].route /\ q.new_key = requests[r].new_key,
           places' = places + Held(Placed(r)) - Held(HoldsPlace(q)), places' >= 0,
           HandedOK'
    PROVE  AccessInv'
<1> USE DEF AccessInv
<1>1. Jobs' = Jobs
  BY DEF Jobs
<1>2. \A x \in Requests : requests'[x] = IF x = r THEN q ELSE requests[x]
  BY DEF Shape
<1>3. Shape'
  <2>1. requests' \in [Requests -> {Unsent} \cup RequestType] /\ RequestType' = RequestType
    BY DEF Shape, RequestType
  <2>2. \A x \in Jobs : x \in Requests
    BY DEF Jobs, Shape, ToSet
  <2>3. \A x \in Jobs : Sent(x)'
    BY <1>2, <2>2, NotUnsent DEF Shape, Sent
  <2> QED BY <1>1, <2>1, <2>3 DEF Shape
<1>4. RequestsOK'
  BY OneRequest
<1>5. DistinctKeys'
  <2>1. \A x \in Jobs : /\ x \in Requests
                        /\ requests'[x].route = requests[x].route
                        /\ requests'[x].new_key = requests[x].new_key
    BY <1>2 DEF Jobs, Shape, ToSet
  <2> QED BY <1>1, <2>1 DEF DistinctKeys, Creates
<1>6. PlacesOK'
  BY PlacesKept
<1>7. DirectoryOK(directory)' /\ LogOK'
  BY DEF LogOK
<1> QED BY <1>3, <1>4, <1>5, <1>6, <1>7

\* A request that ends gives back what it held, whether it was answered,
\* refused or given up (the permit dropped with the request, limit.rs).
LEMMA EndsStep ==
    ASSUME AccessInv, NEW r \in Requests, Sent(r), NEW how \in {"ended", "gone"},
           r \in Jobs => how = "gone",
           Ends(r, how), UNCHANGED <<mailbox, directory, log, flow>>, clock' \in Nat, HandedOK'
    PROVE  AccessInv'
<1> DEFINE q == [requests[r] EXCEPT !.stage = how]
<1>1. requests[r] \in RequestType
  BY SentShape DEF AccessInv
<1>2. /\ q \in RequestType
      /\ q.stage = how /\ q.route = requests[r].route /\ q.new_key = requests[r].new_key
      /\ q.key = requests[r].key /\ q.user = requests[r].user
      /\ q.principal = requests[r].principal /\ q.late = requests[r].late
  BY <1>1 DEF RequestType, Stages
<1>3. requests' = [requests EXCEPT ![r] = q]
  BY DEF Ends
<1>4. ~HoldsPlace(q)
  BY <1>2 DEF HoldsPlace
<1>5. places' = places + Held(Placed(r)) - Held(HoldsPlace(q)) /\ places' >= 0
  BY <1>4 DEF Ends, Held, AccessInv, PlacesOK
<1>6. RequestOK(directory, flow.locked, Jobs, r, q)
  <2>1. RequestOK(directory, flow.locked, Jobs, r, requests[r])
    BY DEF AccessInv, RequestsOK
  <2> HIDE DEF q
  <2> QED BY <1>2, <2>1 DEF RequestOK, LateOK
<1> HIDE DEF q
<1> QED BY <1>2, <1>3, <1>5, <1>6, OneRequestStep
-----------------------------------------------------------------------------
\* The oldest job taken from the mailbox is in no other place of it.
LEMMA TailOfQueue ==
    ASSUME NEW S, NEW s \in Seq(S), IsInjective(s), s # <<>>
    PROVE  /\ Head(s) \in ToSet(s) /\ Head(s) \in S
           /\ Tail(s) \in Seq(S) /\ IsInjective(Tail(s))
           /\ ToSet(Tail(s)) = ToSet(s) \ {Head(s)}
<1> DEFINE t == Tail(s)
<1>1. /\ t \in Seq(S) /\ Len(t) = Len(s) - 1 /\ Len(s) \in Nat /\ Len(s) >= 1
      /\ \A i \in 1 .. Len(t) : t[i] = s[i + 1]
      /\ Head(s) = s[1] /\ DOMAIN s = 1 .. Len(s) /\ DOMAIN t = 1 .. Len(t)
  OBVIOUS
<1>2. \A i, j \in 1 .. Len(s) : s[i] = s[j] => i = j
  BY <1>1 DEF IsInjective
<1> HIDE DEF t
<1>3. IsInjective(t)
  <2> SUFFICES ASSUME NEW i \in 1 .. Len(t), NEW j \in 1 .. Len(t), t[i] = t[j]
               PROVE  i = j
    BY <1>1 DEF IsInjective
  <2>1. s[i + 1] = s[j + 1] /\ i + 1 \in 1 .. Len(s) /\ j + 1 \in 1 .. Len(s)
    BY <1>1
  <2>2. i + 1 = j + 1
    BY <2>1, <1>2
  <2> QED BY <2>2
<1>4. ToSet(t) = ToSet(s) \ {s[1]}
  <2>1. ASSUME NEW x \in ToSet(t)
        PROVE  x \in ToSet(s) /\ x # s[1]
    <3>1. PICK i \in 1 .. Len(t) : x = t[i]
      BY <1>1 DEF ToSet
    <3>2. i + 1 \in 1 .. Len(s) /\ x = s[i + 1] /\ i + 1 # 1 /\ 1 \in 1 .. Len(s)
      BY <3>1, <1>1
    <3> QED BY <3>2, <1>1, <1>2 DEF ToSet
  <2>2. ASSUME NEW x \in ToSet(s), x # s[1]
        PROVE  x \in ToSet(t)
    <3>1. PICK i \in 1 .. Len(s) : x = s[i]
      BY <1>1 DEF ToSet
    <3>2. i - 1 \in 1 .. Len(t)
      BY <2>2, <3>1, <1>1
    <3>3. t[i - 1] = s[(i - 1) + 1]
      BY <3>2, <1>1
    <3>4. t[i - 1] = x
      BY <3>1, <3>3
    <3> QED BY <3>2, <3>4, <1>1 DEF ToSet
  <2> QED BY <2>1, <2>2
<1>5. s[1] \in ToSet(s) /\ s[1] \in S
  BY <1>1 DEF ToSet
<1> QED BY <1>1, <1>3, <1>4, <1>5 DEF t

\* A job posted is added to those that wait.
LEMMA EndOfQueue ==
    ASSUME NEW S, NEW s \in Seq(S), IsInjective(s), NEW e \in S, e \notin ToSet(s)
    PROVE  /\ Append(s, e) \in Seq(S) /\ IsInjective(Append(s, e))
           /\ ToSet(Append(s, e)) = ToSet(s) \cup {e}
<1> DEFINE t == Append(s, e)
<1>1. /\ t \in Seq(S) /\ Len(t) = Len(s) + 1 /\ Len(s) \in Nat
      /\ \A i \in 1 .. Len(s) : t[i] = s[i]
      /\ t[Len(s) + 1] = e /\ DOMAIN s = 1 .. Len(s) /\ DOMAIN t = 1 .. Len(t)
  OBVIOUS
<1>2. \A i, j \in 1 .. Len(s) : s[i] = s[j] => i = j
  BY <1>1 DEF IsInjective
<1>3. \A i \in 1 .. Len(s) : s[i] # e
  BY <1>1 DEF ToSet
<1> HIDE DEF t
<1>4. \A i \in 1 .. Len(t) : i \in 1 .. Len(s) \/ i = Len(s) + 1
  BY <1>1
<1>5. IsInjective(t)
  BY <1>1, <1>2, <1>3, <1>4 DEF IsInjective
<1>6. ToSet(t) = ToSet(s) \cup {e}
  <2>1. 1 .. Len(t) = 1 .. Len(s) \cup {Len(s) + 1}
    BY <1>1
  <2> QED BY <1>1, <2>1 DEF ToSet
<1> QED BY <1>1, <1>5, <1>6 DEF t

-----------------------------------------------------------------------------
\* Whose allowance a request spends is a principal, or nobody.
LEMMA ClientType ==
    ASSUME DirectoryOK(directory), NEW key
    PROVE  ClientOf(key) \in Principals \cup {NoClient}
<1>1. \A s \in ServicesOf(key) : s \in Nat
  BY DEF DirectoryOK, ServicesOf
<1>2. \A u \in UsersOf(key) : u \in Nat
  BY DEF DirectoryOK, UsersOf
<1>3. CASE ServicesOf(key) # {}
  BY <1>1, <1>3 DEF ClientOf, Service, Principals
<1>4. CASE ServicesOf(key) = {} /\ UsersOf(key) # {}
  BY <1>2, <1>4 DEF ClientOf, User, Principals
<1>5. CASE ServicesOf(key) = {} /\ UsersOf(key) = {}
  BY <1>5 DEF ClientOf
<1> QED BY <1>3, <1>4, <1>5

\* A key a client can present is one from the start or in use by now.
LEMMA KnownKeys ==
    ASSUME AccessInv, NEW key \in Known
    PROVE  key <= 3 \/ Taken(directory, key)
<1>1. CASE key \in {h.key : h \in handed}
  BY <1>1 DEF AccessInv, HandedOK, Named, Taken, Serves
<1>2. CASE key \in NoKey .. 3 \cup {OperatorKey}
  BY <1>2 DEF NoKey, OperatorKey
<1> QED BY <1>1, <1>2 DEF Known

\* Sending keeps the invariant: a request is late only if its key is
\* revoked already.
LEMMA SendStep ==
    ASSUME AccessInv, NEW r \in Requests, Send(r)
    PROVE  AccessInv'
<1>1. PICK route \in flow.routes, key \in flow.keys \cap Known, user \in flow.users,
           retry \in flow.retries :
        /\ At(r, "unsent")
        /\ requests' = [requests EXCEPT ![r] =
             [stage |-> IF route.safe THEN "admitted" ELSE "sent", route |-> route,
              key |-> key, user |-> user, retry |-> retry, at |-> clock,
              client |-> ClientOf(key),
              late |-> [key |-> key, revoked |-> TRUE] \in
                         {[key |-> s.key, revoked |-> s.revoked] : s \in Range(directory.services)},
              principal |-> Refused, new_key |-> NoKey, answer |-> Unsent]]
        /\ UNCHANGED <<mailbox, directory, log, places, limiter, clock, handed, spent, flow>>
  BY DEF Send
<1> DEFINE late == [key |-> key, revoked |-> TRUE] \in
                     {[key |-> s.key, revoked |-> s.revoked] : s \in Range(directory.services)}
           q == [stage |-> IF route.safe THEN "admitted" ELSE "sent", route |-> route,
                 key |-> key, user |-> user, retry |-> retry, at |-> clock,
                 client |-> ClientOf(key), late |-> late,
                 principal |-> Refused, new_key |-> NoKey, answer |-> Unsent]
<1>2. ~Sent(r) /\ ~Placed(r)
  BY <1>1, SentShape DEF AccessInv
<1>3. r \notin Jobs
  BY <1>2 DEF AccessInv, Shape
<1>4. flow \in Flows /\ clock \in Nat
  BY DEF AccessInv, Shape
<1>5. route \in Routes /\ key \in Int /\ user \in Nat
  BY <1>4, FlowsAssumption
<1>6. ClientOf(key) \in Principals \cup {NoClient}
  BY ClientType DEF AccessInv
<1>7. late => RevokedKey(directory, key)
  <2> SUFFICES ASSUME late PROVE RevokedKey(directory, key)
    OBVIOUS
  <2>1. PICK s \in Range(directory.services) :
               [key |-> key, revoked |-> TRUE] = [key |-> s.key, revoked |-> s.revoked]
    OBVIOUS
  <2>2. s.key = key /\ s.revoked = TRUE
    BY <2>1
  <2> QED BY <2>2 DEF Range, RevokedKey, Serves
<1>8. late \in BOOLEAN
  OBVIOUS
<1>9. q \in RequestType
  <2> HIDE DEF late
  <2> QED BY <1>4, <1>5, <1>6, <1>8 DEF RequestType, Stages, Principals, Refused, NoKey
<1>10. RequestOK(directory, flow.locked, Jobs, r, q)
  <2>1. key <= 3 \/ Taken(directory, key)
    BY KnownKeys
  <2> HIDE DEF late
  <2> QED BY <1>3, <1>7, <2>1 DEF RequestOK, LateOK
<1>11. places' = places + Held(Placed(r)) - Held(HoldsPlace(q)) /\ places' >= 0
  BY <1>1, <1>2 DEF Held, HoldsPlace, AccessInv, PlacesOK
<1>12. HandedOK'
  BY <1>1 DEF AccessInv, HandedOK
<1>13. requests' = [requests EXCEPT ![r] = q]
  BY <1>1
<1> HIDE DEF q
<1> QED BY <1>1, <1>3, <1>4, <1>9, <1>10, <1>11, <1>12, <1>13, OneRequestStep

\* Counting and admitting keeps it: a place is taken only if one is
\* left.
LEMMA AdmitStep ==
    ASSUME AccessInv, NEW r \in Requests, Admit(r)
    PROVE  AccessInv'
<1> DEFINE q == [requests[r] EXCEPT !.stage = "admitted"]
<1>1. /\ At(r, "sent") /\ UNCHANGED <<mailbox, directory, log, clock, handed, flow>>
      /\ \/ /\ requests' = [requests EXCEPT ![r].stage = "admitted"]
            /\ places' = places - 1 /\ places > 0
         \/ Ends(r, "ended")
  BY DEF Admit
<1>2. Sent(r) /\ requests[r] \in RequestType /\ ~Placed(r)
  <2>1. Sent(r)
    BY <1>1, SentShape DEF AccessInv, At
  <2> QED BY <1>1, <2>1, SentShape DEF AccessInv, HoldsPlace, At
<1>3. RequestOK(directory, flow.locked, Jobs, r, requests[r])
  BY <1>2 DEF AccessInv, RequestsOK
<1>4. r \notin Jobs
  BY <1>1, <1>3 DEF RequestOK, At
<1>5. HandedOK' /\ clock' \in Nat
  BY <1>1 DEF AccessInv, HandedOK, Shape
<1>6. CASE Ends(r, "ended")
  BY <1>1, <1>2, <1>4, <1>5, <1>6, EndsStep
<1>7. CASE /\ requests' = [requests EXCEPT ![r].stage = "admitted"]
           /\ places' = places - 1 /\ places > 0
  <2>1. /\ q \in RequestType
        /\ q.stage = "admitted" /\ q.route = requests[r].route /\ q.new_key = requests[r].new_key
        /\ q.key = requests[r].key /\ q.user = requests[r].user
        /\ q.principal = requests[r].principal /\ q.late = requests[r].late
    BY <1>2 DEF RequestType, Stages
  <2>2. requests' = [requests EXCEPT ![r] = q]
    BY <1>7
  <2> HIDE DEF q
  <2>3. RequestOK(directory, flow.locked, Jobs, r, q)
    BY <1>3, <1>4, <2>1 DEF RequestOK, LateOK
  <2>4. places \in Nat
    BY DEF AccessInv, PlacesOK
  <2>5. HoldsPlace(q)
    BY <1>1, <1>3, <2>1 DEF RequestOK, HoldsPlace, At
  <2>6. places' = places + Held(Placed(r)) - Held(HoldsPlace(q)) /\ places' >= 0
    BY <1>2, <1>7, <2>4, <2>5 DEF Held
  <2> QED BY <1>1, <1>4, <1>5, <2>1, <2>2, <2>3, <2>6, OneRequestStep
<1> QED BY <1>1, <1>6, <1>7

\* A revoked key is refused wherever services are judged, and never
\* falls through to what a key nobody knows may do.
LEMMA RevokedRefused ==
    ASSUME DirectoryOK(directory), NEW route, NEW key, NEW user, NEW retry,
           RevokedKey(directory, key), route.by \in {"trusted", "goods", "wallet"}
    PROVE  Authority(route, key, user, retry) = Refused
<1>1. PICK s \in DOMAIN directory.services :
             directory.services[s].key = key /\ directory.services[s].revoked
  BY DEF RevokedKey, Serves
<1>2. ServicesOf(key) = {s}
  BY <1>1, TheService
<1>3. \A scopes : AsService(key, scopes) = Refused
  BY <1>1, <1>2 DEF AsService
<1> QED BY <1>2, <1>3 DEF Authority, Trusted, GoodsPrincipal, MayReadWallet

\* Authorising keeps it, from the directory as it is read then.
LEMMA AuthoriseStep ==
    ASSUME AccessInv, NEW r \in Requests, Authorise(r)
    PROVE  AccessInv'
<1> DEFINE p == Authority(requests[r].route, requests[r].key, requests[r].user, requests[r].retry)
           q == [requests[r] EXCEPT !.stage = "authorised", !.principal = p]
<1>1. /\ At(r, "admitted") /\ UNCHANGED <<mailbox, directory, log, limiter, clock, handed, flow>>
      /\ p = Refused => Ends(r, "ended")
      /\ p # Refused => /\ requests' = [requests EXCEPT ![r].stage = "authorised",
                                                        ![r].principal = p]
                        /\ UNCHANGED places
  BY DEF Authorise
<1>2. Sent(r) /\ requests[r] \in RequestType /\ (Placed(r) <=> HoldsPlace(requests[r]))
  <2>1. Sent(r)
    BY <1>1, SentShape DEF AccessInv, At
  <2> QED BY <2>1, SentShape DEF AccessInv
<1>3. RequestOK(directory, flow.locked, Jobs, r, requests[r])
  BY <1>2 DEF AccessInv, RequestsOK
<1>4. r \notin Jobs
  BY <1>1, <1>3 DEF RequestOK, At
<1>5. HandedOK' /\ clock' \in Nat
  BY <1>1 DEF AccessInv, HandedOK, Shape
<1>6. CASE p = Refused
  BY <1>1, <1>2, <1>4, <1>5, <1>6, EndsStep
<1>7. CASE p # Refused
  <2>1. requests[r].route \in Routes
    BY <1>2 DEF RequestType
  <2>2. /\ p \in Principals
        /\ MayRun(directory, flow.locked, p, requests[r].route, requests[r].key,
                  requests[r].user)
    BY <1>7, <2>1, AuthorityGrants DEF AccessInv
  <2>3. RevokedKey(directory, requests[r].key) =>
          requests[r].route.by \notin {"trusted", "goods", "wallet"}
    BY <1>7, RevokedRefused DEF AccessInv
  <2> HIDE DEF p
  <2>4. /\ q \in RequestType
        /\ q.stage = "authorised" /\ q.route = requests[r].route
        /\ q.new_key = requests[r].new_key
        /\ q.key = requests[r].key /\ q.user = requests[r].user
        /\ q.principal = p /\ q.late = requests[r].late
    BY <1>2, <2>2 DEF RequestType, Stages
  <2>5. requests' = [requests EXCEPT ![r] = q]
    BY <1>1, <1>7
  <2> HIDE DEF q
  <2>6. RequestOK(directory, flow.locked, Jobs, r, q)
    BY <1>3, <1>4, <1>7, <2>2, <2>3, <2>4 DEF RequestOK, LateOK
  <2>7. places' = places + Held(Placed(r)) - Held(HoldsPlace(q)) /\ places' >= 0
    BY <1>1, <1>2, <1>7, <2>4 DEF Held, HoldsPlace, At, AccessInv, PlacesOK
  <2> QED BY <1>1, <1>4, <1>5, <2>4, <2>5, <2>6, <2>7, OneRequestStep
<1> QED BY <1>6, <1>7

\* A lost connection keeps it: the job, if any, stays in the mailbox.
LEMMA DisconnectStep ==
    ASSUME AccessInv, NEW r \in Requests, Disconnect(r)
    PROVE  AccessInv'
<1>1. /\ Holding(r) /\ Ends(r, "gone")
      /\ UNCHANGED <<mailbox, directory, log, clock, handed, flow>>
  BY DEF Disconnect
<1>2. Sent(r)
  BY <1>1, SentShape DEF AccessInv, Holding, At
<1>3. HandedOK' /\ clock' \in Nat
  BY <1>1 DEF AccessInv, HandedOK, Shape
<1> QED BY <1>1, <1>2, <1>3, EndsStep

\* An answer received keeps it: the credential in it, if any, is that of
\* the user or service it names.
LEMMA ReceiveStep ==
    ASSUME AccessInv, NEW r \in Requests, Receive(r)
    PROVE  AccessInv'
<1>1. /\ At(r, "answered") /\ Ends(r, "ended")
      /\ handed' = handed \cup WithKey(requests[r])
      /\ UNCHANGED <<mailbox, directory, log, clock, flow>>
  BY DEF Receive
<1>2. Sent(r) /\ requests[r] \in RequestType
  <2>1. Sent(r)
    BY <1>1, SentShape DEF AccessInv, At
  <2> QED BY <2>1, SentShape DEF AccessInv
<1>3. RequestOK(directory, flow.locked, Jobs, r, requests[r])
  BY <1>2 DEF AccessInv, RequestsOK
<1>4. r \notin Jobs /\ AnswerOK(directory, requests[r], requests[r].answer)
  BY <1>1, <1>3 DEF RequestOK, At
<1>5. \A h \in WithKey(requests[r]) :
        h \in [key : Nat, names : Principals] /\ Named(directory, h.names, h.key)
  BY <1>2, <1>4 DEF WithKey, AnswerOK, Answers, RequestType
<1>6. HandedOK' /\ clock' \in Nat
  BY <1>1, <1>5 DEF AccessInv, HandedOK, Shape
<1> QED BY <1>1, <1>2, <1>4, <1>6, EndsStep

\* Posting keeps it: the key made for the job is nobody's and no other
\* job's.
LEMMA PostStep ==
    ASSUME AccessInv, NEW r \in Requests, Post(r)
    PROVE  AccessInv'
<1> DEFINE q == [requests[r] EXCEPT !.stage = "posted", !.new_key = directory.next_key]
<1>1. /\ At(r, "authorised") /\ UNCHANGED <<log, limiter, clock, handed, flow>>
      /\ \/ Ends(r, "ended") /\ UNCHANGED <<mailbox, directory>>
         \/ /\ requests' = [requests EXCEPT ![r].stage = "posted",
                                            ![r].new_key = directory.next_key]
            /\ directory' = IF Creates(requests[r].route)
                            THEN [directory EXCEPT !.next_key = @ + 1] ELSE directory
            /\ mailbox' = Append(mailbox, r)
            /\ UNCHANGED places
  BY DEF Post
<1>2. Sent(r) /\ requests[r] \in RequestType /\ (Placed(r) <=> HoldsPlace(requests[r]))
  <2>1. Sent(r)
    BY <1>1, SentShape DEF AccessInv, At
  <2> QED BY <2>1, SentShape DEF AccessInv
<1>3. RequestOK(directory, flow.locked, Jobs, r, requests[r])
  BY <1>2 DEF AccessInv, RequestsOK
<1>4. r \notin Jobs /\ requests[r].principal # Refused
  BY <1>1, <1>3 DEF RequestOK, At
<1>5. clock' \in Nat
  BY <1>1 DEF AccessInv, Shape
<1>6. CASE Ends(r, "ended") /\ UNCHANGED <<mailbox, directory>>
  <2>1. HandedOK'
    BY <1>1, <1>6 DEF AccessInv, HandedOK
  <2> QED BY <1>1, <1>2, <1>4, <1>5, <1>6, <2>1, EndsStep
<1>7. CASE /\ requests' = [requests EXCEPT ![r].stage = "posted",
                                            ![r].new_key = directory.next_key]
           /\ directory' = IF Creates(requests[r].route)
                           THEN [directory EXCEPT !.next_key = @ + 1] ELSE directory
           /\ mailbox' = Append(mailbox, r)
           /\ UNCHANGED places
  <2>1. DirectoryOK(directory) /\ directory.next_key \in Nat
    BY DEF AccessInv, DirectoryOK
  <2>2. /\ q \in RequestType
        /\ q.stage = "posted" /\ q.route = requests[r].route
        /\ q.new_key = directory.next_key
        /\ q.key = requests[r].key /\ q.user = requests[r].user
        /\ q.principal = requests[r].principal /\ q.late = requests[r].late
    BY <1>2, <2>1 DEF RequestType, Stages
  <2>3. \A x \in Requests : requests'[x] = IF x = r THEN q ELSE requests[x]
    BY <1>7 DEF AccessInv, Shape
  <2>4. /\ mailbox' \in Seq(Requests) /\ IsInjective(mailbox')
        /\ Jobs' = Jobs \cup {r}
    BY <1>4, <1>7, EndOfQueue DEF AccessInv, Shape, Jobs
  <2>5. DirectoryOK(directory') /\ Grows(directory, directory', {})
    <3>1. CASE ~Creates(requests[r].route)
      BY <1>7, <2>1, <3>1, GrowsNot
    <3>2. CASE Creates(requests[r].route)
      <4> DEFINE d == directory
                 e == directory'
      <4>1. /\ e.next_key = d.next_key + 1 /\ DOMAIN e = DOMAIN d /\ e.users = d.users
            /\ e.services = d.services /\ e.next_user = d.next_user
            /\ e.next_service = d.next_service /\ e.players = d.players
        BY <1>7, <2>1, <3>2 DEF DirectoryOK
      <4> HIDE DEF d, e
      <4>2. DirectoryOK(d)
        BY <2>1 DEF d
      <4>3. DirectoryOK(e)
        <5>1. 1 .. d.next_key - 1 \subseteq 1 .. e.next_key - 1
          BY <4>1, <4>2 DEF DirectoryOK
        <5> QED BY <4>1, <4>2, <5>1 DEF DirectoryOK
      <4>4. Grows(d, e, {})
        BY <4>1, <4>2 DEF Grows, DirectoryOK, Taken, Serves
      <4> QED BY <4>3, <4>4 DEF d, e
    <3> QED BY <3>1, <3>2
  <2> HIDE DEF q
  <2>6. Shape'
    <3>1. requests' \in [Requests -> {Unsent} \cup RequestType] /\ RequestType' = RequestType
      <4>1. requests' = [requests EXCEPT ![r] = q]
        BY <1>7 DEF q
      <4> QED BY <1>1, <4>1, <2>2 DEF AccessInv, Shape, RequestType
    <3>2. \A x \in Jobs' : Sent(x)'
      <4>1. \A x \in Jobs : x \in Requests
        BY DEF AccessInv, Jobs, Shape, ToSet
      <4> QED BY <4>1, <2>2, <2>3, <2>4, NotUnsent DEF AccessInv, Shape, Sent
    <3> QED BY <1>1, <1>5, <2>4, <3>1, <3>2 DEF AccessInv, Shape
  <2>7. RequestsOK'
    <3> SUFFICES ASSUME NEW x \in Requests, Sent(x)'
                 PROVE  RequestOK(directory', flow.locked, Jobs', x, requests'[x])
      BY <1>1 DEF RequestsOK
    <3>1. CASE x # r
      <4>1. requests'[x] = requests[x] /\ (x \in Jobs' <=> x \in Jobs) /\ Sent(x)
        BY <2>3, <2>4, <3>1 DEF Sent
      <4>2. requests[x] \in RequestType
        BY <4>1, SentShape DEF AccessInv
      <4>3. RequestOK(directory, flow.locked, Jobs, x, requests[x])
        BY <4>1 DEF AccessInv, RequestsOK
      <4>4. RequestOK(directory', flow.locked, Jobs', x, requests[x])
        BY <2>1, <2>5, <4>1, <4>2, <4>3, RequestStays
      <4> QED BY <4>1, <4>4
    <3>2. CASE x = r
      <4> DEFINE o == requests[r]
      <4>1. RequestOK(directory', flow.locked, Jobs, r, o)
        BY <1>2, <1>3, <2>1, <2>5, RequestStays
      <4>2. Creates(q.route) => q.new_key \in 4 .. directory'.next_key - 1
                                /\ ~Taken(directory', q.new_key)
        <5> SUFFICES ASSUME Creates(q.route)
                     PROVE  q.new_key \in 4 .. directory'.next_key - 1
                            /\ ~Taken(directory', q.new_key)
          OBVIOUS
        <5>1. directory' = [directory EXCEPT !.next_key = @ + 1]
          BY <1>7, <2>2
        <5>2. directory'.next_key = directory.next_key + 1 /\ directory.next_key >= 4
          BY <5>1, <2>1 DEF DirectoryOK
        <5>3. ~Taken(directory, directory.next_key)
          <6>1. directory.next_key \in Nat
            BY <2>1 DEF DirectoryOK
          <6>2. \A u \in DOMAIN directory.users :
                  directory.users[u] \in 1 .. directory.next_key - 1
            BY <2>1 DEF DirectoryOK
          <6>3. \A s \in DOMAIN directory.services :
                  directory.services[s].key \in 1 .. directory.next_key - 1
            BY <2>1 DEF DirectoryOK
          <6>4. directory.next_key \notin 1 .. directory.next_key - 1
            BY <6>1
          <6> QED BY <6>2, <6>3, <6>4 DEF Taken, Serves
        <5>4. ~Taken(directory', directory.next_key)
          BY <5>3, <2>5 DEF Grows
        <5> QED BY <5>2, <5>4, <2>1, <2>2
      <4>3. RequestOK(directory', flow.locked, Jobs', r, q)
        <5>1. LateOK(directory', q)
          BY <1>1, <2>2, <4>1 DEF RequestOK, LateOK, At
        <5> QED BY <1>4, <2>2, <4>1, <4>2, <5>1 DEF RequestOK
      <4> QED BY <2>3, <2>4, <3>2, <4>3
    <3> QED BY <3>1, <3>2
  <2>8. DistinctKeys'
    <3>1. \A x \in Jobs : /\ x \in Requests /\ x # r /\ requests'[x] = requests[x]
      BY <1>4, <2>3 DEF AccessInv, Jobs, Shape, ToSet
    <3>2. \A x \in Jobs : Creates(requests[x].route) => requests[x].new_key # directory.next_key
      <4> SUFFICES ASSUME NEW x \in Jobs, Creates(requests[x].route)
                   PROVE  requests[x].new_key # directory.next_key
        OBVIOUS
      <4>1. RequestOK(directory, flow.locked, Jobs, x, requests[x])
        BY <3>1 DEF AccessInv, RequestsOK, Shape
      <4> QED BY <4>1, <2>1 DEF RequestOK
    <3>3. requests'[r] = q
      BY <2>3
    <3> QED BY <2>2, <2>4, <3>1, <3>2, <3>3 DEF AccessInv, DistinctKeys, Creates
  <2>9. HandedOK'
    <3>1. \A h \in handed : Named(directory', h.names, h.key)
      BY <2>5, NamedStays DEF AccessInv, HandedOK
    <3> QED BY <1>1, <3>1 DEF AccessInv, HandedOK
  <2>10. PlacesOK'
    <3>1. requests' = [requests EXCEPT ![r] = q]
      BY <1>7 DEF q
    <3>2. places' = places + Held(Placed(r)) - Held(HoldsPlace(q)) /\ places' >= 0
      BY <1>1, <1>2, <1>7, <2>2 DEF Held, HoldsPlace, At, AccessInv, PlacesOK
    <3> QED BY <2>2, <3>1, <3>2, PlacesKept DEF AccessInv
  <2>11. LogOK'
    BY <1>1 DEF AccessInv, LogOK
  <2> QED BY <2>5, <2>6, <2>7, <2>8, <2>9, <2>10, <2>11 DEF AccessInv
<1> QED BY <1>1, <1>6, <1>7
-----------------------------------------------------------------------------
\* A key that was made and is nobody's yet.
Fresh(d, key) == key \in 4 .. d.next_key - 1 /\ ~Taken(d, key)

\* A user installed under the next id (Keyring::install).
LEMMA UserAdded ==
    ASSUME NEW d, DirectoryOK(d), NEW key, Fresh(d, key)
    PROVE  /\ DirectoryOK(AddUser(d, key)) /\ Grows(d, AddUser(d, key), {key})
           /\ Named(AddUser(d, key), User(d.next_user), key)
           /\ AddUser(d, key).players = d.players
           /\ DOMAIN AddUser(d, key) = DOMAIN d
           /\ DOMAIN d.users \subseteq DOMAIN AddUser(d, key).users
           /\ d.next_user \in DOMAIN AddUser(d, key).users
<1> DEFINE e == AddUser(d, key)
           n == d.next_user
<1>1. /\ DOMAIN e = DOMAIN d /\ e.next_user = n + 1 /\ e.services = d.services
      /\ e.next_service = d.next_service /\ e.players = d.players /\ e.next_key = d.next_key
      /\ e.users = With(d.users, n, key)
  BY DEF DirectoryOK, AddUser
<1>2. n \in Nat /\ n >= 1 /\ DOMAIN d.users = 1 .. n - 1 /\ 1 .. e.next_user - 1 = 1 .. n - 1 \cup {n}
  BY <1>1 DEF DirectoryOK
<1> HIDE DEF e, n
<1>3. /\ DOMAIN e.users = 1 .. e.next_user - 1 /\ e.users[n] = key
      /\ \A u \in 1 .. n - 1 : e.users[u] = d.users[u] /\ u # n
      /\ e.users \in [1 .. e.next_user - 1 -> 1 .. e.next_key - 1]
  <2>1. /\ DOMAIN e.users = 1 .. n - 1 \cup {n}
        /\ e.users = [z \in 1 .. n - 1 \cup {n} |-> IF z = n THEN key ELSE d.users[z]]
    BY <1>1, <1>2 DEF With
  <2>a. \A u \in 1 .. n - 1 : u # n
    BY <1>2
  <2>b. \A u \in DOMAIN d.users : d.users[u] \in 1 .. d.next_key - 1
    BY DEF DirectoryOK
  <2>2. \A u \in 1 .. n - 1 : u # n /\ d.users[u] \in 1 .. d.next_key - 1
    BY <1>2, <2>a, <2>b
  <2>3. key \in 1 .. d.next_key - 1
    BY DEF Fresh, DirectoryOK
  <2> QED BY <1>1, <1>2, <2>1, <2>2, <2>3
<1>4. /\ \A u \in DOMAIN d.users : d.users[u] # key
      /\ \A s \in DOMAIN d.services : d.services[s].key # key
  BY DEF Fresh, Taken, Serves
<1>5. DirectoryOK(e)
  <2>a. DOMAIN e.users = DOMAIN d.users \cup {n} /\ e.users[n] = key
    BY <1>2, <1>3
  <2>b. \A u \in DOMAIN d.users : e.users[u] = d.users[u]
    BY <1>2, <1>3
  <2>c. \A u, v \in DOMAIN d.users : d.users[u] = d.users[v] => u = v
    BY DEF DirectoryOK
  <2>d. \A u \in DOMAIN d.users, s \in DOMAIN d.services : d.users[u] # d.services[s].key
    BY DEF DirectoryOK
  <2>1. \A u, v \in DOMAIN e.users : e.users[u] = e.users[v] => u = v
    BY <1>4, <2>a, <2>b, <2>c
  <2>2. \A u \in DOMAIN e.users, s \in DOMAIN e.services : e.users[u] # e.services[s].key
    BY <1>1, <1>4, <2>a, <2>b, <2>d
  <2>3. \A p \in DOMAIN e.players : e.players[p] \in DOMAIN e.users
    BY <1>1, <1>2, <1>3 DEF DirectoryOK
  <2>4. e.next_user \in Nat \ {0}
    BY <1>1, <1>2
  <2> QED BY <1>1, <1>3, <2>1, <2>2, <2>3, <2>4 DEF DirectoryOK
<1>6. Grows(d, e, {key})
  <2>1. \A k : Taken(e, k) => Taken(d, k) \/ k \in {key}
    BY <1>1, <1>2, <1>3 DEF Taken, Serves
  <2>2. key >= 4 /\ ~Taken(d, key)
    BY DEF Fresh, DirectoryOK
  <2>3. \A u \in DOMAIN d.users : u \in DOMAIN e.users /\ e.users[u] = d.users[u]
    BY <1>2, <1>3
  <2> QED BY <1>1, <2>1, <2>2, <2>3 DEF Grows, DirectoryOK
<1>7. Named(e, User(n), key) /\ DOMAIN d.users \subseteq DOMAIN e.users /\ n \in DOMAIN e.users
  BY <1>2, <1>3 DEF Named, User
<1> QED BY <1>1, <1>5, <1>6, <1>7 DEF e, n

\* A player's reference bound to its user (ProvisionPlayer).
LEMMA PlayerAdded ==
    ASSUME NEW d, DirectoryOK(d), NEW added, NEW c, Grows(c, d, added),
           NEW player, NEW user \in DOMAIN d.users
    PROVE  LET e == [d EXCEPT !.players = With(@, player, user)]
           IN  /\ DirectoryOK(e) /\ Grows(c, e, added)
               /\ \A names, key : Named(d, names, key) => Named(e, names, key)
<1> DEFINE e == [d EXCEPT !.players = With(@, player, user)]
<1>1. /\ DOMAIN e = DOMAIN d /\ e.next_user = d.next_user /\ e.services = d.services
      /\ e.next_service = d.next_service /\ e.users = d.users /\ e.next_key = d.next_key
      /\ e.players = With(d.players, player, user)
  BY DEF DirectoryOK
<1> HIDE DEF e
<1>2. \A p \in DOMAIN e.players : e.players[p] \in DOMAIN d.users
  BY <1>1 DEF DirectoryOK, With
<1>3. DirectoryOK(e)
  BY <1>1, <1>2 DEF DirectoryOK
<1>4. Grows(c, e, added)
  BY <1>1 DEF Grows, Taken, Serves
<1>5. \A names, key : Named(d, names, key) => Named(e, names, key)
  BY <1>1 DEF Named, Serves
<1> QED BY <1>3, <1>4, <1>5 DEF e

\* A service installed under the next id (Services::install).
LEMMA ServiceAdded ==
    ASSUME NEW d, DirectoryOK(d), NEW key, Fresh(d, key), flow.scopes \subseteq Scopes
    PROVE  /\ DirectoryOK(AddService(d, key)) /\ Grows(d, AddService(d, key), {key})
           /\ Named(AddService(d, key), Service(d.next_service), key)
<1> DEFINE e == AddService(d, key)
           n == d.next_service
           new == [key |-> key, scopes |-> flow.scopes, revoked |-> FALSE]
<1>1. /\ DOMAIN e = DOMAIN d /\ e.next_service = n + 1 /\ e.users = d.users
      /\ e.next_user = d.next_user /\ e.players = d.players /\ e.next_key = d.next_key
      /\ e.services = With(d.services, n, new)
  BY DEF DirectoryOK, AddService
<1>2. n \in Nat /\ n >= 1 /\ DOMAIN d.services = 1 .. n - 1
      /\ 1 .. e.next_service - 1 = 1 .. n - 1 \cup {n}
  BY <1>1 DEF DirectoryOK
<1> DEFINE T == [key : 1 .. d.next_key - 1, scopes : SUBSET Scopes, revoked : BOOLEAN]
<1>a. new \in T /\ new.key = key
  BY DEF Fresh, DirectoryOK
<1>b. \A s \in 1 .. n - 1 : s # n /\ d.services[s] \in T
  BY <1>2 DEF DirectoryOK
<1> HIDE DEF e, n, new, T
<1>3. /\ DOMAIN e.services = 1 .. e.next_service - 1 /\ e.services[n] = new
      /\ \A s \in 1 .. n - 1 : e.services[s] = d.services[s]
      /\ e.services \in [1 .. e.next_service - 1 -> T]
  <2>1. /\ DOMAIN e.services = 1 .. n - 1 \cup {n}
        /\ e.services = [z \in 1 .. n - 1 \cup {n} |-> IF z = n THEN new ELSE d.services[z]]
    BY <1>1, <1>2 DEF With
  <2> QED BY <1>2, <1>a, <1>b, <2>1
<1>4. /\ \A u \in DOMAIN d.users : d.users[u] # key
      /\ \A s \in DOMAIN d.services : d.services[s].key # key
  BY DEF Fresh, Taken, Serves
<1>5. DirectoryOK(e)
  <2>0. /\ DOMAIN e.services = DOMAIN d.services \cup {n} /\ e.services[n].key = key
        /\ \A s \in DOMAIN d.services : e.services[s] = d.services[s]
    BY <1>2, <1>3, <1>a
  <2>1. \A s, t \in DOMAIN e.services : e.services[s].key = e.services[t].key => s = t
    <3> SUFFICES ASSUME NEW s \in DOMAIN e.services, NEW t \in DOMAIN e.services,
                        e.services[s].key = e.services[t].key
                 PROVE  s = t
      OBVIOUS
    <3>1. CASE s \in DOMAIN d.services /\ t \in DOMAIN d.services
      BY <2>0, <3>1 DEF DirectoryOK
    <3>2. CASE s \notin DOMAIN d.services /\ t \notin DOMAIN d.services
      BY <2>0, <3>2
    <3> QED BY <2>0, <3>1, <3>2, <1>4
  <2>2. \A u \in DOMAIN e.users, s \in DOMAIN e.services : e.users[u] # e.services[s].key
    <3> SUFFICES ASSUME NEW u \in DOMAIN d.users, NEW s \in DOMAIN e.services
                 PROVE  d.users[u] # e.services[s].key
      BY <1>1
    <3>1. CASE s \in DOMAIN d.services
      BY <2>0, <3>1 DEF DirectoryOK
    <3> QED BY <2>0, <3>1, <1>4
  <2>3. e.next_service \in Nat \ {0}
    BY <1>1, <1>2
  <2> QED BY <1>1, <1>3, <2>1, <2>2, <2>3 DEF DirectoryOK, T
<1>6. Grows(d, e, {key})
  <2>1. \A k : Taken(e, k) => Taken(d, k) \/ k \in {key}
    BY <1>1, <1>2, <1>3, <1>a DEF Taken, Serves
  <2>2. key >= 4 /\ ~Taken(d, key)
    BY DEF Fresh, DirectoryOK
  <2>3. \A s \in DOMAIN d.services : s \in DOMAIN e.services /\ e.services[s] = d.services[s]
    BY <1>2, <1>3
  <2> QED BY <1>1, <2>1, <2>2, <2>3 DEF Grows, DirectoryOK
<1>7. Named(e, Service(n), key)
  BY <1>2, <1>3, <1>a DEF Named, Service, Serves
<1> QED BY <1>5, <1>6, <1>7 DEF e, n

\* A service's key taken away (Services::revoke): the tombstone keeps
\* the key from being anyone else's.
LEMMA ServiceRevoked ==
    ASSUME NEW d, DirectoryOK(d), NEW s \in DOMAIN d.services
    PROVE  DirectoryOK(Revoke(d, s)) /\ Grows(d, Revoke(d, s), {})
<1> DEFINE e == Revoke(d, s)
<1>1. /\ DOMAIN e = DOMAIN d /\ e.next_user = d.next_user /\ e.users = d.users
      /\ e.next_service = d.next_service /\ e.players = d.players /\ e.next_key = d.next_key
      /\ e.services = [d.services EXCEPT ![s].revoked = TRUE]
  BY DEF DirectoryOK, Revoke
<1> DEFINE T == [key : 1 .. d.next_key - 1, scopes : SUBSET Scopes, revoked : BOOLEAN]
<1>2. d.services \in [1 .. d.next_service - 1 -> T]
  BY DEF DirectoryOK
<1> HIDE DEF e
<1>3. /\ e.services \in [1 .. d.next_service - 1 -> T]
      /\ \A t \in DOMAIN d.services : /\ e.services[t].key = d.services[t].key
                                      /\ e.services[t].scopes = d.services[t].scopes
                                      /\ d.services[t].revoked => e.services[t].revoked
      /\ DOMAIN e.services = DOMAIN d.services
  <2>1. s \in 1 .. d.next_service - 1 /\ d.services[s] \in T
    BY <1>2
  <2>2. [d.services[s] EXCEPT !.revoked = TRUE] \in T
    BY <2>1
  <2>3. e.services = [d.services EXCEPT ![s] = [d.services[s] EXCEPT !.revoked = TRUE]]
    BY <1>1
  <2>4. \A t \in DOMAIN d.services :
          e.services[t] = IF t = s THEN [d.services[s] EXCEPT !.revoked = TRUE]
                          ELSE d.services[t]
    BY <2>3
  <2>5. e.services \in [1 .. d.next_service - 1 -> T]
    <3> HIDE DEF T
    <3> QED BY <1>2, <2>2, <2>3
  <2>6. [d.services[s] EXCEPT !.revoked = TRUE].key = d.services[s].key
        /\ [d.services[s] EXCEPT !.revoked = TRUE].scopes = d.services[s].scopes
        /\ [d.services[s] EXCEPT !.revoked = TRUE].revoked = TRUE
    BY <2>1
  <2> QED BY <1>2, <2>4, <2>5, <2>6
<1>4. DirectoryOK(e)
  BY <1>1, <1>3 DEF DirectoryOK
<1>5. Grows(d, e, {})
  BY <1>1, <1>3 DEF Grows, Taken, Serves, DirectoryOK
<1> QED BY <1>4, <1>5 DEF e

\* A directory that stayed as it was may take keys that are still
\* nobody's.
LEMMA GrowsBy ==
    ASSUME NEW d, NEW e, Grows(d, e, {}), NEW added, \A k \in added : Fresh(d, k)
    PROVE  Grows(d, e, added)
  BY DEF Grows, Fresh

-----------------------------------------------------------------------------
\* A job the market has reached: whom it runs for, and a key made for
\* it.
JobOK(d, q) ==
    /\ q \in RequestType /\ q.principal.kind # "Refused"
    /\ Creates(q.route) => Fresh(d, q.new_key)

NewKeys(q) == IF Creates(q.route) THEN {q.new_key} ELSE {}

\* What a command makes of the directory is right, and it answers 201
\* only with the user or service whose key was made for it.
LEMMA CommandApplied ==
    ASSUME DirectoryOK(directory), flow.scopes \subseteq Scopes, NEW q, JobOK(directory, q),
           NEW done \in Applied(q)
    PROVE  /\ DirectoryOK(done.directory)
           /\ Grows(directory, done.directory, NewKeys(q))
           /\ done.answer \in [status : Nat, names : Principals]
           /\ done.answer.status = 201 => Named(done.directory, done.answer.names, q.new_key)
           /\ q.route.command = "Close" /\ q.principal.id # q.user => done.answer.status >= 400
<1> DEFINE d == directory
           key == q.new_key
           c == q.route.command
           Good == /\ DirectoryOK(done.directory)
                   /\ Grows(d, done.directory, NewKeys(q))
                   /\ done.answer \in [status : Nat, names : Principals]
                   /\ done.answer.status = 201 => Named(done.directory, done.answer.names, key)
                   /\ c = "Close" /\ q.principal.id # q.user => done.answer.status >= 400
<1>k. \A k \in NewKeys(q) : Fresh(d, k)
  BY DEF NewKeys, JobOK
<1>same. Grows(d, d, NewKeys(q))
  BY <1>k, GrowsNot, GrowsBy
<1>n. d.next_user \in Nat /\ d.next_service \in Nat /\ (\A p \in DOMAIN d.players : d.players[p] \in Nat)
  BY DEF DirectoryOK
<1>a. /\ Refused \in Principals /\ User(d.next_user) \in Principals
      /\ Service(d.next_service) \in Principals
      /\ \A p \in DOMAIN d.players : User(d.players[p]) \in Principals
  BY <1>n DEF Principals, Refused, User, Service
<1>ref. ASSUME done = [directory |-> d, answer |-> Made(400, Refused)]
        PROVE  Good
  BY <1>ref, <1>same, <1>a DEF Made
<1>add. ASSUME Creates(q.route)
        PROVE  /\ DirectoryOK(AddUser(d, key)) /\ Grows(d, AddUser(d, key), NewKeys(q))
               /\ Named(AddUser(d, key), User(d.next_user), key)
               /\ d.next_user \in DOMAIN AddUser(d, key).users
  <2>1. Fresh(d, key) /\ NewKeys(q) = {key}
    BY <1>add DEF JobOK, NewKeys
  <2> QED BY <2>1, UserAdded
<1>1. CASE c \in {"CreateUser", "SignUp"}
  <2>1. Creates(q.route) /\ c # "Close"
    BY <1>1 DEF Creates
  <2>2. done.directory = AddUser(d, key)
        /\ done.answer \in {Made(201, User(d.next_user)), Made(400, Refused)}
    BY <1>1 DEF Applied
  <2> QED BY <2>1, <2>2, <1>add, <1>a DEF Made
<1>2. CASE c = "ProvisionPlayer"
  <2>1. Creates(q.route) /\ c # "Close"
    BY <1>2 DEF Creates
  <2>2. CASE q.user \in DOMAIN d.players
    <3>1. done = [directory |-> d, answer |-> Made(200, User(d.players[q.user]))]
      BY <1>2, <2>2 DEF Applied
    <3> QED BY <2>1, <2>2, <3>1, <1>same, <1>a DEF Made
  <2>3. CASE q.user \notin DOMAIN d.players
    <3> DEFINE e == AddUser(d, key)
    <3>1. done = [directory |-> [e EXCEPT !.players = With(@, q.user, d.next_user)],
                  answer |-> Made(201, User(d.next_user))]
      BY <1>2, <2>3 DEF Applied
    <3>2. DirectoryOK(e) /\ Grows(d, e, NewKeys(q)) /\ Named(e, User(d.next_user), key)
          /\ d.next_user \in DOMAIN e.users
      BY <2>1, <1>add
    <3> HIDE DEF e
    <3>3. DirectoryOK(done.directory) /\ Grows(d, done.directory, NewKeys(q))
          /\ Named(done.directory, User(d.next_user), key)
      BY <3>1, <3>2, PlayerAdded
    <3> QED BY <2>1, <3>1, <3>3, <1>a DEF Made
  <2> QED BY <2>2, <2>3
<1>3. CASE c = "CreateService"
  <2>1. Creates(q.route) /\ c # "Close"
    BY <1>3 DEF Creates
  <2>2. Fresh(d, key) /\ NewKeys(q) = {key}
    BY <2>1 DEF JobOK, NewKeys
  <2>3. \/ done = [directory |-> d, answer |-> Made(400, Refused)]
        \/ done = [directory |-> AddService(d, key), answer |-> Made(201, Service(d.next_service))]
    BY <1>3 DEF Applied
  <2>4. CASE done = [directory |-> AddService(d, key),
                     answer |-> Made(201, Service(d.next_service))]
    BY <2>1, <2>2, <2>4, <1>a, ServiceAdded DEF Made
  <2> QED BY <2>3, <2>4, <1>ref
<1>4. CASE c = "RevokeService"
  <2>1. CASE q.user \in DOMAIN d.services
    <3>1. done = [directory |-> Revoke(d, q.user), answer |-> Made(200, Refused)]
      BY <1>4, <2>1 DEF Applied
    <3>2. DirectoryOK(done.directory) /\ Grows(d, done.directory, NewKeys(q))
      BY <2>1, <3>1, <1>k, ServiceRevoked, GrowsBy
    <3> QED BY <1>4, <3>1, <3>2, <1>a DEF Made
  <2>2. CASE q.user \notin DOMAIN d.services
    <3>1. done = [directory |-> d, answer |-> Made(400, Refused)]
      BY <1>4, <2>2 DEF Applied
    <3> QED BY <3>1, <1>ref
  <2> QED BY <2>1, <2>2
<1>5. CASE c = "Close" /\ q.principal # User(q.user)
  <2>1. done = [directory |-> d, answer |-> Made(400, Refused)]
    BY <1>5 DEF Applied
  <2> QED BY <2>1, <1>ref
<1>6. CASE /\ c \notin {"CreateUser", "SignUp", "ProvisionPlayer", "CreateService", "RevokeService"}
           /\ ~(c = "Close" /\ q.principal # User(q.user))
  <2>1. \/ done = [directory |-> d, answer |-> Made(400, Refused)]
        \/ done = [directory |-> d, answer |-> Made(200, Refused)]
    BY <1>6 DEF Applied
  <2>2. CASE done = [directory |-> d, answer |-> Made(200, Refused)]
    <3>1. c = "Close" => q.principal.id = q.user
      BY <1>6 DEF User
    <3> QED BY <2>2, <3>1, <1>same, <1>a DEF Made
  <2> QED BY <2>1, <2>2, <1>ref
<1> QED BY <1>1, <1>2, <1>3, <1>4, <1>5, <1>6

\* The same of run_command, which may give a recorded answer again: the
\* answer to a closing is given again to its account's owner only.
LEMMA JobDone ==
    ASSUME DirectoryOK(directory), LogOK, flow.scopes \subseteq Scopes,
           NEW q, JobOK(directory, q), NEW ran \in RunCommand(q)
    PROVE  /\ DirectoryOK(ran.directory)
           /\ Grows(directory, ran.directory, NewKeys(q))
           /\ AnswerOK(ran.directory, q, ran.answer)
           /\ \A k \in DOMAIN ran.log : EntryOK(ran.log[k])
<1>k. \A k \in NewKeys(q) : Fresh(directory, k)
  BY DEF NewKeys, JobOK
<1>same. Grows(directory, directory, NewKeys(q))
  BY <1>k, GrowsNot, GrowsBy
<1>1. CASE q.retry \in DOMAIN log /\ ~q.route.safe
  <2>1. /\ ran.directory = directory /\ ran.log = log
        /\ ran.answer = IF log[q.retry].payload = Payload(q)
                        THEN [made |-> log[q.retry].made, replayed |-> TRUE]
                        ELSE [made |-> Made(409, Refused), replayed |-> FALSE]
    BY <1>1 DEF RunCommand
  <2>2. EntryOK(log[q.retry])
    BY <1>1 DEF LogOK
  <2>3. CASE log[q.retry].payload = Payload(q)
    <3>1. ran.answer \in Answers /\ ran.answer.replayed
      BY <2>1, <2>2, <2>3 DEF EntryOK, Answers
    <3>2. q.route.command = "Close" => q.principal.id = q.user
      BY <2>2, <2>3 DEF EntryOK, Payload
    <3>3. AnswerOK(directory, q, ran.answer)
      BY <3>1, <3>2 DEF AnswerOK
    <3> QED BY <2>1, <3>3, <1>same DEF LogOK
  <2>4. CASE log[q.retry].payload # Payload(q)
    <3>1. ran.answer = [made |-> Made(409, Refused), replayed |-> FALSE]
      BY <2>1, <2>4
    <3>2. AnswerOK(directory, q, ran.answer)
      BY <3>1 DEF AnswerOK, Answers, Made, Principals, Refused
    <3> QED BY <2>1, <3>2, <1>same DEF LogOK
  <2> QED BY <2>3, <2>4
<1>2. CASE ~(q.retry \in DOMAIN log /\ ~q.route.safe)
  <2> DEFINE entry(done) == [payload |-> Payload(q), made |-> done.answer,
                             principal |-> q.principal]
             kept(done) == q.retry = NoRetry \/ q.route.safe \/ done.answer.status >= 400
  <2>1. PICK done \in Applied(q) :
             /\ ran.directory = done.directory
             /\ ran.answer = [made |-> done.answer, replayed |-> FALSE]
             /\ ran.log = IF kept(done) THEN log ELSE With(log, q.retry, entry(done))
    <3>1. PICK done \in Applied(q) :
               ran = [directory |-> done.directory,
                      answer |-> [made |-> done.answer, replayed |-> FALSE],
                      log |-> IF kept(done) THEN log ELSE With(log, q.retry, entry(done))]
      BY <1>2, Zenon DEF RunCommand
    <3> HIDE DEF entry, kept
    <3> QED BY <3>1
  <2>2. /\ DirectoryOK(done.directory)
        /\ Grows(directory, done.directory, NewKeys(q))
        /\ done.answer \in [status : Nat, names : Principals]
        /\ done.answer.status = 201 => Named(done.directory, done.answer.names, q.new_key)
        /\ q.route.command = "Close" /\ q.principal.id # q.user => done.answer.status >= 400
    BY CommandApplied
  <2>3. AnswerOK(ran.directory, q, ran.answer)
    BY <2>1, <2>2 DEF AnswerOK, Answers
  <2>4. ~kept(done) => EntryOK(entry(done))
    <3> SUFFICES ASSUME ~kept(done) PROVE EntryOK(entry(done))
      OBVIOUS
    <3>1. q.principal \in Principals /\ q.principal.kind # "Refused"
      BY DEF JobOK, RequestType
    <3>2. q.route.command = "Close" => q.principal.id = q.user
      BY <2>2
    <3>3. entry(done).payload[1] = "Close" => entry(done).payload[2] = entry(done).payload[3]
      BY <3>2 DEF Payload
    <3> QED BY <2>2, <3>1, <3>3 DEF EntryOK
  <2>5. \A k \in DOMAIN ran.log : EntryOK(ran.log[k])
    <3> HIDE DEF entry, kept
    <3>1. CASE kept(done)
      BY <2>1, <3>1 DEF LogOK
    <3>2. CASE ~kept(done)
      BY <2>1, <2>4, <3>2 DEF LogOK, With
    <3> QED BY <3>1, <3>2
  <2> QED BY <2>1, <2>2, <2>3, <2>5
<1> QED BY <1>1, <1>2

\* The market's step keeps the invariant, whether or not the client
\* waits.
LEMMA RunStep ==
    ASSUME AccessInv, Run
    PROVE  AccessInv'
<1> DEFINE r == Head(mailbox)
           q == requests[r]
<1>1. /\ r \in Jobs /\ r \in Requests
      /\ Tail(mailbox) \in Seq(Requests) /\ IsInjective(Tail(mailbox))
      /\ ToSet(Tail(mailbox)) = Jobs \ {r}
  BY TailOfQueue DEF Run, AccessInv, Shape, Jobs
<1>2. PICK ran \in RunCommand(q) :
        /\ directory' = ran.directory /\ log' = ran.log
        /\ requests' = [requests EXCEPT ![r].stage = IF @ = "posted" THEN "answered" ELSE @,
                                        ![r].answer = ran.answer]
        /\ mailbox' = Tail(mailbox)
        /\ UNCHANGED <<places, limiter, clock, handed, spent, flow>>
  BY DEF Run, RunJob
<1> DEFINE now == [q EXCEPT !.stage = IF q.stage = "posted" THEN "answered" ELSE q.stage,
                            !.answer = ran.answer]
<1>3. Sent(r) /\ q \in RequestType /\ (Placed(r) <=> HoldsPlace(q))
  <2>1. Sent(r)
    BY <1>1 DEF AccessInv, Shape
  <2> QED BY <1>1, <2>1, SentShape DEF AccessInv
<1>4. RequestOK(directory, flow.locked, Jobs, r, q)
  BY <1>1, <1>3 DEF AccessInv, RequestsOK
<1>5. Jobs' = Jobs \ {r}
  BY <1>1, <1>2 DEF Jobs
<1>6. requests' = [requests EXCEPT ![r] = now]
  BY <1>2, <1>3
<1> HIDE DEF r, q
<1>7. JobOK(directory, q)
  BY <1>1, <1>3, <1>4 DEF RequestOK, MayRun, JobOK, Fresh, RequestType
<1>8. /\ DirectoryOK(directory') /\ Grows(directory, directory', NewKeys(q))
      /\ AnswerOK(directory', q, ran.answer) /\ LogOK'
  <2>1. flow.scopes \subseteq Scopes
    BY FlowsAssumption DEF AccessInv, Shape
  <2> QED BY <1>2, <1>7, <2>1, JobDone DEF AccessInv, LogOK
<1>9. /\ now \in RequestType /\ now.answer = ran.answer /\ now.route = q.route
      /\ now.new_key = q.new_key /\ now.key = q.key /\ now.user = q.user
      /\ now.principal = q.principal /\ now.late = q.late
      /\ now.stage = IF q.stage = "posted" THEN "answered" ELSE q.stage
  <2>1. ran.answer \in Answers
    BY <1>8 DEF AnswerOK
  <2> QED BY <1>3, <2>1 DEF RequestType, Stages
<1> HIDE DEF now
<1>10. \A x \in Requests : requests'[x] = IF x = r THEN now ELSE requests[x]
  BY <1>6 DEF AccessInv, Shape
<1>11. \A x \in Jobs : x \in Requests
  BY DEF AccessInv, Jobs, Shape, ToSet
<1>12. Shape'
  <2>1. requests' \in [Requests -> {Unsent} \cup RequestType] /\ RequestType' = RequestType
    BY <1>2, <1>6, <1>9 DEF AccessInv, Shape, RequestType
  <2>2. \A x \in Jobs' : Sent(x)'
    BY <1>5, <1>10, <1>11 DEF AccessInv, Shape, Sent
  <2> QED BY <1>1, <1>2, <2>1, <2>2 DEF AccessInv, Shape
<1>13. RequestsOK'
  <2> SUFFICES ASSUME NEW x \in Requests, Sent(x)'
               PROVE  RequestOK(directory', flow.locked, Jobs', x, requests'[x])
    BY <1>2 DEF RequestsOK
  <2>1. CASE x # r
    <3>1. requests'[x] = requests[x] /\ Sent(x) /\ (x \in Jobs' => x \in Jobs)
      BY <1>5, <1>10, <2>1 DEF Sent
    <3>2. requests[x] \in RequestType
      BY <3>1, SentShape DEF AccessInv
    <3>3. RequestOK(directory, flow.locked, Jobs, x, requests[x])
      BY <3>1 DEF AccessInv, RequestsOK
    <3>4. x \in Jobs' /\ Creates(requests[x].route) => requests[x].new_key \notin NewKeys(q)
      BY <1>1, <2>1, <3>1 DEF AccessInv, DistinctKeys, NewKeys, q
    <3>5. RequestOK(directory', flow.locked, Jobs', x, requests[x])
      BY <1>8, <3>1, <3>2, <3>3, <3>4, RequestStays DEF AccessInv
    <3> QED BY <3>1, <3>5
  <2>2. CASE x = r
    <3>1. r \notin Jobs'
      BY <1>5
    <3>2. RequestOK(directory', flow.locked, Jobs', r, q)
      BY <1>3, <1>4, <1>8, <3>1, RequestStays DEF AccessInv
    <3>3. q.stage \in {"posted", "gone"} /\ q.principal # Refused
      BY <1>1, <1>4 DEF RequestOK
    <3>4. LateOK(directory', now)
      BY <1>9, <3>2, <3>3 DEF RequestOK, LateOK
    <3>5. AnswerOK(directory', now, now.answer)
      BY <1>8, <1>9 DEF AnswerOK
    <3>6. RequestOK(directory', flow.locked, Jobs', r, now)
      BY <1>9, <3>1, <3>2, <3>3, <3>4, <3>5 DEF RequestOK
    <3> QED BY <1>1, <1>10, <2>2, <3>6
  <2> QED BY <2>1, <2>2
<1>14. DistinctKeys'
  <2>1. \A x \in Jobs' : x \in Jobs /\ requests'[x] = requests[x]
    BY <1>5, <1>10, <1>11
  <2> QED BY <2>1 DEF AccessInv, DistinctKeys, Creates
<1>15. HandedOK'
  <2>1. \A h \in handed : Named(directory', h.names, h.key)
    BY <1>8, NamedStays DEF AccessInv, HandedOK
  <2> QED BY <1>2, <2>1 DEF AccessInv, HandedOK
<1>16. PlacesOK'
  <2>1. HoldsPlace(now) <=> Placed(r)
    BY <1>3, <1>9 DEF HoldsPlace
  <2>2. places' = places + Held(Placed(r)) - Held(HoldsPlace(now)) /\ places' >= 0
    BY <1>2, <2>1 DEF Held, AccessInv, PlacesOK
  <2> QED BY <1>1, <1>6, <1>9, <2>2, PlacesKept DEF AccessInv
<1> QED BY <1>8, <1>12, <1>13, <1>14, <1>15, <1>16 DEF AccessInv

-----------------------------------------------------------------------------
\* The server starts within the invariant.
LEMMA StartsRight == Init => AccessInv
<1> SUFFICES ASSUME Init PROVE AccessInv
  OBVIOUS
<1>1. Jobs = {} /\ \A r \in Requests : ~Sent(r)
  BY DEF Init, Jobs, Sent, ToSet
<1>2. Shape
  BY <1>1 DEF Init, Shape, IsInjective
<1>3. DirectoryOK(directory)
  <2> DEFINE d == directory
             one == [key |-> 3, scopes |-> flow.scopes, revoked |-> FALSE]
  <2>1. /\ DOMAIN d = {"users", "next_user", "services", "next_service", "players", "next_key"}
        /\ d.users = [u \in 1 .. 2 |-> u] /\ d.services = [s \in 1 .. 1 |-> one]
        /\ d.next_user = 3 /\ d.next_service = 2 /\ d.players = <<>> /\ d.next_key = 4
    BY DEF Init
  <2>2. flow.scopes \subseteq Scopes
    BY FlowsAssumption DEF Init
  <2>3. one \in [key : 1 .. 3, scopes : SUBSET Scopes, revoked : BOOLEAN] /\ one.key = 3
    BY <2>2
  <2> HIDE DEF d, one
  <2>4. /\ DOMAIN d.users = 1 .. 2 /\ d.users[1] = 1 /\ d.users[2] = 2
        /\ d.users \in [1 .. 2 -> 1 .. 3]
    BY <2>1
  <2>5. d.services \in [1 .. 1 -> [key : 1 .. 3, scopes : SUBSET Scopes, revoked : BOOLEAN]]
        /\ d.services[1] = one /\ DOMAIN d.services = 1 .. 1
    BY <2>1, <2>3
  <2>6. DOMAIN d.players = {}
    BY <2>1
  <2>7. DirectoryOK(d)
    BY <2>1, <2>3, <2>4, <2>5, <2>6 DEF DirectoryOK
  <2> QED BY <2>7 DEF d
<1>4. PlacesOK
  <2>1. {r \in Requests : Placed(r)} = {}
    BY DEF Init, Placed, Holding, Unsent
  <2>2. Cardinality({r \in Requests : Placed(r)}) = 0
    BY <2>1, FS_EmptySet
  <2> QED BY <2>2, AccessAssumption DEF Init, PlacesOK
<1> QED BY <1>1, <1>2, <1>3, <1>4 DEF Init, AccessInv, RequestsOK, DistinctKeys, LogOK, HandedOK

\* A step that only lets time pass keeps it.
LEMMA NothingElse ==
    ASSUME AccessInv, clock' \in Nat,
           UNCHANGED <<requests, mailbox, directory, log, places, handed, flow>>
    PROVE  AccessInv'
<1>1. Jobs' = Jobs /\ (\A r \in Requests : (Sent(r)' <=> Sent(r)) /\ (Placed(r)' <=> Placed(r)))
  BY DEF Jobs, Sent, Placed, Holding
<1>2. {r \in Requests : Placed(r)}' = {r \in Requests : Placed(r)}
  BY <1>1
<1>3. Shape' /\ DirectoryOK(directory)'
  <2>1. RequestType' = RequestType
    BY DEF RequestType
  <2>2. requests' \in [Requests -> {Unsent} \cup RequestType']
    BY <2>1 DEF AccessInv, Shape
  <2>3. mailbox' \in Seq(Requests) /\ IsInjective(mailbox') /\ flow' \in Flows
    BY DEF AccessInv, Shape
  <2>4. \A r \in Jobs' : Sent(r)'
    BY DEF AccessInv, Shape, Jobs, Sent
  <2> QED BY <2>2, <2>3, <2>4 DEF AccessInv, Shape
<1>4. RequestsOK' /\ DistinctKeys'
  BY <1>1 DEF AccessInv, RequestsOK, DistinctKeys
<1>5. LogOK' /\ HandedOK'
  BY DEF AccessInv, LogOK, HandedOK
<1>6. PlacesOK'
  BY <1>2 DEF AccessInv, PlacesOK
<1> QED BY <1>3, <1>4, <1>5, <1>6 DEF AccessInv

\* Every step of the server, of its clients and of time keeps it.
LEMMA StepsRight == AccessInv /\ [Next]_vars => AccessInv'
<1> SUFFICES ASSUME AccessInv, [Next]_vars PROVE AccessInv'
  OBVIOUS
<1>1. CASE \E r \in Requests : Send(r)
  BY <1>1, SendStep
<1>2. CASE \E r \in Requests : Serve(r)
  BY <1>2, AdmitStep, AuthoriseStep, PostStep, ReceiveStep DEF Serve
<1>3. CASE Run
  BY <1>3, RunStep
<1>4. CASE \E r \in Requests : Disconnect(r)
  BY <1>4, DisconnectStep
<1>5. CASE Tick \/ UNCHANGED vars
  <2>1. clock' \in Nat /\ UNCHANGED <<requests, mailbox, directory, log, places, handed, flow>>
    BY <1>5 DEF Tick, vars, AccessInv, Shape
  <2> QED BY <2>1, NothingElse
<1> QED BY <1>1, <1>2, <1>3, <1>4, <1>5 DEF Next

\* The invariant holds in every reachable state, for every set of flows,
\* every number of requests and every limit.
THEOREM AccessInvariant == Spec => []AccessInv
<1>1. Init => AccessInv
  BY StartsRight
<1>2. AccessInv /\ [Next]_vars => AccessInv'
  BY StepsRight
<1> QED BY <1>1, <1>2, PTL DEF Spec

-----------------------------------------------------------------------------
\* A key that was taken away is refused for good, on an open server too,
\* however the requests, the market and the revocation are interleaved.
THEOREM RevokedKeysStayOut == Spec => []RevokedStaysOut
<1>1. AccessInv => RevokedStaysOut
  <2> SUFFICES ASSUME AccessInv, NEW r \in Requests, ~At(r, "unsent"), requests[r].late,
                      requests[r].route.by \in {"trusted", "goods", "wallet"}
               PROVE  requests[r].stage \in {"sent", "admitted", "ended", "gone"}
    BY DEF RevokedStaysOut
  <2>1. Sent(r)
    BY SentShape DEF AccessInv
  <2> QED BY <2>1 DEF AccessInv, RequestsOK, RequestOK, LateOK
<1> QED BY <1>1, AccessInvariant, PTL

\* Every command that reaches the market runs for a principal that may
\* run it, over every route of api.rs and through replayed answers.
THEOREM PrivilegeIsLeast == Spec => []LeastPrivilege
<1>1. AccessInv => LeastPrivilege
  <2> SUFFICES ASSUME AccessInv, NEW r \in Requests, ~At(r, "unsent"),
                      requests[r].stage \in {"posted", "answered"}
               PROVE  LET q == requests[r] IN
            CASE q.principal.kind = "Service" ->
                   /\ directory.services[q.principal.id].key = q.key
                   /\ \/ q.route.command = "GetCommand"
                      \/ \E scope \in directory.services[q.principal.id].scopes :
                           q.route.command \in Opens(scope)
              [] q.principal.kind = "Operator" ->
                   /\ flow.locked => q.key = OperatorKey
                   /\ q.route.command \in ForServices => ServicesOf(q.key) = {}
              [] q.principal.kind = "User" ->
                   /\ directory.users[q.principal.id] = q.key
                   /\ q.route.command \notin ForOperators
                   /\ \/ q.principal.id = q.user
                      \/ q.route.command \in {"ListJobs", "ListTraders", "ListAccounts", "GetCommand"}
                      \/ q.stage = "posted" \/ q.answer.made.status >= 400
              [] q.principal.kind = "Anonymous" ->
                   q.route.command \in {"CreateUser", "SignUp", "GetCommand"}
    BY DEF LeastPrivilege
  <2> DEFINE q == requests[r]
  <2>1. Sent(r) /\ q \in RequestType
    BY SentShape DEF AccessInv
  <2>2. RequestOK(directory, flow.locked, Jobs, r, q)
    BY <2>1 DEF AccessInv, RequestsOK
  <2>3. /\ q.principal \in Principals
        /\ MayRun(directory, flow.locked, q.principal, q.route, q.key, q.user)
        /\ q.stage = "answered" => AnswerOK(directory, q, q.answer)
    BY <2>1, <2>2 DEF RequestOK, RequestType
  <2> HIDE DEF q
  <2>4. CASE q.principal.kind = "Service"
    BY <2>3, <2>4 DEF MayRun, Serves, q
  <2>5. CASE q.principal.kind = "Operator"
    BY <2>3, <2>5 DEF MayRun, Serves, ServicesOf, q
  <2>6. CASE q.principal.kind = "User"
    BY <2>3, <2>6 DEF MayRun, AnswerOK, q
  <2>7. CASE q.principal.kind = "Anonymous"
    BY <2>3, <2>7 DEF MayRun, q
  <2>8. q.principal.kind \in {"Service", "Operator", "User", "Anonymous"}
    BY <2>3 DEF MayRun, Principals
  <2> QED BY <2>4, <2>5, <2>6, <2>7, <2>8 DEF q
<1> QED BY <1>1, AccessInvariant, PTL

\* Every credential a client ever received opens what it came with and
\* nothing else.
THEOREM CredentialsNameTheirOwner == Spec => []KeysOpenWhatTheyName
<1>1. AccessInv => KeysOpenWhatTheyName
  <2> SUFFICES ASSUME AccessInv, NEW h \in handed
               PROVE  /\ h.names.kind = "User" => directory.users[h.names.id] = h.key
                      /\ h.names.kind = "Service" => directory.services[h.names.id].key = h.key
                      /\ h.names.kind \in {"User", "Service"}
                      /\ \A g \in handed : g.key = h.key => g = h
    BY DEF KeysOpenWhatTheyName
  <2>1. \A g \in handed : g \in [key : Nat, names : Principals] /\ Named(directory, g.names, g.key)
    BY DEF AccessInv, HandedOK
  <2>2. ASSUME NEW g \in handed, g.key = h.key
        PROVE  g = h
    <3>1. g.names.kind = h.names.kind /\ g.names.id = h.names.id
      BY <2>1, <2>2 DEF AccessInv, DirectoryOK, Named, Serves
    <3>2. g.names = h.names
      BY <2>1, <3>1 DEF Principals
    <3> QED BY <2>1, <2>2, <3>2
  <2> QED BY <2>1, <2>2 DEF Named, Serves
<1> QED BY <1>1, AccessInvariant, PTL

-----------------------------------------------------------------------------
(* The limiter: no client is granted more than its allowance, for every    *)
(* burst, every limit of buckets and any order of the times requests read. *)

\* What a bucket holds and what it granted come to no more than its
\* burst, its time and what went back of it; a client without one has
\* granted less by a burst, for it gets a full one.
AccountOK(clients, burst, c, s) ==
    /\ s \in [grants : Nat, at : Nat, rewound : Nat]
    /\ c \in DOMAIN clients =>
         /\ clients[c].at = s.at
         /\ s.grants + clients[c].tokens <= burst + s.at + s.rewound
    /\ c \notin DOMAIN clients => s.grants <= s.at + s.rewound

\* The buckets are no more than the limit.
BucketsOK(clients) ==
    /\ IsFiniteSet(DOMAIN clients) /\ Cardinality(DOMAIN clients) <= MAX_BUCKETS
    /\ \A c \in DOMAIN clients : clients[c] \in [tokens : Nat, at : Nat]

\* The inductive invariant of the rate limiter, over that of the
\* requests: none of them read a time that is yet to come.
LimitsInv ==
    /\ AccessInv
    /\ \A r \in Requests : Sent(r) => requests[r].at <= clock
    /\ DOMAIN limiter = {"clients", "anonymous"}
    /\ limiter.anonymous \in [tokens : Nat, at : Nat]
    /\ BucketsOK(limiter.clients)
    /\ \A c \in DOMAIN spent : spent[c].at <= clock
                               /\ AccountOK(limiter.clients, flow.burst, c, spent[c])

\* A refill earns what time has passed, and nothing when time went back.
LEMMA Refilled ==
    ASSUME NEW b \in [tokens : Nat, at : Nat], NEW burst \in Nat, NEW at \in Nat
    PROVE  /\ Refill(b, burst, at) \in [tokens : Nat, at : Nat]
           /\ Refill(b, burst, at).at = at
           /\ Refill(b, burst, at).tokens <= b.tokens + (IF at > b.at THEN at - b.at ELSE 0)
  BY DEF Refill

\* A client's account once its bucket's time is `at`.
Later(s, at) ==
    [grants |-> s.grants, at |-> at,
     rewound |-> s.rewound + (IF at < s.at THEN s.at - at ELSE 0)]

\* A client's account after the counting of a request that read `at`.
Moved(clients, after, s, c, at) ==
    IF c \in DOMAIN after THEN Later(s, after[c].at)
    ELSE IF c \in DOMAIN clients THEN Later(s, at) ELSE s

\* What a time gone back takes away it counts as given back.
LEMMA LaterType ==
    ASSUME NEW s \in [grants : Nat, at : Nat, rewound : Nat], NEW at \in Nat
    PROVE  /\ Later(s, at) \in [grants : Nat, at : Nat, rewound : Nat]
           /\ Later(s, at).grants = s.grants /\ Later(s, at).at = at
           /\ s.at + s.rewound + (IF at > s.at THEN at - s.at ELSE 0)
                = at + Later(s, at).rewound
           /\ at = s.at => Later(s, at) = s
  BY DEF Later

\* A refill keeps a client's account, and one that fills the bucket
\* leaves nothing of its burst spent.
LEMMA RefilledAccount ==
    ASSUME NEW clients, NEW burst \in Nat, NEW c \in DOMAIN clients, NEW s, NEW at \in Nat,
           clients[c] \in [tokens : Nat, at : Nat], AccountOK(clients, burst, c, s)
    PROVE  LET t == Refill(clients[c], burst, at)
           IN  /\ s.grants + t.tokens <= burst + at + Later(s, at).rewound
               /\ t.tokens >= burst => s.grants <= at + Later(s, at).rewound
<1> DEFINE b == clients[c]
           t == Refill(b, burst, at)
           gain == IF at > s.at THEN at - s.at ELSE 0
<1>1. /\ s \in [grants : Nat, at : Nat, rewound : Nat]
      /\ b.at = s.at /\ s.grants + b.tokens <= burst + s.at + s.rewound
  BY DEF AccountOK
<1>2. /\ t \in [tokens : Nat, at : Nat] /\ t.tokens <= b.tokens + gain
  BY <1>1, Refilled
<1>3. Later(s, at) \in [grants : Nat, at : Nat, rewound : Nat]
      /\ s.at + s.rewound + gain = at + Later(s, at).rewound
  BY <1>1, LaterType
<1> QED BY <1>1, <1>2, <1>3 DEF b, t, gain

\* Making room and adding a client leaves no more buckets than the limit
\* (Limiter::take's sweep).
LEMMA TrackedBuckets ==
    ASSUME NEW clients, BucketsOK(clients), NEW burst \in Nat, NEW at \in Nat, NEW who
    PROVE  BucketsOK(Tracking(clients, burst, who, at))
<1> DEFINE room == IF Cardinality(DOMAIN clients) < MAX_BUCKETS THEN clients
                   ELSE Swept(clients, burst, at)
           joined == [c \in DOMAIN room \cup {who} |->
                        IF c = who THEN FullBucket(burst, at) ELSE room[c]]
           after == Tracking(clients, burst, who, at)
<1>1. /\ DOMAIN room \subseteq DOMAIN clients
      /\ \A c \in DOMAIN room : room[c] \in [tokens : Nat, at : Nat]
  BY Refilled DEF Swept, BucketsOK
<1>2. FullBucket(burst, at) \in [tokens : Nat, at : Nat]
  BY DEF FullBucket
<1>3. \/ after = clients
      \/ after = room
      \/ after = joined /\ who \notin DOMAIN clients /\ Cardinality(DOMAIN room) < MAX_BUCKETS
  BY DEF Tracking
<1> HIDE DEF room, after
<1>4. IsFiniteSet(DOMAIN room) /\ Cardinality(DOMAIN room) <= MAX_BUCKETS
      /\ Cardinality(DOMAIN room) \in Nat
  BY <1>1, FS_Subset, FS_CardinalityType, LimitsAssumption DEF BucketsOK
<1>5. CASE after = joined /\ who \notin DOMAIN clients /\ Cardinality(DOMAIN room) < MAX_BUCKETS
  <2>1. DOMAIN after = DOMAIN room \cup {who} /\ who \notin DOMAIN room
    BY <1>1, <1>5
  <2>2. IsFiniteSet(DOMAIN after) /\ Cardinality(DOMAIN after) = Cardinality(DOMAIN room) + 1
    BY <1>4, <2>1, FS_AddElement
  <2>3. \A c \in DOMAIN after : after[c] \in [tokens : Nat, at : Nat]
    BY <1>1, <1>2, <1>5
  <2>4. Cardinality(DOMAIN after) <= MAX_BUCKETS
    BY <1>4, <1>5, <2>2, LimitsAssumption
  <2> QED BY <2>2, <2>3, <2>4 DEF BucketsOK, after
<1> QED BY <1>1, <1>3, <1>4, <1>5 DEF BucketsOK, after

\* It keeps every account: a bucket that is swept was full, and the full
\* one a client gets holds no more than a swept one did.
LEMMA TrackedAccount ==
    ASSUME NEW clients, BucketsOK(clients), NEW burst \in Nat, NEW at \in Nat, NEW who,
           NEW c, NEW s, AccountOK(clients, burst, c, s)
    PROVE  LET after == Tracking(clients, burst, who, at)
               m == Moved(clients, after, s, c, at)
           IN  /\ AccountOK(after, burst, c, m)
               /\ m.at \in {s.at, at} /\ m.grants = s.grants
               /\ c = who => Later(m, at) = Later(s, at)
<1> DEFINE after == Tracking(clients, burst, who, at)
           m == Moved(clients, after, s, c, at)
           swept == Swept(clients, burst, at)
           joined(room) == [x \in DOMAIN room \cup {who} |->
                              IF x = who THEN FullBucket(burst, at) ELSE room[x]]
           Good == /\ AccountOK(after, burst, c, m)
                   /\ m.at \in {s.at, at} /\ m.grants = s.grants
                   /\ c = who => Later(m, at) = Later(s, at)
<1> SUFFICES Good
  OBVIOUS
<1>s. s \in [grants : Nat, at : Nat, rewound : Nat]
  BY DEF AccountOK
<1>l. /\ Later(s, at) \in [grants : Nat, at : Nat, rewound : Nat]
      /\ Later(s, at).grants = s.grants /\ Later(s, at).at = at
      /\ s.at + s.rewound <= at + Later(s, at).rewound
      /\ Later(s, s.at) = s
      /\ Later(Later(s, at), at) = Later(s, at)
  <2> DEFINE t == Later(s, at)
  <2>1. /\ t \in [grants : Nat, at : Nat, rewound : Nat] /\ t.grants = s.grants /\ t.at = at
        /\ s.at + s.rewound + (IF at > s.at THEN at - s.at ELSE 0) = at + t.rewound
    BY <1>s, LaterType
  <2>2. Later(s, s.at) = s
    BY <1>s, LaterType
  <2> HIDE DEF t
  <2>3. Later(t, at) = t
    BY <2>1, LaterType
  <2>4. s.at + s.rewound <= at + t.rewound
    BY <1>s, <2>1
  <2> QED BY <2>1, <2>2, <2>3, <2>4 DEF t
<1>1. \/ after = clients
      \/ after = joined(clients) /\ who \notin DOMAIN clients
      \/ after = swept /\ who \notin DOMAIN clients
      \/ after = joined(swept) /\ who \notin DOMAIN clients
  BY DEF Tracking
<1> HIDE DEF after
<1>same. ASSUME c \in DOMAIN clients => c \in DOMAIN after /\ after[c] = clients[c],
                c \notin DOMAIN clients => c \notin DOMAIN after
         PROVE  Good
  <2>1. m = s
    BY <1>same, <1>l DEF Moved, AccountOK
  <2> QED BY <1>same, <1>s, <2>1 DEF AccountOK
<1>new. ASSUME c = who, c \notin DOMAIN clients, c \in DOMAIN after,
               after[c] = FullBucket(burst, at)
        PROVE  Good
  <2>1. m = Later(s, at) /\ after[c].at = at /\ after[c].tokens = burst
    BY <1>new DEF Moved, FullBucket
  <2>2. s.grants <= s.at + s.rewound
    BY <1>new DEF AccountOK
  <2>3. s.grants + burst <= burst + at + Later(s, at).rewound
    BY <1>s, <1>l, <2>2
  <2> QED BY <1>new, <1>l, <2>1, <2>3 DEF AccountOK
<1>kept. ASSUME c # who, c \in DOMAIN clients, c \in DOMAIN after,
                after[c] = Refill(clients[c], burst, at)
         PROVE  Good
  <2>1. clients[c] \in [tokens : Nat, at : Nat]
    BY <1>kept DEF BucketsOK
  <2>2. after[c].at = at
        /\ s.grants + after[c].tokens <= burst + at + Later(s, at).rewound
    <3>1. Refill(clients[c], burst, at).at = at
      BY <2>1, Refilled
    <3>2. s.grants + Refill(clients[c], burst, at).tokens <= burst + at + Later(s, at).rewound
      BY <1>kept, <2>1, RefilledAccount
    <3> HIDE DEF after
    <3> QED BY <1>kept, <3>1, <3>2
  <2>3. m = Later(s, at)
    BY <1>kept, <2>2 DEF Moved
  <2> QED BY <1>kept, <1>l, <2>2, <2>3 DEF AccountOK
<1>gone. ASSUME c # who, c \in DOMAIN clients, c \notin DOMAIN after,
                ~(Refill(clients[c], burst, at).tokens < burst)
         PROVE  Good
  <2>1. clients[c] \in [tokens : Nat, at : Nat]
    BY <1>gone DEF BucketsOK
  <2>2. Refill(clients[c], burst, at).tokens >= burst
    BY <1>gone, <2>1, Refilled
  <2>3. s.grants <= at + Later(s, at).rewound
    BY <1>gone, <2>1, <2>2, RefilledAccount
  <2>4. m = Later(s, at)
    BY <1>gone DEF Moved
  <2> QED BY <1>gone, <1>l, <2>3, <2>4 DEF AccountOK
<1> HIDE DEF Good, m
<1>2. CASE after = clients
  BY <1>2, <1>same
<1>3. CASE after = joined(clients) /\ who \notin DOMAIN clients
  <2>1. DOMAIN after = DOMAIN clients \cup {who}
        /\ \A x \in DOMAIN after : after[x] = IF x = who THEN FullBucket(burst, at) ELSE clients[x]
    BY <1>3
  <2>2. CASE c = who
    BY <1>3, <1>new, <2>1, <2>2
  <2>3. CASE c # who
    BY <1>3, <1>same, <2>1, <2>3
  <2> QED BY <2>2, <2>3
<1>4. CASE after \in {swept, joined(swept)} /\ who \notin DOMAIN clients
  <2>1. /\ DOMAIN swept = {x \in DOMAIN clients : Refill(clients[x], burst, at).tokens < burst}
        /\ \A x \in DOMAIN swept : swept[x] = Refill(clients[x], burst, at)
    BY DEF Swept
  <2> HIDE DEF swept
  <2>2. /\ \A x : x # who => (x \in DOMAIN after <=> x \in DOMAIN swept)
        /\ \A x \in DOMAIN swept : x # who => after[x] = swept[x]
        /\ who \in DOMAIN after => after[who] = FullBucket(burst, at)
    BY <1>4, <2>1
  <2>3. CASE c = who /\ c \in DOMAIN after
    BY <1>4, <1>new, <2>2, <2>3
  <2>4. CASE c \notin DOMAIN clients /\ c \notin DOMAIN after
    BY <1>same, <2>4
  <2>5. CASE c \in DOMAIN swept /\ c # who
    BY <1>kept, <2>1, <2>2, <2>5
  <2>6. CASE c \in DOMAIN clients /\ c \notin DOMAIN swept /\ c # who
    BY <1>gone, <2>1, <2>2, <2>6
  <2> QED BY <1>4, <2>1, <2>2, <2>3, <2>4, <2>5, <2>6
<1> HIDE DEF swept, joined
<1> QED BY <1>1, <1>2, <1>3, <1>4

\* Taking a token leaves the buckets that were tracked.
LEMMA TakenBuckets ==
    ASSUME NEW l, DOMAIN l = {"clients", "anonymous"}, l.anonymous \in [tokens : Nat, at : Nat],
           BucketsOK(l.clients), NEW clients, BucketsOK(clients),
           NEW burst \in Nat, NEW at \in Nat, NEW who
    PROVE  LET took == Take(l, clients, burst, who, at)
           IN  /\ DOMAIN took.limiter = {"clients", "anonymous"}
               /\ took.limiter.anonymous \in [tokens : Nat, at : Nat]
               /\ BucketsOK(took.limiter.clients)
<1> DEFINE own == who \in DOMAIN clients
           from == IF own THEN clients[who] ELSE l.anonymous
           b == Refill(from, burst, at)
           left == IF b.tokens >= 1 THEN [b EXCEPT !.tokens = @ - 1] ELSE b
           took == Take(l, clients, burst, who, at)
<1>1. from \in [tokens : Nat, at : Nat]
  BY DEF BucketsOK
<1>2. b \in [tokens : Nat, at : Nat]
  <2> HIDE DEF from
  <2> QED BY <1>1, Refilled
<1>3. left \in [tokens : Nat, at : Nat]
  <2> HIDE DEF b
  <2> QED BY <1>2
<1>4. took.limiter = IF burst = 0 THEN l
                     ELSE IF own THEN [l EXCEPT !.clients = [clients EXCEPT ![who] = left]]
                     ELSE [l EXCEPT !.clients = clients, !.anonymous = left]
  BY DEF Take
<1> HIDE DEF left, took
<1>5. CASE burst = 0
  BY <1>4, <1>5 DEF took
<1>6. CASE burst # 0 /\ own
  <2>1. /\ DOMAIN took.limiter = {"clients", "anonymous"}
        /\ took.limiter.anonymous = l.anonymous
        /\ took.limiter.clients = [clients EXCEPT ![who] = left]
    BY <1>4, <1>6
  <2>2. BucketsOK([clients EXCEPT ![who] = left])
    BY <1>3 DEF BucketsOK
  <2> QED BY <2>1, <2>2 DEF took
<1>7. CASE burst # 0 /\ ~own
  <2>1. /\ DOMAIN took.limiter = {"clients", "anonymous"}
        /\ took.limiter.anonymous = left /\ took.limiter.clients = clients
    BY <1>4, <1>7
  <2> QED BY <1>3, <2>1 DEF took
<1> QED BY <1>5, <1>6, <1>7

\* Limiter::take keeps every account: a grant is a token of the
\* bucket's.
LEMMA TakenAccount ==
    ASSUME NEW l, DOMAIN l = {"clients", "anonymous"}, BucketsOK(l.clients),
           NEW burst \in Nat, NEW at \in Nat, NEW who,
           NEW c, NEW s, AccountOK(l.clients, burst, c, s)
    PROVE  LET took == Take(l, Tracking(l.clients, burst, who, at), burst, who, at)
               m == Moved(l.clients, took.limiter.clients, s, c, at)
               e == [m EXCEPT !.grants = @ + (IF c = who /\ took.own /\ took.allowed THEN 1 ELSE 0)]
           IN  AccountOK(took.limiter.clients, burst, c, e) /\ e.at \in {s.at, at}
<1> DEFINE clients == Tracking(l.clients, burst, who, at)
           took == Take(l, clients, burst, who, at)
           m == Moved(l.clients, took.limiter.clients, s, c, at)
           e == [m EXCEPT !.grants = @ + (IF c = who /\ took.own /\ took.allowed THEN 1 ELSE 0)]
           n == Moved(l.clients, clients, s, c, at)
           Good == AccountOK(took.limiter.clients, burst, c, e) /\ e.at \in {s.at, at}
<1> SUFFICES Good
  OBVIOUS
<1>s. s \in [grants : Nat, at : Nat, rewound : Nat]
  BY DEF AccountOK
<1>n. /\ AccountOK(clients, burst, c, n)
      /\ n.at \in {s.at, at} /\ n.grants = s.grants
      /\ c = who => Later(n, at) = Later(s, at)
  BY TrackedAccount
<1>b. BucketsOK(clients)
  BY TrackedBuckets
<1> DEFINE b == Refill(clients[who], burst, at)
           left == IF b.tokens >= 1 THEN [b EXCEPT !.tokens = @ - 1] ELSE b
<1> HIDE DEF clients
<1>1. CASE burst = 0
  <2>1. took.limiter = l /\ took.own = FALSE
    BY <1>1 DEF Take
  <2> HIDE DEF took
  <2>2. m = s
    BY <1>s, <2>1, LaterType DEF Moved, AccountOK
  <2>3. e = s
    BY <1>s, <2>1, <2>2
  <2> QED BY <2>1, <2>3
<1>2. CASE burst # 0 /\ who \notin DOMAIN clients
  <2>1. took.limiter.clients = clients /\ ~took.own
    <3> DEFINE f == Refill(l.anonymous, burst, at)
               x == IF f.tokens >= 1 THEN [f EXCEPT !.tokens = @ - 1] ELSE f
    <3>1. ~took.own
      BY <1>2 DEF Take
    <3>2. took.limiter = [l EXCEPT !.clients = clients, !.anonymous = x]
      BY <1>2 DEF Take
    <3> HIDE DEF took, x
    <3> QED BY <3>1, <3>2
  <2> HIDE DEF took
  <2>2. m = n
    BY <2>1
  <2> HIDE DEF m, n
  <2>3. e = n
    BY <1>n, <2>1, <2>2 DEF AccountOK
  <2> QED BY <1>n, <2>1, <2>3
<1>3. CASE burst # 0 /\ who \in DOMAIN clients
  <2>1. /\ took.limiter.clients = [clients EXCEPT ![who] = left]
        /\ took.own = TRUE /\ (took.allowed <=> b.tokens >= 1)
    BY <1>3 DEF Take
  <2> HIDE DEF took, left
  <2>2. CASE c # who
    <3>1. (c \in DOMAIN took.limiter.clients <=> c \in DOMAIN clients)
          /\ (c \in DOMAIN clients => took.limiter.clients[c] = clients[c])
      BY <2>1, <2>2
    <3>2. m = n
      BY <3>1 DEF Moved
    <3> HIDE DEF m, n
    <3>3. e = n
      BY <1>n, <2>2, <3>2 DEF AccountOK
    <3> HIDE DEF e
    <3> QED BY <1>n, <3>1, <3>3 DEF AccountOK
  <2>3. CASE c = who
    <3>a. clients[who] \in [tokens : Nat, at : Nat]
      BY <1>3, <1>b DEF BucketsOK
    <3>b. b \in [tokens : Nat, at : Nat] /\ b.at = at
      BY <3>a, Refilled
    <3>c. left = IF b.tokens >= 1 THEN [b EXCEPT !.tokens = @ - 1] ELSE b
      BY DEF left
    <3>d. s.grants + b.tokens <= burst + at + Later(s, at).rewound
      <4>1. n.grants + b.tokens <= burst + at + Later(n, at).rewound
        BY <1>3, <1>n, <2>3, <3>a, RefilledAccount
      <4> QED BY <1>n, <2>3, <4>1
    <3> HIDE DEF b
    <3>1. left.at = at /\ left.tokens = IF b.tokens >= 1 THEN b.tokens - 1 ELSE b.tokens
      BY <3>b, <3>c
    <3>2. c \in DOMAIN took.limiter.clients /\ took.limiter.clients[c] = left
      BY <1>3, <2>1, <2>3
    <3>3. m = Later(s, at)
      BY <3>1, <3>2 DEF Moved
    <3>4. /\ Later(s, at) \in [grants : Nat, at : Nat, rewound : Nat]
          /\ Later(s, at).grants = s.grants /\ Later(s, at).at = at
      BY <1>s, LaterType
    <3> HIDE DEF m
    <3>5. e = [Later(s, at) EXCEPT !.grants = @ + (IF b.tokens >= 1 THEN 1 ELSE 0)]
      BY <2>1, <2>3, <3>3
    <3>6. /\ e \in [grants : Nat, at : Nat, rewound : Nat]
          /\ e.grants = s.grants + (IF b.tokens >= 1 THEN 1 ELSE 0)
          /\ e.at = at /\ e.rewound = Later(s, at).rewound
      BY <3>4, <3>5
    <3> HIDE DEF e
    <3>7. e.grants + left.tokens = s.grants + b.tokens
      BY <1>s, <3>b, <3>1, <3>6
    <3> QED BY <3>d, <3>1, <3>2, <3>6, <3>7 DEF AccountOK
  <2> QED BY <2>2, <2>3
<1> QED BY <1>1, <1>2, <1>3

-----------------------------------------------------------------------------
\* Counting a request keeps the part of the invariant that is about the
\* limiter.
LEMMA AdmitCounts ==
    ASSUME LimitsInv, NEW r \in Requests, Admit(r)
    PROVE  /\ DOMAIN limiter' = {"clients", "anonymous"}
           /\ limiter'.anonymous \in [tokens : Nat, at : Nat]
           /\ BucketsOK(limiter'.clients)
           /\ \A c \in DOMAIN spent' : /\ spent'[c].at <= clock
                                       /\ AccountOK(limiter'.clients, flow.burst, c, spent'[c])
<1> DEFINE who == requests[r].client
           at == requests[r].at
           burst == flow.burst
           took == Take(limiter, Tracking(limiter.clients, burst, who, at), burst, who, at)
<1>1. /\ limiter' = took.limiter /\ spent' = Spending(who, took, at) /\ At(r, "sent")
  BY DEF Admit
<1>2. Sent(r) /\ requests[r] \in RequestType
  <2>1. Sent(r)
    BY <1>1, SentShape DEF LimitsInv, AccessInv, At
  <2> QED BY <2>1, SentShape DEF LimitsInv, AccessInv
<1>3. at \in Nat /\ at <= clock /\ burst \in Nat
  BY <1>2, FlowsAssumption DEF LimitsInv, AccessInv, Shape, RequestType
<1>4. /\ DOMAIN took.limiter = {"clients", "anonymous"}
      /\ took.limiter.anonymous \in [tokens : Nat, at : Nat]
      /\ BucketsOK(took.limiter.clients)
  <2> HIDE DEF who, at, burst
  <2> QED BY <1>3, TrackedBuckets, TakenBuckets DEF LimitsInv
<1>5. ASSUME NEW c \in DOMAIN spent
      PROVE  /\ spent'[c].at <= clock
             /\ AccountOK(took.limiter.clients, burst, c, spent'[c])
  <2> DEFINE s == spent[c]
             m == Moved(limiter.clients, took.limiter.clients, s, c, at)
             e == [m EXCEPT !.grants = @ + (IF c = who /\ took.own /\ took.allowed THEN 1 ELSE 0)]
  <2>1. AccountOK(limiter.clients, burst, c, s) /\ s.at <= clock
    BY DEF LimitsInv
  <2>2. s \in [grants : Nat, at : Nat, rewound : Nat]
    BY <2>1 DEF AccountOK
  <2>3. AccountOK(took.limiter.clients, burst, c, e) /\ e.at \in {s.at, at}
    <3> HIDE DEF who, at, burst, s
    <3> QED BY <1>3, <2>1, TakenAccount DEF LimitsInv
  <2>4. spent'[c] = e
    <3> HIDE DEF took, who, at
    <3>1. spent'[c] = Spending(who, took, at)[c]
      BY <1>1
    <3>2. CASE c \in DOMAIN took.limiter.clients
      BY <2>2, <3>1, <3>2 DEF Spending, Moved, Later
    <3>3. CASE c \notin DOMAIN took.limiter.clients /\ c \in DOMAIN limiter.clients
      BY <2>2, <3>1, <3>3 DEF Spending, Moved, Later
    <3>4. CASE c \notin DOMAIN took.limiter.clients /\ c \notin DOMAIN limiter.clients
      BY <2>2, <3>1, <3>4 DEF Spending, Moved, Later
    <3> QED BY <3>2, <3>3, <3>4
  <2> HIDE DEF e
  <2> QED BY <1>3, <2>1, <2>3, <2>4
<1>6. DOMAIN spent' = DOMAIN spent
  BY <1>1 DEF Spending
<1> HIDE DEF took
<1> QED BY <1>1, <1>4, <1>5, <1>6

\* A new limiter has granted nothing.
LEMMA LimitsStart == Init => LimitsInv
<1> SUFFICES ASSUME Init PROVE LimitsInv
  OBVIOUS
<1>1. AccessInv /\ \A r \in Requests : ~Sent(r)
  BY StartsRight DEF Init, Sent
<1>2. flow.burst \in Nat
  BY FlowsAssumption DEF Init
<1>3. /\ DOMAIN limiter = {"clients", "anonymous"} /\ DOMAIN limiter.clients = {}
      /\ limiter.anonymous \in [tokens : Nat, at : Nat]
  BY <1>2 DEF Init, NewLimiter, FullBucket
<1>4. BucketsOK(limiter.clients)
  BY <1>3, FS_EmptySet, LimitsAssumption DEF BucketsOK
<1>5. \A c \in DOMAIN spent : /\ spent[c] = [grants |-> 0, at |-> 0, rewound |-> 0]
                              /\ clock = 0
  BY DEF Init
<1>6. \A c \in DOMAIN spent : spent[c].at <= clock /\ AccountOK(limiter.clients, flow.burst, c, spent[c])
  BY <1>3, <1>5 DEF AccountOK
<1> QED BY <1>1, <1>3, <1>4, <1>6 DEF LimitsInv

\* A step that counts no request keeps it.
LEMMA NothingCounted ==
    ASSUME LimitsInv, AccessInv', UNCHANGED <<limiter, spent, flow>>,
           clock' \in Nat, clock <= clock',
           \A r \in Requests : Sent(r)' => requests'[r].at <= clock'
    PROVE  LimitsInv'
<1>1. \A c \in DOMAIN spent : spent[c].at \in Nat /\ clock \in Nat
  BY DEF LimitsInv, AccountOK, AccessInv, Shape
<1> QED BY <1>1 DEF LimitsInv

\* A request that changes keeps the time it read.
LEMMA TimesStay ==
    ASSUME LimitsInv, NEW q \in Requests, UNCHANGED clock,
           \A r \in Requests : r # q => requests'[r] = requests[r],
           requests'[q].at <= clock
    PROVE  \A r \in Requests : Sent(r)' => requests'[r].at <= clock'
  BY DEF LimitsInv, Sent

\* Every step keeps the inductive invariant.
LEMMA LimitsStep == LimitsInv /\ [Next]_vars => LimitsInv'
<1> SUFFICES ASSUME LimitsInv, [Next]_vars PROVE LimitsInv'
  OBVIOUS
<1>1. AccessInv'
  BY StepsRight DEF LimitsInv
<1>2. Shape /\ clock \in Nat
  BY DEF LimitsInv, AccessInv, Shape
<1>3. ASSUME NEW q \in Requests, UNCHANGED <<limiter, spent, flow, clock>>,
             \A r \in Requests : r # q => requests'[r] = requests[r],
             requests'[q].at <= clock
      PROVE  LimitsInv'
  BY <1>1, <1>2, <1>3, TimesStay, NothingCounted
<1>at. \A r \in Requests : Sent(r) => requests[r].at <= clock /\ requests[r] \in RequestType
  BY <1>2, SentShape DEF LimitsInv
<1>4. ASSUME NEW q \in Requests, Sent(q), NEW how, Ends(q, how)
      PROVE  (\A r \in Requests : r # q => requests'[r] = requests[r]) /\ requests'[q].at <= clock
  BY <1>2, <1>4, <1>at DEF Ends, Shape, RequestType
<1>sent. \A r \in Requests, stage \in Stages : At(r, stage) => Sent(r)
  BY <1>2, SentShape DEF At, Stages
<1>5. CASE \E r \in Requests : Send(r)
  <2>1. PICK r \in Requests : Send(r)
    BY <1>5
  <2>2. requests'[r].at <= clock /\ (\A x \in Requests : x # r => requests'[x] = requests[x])
    BY <1>2, <2>1 DEF Send, Shape
  <2>3. UNCHANGED <<limiter, spent, flow, clock>>
    BY <2>1 DEF Send
  <2> QED BY <1>3, <2>2, <2>3
<1>6. ASSUME NEW q \in Requests, Admit(q)
      PROVE  LimitsInv'
  <2>1. Sent(q)
    BY <1>6, <1>sent DEF Admit, Stages
  <2>2. requests'[q].at <= clock /\ (\A x \in Requests : x # q => requests'[x] = requests[x])
    <3>1. CASE Ends(q, "ended")
      BY <1>4, <2>1, <3>1
    <3>2. CASE requests' = [requests EXCEPT ![q].stage = "admitted"]
      BY <1>2, <1>at, <2>1, <3>2 DEF Shape, RequestType
    <3> QED BY <1>6, <3>1, <3>2 DEF Admit
  <2>3. \A r \in Requests : Sent(r)' => requests'[r].at <= clock'
    BY <1>6, <2>2, TimesStay DEF Admit
  <2>4. UNCHANGED <<flow, clock>>
    BY <1>6 DEF Admit
  <2> QED BY <1>1, <1>6, <2>3, <2>4, AdmitCounts DEF LimitsInv
<1>7. ASSUME NEW q \in Requests, Authorise(q) \/ Post(q) \/ Receive(q) \/ Disconnect(q)
      PROVE  LimitsInv'
  <2>1. Sent(q) /\ UNCHANGED <<limiter, spent, flow, clock>>
    BY <1>7, <1>sent DEF Authorise, Post, Receive, Disconnect, Holding, At, Stages
  <2>2. \/ Ends(q, "ended") \/ Ends(q, "gone")
        \/ \E p : requests' = [requests EXCEPT ![q].stage = "authorised", ![q].principal = p]
        \/ \E p : requests' = [requests EXCEPT ![q].stage = "posted", ![q].new_key = p]
    BY <1>7 DEF Authorise, Post, Receive, Disconnect
  <2>3. requests'[q].at <= clock /\ (\A x \in Requests : x # q => requests'[x] = requests[x])
    <3>1. CASE Ends(q, "ended") \/ Ends(q, "gone")
      BY <1>4, <2>1, <3>1
    <3>2. CASE \/ \E p : requests' = [requests EXCEPT ![q].stage = "authorised", ![q].principal = p]
               \/ \E p : requests' = [requests EXCEPT ![q].stage = "posted", ![q].new_key = p]
      BY <1>2, <1>at, <2>1, <3>2 DEF Shape, RequestType
    <3> QED BY <2>2, <3>1, <3>2
  <2> QED BY <1>3, <2>1, <2>3
<1>8. CASE Run
  <2> DEFINE q == Head(mailbox)
  <2>1. q \in Jobs /\ q \in Requests /\ RunJob(q)
    BY <1>2, <1>8, TailOfQueue DEF Run, Shape, Jobs
  <2>2. Sent(q)
    BY <1>2, <2>1 DEF Shape
  <2> HIDE DEF q
  <2>3. PICK a : requests' = [requests EXCEPT ![q].stage = IF @ = "posted" THEN "answered" ELSE @,
                                              ![q].answer = a]
    BY <2>1 DEF RunJob
  <2>4. requests'[q].at <= clock /\ (\A x \in Requests : x # q => requests'[x] = requests[x])
    BY <1>2, <1>at, <2>1, <2>2, <2>3 DEF Shape, RequestType
  <2>5. UNCHANGED <<limiter, spent, flow, clock>>
    BY <2>1 DEF RunJob
  <2> QED BY <1>3, <2>1, <2>4, <2>5
<1>9. CASE Tick \/ UNCHANGED vars
  <2>1. /\ clock' \in Nat /\ clock <= clock'
        /\ UNCHANGED <<requests, limiter, spent, flow>>
    BY <1>2, <1>9 DEF Tick, vars
  <2>2. \A r \in Requests : Sent(r)' => requests'[r].at <= clock'
    <3> SUFFICES ASSUME NEW r \in Requests, Sent(r)'
                 PROVE  requests'[r].at <= clock'
      OBVIOUS
    <3>1. requests'[r] = requests[r] /\ Sent(r)
      BY <2>1 DEF Sent
    <3>2. requests[r].at <= clock /\ requests[r].at \in Nat
      BY <1>at, <3>1 DEF RequestType
    <3> QED BY <1>2, <2>1, <3>1, <3>2
  <2> QED BY <1>1, <2>1, <2>2, NothingCounted
<1> QED BY <1>5, <1>6, <1>7, <1>8, <1>9 DEF Next, Serve

\* It holds in every reachable state.
THEOREM LimitsInvariant == Spec => []LimitsInv
<1>1. Init => LimitsInv
  BY LimitsStart
<1>2. LimitsInv /\ [Next]_vars => LimitsInv'
  BY LimitsStep
<1> QED BY <1>1, <1>2, PTL DEF Spec

\* No client is granted more than its burst and what time has earned,
\* but for the times that went back: sweeping, at whatever limit of
\* buckets, hands nothing out.
THEOREM NothingIsFree == Spec => []NoFreeRequests
<1>1. LimitsInv => NoFreeRequests
  <2> SUFFICES ASSUME LimitsInv, NEW c \in DOMAIN spent
               PROVE  spent[c].grants <= flow.burst + clock + spent[c].rewound
    BY DEF NoFreeRequests
  <2> DEFINE s == spent[c]
  <2>1. /\ s \in [grants : Nat, at : Nat, rewound : Nat] /\ s.at <= clock
        /\ AccountOK(limiter.clients, flow.burst, c, s)
    BY DEF LimitsInv, AccountOK
  <2>2. flow.burst \in Nat /\ clock \in Nat
    BY FlowsAssumption DEF LimitsInv, AccessInv, Shape
  <2> HIDE DEF s
  <2>3. CASE c \in DOMAIN limiter.clients
    <3>1. limiter.clients[c].tokens \in Nat
      BY <2>3 DEF LimitsInv, BucketsOK
    <3>2. s.grants + limiter.clients[c].tokens <= flow.burst + s.at + s.rewound
      BY <2>1, <2>3 DEF AccountOK
    <3>3. s.grants <= flow.burst + clock + s.rewound
      BY <2>1, <2>2, <3>1, <3>2
    <3> QED BY <3>3 DEF s
  <2>4. CASE c \notin DOMAIN limiter.clients
    <3>1. s.grants <= s.at + s.rewound
      BY <2>1, <2>4 DEF AccountOK
    <3>2. s.grants <= flow.burst + clock + s.rewound
      BY <2>1, <2>2, <3>1
    <3> QED BY <3>2 DEF s
  <2> QED BY <2>3, <2>4
<1> QED BY <1>1, LimitsInvariant, PTL

\* The types, the count of places and the limit of buckets, in every
\* reachable state.
THEOREM AccessTypes == Spec => []TypeOK
<1>1. LimitsInv => TypeOK
  <2> SUFFICES ASSUME LimitsInv PROVE TypeOK
    OBVIOUS
  <2>1. \A r \in Requests :
         /\ requests[r].stage \in {"unsent", "sent", "admitted", "authorised", "posted",
                                   "answered", "ended", "gone"}
         /\ ~At(r, "unsent") => requests[r].principal \in Principals
    <3> SUFFICES ASSUME NEW r \in Requests
                 PROVE  /\ requests[r].stage \in {"unsent", "sent", "admitted", "authorised",
                                                  "posted", "answered", "ended", "gone"}
                        /\ ~At(r, "unsent") => requests[r].principal \in Principals
      OBVIOUS
    <3>1. CASE Sent(r)
      BY <3>1, SentShape DEF LimitsInv, AccessInv, RequestType, Stages
    <3>2. CASE ~Sent(r)
      BY <3>2 DEF Sent, Unsent, At
    <3> QED BY <3>1, <3>2
  <2>2. places = MAX_INFLIGHT - Cardinality({r \in Requests : Placed(r)}) /\ places >= 0
    BY DEF LimitsInv, AccessInv, PlacesOK
  <2> QED BY <2>1, <2>2 DEF LimitsInv, AccessInv, Shape, DirectoryOK, BucketsOK, TypeOK
<1> QED BY <1>1, LimitsInvariant, PTL
=============================================================================
