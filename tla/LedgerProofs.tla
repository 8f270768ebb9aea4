---------------------------- MODULE LedgerProofs ----------------------------
(***************************************************************************)
(* Theorems of Ledger.tla, for every cap, width, set of amounts and bound. *)
(*                                                                         *)
(* The inductive invariant is the conjunction of type correctness, the     *)
(* fact that exactly wallet 1 is an issuance wallet, and the two wallet    *)
(* invariants.  Each action is shown to preserve each conjunct; the mirror *)
(* of the supply, conservation and the action properties follow from it.   *)
(***************************************************************************)
EXTENDS Ledger, Sums

\* Wallet 1 is the issuance wallet, and no other is: the supply counters of
\* `post` read the issuance side of a draft off that wallet alone.
OneIssuance ==
    /\ Issuance \in DOMAIN wallets
    /\ \A w \in DOMAIN wallets : wallets[w].kind = "Issuance" <=> w = Issuance

IInv == TypeOK /\ OneIssuance /\ ReservationsBacked /\ ClosedIsEmpty

-----------------------------------------------------------------------------
\* Mint and Burn (ledger.rs 1068-1103) are postings: what `Move` builds is a
\* net effect on wallet ids, with amounts in Int.
LEMMA MoveIsNet ==
    ASSUME NEW from, NEW to, NEW cents \in Int
    PROVE  \A w \in DOMAIN Move(from, to, cents) :
             Move(from, to, cents)[w] \in Int
  BY DEF Move

\* A net effect taken from Nets has amounts in Int.
LEMMA NetsAreInts ==
    ASSUME NEW net \in Nets
    PROVE  \A w \in DOMAIN net : net[w] \in Int
  BY LedgerAssumption DEF Nets

\* The flow meter never leaves the integers, whatever is recorded
\* (Flows::record, ledger.rs 592-599).
LEMMA RecordType ==
    ASSUME TypeOK, NEW reason \in Reason, NEW net
    PROVE  Record(reason, net) \in [Reason -> [count : Int, cents : Int]]
<1>1. Volume(net) \in Int
  <2> DEFINE v == SumFunctionOnSet(net, {w \in DOMAIN net : net[w] > 0})
  <2> HIDE DEF v
  <2>1. (IF v \in 0 .. MaxI64 THEN v ELSE MaxI64) \in Int
    BY LedgerAssumption
  <2> QED BY <2>1 DEF Volume, v
<1>2. \A n \in Int : Saturate(n) \in Int
  BY LedgerAssumption DEF Saturate
<1> DEFINE f == [count |-> Saturate(flows[reason].count + 1),
                 cents |-> Saturate(flows[reason].cents + Volume(net))]
<1>3. flows \in [Reason -> [count : Int, cents : Int]]
  BY DEF TypeOK
<1>4. f \in [count : Int, cents : Int]
  BY <1>1, <1>2, <1>3
<1>5. Record(reason, net) = [flows EXCEPT ![reason] = f]
  BY <1>3 DEF Record
<1> HIDE DEF f
<1> QED BY <1>3, <1>4, <1>5

-----------------------------------------------------------------------------
\* A posting preserves the inductive invariant whatever its net effect, as
\* long as `validate` accepted it: the debit check keeps a reservation under
\* the balance and the status checks keep a closed wallet empty.
LEMMA PostPreserves ==
    ASSUME IInv, NEW reason \in Reason, NEW net,
           \A w \in DOMAIN net : net[w] \in Int,
           Post(reason, net)
    PROVE  IInv'
<1> USE DEF IInv
<1>a. /\ next_wallet \in Int /\ next_wallet' = next_wallet
      /\ DOMAIN wallets = 1 .. next_wallet - 1
      /\ DOMAIN wallets' = DOMAIN wallets
      /\ \A w \in DOMAIN wallets : wallets[w] \in WalletType
  BY LedgerAssumption DEF TypeOK, Post
<1>b. \A w \in DOMAIN wallets :
        wallets'[w] = IF w \in DOMAIN net
                      THEN [wallets[w] EXCEPT !.balance = wallets[w].balance + net[w]]
                      ELSE wallets[w]
  BY DEF Post
<1>c. \A w \in DOMAIN wallets :
        /\ wallets'[w] \in WalletType
        /\ wallets'[w].kind = wallets[w].kind
        /\ wallets'[w].status = wallets[w].status
        /\ wallets'[w].reserved = wallets[w].reserved
        /\ w \notin DOMAIN net => wallets'[w].balance = wallets[w].balance
        /\ w \in DOMAIN net => wallets'[w].balance = wallets[w].balance + net[w]
  BY <1>a, <1>b DEF WalletType
<1>d. \A w \in DOMAIN net : MayMove(w, net[w], reason)
  BY DEF Post, Validate
<1>1. TypeOK'
  <2>1. wallets' \in [1 .. next_wallet' - 1 -> WalletType]
    <3>1. wallets' = [w \in DOMAIN wallets |-> wallets'[w]]
      BY DEF Post
    <3> QED BY <1>a, <1>c, <3>1
  <2>2. supply' \in [minted : Int, burned : Int]
    <3>1. Minted(reason, net) \in Int /\ Burned(reason, net) \in Int
      BY LedgerAssumption DEF Post
    <3>2. \A n \in Int : Wrap(n) \in Int
      BY LedgerAssumption DEF Wrap
    <3> QED BY <3>1, <3>2 DEF Post
  <2>3. flows' \in [Reason -> [count : Int, cents : Int]]
    BY RecordType DEF Post
  <2>4. next_tx' \in 1 .. MaxTx + 1
    <3>1. next_tx <= MaxTx /\ next_tx' = next_tx + 1
      BY DEF Post
    <3>2. next_tx \in 1 .. MaxTx + 1 /\ MaxTx \in Nat
      BY LedgerAssumption DEF TypeOK
    <3> QED BY <3>1, <3>2
  <2> QED BY <1>a, <2>1, <2>2, <2>3, <2>4 DEF TypeOK
<1>2. OneIssuance'
  BY <1>a, <1>c DEF OneIssuance
<1>3. ReservationsBacked'
  <2> SUFFICES ASSUME NEW w \in DOMAIN wallets
               PROVE  IF MayBeNegative(w)' THEN wallets'[w].reserved = 0
                      ELSE /\ 0 <= wallets'[w].reserved
                           /\ wallets'[w].reserved <= wallets'[w].balance
    BY <1>a DEF ReservationsBacked
  <2>1. MayBeNegative(w)' <=> MayBeNegative(w)
    BY <1>c DEF MayBeNegative
  <2>2. CASE MayBeNegative(w)
    BY <2>1, <2>2, <1>c DEF ReservationsBacked
  <2>3. CASE ~MayBeNegative(w) /\ w \notin DOMAIN net
    BY <2>1, <2>3, <1>c DEF ReservationsBacked
  <2>4. CASE ~MayBeNegative(w) /\ w \in DOMAIN net
    <3>1. MayMove(w, net[w], reason) /\ ~MayOwe(w, reason)
      BY <1>d, <2>4 DEF MayOwe
    <3>2. /\ wallets[w].balance \in Int /\ wallets[w].reserved \in Int
          /\ net[w] \in Int
      BY <1>a, <2>4 DEF WalletType
    <3>3. net[w] < 0 => wallets[w].balance + net[w] >= wallets[w].reserved
      BY <3>1 DEF MayMove
    <3>4. 0 <= wallets[w].reserved /\ wallets[w].reserved <= wallets[w].balance
      BY <2>4 DEF ReservationsBacked
    <3> QED BY <2>1, <2>4, <1>c, <3>2, <3>3, <3>4
  <2> QED BY <2>2, <2>3, <2>4
<1>4. ClosedIsEmpty'
  <2> SUFFICES ASSUME NEW w \in DOMAIN wallets, wallets'[w].status = "Closed"
               PROVE  wallets'[w].balance = 0 /\ wallets'[w].reserved = 0
    BY <1>a DEF ClosedIsEmpty
  <2>1. wallets[w].status = "Closed" /\ wallets[w].balance = 0
          /\ wallets[w].reserved = 0
    BY <1>c DEF ClosedIsEmpty
  <2>2. w \in DOMAIN net => net[w] = 0
    BY <2>1, <1>d DEF MayMove, CanDebit, CanCredit
  <2> QED BY <2>1, <2>2, <1>c
<1> QED BY <1>1, <1>2, <1>3, <1>4

\* Opening a wallet adds an empty, active one and touches no other.
LEMMA OpenPreserves ==
    ASSUME IInv, NEW kind \in UsedKinds, NEW c \in Currencies, OpenIn(kind, c)
    PROVE  IInv'
<1> USE DEF IInv
<1>a. /\ next_wallet \in Int /\ next_wallet >= 2 /\ next_wallet <= MaxWallets
      /\ MaxWallets \in Int
      /\ next_wallet' = next_wallet + 1
      /\ DOMAIN wallets = 1 .. next_wallet - 1
      /\ DOMAIN wallets' = 1 .. next_wallet
      /\ next_wallet \notin DOMAIN wallets
  BY LedgerAssumption DEF TypeOK, OpenIn
<1>b. NewWallet(kind, c) \in WalletType /\ kind # "Issuance"
  BY LedgerAssumption DEF NewWallet, WalletType, Kind, Status
<1>c. \A w \in DOMAIN wallets : w # next_wallet /\ wallets'[w] = wallets[w]
  BY <1>a DEF OpenIn
<1>d. wallets'[next_wallet] = NewWallet(kind, c)
  BY DEF OpenIn
<1>e. \A w \in DOMAIN wallets' : w \in DOMAIN wallets \/ w = next_wallet
  BY <1>a
<1>1. TypeOK'
  <2>1. wallets' \in [1 .. next_wallet' - 1 -> WalletType]
    <3>1. \A w \in DOMAIN wallets' : wallets'[w] \in WalletType
      BY <1>b, <1>c, <1>d, <1>e DEF TypeOK
    <3>2. wallets' = [w \in DOMAIN wallets' |-> wallets'[w]]
      BY DEF OpenIn
    <3> QED BY <1>a, <3>1, <3>2
  <2> QED BY <1>a, <2>1 DEF TypeOK, OpenIn
<1>2. OneIssuance'
  BY <1>a, <1>b, <1>c, <1>d, <1>e DEF OneIssuance, NewWallet, Issuance
<1>3. ReservationsBacked'
  <2> SUFFICES ASSUME NEW w \in DOMAIN wallets'
               PROVE  IF MayBeNegative(w)' THEN wallets'[w].reserved = 0
                      ELSE /\ 0 <= wallets'[w].reserved
                           /\ wallets'[w].reserved <= wallets'[w].balance
    BY DEF ReservationsBacked
  <2>1. CASE w \in DOMAIN wallets
    BY <2>1, <1>c DEF ReservationsBacked, MayBeNegative
  <2>2. CASE w = next_wallet
    BY <2>2, <1>d DEF NewWallet
  <2> QED BY <2>1, <2>2, <1>e
<1>4. ClosedIsEmpty'
  BY <1>c, <1>d, <1>e DEF ClosedIsEmpty, NewWallet
<1> QED BY <1>1, <1>2, <1>3, <1>4

\* What the wallet operations other than opening have in common: one wallet
\* is replaced, its kind stays, and the new value is sound on its own.
LEMMA UpdatePreserves ==
    ASSUME IInv, NEW w \in DOMAIN wallets, NEW r \in WalletType,
           wallets' = [wallets EXCEPT ![w] = r],
           UNCHANGED <<supply, flows, next_wallet, next_tx>>,
           r.kind = wallets[w].kind,
           IF MayBeNegative(w) THEN r.reserved = 0
           ELSE 0 <= r.reserved /\ r.reserved <= r.balance,
           r.status = "Closed" => r.balance = 0 /\ r.reserved = 0
    PROVE  IInv'
<1> USE DEF IInv
<1>a. /\ DOMAIN wallets' = DOMAIN wallets
      /\ wallets'[w] = r
      /\ \A v \in DOMAIN wallets : v # w => wallets'[v] = wallets[v]
  BY DEF TypeOK
<1>1. TypeOK'
  BY DEF TypeOK
<1>2. OneIssuance'
  BY <1>a DEF OneIssuance
<1>3. ReservationsBacked'
  BY <1>a DEF ReservationsBacked, MayBeNegative
<1>4. ClosedIsEmpty'
  BY <1>a DEF ClosedIsEmpty
<1> QED BY <1>1, <1>2, <1>3, <1>4

\* Reserving keeps the invariant: no more is promised than the wallet has
\* (Ledger::reserve).
LEMMA ReservePreserves ==
    ASSUME IInv, NEW w, NEW cents \in Int, Reserve(w, cents)
    PROVE  IInv'
<1> DEFINE r == [wallets[w] EXCEPT !.reserved = wallets[w].reserved + cents]
<1>1. w \in DOMAIN wallets /\ wallets[w] \in WalletType
  BY DEF Reserve, IInv, TypeOK
<1>2. /\ r \in WalletType /\ r.kind = wallets[w].kind
      /\ r.status = wallets[w].status /\ r.balance = wallets[w].balance
      /\ r.reserved = wallets[w].reserved + cents
  BY <1>1 DEF WalletType
<1>3. wallets' = [wallets EXCEPT ![w] = r]
  BY DEF Reserve
<1>4. UNCHANGED <<supply, flows, next_wallet, next_tx>>
  BY DEF Reserve
<1>5. ~MayBeNegative(w) /\ 0 <= r.reserved /\ r.reserved <= r.balance
  BY <1>1, <1>2 DEF Reserve, IInv, ReservationsBacked, WalletType
<1>6. r.status # "Closed"
  BY <1>2 DEF Reserve, CanDebit
<1> HIDE DEF r
<1> QED BY <1>1, <1>2, <1>3, <1>4, <1>5, <1>6, UpdatePreserves

\* Releasing keeps the invariant: what is held back shrinks, never below
\* zero (Ledger::release).
LEMMA ReleasePreserves ==
    ASSUME IInv, NEW w, NEW cents \in Int, Release(w, cents)
    PROVE  IInv'
<1> DEFINE held == wallets[w].reserved
           left == IF cents <= 0 THEN held
                   ELSE IF held > cents THEN held - cents ELSE 0
           r == [wallets[w] EXCEPT !.reserved = left]
<1>1. w \in DOMAIN wallets /\ wallets[w] \in WalletType
  BY DEF Release, IInv, TypeOK
<1>2. held \in Int /\ wallets[w].balance \in Int /\ 0 <= held
  BY <1>1 DEF WalletType, IInv, ReservationsBacked
<1>3. left \in Int /\ 0 <= left /\ left <= held
  BY <1>2
<1>4. wallets' = [wallets EXCEPT ![w] = r]
  BY DEF Release
<1>5. UNCHANGED <<supply, flows, next_wallet, next_tx>>
  BY DEF Release
<1> HIDE DEF left
<1>6. /\ r \in WalletType /\ r.kind = wallets[w].kind
      /\ r.status = wallets[w].status /\ r.balance = wallets[w].balance
      /\ r.reserved = left
  BY <1>1, <1>3 DEF WalletType
<1>7. IF MayBeNegative(w) THEN r.reserved = 0
      ELSE 0 <= r.reserved /\ r.reserved <= r.balance
  BY <1>1, <1>2, <1>3, <1>6 DEF IInv, ReservationsBacked
<1>8. r.status = "Closed" => r.balance = 0 /\ r.reserved = 0
  BY <1>1, <1>2, <1>3, <1>6 DEF IInv, ClosedIsEmpty
<1> HIDE DEF r
<1> QED BY <1>1, <1>4, <1>5, <1>6, <1>7, <1>8, UpdatePreserves

\* Freezing, unfreezing and closing keep the invariant: only an empty wallet
\* becomes a closed one (Ledger::set_status).
LEMMA StatusPreserves ==
    ASSUME IInv, NEW w, NEW status \in Status,
           \/ status # "Closed" /\ SetStatus(w, status)
           \/ status = "Closed" /\ Close(w)
    PROVE  IInv'
<1> DEFINE r == [wallets[w] EXCEPT !.status = status]
<1>1. w \in DOMAIN wallets /\ wallets[w] \in WalletType
  BY DEF SetStatus, Close, IInv, TypeOK
<1>2. /\ r \in WalletType /\ r.kind = wallets[w].kind /\ r.status = status
      /\ r.balance = wallets[w].balance /\ r.reserved = wallets[w].reserved
  BY <1>1 DEF WalletType
<1>3. wallets' = [wallets EXCEPT ![w] = r]
  BY DEF SetStatus, Close
<1>4. UNCHANGED <<supply, flows, next_wallet, next_tx>>
  BY DEF SetStatus, Close
<1>5. IF MayBeNegative(w) THEN r.reserved = 0
      ELSE 0 <= r.reserved /\ r.reserved <= r.balance
  BY <1>1, <1>2 DEF IInv, ReservationsBacked
<1>6. r.status = "Closed" => r.balance = 0 /\ r.reserved = 0
  BY <1>2 DEF Close
<1> HIDE DEF r
<1> QED BY <1>1, <1>2, <1>3, <1>4, <1>5, <1>6, UpdatePreserves

-----------------------------------------------------------------------------
\* Every operation of the ledger is a posting of integers, the opening of a
\* wallet, or a change of one wallet's reservation or status: mint and burn
\* are postings.
LEMMA NextCases ==
    ASSUME Next
    PROVE  \/ \E reason \in Reason : \E net :
                (\A w \in DOMAIN net : net[w] \in Int) /\ Post(reason, net)
           \/ \E kind \in UsedKinds, c \in Currencies : OpenIn(kind, c)
           \/ \E w \in WalletIds, cents \in Int :
                Reserve(w, cents) \/ Release(w, cents)
           \/ \E w \in WalletIds, status \in Status :
                \/ status # "Closed" /\ SetStatus(w, status)
                \/ status = "Closed" /\ Close(w)
<1>a. UsedReasons \subseteq Reason /\ Amounts \subseteq Int
  BY LedgerAssumption
<1>1. CASE \E kind \in UsedKinds, c \in Currencies : OpenIn(kind, c)
  BY <1>1
<1>2. CASE \E reason \in UsedReasons, net \in Nets : Post(reason, net)
  BY <1>2, <1>a, NetsAreInts
<1>3. CASE \E w \in WalletIds, cents \in Amounts :
             \E reason \in UsedReasons \cap IsIssuance : Mint(w, cents, reason)
  <2> PICK w \in WalletIds, cents \in Amounts,
           reason \in UsedReasons \cap IsIssuance : Mint(w, cents, reason)
    BY <1>3
  <2>1. Post(reason, Move(Issuance, w, cents)) /\ reason \in Reason
    BY <1>a DEF Mint
  <2>2. \A v \in DOMAIN Move(Issuance, w, cents) :
           Move(Issuance, w, cents)[v] \in Int
    <3>1. cents \in Int
      BY <1>a
    <3> QED BY <3>1, MoveIsNet
  <2> QED BY <2>1, <2>2
<1>4. CASE \E w \in WalletIds, cents \in Amounts : Burn(w, cents)
  <2> PICK w \in WalletIds, cents \in Amounts : Burn(w, cents)
    BY <1>4
  <2>1. Post("Burn", Move(w, Issuance, cents)) /\ "Burn" \in Reason
    BY DEF Burn, Reason
  <2>2. \A v \in DOMAIN Move(w, Issuance, cents) :
           Move(w, Issuance, cents)[v] \in Int
    <3>1. cents \in Int
      BY <1>a
    <3> QED BY <3>1, MoveIsNet
  <2> QED BY <2>1, <2>2
<1>5. CASE \E w \in WalletIds, cents \in Amounts :
             Reserve(w, cents) \/ Release(w, cents)
  BY <1>5, <1>a
<1>6. CASE \E w \in WalletIds : Freeze(w) \/ Unfreeze(w) \/ Close(w)
  BY <1>6 DEF Freeze, Unfreeze, Status
<1> QED BY <1>1, <1>2, <1>3, <1>4, <1>5, <1>6 DEF Next

\* A new ledger satisfies the invariant (Ledger::new).
LEMMA InitIInv ==
    ASSUME Init
    PROVE  IInv
<1>1. NewWallet("Issuance", GAME) \in WalletType
  BY LedgerAssumption DEF NewWallet, WalletType, Kind, Status
<1>2. DOMAIN wallets = {1} /\ wallets[1] = NewWallet("Issuance", GAME)
  BY DEF Init, Issuance
<1>3. wallets \in [1 .. next_wallet - 1 -> WalletType]
  <2>1. 1 .. next_wallet - 1 = {1}
    BY DEF Init
  <2> QED BY <1>1, <2>1 DEF Init, Issuance
<1>4. TypeOK
  BY <1>3, LedgerAssumption DEF Init, TypeOK
<1>5. OneIssuance /\ ReservationsBacked /\ ClosedIsEmpty
  BY <1>2 DEF OneIssuance, ReservationsBacked, ClosedIsEmpty, NewWallet,
              MayBeNegative, Issuance
<1> QED BY <1>4, <1>5 DEF IInv

\* Every operation, and every stuttering step, preserves the invariant.
LEMMA NextIInv ==
    ASSUME IInv, [Next]_vars
    PROVE  IInv'
<1>1. CASE Next
  <2>1. CASE \E reason \in Reason : \E net :
               (\A w \in DOMAIN net : net[w] \in Int) /\ Post(reason, net)
    BY <2>1, PostPreserves
  <2>2. CASE \E kind \in UsedKinds, c \in Currencies : OpenIn(kind, c)
    BY <2>2, OpenPreserves
  <2>3. CASE \E w \in WalletIds, cents \in Int :
               Reserve(w, cents) \/ Release(w, cents)
    BY <2>3, ReservePreserves, ReleasePreserves
  <2>4. CASE \E w \in WalletIds, status \in Status :
               \/ status # "Closed" /\ SetStatus(w, status)
               \/ status = "Closed" /\ Close(w)
    BY <2>4, StatusPreserves
  <2> QED BY <1>1, <2>1, <2>2, <2>3, <2>4, NextCases
<1>2. CASE UNCHANGED vars
  BY <1>2 DEF vars, IInv, TypeOK, OneIssuance, ReservationsBacked,
              ClosedIsEmpty, MayBeNegative
<1> QED BY <1>1, <1>2

\* The four parts of the invariant hold in every reachable state.
THEOREM InductiveInvariant == Spec => []IInv
<1>1. Init => IInv
  BY InitIInv
<1>2. IInv /\ [Next]_vars => IInv'
  BY NextIInv
<1> QED BY <1>1, <1>2, PTL DEF Spec

\* Type correctness of the ledger, for every instance.
THEOREM TypeCorrect == Spec => []TypeOK
<1>1. IInv => TypeOK
  BY DEF IInv
<1> QED BY <1>1, InductiveInvariant, PTL

\* No wallet that may not owe is ever overdrawn, and every reservation is
\* covered by the balance under it, whatever the order of postings,
\* reservations, releases and status changes.
THEOREM ReservationsAlwaysBacked == Spec => []ReservationsBacked
<1>1. IInv => ReservationsBacked
  BY DEF IInv
<1> QED BY <1>1, InductiveInvariant, PTL

\* A closed wallet is empty and stays so.
THEOREM ClosedAlwaysEmpty == Spec => []ClosedIsEmpty
<1>1. IInv => ClosedIsEmpty
  BY DEF IInv
<1> QED BY <1>1, InductiveInvariant, PTL

-----------------------------------------------------------------------------
\* The supply counters stay within the bound, so that they never wrap when
\* the bound fits the width; with it the mirror is inductive.
MirrorInv ==
    /\ IssuanceMirror
    /\ supply.minted \in -SupplyBound .. SupplyBound
    /\ supply.burned \in -SupplyBound .. SupplyBound

\* One posting moves the issuance balance by what it adds to the counters
\* (Ledger::post).
LEMMA PostMirrors ==
    ASSUME SupplyBound <= MaxI64, IInv, MirrorInv,
           NEW reason \in Reason, NEW net,
           \A w \in DOMAIN net : net[w] \in Int,
           Post(reason, net)
    PROVE  MirrorInv'
<1> DEFINE b == wallets[Issuance].balance
<1>a. Issuance \in DOMAIN wallets /\ wallets[Issuance] \in WalletType
  BY DEF IInv, TypeOK, OneIssuance
<1>b. /\ supply.minted \in Int /\ supply.burned \in Int /\ b \in Int
      /\ b = supply.burned - supply.minted
  BY <1>a DEF IInv, TypeOK, MirrorInv, IssuanceMirror, WalletType
<1>1. Issuance \in DOMAIN net <=> reason \in IsIssuance
  <2>1. \A w \in DOMAIN net : wallets[w].kind = "Issuance" <=> w = Issuance
    BY DEF Post, Validate, IInv, OneIssuance
  <2> QED BY <2>1 DEF Post, Validate
<1>2. wallets'[Issuance].balance = b + ToIssuance(net)
  <2>1. CASE Issuance \in DOMAIN net
    BY <2>1, <1>a DEF Post, ToIssuance, WalletType
  <2>2. CASE Issuance \notin DOMAIN net
    BY <2>2, <1>a, <1>b DEF Post, ToIssuance
  <2> QED BY <2>1, <2>2
<1>3. ToIssuance(net) \in Int
  BY DEF ToIssuance
<1>4. \A n \in -SupplyBound .. SupplyBound : Wrap(n) = n
  BY LedgerAssumption DEF Wrap
<1>5. /\ supply'.minted = Minted(reason, net)
      /\ supply'.burned = Burned(reason, net)
      /\ Minted(reason, net) \in -SupplyBound .. SupplyBound
      /\ Burned(reason, net) \in -SupplyBound .. SupplyBound
  BY <1>4 DEF Post
<1>6. Burned(reason, net) - Minted(reason, net) = b + ToIssuance(net)
  <2>1. CASE reason = "Burn"
    BY <2>1, <1>b, <1>3 DEF Burned, Minted
  <2>2. CASE reason \in IsIssuance \ {"Burn"}
    BY <2>2, <1>b, <1>3 DEF Burned, Minted
  <2>3. CASE reason \notin IsIssuance
    <3>1. ToIssuance(net) = 0
      BY <2>3, <1>1 DEF ToIssuance
    <3>2. reason # "Burn"
      BY <2>3 DEF IsIssuance
    <3> QED BY <2>3, <3>1, <3>2, <1>b DEF Burned, Minted
  <2> QED BY <2>1, <2>2, <2>3
<1> QED BY <1>2, <1>5, <1>6 DEF MirrorInv, IssuanceMirror

\* Every operation preserves the mirror; only a posting changes either side.
LEMMA NextMirrors ==
    ASSUME SupplyBound <= MaxI64, IInv, MirrorInv, [Next]_vars
    PROVE  MirrorInv'
<1>a. Issuance \in DOMAIN wallets /\ wallets \in [DOMAIN wallets -> WalletType]
  BY DEF IInv, OneIssuance, TypeOK
<1>1. ASSUME UNCHANGED supply,
             wallets'[Issuance].balance = wallets[Issuance].balance
      PROVE  MirrorInv'
  BY <1>1 DEF MirrorInv, IssuanceMirror
<1>2. CASE Next
  <2>1. CASE \E reason \in Reason : \E net :
               (\A w \in DOMAIN net : net[w] \in Int) /\ Post(reason, net)
    BY <2>1, PostMirrors
  <2>2. CASE \E kind \in UsedKinds, c \in Currencies : OpenIn(kind, c)
    <3>1. Issuance # next_wallet /\ UNCHANGED supply
      BY <1>a, <2>2 DEF IInv, TypeOK, Issuance, OpenIn
    <3>2. wallets'[Issuance] = wallets[Issuance]
      BY <1>a, <2>2, <3>1 DEF OpenIn
    <3> QED BY <1>1, <3>1, <3>2
  <2>3. CASE \E w \in WalletIds, cents \in Int :
               Reserve(w, cents) \/ Release(w, cents)
    <3>1. PICK w \in WalletIds, cents \in Int :
                 Reserve(w, cents) \/ Release(w, cents)
      BY <2>3
    <3> DEFINE left == IF cents <= 0 THEN wallets[w].reserved
                       ELSE IF wallets[w].reserved > cents
                            THEN wallets[w].reserved - cents ELSE 0
    <3>2. \/ wallets' = [wallets EXCEPT ![w].reserved = left]
          \/ wallets' = [wallets EXCEPT ![w].reserved =
                           wallets[w].reserved + cents]
      BY <3>1 DEF Reserve, Release
    <3> HIDE DEF left
    <3>3. wallets'[Issuance].balance = wallets[Issuance].balance
      BY <1>a, <3>2 DEF WalletType
    <3> QED BY <1>1, <3>1, <3>3 DEF Reserve, Release
  <2>4. CASE \E w \in WalletIds, status \in Status :
               \/ status # "Closed" /\ SetStatus(w, status)
               \/ status = "Closed" /\ Close(w)
    <3>1. wallets'[Issuance].balance = wallets[Issuance].balance
      BY <1>a, <2>4 DEF SetStatus, Close, WalletType
    <3> QED BY <1>1, <2>4, <3>1 DEF SetStatus, Close
  <2> QED BY <1>2, <2>1, <2>2, <2>3, <2>4, NextCases
<1>3. CASE UNCHANGED vars
  BY <1>1, <1>3 DEF vars
<1> QED BY <1>2, <1>3

\* The issuance balance is the mirror of the supply counters in every
\* reachable state, for every instance whose supply fits the width of the
\* counters.  (Without that hypothesis the counters wrap and it fails.)
THEOREM MirrorCorrect ==
    ASSUME SupplyBound <= MaxI64
    PROVE  Spec => []IssuanceMirror
<1>1. Init => IInv /\ MirrorInv
  <2>1. ASSUME Init PROVE MirrorInv
    BY <2>1, LedgerAssumption DEF Init, MirrorInv, IssuanceMirror, NewWallet
  <2> QED BY <2>1, InitIInv
<1>2. IInv /\ MirrorInv /\ [Next]_vars => IInv' /\ MirrorInv'
  BY NextIInv, NextMirrors
<1>3. MirrorInv => IssuanceMirror
  BY DEF MirrorInv
<1> QED BY <1>1, <1>2, <1>3, PTL DEF Spec

-----------------------------------------------------------------------------
Balances == [w \in DOMAIN wallets |-> wallets[w].balance]

\* The balances of all wallets, issuance's included, sum to nothing: every
\* draft `validate` lets through is balanced, and nothing else moves money.
BooksBalance == SumFunction(Balances) = 0

\* The wallets are finitely many, and what they hold are integers.
LEMMA BalancesAreInts ==
    ASSUME IInv
    PROVE  /\ IsFiniteSet(DOMAIN wallets)
           /\ DOMAIN Balances = DOMAIN wallets
           /\ \A w \in DOMAIN wallets : Balances[w] \in Int
<1>1. next_wallet \in Int /\ DOMAIN wallets = 1 .. next_wallet - 1
  BY LedgerAssumption DEF IInv, TypeOK
<1>2. \A w \in DOMAIN wallets : Balances[w] \in Int
  BY DEF IInv, TypeOK, WalletType, Balances
<1> QED BY <1>1, <1>2, FS_Interval DEF Balances

\* An operation that leaves every balance as it was leaves their sum.
LEMMA SameBalances ==
    ASSUME IInv, BooksBalance, DOMAIN wallets' = DOMAIN wallets,
           \A w \in DOMAIN wallets : wallets'[w].balance = wallets[w].balance
    PROVE  BooksBalance'
<1>1. Balances' = Balances
  BY DEF Balances
<1> QED BY <1>1 DEF BooksBalance

\* A posting adds its net effect, which sums to nothing (Draft::validate).
LEMMA PostBalances ==
    ASSUME IInv, BooksBalance, NEW reason, NEW net,
           \A w \in DOMAIN net : net[w] \in Int,
           Post(reason, net)
    PROVE  BooksBalance'
<1> DEFINE W == DOMAIN wallets
           d == [w \in W |-> IF w \in DOMAIN net THEN net[w] ELSE 0]
<1>1. IsFiniteSet(W) /\ DOMAIN Balances = W /\ \A w \in W : Balances[w] \in Int
  BY BalancesAreInts
<1>2. DOMAIN net \in SUBSET W /\ SumFunction(net) = 0
  BY DEF Post, Validate, Balanced
<1>3. DOMAIN Balances' = W
  BY DEF Post, Balances
<1>4. \A w \in W : Balances'[w] = Balances[w] + d[w]
  <2> SUFFICES ASSUME NEW w \in W
               PROVE  Balances'[w] = Balances[w] + d[w]
    OBVIOUS
  <2>1. wallets[w] \in WalletType
    BY DEF IInv, TypeOK
  <2>2. wallets'[w].balance = wallets[w].balance + d[w]
    BY <2>1 DEF Post, WalletType
  <2> QED BY <2>2, <1>3 DEF Balances
<1>5. \A w \in W : d[w] \in Int
  OBVIOUS
<1>6. SumFunctionOnSet(Balances', W) =
        SumFunctionOnSet(Balances, W) + SumFunctionOnSet(d, W)
  <2> HIDE DEF d, W
  <2> QED BY <1>1, <1>4, <1>5, SumAdd
<1>7. SumFunctionOnSet(d, W) = SumFunctionOnSet(d, DOMAIN net)
  <2>1. \A w \in W \ DOMAIN net : d[w] = 0
    OBVIOUS
  <2> HIDE DEF d, W
  <2> QED BY <2>1, <1>1, <1>2, <1>5, SumSupport
<1>8. SumFunctionOnSet(d, DOMAIN net) = SumFunctionOnSet(net, DOMAIN net)
  <2>1. \A w \in DOMAIN net : d[w] \in Int /\ d[w] = net[w]
    BY <1>2
  <2>2. IsFiniteSet(DOMAIN net)
    BY <1>1, <1>2, FS_Subset
  <2> HIDE DEF d
  <2> QED BY <2>1, <2>2, SumSame
<1> HIDE DEF d, W
<1>9. SumFunctionOnSet(Balances, W) = 0
  BY <1>1 DEF BooksBalance, SumFunction
<1>10. SumFunctionOnSet(Balances', W) = 0
  BY <1>2, <1>6, <1>7, <1>8, <1>9 DEF SumFunction
<1> QED BY <1>3, <1>10 DEF BooksBalance, SumFunction

\* A wallet is opened empty.
LEMMA OpenBalances ==
    ASSUME IInv, BooksBalance, NEW kind, NEW currency, OpenIn(kind, currency)
    PROVE  BooksBalance'
<1> DEFINE W == DOMAIN wallets
           V == W \cup {next_wallet}
<1>1. IsFiniteSet(W) /\ DOMAIN Balances = W /\ \A w \in W : Balances[w] \in Int
  BY BalancesAreInts
<1>2. next_wallet \notin W
  BY LedgerAssumption DEF IInv, TypeOK
<1>3. DOMAIN Balances' = V /\ IsFiniteSet(V)
  BY <1>1, FS_AddElement DEF OpenIn, Balances
<1>4. /\ Balances'[next_wallet] = 0
      /\ \A w \in W : Balances'[w] = Balances[w]
  BY <1>2 DEF OpenIn, Balances, NewWallet
<1>5. \A w \in V : Balances'[w] \in Int
  BY <1>1, <1>4
<1>6. next_wallet \in V /\ V \ {next_wallet} = W
  BY <1>2
<1> HIDE DEF W, V
<1>7. SumFunctionOnSet(Balances', V) = Balances'[next_wallet] + SumFunctionOnSet(Balances', W)
  BY <1>3, <1>5, <1>6, SumRemove
<1>8. SumFunctionOnSet(Balances, W) = SumFunctionOnSet(Balances', W)
  BY <1>1, <1>4, SumSame
<1>9. SumFunctionOnSet(Balances, W) = 0
  BY <1>1 DEF BooksBalance, SumFunction
<1> QED BY <1>3, <1>4, <1>7, <1>8, <1>9 DEF BooksBalance, SumFunction

\* No operation unbalances the books.
LEMMA NextBalances ==
    ASSUME IInv, BooksBalance, [Next]_vars
    PROVE  BooksBalance'
<1>a. wallets \in [DOMAIN wallets -> WalletType]
  BY DEF IInv, TypeOK
<1>1. CASE Next
  <2>1. CASE \E reason \in Reason : \E net :
               (\A w \in DOMAIN net : net[w] \in Int) /\ Post(reason, net)
    BY <2>1, PostBalances
  <2>2. CASE \E kind \in UsedKinds, c \in Currencies : OpenIn(kind, c)
    BY <2>2, OpenBalances
  <2>3. CASE \E w \in WalletIds, cents \in Int :
               Reserve(w, cents) \/ Release(w, cents)
    <3>1. PICK w \in WalletIds, cents \in Int :
                 Reserve(w, cents) \/ Release(w, cents)
      BY <2>3
    <3>2. \E left : wallets' = [wallets EXCEPT ![w].reserved = left]
      BY <3>1 DEF Reserve, Release
    <3>3. /\ DOMAIN wallets' = DOMAIN wallets
          /\ \A v \in DOMAIN wallets : wallets'[v].balance = wallets[v].balance
      BY <1>a, <3>2 DEF WalletType
    <3> QED BY <3>3, SameBalances
  <2>4. CASE \E w \in WalletIds, status \in Status :
               \/ status # "Closed" /\ SetStatus(w, status)
               \/ status = "Closed" /\ Close(w)
    <3>1. /\ DOMAIN wallets' = DOMAIN wallets
          /\ \A v \in DOMAIN wallets : wallets'[v].balance = wallets[v].balance
      BY <1>a, <2>4 DEF SetStatus, Close, WalletType
    <3> QED BY <3>1, SameBalances
  <2> QED BY <1>1, <2>1, <2>2, <2>3, <2>4, NextCases
<1>2. CASE UNCHANGED vars
  BY <1>2, SameBalances DEF vars
<1> QED BY <1>1, <1>2

\* In every reachable state, whatever the caps, the width and the amounts,
\* the balances of all wallets sum to nothing.
THEOREM BooksAlwaysBalance == Spec => []BooksBalance
<1>1. Init => BooksBalance
  <2> SUFFICES ASSUME Init
               PROVE  BooksBalance
    OBVIOUS
  <2>1. DOMAIN Balances = {Issuance} /\ Balances[Issuance] = 0
    BY DEF Init, Balances, NewWallet
  <2>2. IsFiniteSet({Issuance}) /\ {Issuance} \ {Issuance} = {}
    BY FS_Singleton
  <2>3. \A w \in {Issuance} : Balances[w] \in Int
    BY <2>1
  <2>4. SumFunctionOnSet(Balances, {Issuance}) =
          Balances[Issuance] + SumFunctionOnSet(Balances, {})
    BY <2>2, <2>3, SumRemove
  <2> QED BY <2>1, <2>4, SumEmpty DEF BooksBalance, SumFunction
<1>2. IInv /\ BooksBalance /\ [Next]_vars => BooksBalance'
  BY NextBalances
<1> QED BY <1>1, <1>2, InductiveInvariant, PTL DEF Spec

\* What circulates is what the issuance wallet owes.
LEMMA CirculatingIsOwed ==
    ASSUME IInv, BooksBalance
    PROVE  Circulating = -wallets[Issuance].balance
<1> DEFINE W == DOMAIN wallets
           C == {v \in W : IsCirculating(v)}
           c == [w \in C |-> wallets[w].balance]
<1>1. IsFiniteSet(W) /\ DOMAIN Balances = W /\ \A w \in W : Balances[w] \in Int
  BY BalancesAreInts
<1>2. Issuance \in W /\ C = W \ {Issuance}
  BY DEF IInv, OneIssuance, IsCirculating
<1>3. IsFiniteSet(C)
  BY <1>1, <1>2, FS_Subset
<1>4. \A w \in C : Balances[w] \in Int /\ Balances[w] = c[w]
  BY <1>1 DEF Balances
<1>5. Circulating = SumFunctionOnSet(c, C)
  BY DEF Circulating, SumFunction
<1>6. Balances[Issuance] = wallets[Issuance].balance
  BY <1>2 DEF Balances
<1> HIDE DEF W, C, c
<1>7. SumFunctionOnSet(Balances, W) =
        Balances[Issuance] + SumFunctionOnSet(Balances, C)
  BY <1>1, <1>2, SumRemove
<1>8. SumFunctionOnSet(Balances, C) = SumFunctionOnSet(c, C)
  BY <1>3, <1>4, SumSame
<1>9. SumFunctionOnSet(Balances, C) \in Int
  BY <1>3, <1>4, SumByChosen
<1>10. SumFunctionOnSet(Balances, W) = 0
  BY <1>1 DEF BooksBalance, SumFunction
<1> QED BY <1>1, <1>2, <1>5, <1>6, <1>7, <1>8, <1>9, <1>10

\* Currency is conserved in every reachable state: the wallets hold what was
\* minted and not burned, for every instance whose outstanding supply fits
\* the width it is computed in.  (Beyond it `Supply::outstanding` saturates,
\* and the audit of Ledger::check no longer says anything.)
THEOREM CurrencyConserved ==
    ASSUME 2 * SupplyBound <= MaxI64
    PROVE  Spec => []Conservation
<1>1. SupplyBound <= MaxI64
  BY LedgerAssumption
<1>2. Init => IInv /\ MirrorInv
  <2>1. ASSUME Init PROVE MirrorInv
    BY <2>1, LedgerAssumption DEF Init, MirrorInv, IssuanceMirror, NewWallet
  <2> QED BY <2>1, InitIInv
<1>3. IInv /\ MirrorInv /\ [Next]_vars => IInv' /\ MirrorInv'
  BY <1>1, NextIInv, NextMirrors
<1>4. ASSUME IInv, MirrorInv, BooksBalance
      PROVE  Conservation
  <2> DEFINE n == supply.minted - supply.burned
  <2>1. n \in -(2 * SupplyBound) .. 2 * SupplyBound
    BY <1>4, LedgerAssumption DEF MirrorInv
  <2>2. Saturate(n) = n
    BY <2>1, LedgerAssumption DEF Saturate
  <2>3. Circulating = -(supply.burned - supply.minted)
    BY <1>4, CirculatingIsOwed DEF MirrorInv, IssuanceMirror
  <2>4. supply.minted \in Int /\ supply.burned \in Int
    BY <1>4 DEF IInv, TypeOK
  <2> QED BY <2>2, <2>3, <2>4 DEF Conservation, Outstanding
<1> QED BY <1>2, <1>3, <1>4, BooksAlwaysBalance, PTL DEF Spec

-----------------------------------------------------------------------------
\* What one step may do to a wallet that is frozen or closed.
StatusHeld(w) ==
    /\ wallets[w].status = "Frozen" =>
         /\ wallets'[w].balance >= wallets[w].balance
         /\ wallets'[w].reserved <= wallets[w].reserved
    /\ wallets[w].status = "Closed" => wallets'[w] = wallets[w]

\* No step takes from a frozen wallet, or changes a closed one at all.
LEMMA StepHoldsStatus ==
    ASSUME IInv, Next
    PROVE  \A w \in DOMAIN wallets : StatusHeld(w)
<1> SUFFICES ASSUME NEW w \in DOMAIN wallets
             PROVE  StatusHeld(w)
  OBVIOUS
<1>a. /\ wallets[w] \in WalletType
      /\ wallets[w].balance \in Int /\ wallets[w].reserved \in Int
      /\ 0 <= wallets[w].reserved
      /\ wallets[w].status = "Closed" =>
           wallets[w].balance = 0 /\ wallets[w].reserved = 0
  BY DEF IInv, TypeOK, WalletType, ReservationsBacked, ClosedIsEmpty
<1>b. wallets'[w] = wallets[w] => StatusHeld(w)
  BY <1>a DEF StatusHeld
<1>1. CASE \E reason \in Reason : \E net :
             (\A v \in DOMAIN net : net[v] \in Int) /\ Post(reason, net)
  <2> PICK reason \in Reason :
             \E net : (\A v \in DOMAIN net : net[v] \in Int) /\ Post(reason, net)
    BY <1>1
  <2> PICK net : (\A v \in DOMAIN net : net[v] \in Int) /\ Post(reason, net)
    OBVIOUS
  <2>1. CASE w \notin DOMAIN net
    <3>1. wallets'[w] = wallets[w]
      BY <2>1 DEF Post
    <3> QED BY <3>1, <1>b
  <2>2. CASE w \in DOMAIN net
    <3>1. MayMove(w, net[w], reason) /\ net[w] \in Int
      BY <2>2 DEF Post, Validate
    <3>2. wallets'[w] = [wallets[w] EXCEPT !.balance =
                           wallets[w].balance + net[w]]
      BY <2>2 DEF Post
    <3>3. wallets[w].status = "Frozen" => net[w] >= 0
      BY <3>1 DEF MayMove, CanDebit
    <3>4. wallets[w].status = "Closed" => net[w] = 0
      BY <3>1 DEF MayMove, CanDebit, CanCredit
    <3>5. /\ wallets'[w].balance = wallets[w].balance + net[w]
          /\ wallets'[w].reserved = wallets[w].reserved
          /\ net[w] = 0 => wallets'[w] = wallets[w]
      BY <3>1, <3>2, <1>a DEF WalletType
    <3> QED BY <1>a, <3>1, <3>3, <3>4, <3>5 DEF StatusHeld
  <2> QED BY <2>1, <2>2
<1>2. CASE \E kind \in UsedKinds, c \in Currencies : OpenIn(kind, c)
  <2>1. w # next_wallet
    BY DEF IInv, TypeOK
  <2>2. wallets'[w] = wallets[w]
    BY <1>2, <2>1 DEF OpenIn
  <2> QED BY <2>2, <1>b
<1>3. CASE \E v \in WalletIds, cents \in Int :
             Reserve(v, cents) \/ Release(v, cents)
  <2> PICK v \in WalletIds, cents \in Int :
             Reserve(v, cents) \/ Release(v, cents)
    BY <1>3
  <2>1. CASE v # w
    <3>1. wallets'[w] = wallets[w]
      BY <2>1 DEF Reserve, Release
    <3> QED BY <3>1, <1>b
  <2>2. CASE v = w /\ Reserve(v, cents)
    BY <2>2 DEF Reserve, CanDebit, StatusHeld
  <2>3. CASE v = w /\ Release(v, cents)
    <3> DEFINE left == IF cents <= 0 THEN wallets[w].reserved
                       ELSE IF wallets[w].reserved > cents
                            THEN wallets[w].reserved - cents ELSE 0
    <3>1. /\ left \in Int /\ left <= wallets[w].reserved
          /\ wallets[w].reserved = 0 => left = wallets[w].reserved
      BY <1>a
    <3>2. wallets'[w] = [wallets[w] EXCEPT !.reserved = left]
      BY <2>3 DEF Release
    <3> HIDE DEF left
    <3>3. /\ wallets'[w].balance = wallets[w].balance
          /\ wallets'[w].reserved = left
          /\ left = wallets[w].reserved => wallets'[w] = wallets[w]
      BY <3>2, <1>a DEF WalletType
    <3> QED BY <1>a, <3>1, <3>3 DEF StatusHeld
  <2> QED BY <2>1, <2>2, <2>3
<1>4. CASE \E v \in WalletIds, status \in Status :
             \/ status # "Closed" /\ SetStatus(v, status)
             \/ status = "Closed" /\ Close(v)
  <2> PICK v \in WalletIds, status \in Status :
             \/ status # "Closed" /\ SetStatus(v, status)
             \/ status = "Closed" /\ Close(v)
    BY <1>4
  <2>1. wallets' = [wallets EXCEPT ![v].status = status]
    BY DEF SetStatus, Close
  <2>2. /\ wallets'[w].balance = wallets[w].balance
        /\ wallets'[w].reserved = wallets[w].reserved
    BY <2>1, <1>a DEF WalletType
  <2>3. wallets[w].status = "Closed" => wallets'[w] = wallets[w]
    BY <2>1, <1>a DEF SetStatus, Close, WalletType
  <2> QED BY <1>a, <2>2, <2>3 DEF StatusHeld
<1> QED BY <1>1, <1>2, <1>3, <1>4, NextCases

\* Nothing is ever taken from a frozen wallet: no posting, no reservation.
THEOREM FrozenHeld == Spec => FrozenPaysNothing
<1>1. IInv /\ [Next]_vars =>
        [\A w \in DOMAIN wallets :
           wallets[w].status = "Frozen" =>
             /\ wallets'[w].balance >= wallets[w].balance
             /\ wallets'[w].reserved <= wallets[w].reserved]_vars
  BY StepHoldsStatus DEF StatusHeld
<1> QED BY <1>1, InductiveInvariant, PTL DEF Spec, FrozenPaysNothing

\* A closed wallet is never changed again, by any sequence of calls.
THEOREM ClosedHeld == Spec => ClosedIsForever
<1>1. IInv /\ [Next]_vars =>
        [\A w \in DOMAIN wallets :
           wallets[w].status = "Closed" => wallets'[w] = wallets[w]]_vars
  BY StepHoldsStatus DEF StatusHeld
<1> QED BY <1>1, InductiveInvariant, PTL DEF Spec, ClosedIsForever

\* The three together: no call gets past a wallet's status.
THEOREM StatusAlwaysObeyed == Spec => StatusIsObeyed
  BY ClosedAlwaysEmpty, FrozenHeld, ClosedHeld DEF StatusIsObeyed
=============================================================================
