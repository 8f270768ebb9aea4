SPECIFICATION Spec
CONSTANTS
    MAX_WALLET_CENTS = 3
    MaxI64 = 20
    GAME = GAME
    Currencies = {GAME}
    Amounts <- MCAmounts
    UsedReasons <- MCReasons
    UsedKinds <- MCKinds
    MaxWallets = 3
    MaxTx = 3
    SupplyBound = 10
INVARIANTS
    TypeOK
    Conservation
    IssuanceMirror
    ReservationsBacked
PROPERTIES
    StatusIsObeyed
CHECK_DEADLOCK FALSE
