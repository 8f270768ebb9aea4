SPECIFICATION Spec
CONSTANTS
    alice = alice
    bob = bob
    carol = carol
    main = main
    other = other
    Tickers = {"ACME", "BOLT"}
    Goods = {}
    Floated = "ACME"
    Traders <- MCTraders
    Accounts <- MCAccounts
    AccountOf <- MCAccountOf
    Cash <- MCCash
    Held <- MCHeld
    Flows <- MCFlows
    TREASURY = 5
    ISSUER_FLOAT = 4
    OUTSTANDING = 4
    MAX_SYMBOLS = 2
    MAX_WALLET_CENTS = 6
    START_PRICE = 2
    MaxPending = 1
    MaxPrice = 3
    MaxOrders = 2
INVARIANTS
    TypeOK
    PromisesFollowListings
PROPERTIES
    HoldersPaidAlike
