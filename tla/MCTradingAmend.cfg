SPECIFICATION Spec
CONSTANTS
    alice = alice
    bob = bob
    carol = carol
    main = main
    other = other
    Traders <- MCTraders
    Accounts <- MCAccounts
    AccountOf <- MCAccountOf
    Cash <- MCCash
    Held <- MCHeld
    Prices <- MCPrices
    Flows <- MCPostOnlyAmendment
    OUTSTANDING = 5
    TAKER_BPS = 2500
    REBATE_BPS = 2500
    MAX_WALLET_CENTS = 1000
    MAX_STOPS_PER_TRADER = 1
    ORDER_LOG = 2
    MAX_PRICE_CENTS = 100
    MAX_ORDER_QTY = 100
    TICK_CENTS = 1
    LOT = 1
    COLLAR_PCT = 50
    MaxStopId = 1
INVARIANT
    ReservationsMatchBook
