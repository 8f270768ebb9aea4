SPECIFICATION Spec
CONSTANTS
    alice = alice
    smith = smith
    miner = miner
    Commodities = {"ORE", "INGOT"}
    Players = {alice}
    Npcs <- MCNpcs
    Accounts = {alice, smith, miner}
    AccountOf <- MCAccountOf
    Cash <- MCCash
    TREASURY = 10
    START_PRICE = 2
    RecipeIds = {"SMELT"}
    MAX_WALLET_CENTS = 12
    MAX_UNITS = 6
    MAX_JOB_RUNS = 2
    MAX_RUNNING_JOBS = 2
    JOB_LOG = 1
    MAX_MODIFIERS = 1
    Flows <- MCFlows
    MaxPrice = 3
    MaxNow = 3
    MaxJobs = 3
INVARIANTS
    TypeOK
    UnitsAccounted
    QuotesAreBacked
PROPERTIES
    QuotesFollowTheMarket
    PromisesKept
