SPECIFICATION Spec
CONSTANTS
    hero = hero
    villain = villain
    daily = daily
    weekly = weekly
    quest = quest
    raid = raid
    ExternalIds <- MCExternalIds
    RuleIds <- MCRuleIds
    Sources <- MCSources
    Amounts <- MCAmounts
    Flows <- MCFlows
    GENESIS = 3
    MAX_TRANSFER = 2
    MAX_BUDGETS = 2
    MAX_RULES = 1
    REWARD_LOG = 1
    MaxId = 3
    MaxWallet = 6
    MaxMint = 1
INVARIANTS
    TypeOK
    CurrencyIsAccounted
    SourcePaidOnce
PROPERTIES
    ReplayReproduces
    IdentitiesStand
CHECK_DEADLOCK FALSE
