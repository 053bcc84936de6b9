SPECIFICATION Spec
CONSTANTS
    g = g
    a1 = a1
    a2 = a2
    b1 = b1
    vault = vault
    fund = fund
    hot = hot
    stranger = stranger
    Block <- MCBlock
    Genesis = g
    Parent <- MCParent
    Number <- MCNumber
    NoBlock = NoBlock
    Account <- MCAccount
    Events <- MCEvents
    Balance <- MCBalance
    NoAccount = NoAccount
    Accounts <- MCAccounts
    AccountBalanceAlerts <- MCBalanceAlerts
    TokenDecimals = 1
    Capacity = 1
    MaxPublished = 2
    MaxOthers = 1
    MaxFaults = 1
    MaxExits = 1
INVARIANTS TypeOK ToldOnce ToldTrue ToldInOrder
PROPERTY EverythingTold
CHECK_DEADLOCK FALSE
