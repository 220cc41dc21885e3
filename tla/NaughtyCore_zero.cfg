\* A statement of a comment that the code does not keep.
SPECIFICATION CoreSpec
CONSTANTS
    u1 = u1
    u2 = u2
    u3 = u3
    p1 = p1
    p2 = p2
    usdc = usdc
    Users = {u1, u2}
    Traders = {u1, u2}
    Core = Core
    LotteryPool = LotteryPool
    SharingVault = SharingVault
    OtherContracts = {}
    Policies = {p1}
    Stablecoins = {usdc}
    USDC = usdc
    NoCoin = NoCoin
    InitialBalance = 150
    Start = 1
    Instants <- MCInstants
    Terms <- MCTerms
    Amounts = {100, 50}
    Prices <- ZeroPrice
    LotteryParts = {}
    InitiallyWired <- AllWired
    MaxDepositors = 3
INVARIANTS
    SettledMeansResult
CHECK_DEADLOCK FALSE
