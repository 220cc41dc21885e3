\* Two policies share the pot of one stablecoin.
SPECIFICATION CoreSpec
CONSTANTS
    u1 = u1
    u2 = u2
    u3 = u3
    p1 = p1
    p2 = p2
    usdc = usdc
    Users = {u1, u2}
    Traders = {u1, u2}
    Core = Core
    LotteryPool = LotteryPool
    SharingVault = SharingVault
    OtherContracts = {}
    Policies = {p1, p2}
    Stablecoins = {usdc}
    USDC = usdc
    NoCoin = NoCoin
    InitialBalance = 101
    Start = 1
    Instants <- MCInstants
    Terms <- TwoTerms
    Amounts = {100}
    Prices <- MCPrices
    LotteryParts = {}
    InitiallyWired <- AllWired
    MaxDepositors = 3
INVARIANTS
    CoreTypeOK
    CorePotSolvent
    QuotaMatchesSupply
SYMMETRY Symmetry
CHECK_DEADLOCK FALSE
