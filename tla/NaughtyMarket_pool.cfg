\* Two users around one pool, four calls to it, with the core behind; policy
\* tokens are issued through the router only.
SPECIFICATION MarketSpec
CONSTANTS
    u1 = u1
    u2 = u2
    p1 = p1
    usdc = usdc
    Pair = Pair
    Factory = Factory
    IncomeMaker = IncomeMaker
    Users = {u1, u2}
    Traders = {}
    Core = Core
    LotteryPool = LotteryPool
    SharingVault = SharingVault
    OtherContracts <- Contracts
    Policies = {p1}
    Stablecoins = {usdc}
    USDC = usdc
    NoCoin = NoCoin
    InitialBalance = 100
    Start = 1
    Instants <- MCInstants
    Terms <- OnePut
    Amounts = {}
    Prices = {40}
    LotteryParts = {}
    InitiallyWired <- AllWired
    MaxDepositors = 2
    Traded = p1
    MINIMUM_LIQUIDITY = 4
    FEE_BASE = 50
    FeeRate = 1
    MAX_UINT112 = 100000000
    LiquidityAmounts = {40, 50}
    LpAmounts = {30}
    SwapAmounts = {7, 30}
    GiftAmounts = {5}
    Proportions = {100}
    MaxMarketSteps = 4
SYMMETRY MCUsers
INVARIANTS
    MarketTypeOK
    ReservesBacked
    RouterQuoteAccepted
    CorePotSolvent
PROPERTIES
    LiquidityKeepsValue
CHECK_DEADLOCK FALSE
