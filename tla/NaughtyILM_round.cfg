\* A round of two users, the pool it starts, claims and the settlement.
SPECIFICATION ILMSpec
CONSTANTS
    u1 = u1
    u2 = u2
    p1 = p1
    usdc = usdc
    Pair = Pair
    Factory = Factory
    IncomeMaker = IncomeMaker
    ILM = ILM
    Owner = Owner
    EmergencyPool = EmergencyPool
    Users = {u1, u2}
    Traders = {}
    Core = Core
    LotteryPool = LotteryPool
    SharingVault = SharingVault
    OtherContracts <- Contracts
    Policies = {p1}
    Stablecoins = {usdc}
    USDC = usdc
    NoCoin = NoCoin
    InitialBalance = 60
    Start = 1
    Instants <- MCInstants
    Terms <- OnePut
    Amounts = {}
    Prices = {60}
    LotteryParts = {}
    InitiallyWired <- AllWired
    MaxDepositors = 1
    Traded = p1
    MINIMUM_LIQUIDITY = 4
    FEE_BASE = 50
    FeeRate = 1
    MAX_UINT112 = 100000000
    LiquidityAmounts = {}
    LpAmounts = {}
    SwapAmounts = {7}
    GiftAmounts = {}
    Proportions = {}
    MaxMarketSteps = 0
    InitialDegis = 300
    FeePerCoin = 1
    SCALE = 10
    MINIMUM_AMOUNT = 20
    RoundDeadlines = {1}
    MatchAmounts = {20}
    ClaimAmounts = {15}
    DrainAmounts = {20}
    MaxMatchSteps = 4
SYMMETRY MCUsers
INVARIANTS
    
    UsersQuotaCovered
CHECK_DEADLOCK FALSE
