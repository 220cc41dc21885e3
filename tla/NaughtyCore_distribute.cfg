\* The owner distributes in any batches while depositors redeem and re-enter the
\* list; fair settlement, and holders who come for their money.
SPECIFICATION FairCoreSpec
CONSTANTS
    u1 = u1
    u2 = u2
    u3 = u3
    p1 = p1
    p2 = p2
    usdc = usdc
    Users = {u1, u2}
    Traders = {u1, u2}
    Core = Core
    LotteryPool = LotteryPool
    SharingVault = SharingVault
    OtherContracts = {}
    Policies = {p1}
    Stablecoins = {usdc}
    USDC = usdc
    NoCoin = NoCoin
    InitialBalance = 100
    Start = 1
    Instants <- MCInstants
    Terms <- ArbitraryTerms
    Amounts = {50}
    Prices <- ZeroPrice
    LotteryParts = {0}
    InitiallyWired <- NoLottery
    MaxDepositors = 3

    
    
PROPERTIES
    ResultIsFinal
    EventuallyPaidOut
CHECK_DEADLOCK FALSE
