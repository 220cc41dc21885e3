\* Two providers with amounts that do not divide evenly, two policies, a fair
\* oracle with normal answers, no forced request: the pool is shared fairly, every
\* policy is settled, and the product implements CoverPool.
SPECIFICATION FairSpec
CONSTANTS
    u1 = u1
    u2 = u2
    u3 = u3
    NoUser = NoUser
    Pool = Pool
    Lottery = Lottery
    EmergencyPool = EmergencyPool
    Users <- MCUsers
    Providers = {u1, u2}
    Buyers = {u2}
    Recipients = {}
    SCALE = 10000
    UNIT = 1
    DECIMAL_DIFFERENCE = 1000000
    InitialUSD = 286
    Genesis = 10
    Moments <- MCMoments
    Quotes <- TwoFlights
    StakeAmounts = {133}
    OracleResults <- NormalResults
    InitialLink = 2
    MaxPolicies = 2
    MaxRequests = 2
    MaxForced = 0
    MaxPayoffs = {}
    DelayThresholds = {}
    MinTimes = {}
    Fees = {}
    FrozenTimes = {}
    RewardDistributions = {}
    CollateralFactors = {}
INVARIANTS
    
    PoolStaysOpen

    
    
CHECK_DEADLOCK FALSE
