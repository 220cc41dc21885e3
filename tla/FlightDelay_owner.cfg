\* The owner changes every parameter and the policy token changes hands,
\* before and after the claim request.
SPECIFICATION Spec
CONSTANTS
    u1 = u1
    u2 = u2
    u3 = u3
    NoUser = NoUser
    Pool = Pool
    Lottery = Lottery
    EmergencyPool = EmergencyPool
    Users <- ThreeUsers
    Providers = {u1}
    Buyers = {u2}
    Recipients = {u1, u3}
    SCALE = 10000
    UNIT = 1
    DECIMAL_DIFFERENCE = 1000000
    InitialUSD = 300
    Genesis = 10
    Moments <- MCMoments
    Quotes <- MCQuotes
    StakeAmounts = {200}
    OracleResults <- NormalResults
    InitialLink = 3
    MaxPolicies = 1
    MaxRequests = 2
    MaxForced = 1
    MaxPayoffs <- LowerPayoff
    DelayThresholds <- WiderDelay
    MinTimes = {0}
    Fees = {}
    FrozenTimes = {}
    RewardDistributions <- NoLpShare
    CollateralFactors = {50}
INVARIANTS
    PoolSolvent
    CapacitySplit
PROPERTIES
    BuyerMovesWithToken
CHECK_DEADLOCK FALSE
