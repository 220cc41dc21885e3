\* A statement of a comment that the code does not keep.
SPECIFICATION Spec
CONSTANTS
    u1 = u1
    u2 = u2
    u3 = u3
    NoUser = NoUser
    Pool = Pool
    Lottery = Lottery
    EmergencyPool = EmergencyPool
    Users <- MCUsers
    Providers = {u1}
    Buyers = {u2}
    Recipients = {}
    SCALE = 10000
    UNIT = 1
    DECIMAL_DIFFERENCE = 1000000
    InitialUSD = 400
    Genesis = 10
    Moments <- MCMoments
    Quotes <- MCQuotes
    StakeAmounts = {200}
    OracleResults <- NormalResults
    InitialLink = 3
    MaxPolicies = 2
    MaxRequests = 3
    MaxForced = 1
    MaxPayoffs <- LowerPayoff
    DelayThresholds = {}
    MinTimes = {}
    Fees = {}
    FrozenTimes = {}
    RewardDistributions = {}
    CollateralFactors = {}
PROPERTIES
    SettlementUnlocksSoldPayoff
CHECK_DEADLOCK FALSE
