\* One provider, one buyer, two policies, three oracle requests of which the
\* owner may force some; answers may be abnormal.
SPECIFICATION Spec
CONSTANTS
    u1 = u1
    u2 = u2
    u3 = u3
    NoUser = NoUser
    Pool = Pool
    Lottery = Lottery
    EmergencyPool = EmergencyPool
    Users <- MCUsers
    Providers = {u1}
    Buyers = {u2}
    Recipients = {}
    SCALE = 10000
    UNIT = 1
    DECIMAL_DIFFERENCE = 1000000
    InitialUSD = 400
    Genesis = 10
    Moments <- MCMoments
    Quotes <- TwoFlights
    StakeAmounts = {200}
    OracleResults <- CoreResults
    InitialLink = 3
    MaxPolicies = 2
    MaxRequests = 3
    MaxForced = 1
    MaxPayoffs = {}
    DelayThresholds = {}
    MinTimes = {}
    Fees = {2}
    FrozenTimes = {1}
    RewardDistributions = {}
    CollateralFactors = {}
INVARIANTS
    TypeOK
    
    
    
    
CHECK_DEADLOCK FALSE
