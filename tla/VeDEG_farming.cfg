\* Farming pool and veDEG, both upgraded at any time.
SPECIFICATION Spec
CONSTANTS
    u1 = u1
    u2 = u2
    Users = {u1, u2}
    Escrowers = {u1}
    Lps = 1
    SCALE = 10
    startTimestamp = 1
    InitialLp = 2
    LpAmounts = {2}
    Speeds <- MCSpeeds
    Pieces <- MCPieces
    MaxTime = 3
    MaxSettings = 1
    WAD = 2
    InitialDegis = 1
    DegisAmounts = {1}
    VeAmounts = {5}
    Ratios = {10, 20}
    FirstRatio = 10
    Rates = {20, 10}
    FirstRate = 20
    MaxLocked = 5
INVARIANTS
    FarmingTypeOK
    VeDEGTypeOK
    DebtIsCovered
    BonusFollowsVeDEG
    LockedDepositCovered
    BalanceWithinCap
    LocksWithinBalance
PROPERTY RewardsStayBacked
CHECK_DEADLOCK FALSE
