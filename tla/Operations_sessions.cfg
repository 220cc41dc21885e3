\* All scripts and tasks, two sessions, one crash, one edited contract.
SPECIFICATION Spec
CONSTANTS
    s1 = s1
    s2 = s2
    Networks = {"fuji", "localhost"}
    Sessions = {s1, s2}
    Scripts <- MCScripts
    Tasks <- MCTasks
    Tokens = {"AVAX", "ETH"}
    Lps = {"LP"}
    Editable = {"EmergencyPool", "InsurancePool", "PolicyFlow"}
    InitSaved <- MCInitSaved
    InitMade <- MCInitMade
    MaxLaunches = 2
    MaxCrashes = 1
    MaxEdits = 1
INVARIANTS
    OpsTypeOK
    BookAgreesWhenQuiet
    
    
    SendsReachCurrent
PROPERTY FlightRingClosed
SYMMETRY SessionSymmetry
CHECK_DEADLOCK FALSE
