SPECIFICATION FairSpec
CONSTANTS
    n1 = n1
    n2 = n2
    r1 = r1
    r2 = r2
    Nodes = {n1}
    None = None
    Healthy = Healthy
    Rules = {r1, r2}
    Channels = {}
    HalfHour = 1
    StreakCap = 2
    MaxTerm = 4
    MaxTime = 0
PROPERTIES
    RecoveryIsRecorded
    FailureIsRecorded
