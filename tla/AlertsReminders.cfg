SPECIFICATION FairSpec
CONSTANTS
    n1 = n1
    n2 = n2
    r1 = r1
    r2 = r2
    Nodes = {n1}
    None = None
    Healthy = Healthy
    Rules = {r1}
    Channels = {webhook}
    HalfHour = 2
    StreakCap = 2
    MaxTerm = 2
    MaxTime = 3
PROPERTIES
    NotifiedNeverSetBack
    SilentIncidentIsRetried
