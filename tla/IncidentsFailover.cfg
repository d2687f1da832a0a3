SPECIFICATION Spec
CONSTANTS
    n1 = n1
    n2 = n2
    r1 = r1
    r2 = r2
    Nodes = {n1, n2}
    None = None
    Healthy = Healthy
    Rules = {r1, r2}
    Channels = {}
    HalfHour = 1
    StreakCap = 2
    MaxTerm = 2
    MaxTime = 0
SYMMETRY NodeAndRuleSymmetry
INVARIANTS
    OneActiveIncident
PROPERTIES
    IncidentsFollowState
