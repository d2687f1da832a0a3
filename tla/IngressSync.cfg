SPECIFICATION FairSpec
CONSTANTS
    n1 = n1
    n2 = n2
    Nodes = {n1, n2}
    None = None
    MaxTerm = 2
    Candidates = {n1, n2}
    Priority <- SamePriority
    IdOrder <- Ids
    Fitness <- OneUnseen
    DNSEnabled = TRUE
    Attempts = 2
INVARIANTS
    TypeOK
    SyncedMeansPointed
PROPERTIES
    IngressKept
    RecordFollowsUnlessStraddled
