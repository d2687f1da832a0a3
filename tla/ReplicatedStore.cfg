SPECIFICATION Spec
CONSTANTS
    n1 = n1
    n2 = n2
    k1 = k1
    k2 = k2
    Nodes <- Servers
    Keys <- DeliveryKeys
    Incidents = {incident}
    Others = {check}
    Values = {v1, v2}
    None = None
    Limit = 1
    Retention = 0
    MaxLog = 3
    MaxTime = 1
SYMMETRY Symmetry
INVARIANTS
    TypeOK
    ReplicasAgree
    ClaimsKept
    GrantedOnce
