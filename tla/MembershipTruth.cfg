SPECIFICATION StartSpec
CONSTANTS
    n1 = n1
    n2 = n2
    n3 = n3
    a1 = a1
    a2 = a2
    a3 = a3
    Nodes = {n1, n3}
    None = None
    MaxTerm = 2
    Requests = {r1, r2}
    Addresses = {a1, a2, a3}
    Commands = {}
    Founders <- One
    HomeAddress <- Homes
    Peers <- NoPeers
    ConfiguredRole <- Configured
    Joiners = {n3}
    JoinAddresses = {a3}
INVARIANTS
    DirectoryIsTruth
\* A cluster that has formed may come to rest.
CHECK_DEADLOCK FALSE
