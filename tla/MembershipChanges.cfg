SPECIFICATION Spec
CONSTANTS
    n1 = n1
    n2 = n2
    n3 = n3
    a1 = a1
    a2 = a2
    Nodes = {n1, n2, n3}
    None = None
    MaxTerm = 2
    Requests = {r1, r2}
    Addresses = {a1, a2}
    Commands <- ChangesAndJoins
    Founders <- Two
    HomeAddress <- Homes
VIEW ToldApart
SYMMETRY RequestSymmetry
INVARIANTS
    TypeOK
    AgreeUndisturbed
    AddressesDistinct
PROPERTIES
    RemovedComesBackByJoin
