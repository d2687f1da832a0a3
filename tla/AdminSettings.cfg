SPECIFICATION Spec
CONSTANTS
    n1 = n1
    n2 = n2
    a1 = a1
    a2 = a2
    p1 = p1
    p2 = p2
    telegram = telegram
    smtp = smtp
    f1 = f1
    Nodes = {n1, n2}
    None = None
    MaxTerm = 2
    Admins = {a1, a2}
    Passwords = {p1, p2}
    Channels = {telegram, smtp}
    NeedsSecret = {telegram}
    Fields = {f1}
    EnvSecret <- Environment
    Requests <- Asked
    MaxRequests = 4
SYMMETRY AdminSymmetry
INVARIANTS
    TypeOK
    EditsSurvive
    EnabledIsComplete
PROPERTIES
    TakeoverNeedsPassword
\* Elections and requests are bounded: the system may really come to rest.
CHECK_DEADLOCK FALSE
