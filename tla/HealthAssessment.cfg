SPECIFICATION Spec
CONSTANTS
    o1 = o1
    o2 = o2
    Observers = {o1, o2}
    PerTarget = 2
    Rank <- Ranks
    Window = 3
    SymptomSets <- SomeSymptoms
    Settle = 2
    Detect = 4
INVARIANTS
    TypeOK
    GlitchIsTolerated
    OutageIsDetected
