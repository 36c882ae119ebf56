SPECIFICATION FairSpec
CONSTANTS
    Owners = {o1, o2}
    Payloads <- FourSpellings
    Retries = 2
    MaxSet = 2
    MaxChanges = 2
INVARIANTS
    TypeOK
    NoSteadyRecordMissed
    CalmResultTrue
PROPERTIES
    ResolutionEnds
