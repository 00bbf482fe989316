SPECIFICATION FairSpec
CONSTANTS
    e1 = e1 e2 = e2
    Extraction = {e1, e2}
    Live = {e1}
    Workers = 2
    MaxChunks = 2
    Env = {"api", "redis"}
INVARIANTS
    TypeOK
    TermsAreWhole
    ShownIsTheStream
    NobodyIsStuck
PROPERTIES
    ExtractionEnds
CHECK_DEADLOCK FALSE
