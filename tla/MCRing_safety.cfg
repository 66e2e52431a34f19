\* One reader against the writer, lapped up to three times.
CONSTANTS
    r1 = r1
    Readers = {r1}
    Capacity = 2
    Words <- MCWords
    SeqWord = "seq"
    StampWord = "body"
    BatchLen = 2
    MaxPublished = 6
SPECIFICATION LiveSpec
INVARIANTS
    LastLapIntact
    CopyIntactUntilComeRound
PROPERTIES
    TornOnlyWhenComeRound
    
    ImplementsBus
    ReadersCatchUp
