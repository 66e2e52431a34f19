\* The documentation's claim against the protocol.
CONSTANTS
    r1 = r1
    Readers = {r1}
    Capacity = 2
    Words <- MCWords
    SeqWord = "seq"
    StampWord = "body"
    BatchLen = 2
    MaxPublished = 6
SPECIFICATION Spec
INVARIANT NeverAMixedRecord
