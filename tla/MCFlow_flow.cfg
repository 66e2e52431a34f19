\* Every drop policy: safety, the counters, a push that is never held up, and
\* the drain.
CONSTANTS
    Capacity = 2
    Words <- MCWords
    Spins = 1
    CreditRange = 4
    Grants <- MCGrants
    MaxOffers = 6
    MaxGranted = 5
    MaxReused = 2
SPECIFICATION ProducerSpec
INVARIANTS
    PopReturnsTheRecord
    EveryRecordLeavesOnce
    PushesAreAccounted
PROPERTIES
    PushReturns
    QueueDrains
