\* Publisher, queues and replicas.
CONSTANTS
    E8Digits = 1
    BpsScale = 1000
    MaxInt = 100000
    Depth = 1
    Names <- MCNames
    HashOf <- MCHashOf
    InitialSymbols = 1
    Ceiling = 2
    Records <- MCRecords
    Registered <- MCRegistered
    Shards = 2
    Subscribers = {s1, s2}
    Appliers = {s1}
    QueueSize = 2
    PolicyChoices <- MCPolicies
    MaxPublished <- MCMaxPublished
    MaxIdle = 1
    GrantSize = 2
    MaxCredit = 2
SPECIFICATION Spec
CHECK_DEADLOCK FALSE
INVARIANTS
    EveryEventCounted
    ReplicaInStep
    TablesAreExact
