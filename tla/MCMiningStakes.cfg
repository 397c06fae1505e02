SPECIFICATION Spec
CONSTANTS
    m1 = m1
    m2 = m2
    h1 = h1
    h2 = h2
    Network = network
    MetaColony = metaColony
    Miners <- MCMiners
    Hashes <- MCHashes
    Users <- MCUsers
    Obligators <- MCObligators
    MinStake = 2
    MaxSubmitters = 2
    CycleReward = 2
    ResponseReward = 1
    Amounts <- MCAmounts
    Supply = 2
    MaxLocks = 1
SYMMETRY Interchangeable
INVARIANTS
    BooksMatch
    EntriesBacked
    RewardsBacked
    CycleCanClose
CHECK_DEADLOCK FALSE
