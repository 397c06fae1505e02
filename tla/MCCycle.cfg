SPECIFICATION FairSpec
CONSTANTS
    Miners = {"honest", "late", "early"}
    Submissions = {"honest", "late", "early"}
    NoMiner = NoMiner
    NoSubmission = NoSubmission
    Entries <- OneEntry
    Proposes <- EarlyOrLate
    NLeaves = 4
    Tree <- MCTree
    Confirmable <- MCConfirmable
    NextStates <- MCNextStates
    Honest = "honest"
    MiningWindow = 2
    ResponseWindow = 2
    AllEntriesAllowed = 1
    MinStake = 100
    MaxSubmitters = 12
    MaxSettledAgain = 1
INVARIANTS
    HonestPrevails
    DisputesSound
    OneEntryEach
    RewardsCovered
PROPERTIES
    EventuallyConfirmed
CHECK_DEADLOCK FALSE
