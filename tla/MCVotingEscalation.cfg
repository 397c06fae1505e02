SPECIFICATION FairSpec
CONSTANTS
    u1 = u1
    u2 = u2
    x = x
    Wad = 1000
    totalStakeFraction = 250
    voterRewardFraction = 200
    userMinStakeFraction = 500
    maxVoteFraction = 500
    stakePeriod = 1
    submitPeriod = 1
    revealPeriod = 1
    escalationPeriod = 1
    FailurePeriod = 2
    Domains = {1, 2}
    DomainReputation <- MCDomainReputation
    Expenditures = {x}
    NoAction = noAction
    Call = call
    Users = {u1, u2}
    Reputation <- MCReputation
    Descendants <- MCDescendants
    ActionDomain <- MCActionDomain
    FailingActions = {call}
    LockDelay = 10
    MaxDelay = 11
    InitialDelay <- MCInitialDelay
    FinalizedFor = {2}
    MaxMotions = 2
    Proposals <- MCProposals
    Backers <- MCBackers
    Amounts = {200}
PROPERTIES
    EveryMotionSettles
CHECK_DEADLOCK FALSE
