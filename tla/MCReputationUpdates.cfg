SPECIFICATION Spec
CONSTANTS
    Users = {1, 2}
    Amounts <- GainsAndLoss
    SkillParents <- Chain
    InitialSkills = 2
    EntriesPerCycle <- TwoThenOne
    MaxReputation = 5
    KeyHash <- ScatteredHash
    KeyWidth = 4
    DecayNumerator = 2
    DecayDenominator = 3
    JustificationWidth = 5
INVARIANTS
    HonestStepAccepted
    
    StateSound
CHECK_DEADLOCK FALSE
