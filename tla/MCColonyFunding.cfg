SPECIFICATION Spec
CONSTANTS
    own = own
    ether = ether
    s1 = s1
    s2 = s2
    Tokens = {own, ether}
    OwnToken = own
    Ether = ether
    MaxExpenditures = 1
    Slots <- MCSlots
    Wad = 2
    RewardInverse = 2
    Spenders = {spender}
    Amounts <- MCAmounts
    Approvals = {0, 1}
    MaxHeld <- MCPoorEther
    MaxPayout <- MCPayouts
    Modifiers <- MCModifiers
SYMMETRY SlotsInterchangeable
INVARIANTS
    PotsBacked
    NoDoubleClaim
    BooksConsistent
PROPERTIES
    FundsStayReserved
CHECK_DEADLOCK FALSE
