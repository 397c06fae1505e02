\* Two metatransactions, one of them any of 29 kinds; one kill, one dropped
\* transaction, two outages, two tries.
CONSTANTS
  Transactions = {"first", "second"}
  Overlap = FALSE
  Lag = 1
  Fixed = {"network", "tokenLocking"}
  Colonies = {"colony"}
  OldExtensions = {"voting"}
  Bridges = {"ethBridge", "bnbBridge"}
  Motions <- MCMotions
  NetworkCalls <- MCNetworkCalls
  Bodies <- MCBodies
  Chain = "xdai"
  MinPriorityFee = 3
  DefaultGasPrice = 10
  NodeFees <- MCNodeFees
  OracleAnswers <- MCOracleAnswers
  MaxAttempts = 2
  Outages = 2
  MaxKills = 1
  MaxDrops = 1
SPECIFICATION Spec
INVARIANTS
    NonceFree
    
    FeesPayable
PROPERTIES
    EveryRequestAnswered
    SuccessIsMined
CHECK_DEADLOCK FALSE
