CONSTANTS
  Colonies = {"c"}
  MaxSkills = 3
  MaxUpdates = 1
  MaxRoots = 1
  MaxNonces = 1
  MaxHomeSkills = 2
  Parents = {0, 1, 2}
  MaxOutages = 1
  MaxMessages = 3
SPECIFICATION BridgeSpec
INVARIANT SkillsEndUpTheSame
CHECK_DEADLOCK FALSE
