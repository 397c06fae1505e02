CONSTANTS
  Colonies = {"c"}
  MaxSkills = 3
  MaxUpdates = 3
  MaxRoots = 1
  MaxNonces = 2
  MaxHomeSkills = 1
  Parents = {1}
  MaxOutages = 1
  MaxMessages = 3
  Quiet = TRUE
  MaxSkips = 1
  MaxResubmits = 1
SPECIFICATION Spec
INVARIANTS LogFollowsEmissions TransactionIsItsOwn
PROPERTIES RootHashNeverOlder EventuallyLogged
CHECK_DEADLOCK FALSE
