SPECIFICATION Spec
CONSTANTS
    MaxLeaves = 17
    Width = 5
    Runs = {1, 2, 17}
INVARIANTS
    SearchSound
    ClientNeverRefused
PROPERTIES
    ImplementsBinarySearch
    BothFinish
CHECK_DEADLOCK FALSE
