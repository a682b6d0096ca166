CONSTANTS
    Users = {a, b}
    Folders = {"Junk"}
    Junk = "Junk"
    OwnCopies = TRUE
    MaxMbox = 3
    MaxKey = 2
    MaxUid = 3
    MaxOps = 5
    MaxFaults = 1
SYMMETRY MCSymmetry
SPECIFICATION Spec
CHECK_DEADLOCK FALSE
INVARIANTS BodyKept BlobsAccounted
PROPERTIES UidsFresh
