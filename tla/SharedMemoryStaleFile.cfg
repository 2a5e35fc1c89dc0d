SPECIFICATION Spec
CONSTANTS
    Names = {n1, n2, n3}
    NumDirs = 2
    Data <- JsonAndLarge
    MinBytes = 2
    MaxBytes = 4
    MaxOutputs = 2
    Absent = Absent
    Blank = Blank
    Partial = Partial
    NoData = NoData
    Idle = Idle
    FaultSets <- SizeFails
INVARIANT FreedIsGone
