SPECIFICATION LiveSpec
CONSTANTS
    Procs = {p1, p2}
    Versions = {v1, v2}
    Modules = {m1}
    Last = 3
    DirEntries = {1}
    BindEntries = {2, 3}
    CanSkip = TRUE
    CanFail = FALSE
    CanCrash = FALSE
    NoLink = NoLink
    Directory = Directory
    Remains = Remains
    Absent = Absent
INVARIANTS QuiescentTreesWhole
PROPERTIES RemovedComesBack
