SPECIFICATION Spec
CONSTANTS
    Procs = {p1}
    Versions = {v1}
    Modules = {m1}
    Last = 3
    DirEntries = {1, 2}
    BindEntries = {2, 3}
    CanSkip = TRUE
    CanFail = TRUE
    CanCrash = TRUE
    NoLink = NoLink
    Directory = Directory
    Remains = Remains
    Absent = Absent
INVARIANTS DoneMeansComplete
