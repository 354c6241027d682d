SPECIFICATION Spec
CONSTANTS
    GoCatalogs = {go1, go2}
    CxxCatalogs = {simple}
    Objects = {o1, o2}
    Tables = {tab}
    MaxDepth = 5
    Null = Null
INVARIANTS ObjectComesThrough ErrorsAreReported 
