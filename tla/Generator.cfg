SPECIFICATION GenSpec
CONSTANTS
  a = a
  b = b
  c = c
  Libs <- MCLibs
  DepLists <- MCDepLists
  Configs <- MCConfigs
  Leftovers <- MCLeftovers
  NoLib = NoLib
  Absent = Absent
  Old = "old"
SYMMETRY Symmetry
INVARIANTS RecursionIsBounded ResultIsReachable IncludesExist CallsAreDefined
