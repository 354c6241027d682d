SPECIFICATION Spec
CONSTANTS
  NameFiles <- MCNameFiles
  SuffixFile <- MCSuffixFile
  Required <- MCRequired
  PatchOrder <- MCPatchOrder
  Upstreams <- MCUpstreams
  Exports <- MCExports
  MaxRuns = 2
  Absent = Absent
  Partial = Partial
  NoTree = NoTree
  NoDir = NoDir
  None = None
INVARIANTS
  NamesAgree
PROPERTIES
  EndsPatched
  CopiedIsIntended
  GuardClosed
