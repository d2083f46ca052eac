\* A design with a circular source= attribute and undo disabled.
SPECIFICATION HSpec
CONSTANTS
  a1 = a1
  a2 = a2
  b1 = b1
  b2 = b2
  c1 = c1
  s1 = s1
  fA = fA
  fB = fB
  fC = fC
  fS = fS
  drawn = drawn
  NoPage = NoPage
  NoObjects = NoObjects
  EmptyPage = EmptyPage
  Pages = {a1, b1, b2, c1, s1}
  FileOf <- MCFileOf
  Contents = {drawn}
  Links <- MCLinks
  NoLink <- MCNoLink
  Openable = {fA, fB, fC}
  SourcesIn <- LoopSources
  SymbolsIn <- TwoSymbols
  Library = {fA, fB, fC}
  MaxControl = 2
  UndoControl = FALSE
  UndoType = "memory"
  UndoLevels = 5
  UNDO_PADDING = 5
  CheckPeriod = 10
  Consolidate <- MCConsolidate
  WritesMayFail = FALSE
  MaxFiles = 1
  MaxNodes = 2
INVARIANT HierarchyHasNoCycle
CHECK_DEADLOCK FALSE
