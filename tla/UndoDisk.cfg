\* Disk undo on two pages that share the file counter, with failing writes.
SPECIFICATION Spec
CONSTANTS
  p1 = p1
  p2 = p2
  blank = blank
  c1 = c1
  c2 = c2
  c3 = c3
  l0 = l0
  l1 = l1
  NoObjects = NoObjects
  Links = {l0}
  NoLink = l0
  Pages = {p1, p2}
  Contents = {c1}
  EmptyPage = blank
  UndoControl = TRUE
  UndoType = "disk"
  UndoLevels = 1
  UNDO_PADDING = 1
  CheckPeriod = 2
  Consolidate <- KeepNets
  WritesMayFail = TRUE
  MaxFiles = 4
  MaxNodes = 3
INVARIANTS TypeOK ContentMatchesNode UndoFilesIntact QuitLeavesNoFiles
PROPERTY FilesFollowNodes
CHECK_DEADLOCK FALSE
