\* Memory undo on a page that is never empty.
SPECIFICATION Spec
CONSTANTS
  p1 = p1
  p2 = p2
  blank = blank
  c1 = c1
  c2 = c2
  c3 = c3
  l0 = l0
  l1 = l1
  NoObjects = NoObjects
  Links = {l0}
  NoLink = l0
  Pages = {p1}
  Contents = {c1, c2, c3}
  EmptyPage = blank
  UndoControl = TRUE
  UndoType = "memory"
  UndoLevels = 2
  UNDO_PADDING = 1
  CheckPeriod = 10
  Consolidate <- JoinNets
  WritesMayFail = FALSE
  MaxFiles = 1
  MaxNodes = 7
INVARIANT ContentMatchesNode
PROPERTIES TrimKeepsUndoLevels ImplementsAbstractUndo
CHECK_DEADLOCK FALSE
