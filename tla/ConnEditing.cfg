\* Nets and components that are placed, changed and removed, by scripts too.
SPECIFICATION Spec
CONSTANTS
  n1 = n1
  n2 = n2
  n3 = n3
  b1 = b1
  px = px
  nx = nx
  py = py
  X = X
  Y = Y
  NoParent = NoParent
  Objects = {n1, px, nx, py}
  Type <- MCType
  Parent <- MCParent
  WhichEnd <- MCWhichEnd
  Placements <- MCPlacements
  Shapes <- MCShapes
  Moves <- HalfTurn
  Consolidate = FALSE
  Scripts = TRUE
INVARIANTS ConnTypeOK ConnectionsMutual ConnectionsExact
