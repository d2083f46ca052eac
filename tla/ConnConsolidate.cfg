\* Nets that meet, with a bus and a pin, and net consolidation.
SPECIFICATION FairSpec
CONSTANTS
  n1 = n1
  n2 = n2
  n3 = n3
  b1 = b1
  px = px
  nx = nx
  py = py
  X = X
  Y = Y
  NoParent = NoParent
  Objects = {n1, n2, n3, b1, py}
  Type <- MCType
  Parent <- MCParent
  WhichEnd <- MCWhichEnd
  Placements <- AbutPlacements
  Shapes <- NoShapes
  Moves <- HalfTurn
  Consolidate = TRUE
  Scripts = FALSE
INVARIANTS ConnectionsComplete ConnectionsMeet
PROPERTIES ConsolidationKeepsAbuttingNets ConsolidationEndsMerged
