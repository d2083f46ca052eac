\* Runs of the command with any options, one after the other.
SPECIFICATION Spec
CONSTANTS
  None = None
  t1 = t1
  t2 = t2
  t3 = t3
  t4 = t4
  sym = sym
  Texts = {t1, t2, t3, t4}
  Symbols = {sym}
  LastPage = 2
  PageOf <- MCPageOf
  SymbolOf <- MCSymbolOf
  NumSlots <- MCNumSlots
  OwnSlot <- MCOwnSlot
  Numbers = {1}
  Starts = {1, 2}
SYMMETRY Symmetric
CONSTRAINT OneRun
INVARIANTS NumbersAreUnique SlotsAreUsedOnce
