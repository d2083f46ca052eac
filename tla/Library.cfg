\* Two sources whose files change while the program runs.
SPECIFICATION Spec
CONSTANTS
  s1 = s1
  s2 = s2
  a = a
  b = b
  Sources = {s1, s2}
  Symbols = {x1, x2, x3}
  Names = {a, b}
  Initially <- MCInitially
  NoSymbol = NoSymbol
  MaxCache = 2
  MinCache = 1
  MaxChanges = 1
  MaxClock = 1
SYMMETRY Memory
INVARIANTS ClibTypeOK SearchesAreCurrent CachedDataIsItsSymbols
PROPERTIES AnswersAreWhatWasAsked UpdateReadsTheSource EvictsOldest
