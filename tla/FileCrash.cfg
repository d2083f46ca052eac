\* A file and a new page, saved under either name; saves fail and the program crashes.
SPECIFICATION Spec
CONSTANTS
  p1 = p1
  p2 = p2
  nA = nA
  new = new
  blank = blank
  c1 = c1
  c2 = c2
  NoName = NoName
  Missing = Missing
  EmptyPage = blank
  Initially <- OneFile
  Lower <- Distinct
  Pages = {p1}
  Names = {nA, new}
  Untitled = {new}
  Contents = {blank, c1}
  MakeBackups = TRUE
  UndoControl = TRUE
  Autosaving = TRUE
  WritesMayFail = TRUE
  MaxClock = 1
INVARIANTS FileTypeOK SavedVersionSurvives UnchangedIsSaved
PROPERTIES AutosaveWhenDue CrashedWorkIsOffered
