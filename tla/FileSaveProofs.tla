--------------------------- MODULE FileSaveProofs ---------------------------
(***************************************************************************)
(* For any pages, names and schematics, whatever fails and whenever the    *)
(* program crashes: the variables of FileSave keep their types, the        *)
(* version saved last under a name stays on disk, what an unchanged page   *)
(* shows can be found there, autosaves that are due are written, and the   *)
(* user is asked about those a crash left behind.                          *)
(***************************************************************************)
EXTENDS FileSave, TLAPS

-----------------------------------------------------------------------------
(* The pages and the files after o_undo_savestate. *)

\* A page with some fields assigned is still a page.
LEMMA NotOpenType == NotOpen \in PageRecord
  BY FileAssumption DEF NotOpen, PageRecord

\* Opening a file makes a page of the right type, if an autosave that is loaded exists.
LEMMA OpenedType ==
  ASSUME FileTypeOK, NEW n \in Names, NEW load \in BOOLEAN,
         load => autosave[n] # Missing
  PROVE  Opened(n, load) \in PageRecord
<1>1. autosave[n] \in Stored /\ file[n] \in Stored
  BY DEF FileTypeOK
<1>2. (IF load THEN autosave[n] ELSE IF file[n] = Missing THEN EmptyPage ELSE file[n])
        \in Contents
  BY <1>1, FileAssumption DEF Stored
<1> QED
  BY <1>2, NotOpenType DEF Opened, PageRecord

\* o_undo_savestate keeps the types of what it writes.
LEMMA SavestateType ==
  ASSUME FileTypeOK, NEW p,
         NEW pg \in [Pages -> PageRecord],
         NEW ok \in Written(Flagged(pg)),
         o_undo_savestate(pg, p, ok)
  PROVE  /\ autosave' \in [Names -> Stored]
         /\ auto_mtime' \in [Names -> 0 .. MaxClock]
         /\ page' \in [Pages -> PageRecord]
         /\ ok \subseteq Pages
<1>1. ok \subseteq Flagged(pg) /\ ok \subseteq Pages
  BY DEF Written, Flagged
<1>2. autosave' \in [Names -> Stored]
  BY DEF o_undo_savestate, o_autosave_backups
<1>3. auto_mtime' \in [Names -> 0 .. MaxClock]
  <2>1. clock \in 0 .. MaxClock /\ auto_mtime \in [Names -> 0 .. MaxClock]
    BY DEF FileTypeOK
  <2> QED
    BY <2>1 DEF o_undo_savestate, o_autosave_backups
<1>4. page' \in [Pages -> PageRecord]
  <2>1. UndoControl \in BOOLEAN /\ Autosaving \in BOOLEAN
    BY FileAssumption
  <2>2. page' = [q \in Pages |->
          [pg[q] EXCEPT !.do_autosave_backup = @ /\ q \notin ok,
                        !.ops_since_last_backup = (@ /\ q \notin ok)
                                               \/ (q = p /\ UndoControl /\ Autosaving)]]
    BY DEF o_undo_savestate
  <2>3. ASSUME NEW q \in Pages
        PROVE  page'[q] \in PageRecord
    <3>1. pg[q] \in PageRecord
      OBVIOUS
    <3>2. (pg[q].do_autosave_backup /\ q \notin ok) \in BOOLEAN
      OBVIOUS
    <3>3. ((pg[q].ops_since_last_backup /\ q \notin ok)
             \/ (q = p /\ UndoControl /\ Autosaving)) \in BOOLEAN
      OBVIOUS
    <3> QED
      BY <2>2, <3>1, <3>2, <3>3 DEF PageRecord
  <2> QED
    BY <2>2, <2>3
<1> QED
  BY <1>1, <1>2, <1>3, <1>4

\* The fates after some autosaves were removed or overwritten.
LEMMA TouchedType ==
  ASSUME FileTypeOK, NEW names
  PROVE  Touched(names) \in [Names -> {"none", "orphan", "lost"}]
  BY DEF FileTypeOK, Touched

-----------------------------------------------------------------------------
(* Types. *)

LEMMA InitType == Init => FileTypeOK
<1> SUFFICES ASSUME Init PROVE FileTypeOK
  OBVIOUS
<1>1. page \in [Pages -> PageRecord]
  BY NotOpenType DEF Init
<1>2. 0 \in 0 .. MaxClock
  BY FileAssumption
<1> QED
  BY <1>1, <1>2, FileAssumption DEF Init, FileTypeOK, Stored

\* The actions that save the state of a page in between.
LEMMA EditingType ==
  ASSUME FileTypeOK, NEW p \in Pages,
         \/ \E n \in Names : OpenFile(p, n)
         \/ \E n \in Names : NewPage(p, n)
         \/ \E c \in Contents : EditPage(p, c)
  PROVE  FileTypeOK'
<1>1. ASSUME NEW n \in Names, OpenFile(p, n)
      PROVE  FileTypeOK'
  <2>1. PICK load \in BOOLEAN :
          /\ load => autosave[n] # Missing
          /\ \E ok \in Written(Flagged([page EXCEPT ![p] = Opened(n, load)])) :
               /\ o_undo_savestate([page EXCEPT ![p] = Opened(n, load)], p, ok)
               /\ fate' \in [Names -> {"none", "orphan", "lost"}]
               /\ due' = [q \in Pages |-> IF q \in ok \cup {p} THEN "no" ELSE due[q]]
    <3> DEFINE asked == file[n] # Missing /\ f_has_active_autosave(n)
    <3>1. PICK load \in IF asked THEN BOOLEAN ELSE {FALSE} :
            \E ok \in Written(Flagged([page EXCEPT ![p] = Opened(n, load)])) :
               /\ o_undo_savestate([page EXCEPT ![p] = Opened(n, load)], p, ok)
               /\ fate' = [Touched({[page EXCEPT ![p] = Opened(n, load)][q].name : q \in ok})
                             EXCEPT ![n] = IF asked THEN "none" ELSE @]
               /\ due' = [q \in Pages |-> IF q \in ok \cup {p} THEN "no" ELSE due[q]]
      BY <1>1 DEF OpenFile
    <3>2. fate' \in [Names -> {"none", "orphan", "lost"}]
      BY <3>1, TouchedType
    <3>3. load \in BOOLEAN /\ (load => autosave[n] # Missing)
      BY DEF f_has_active_autosave
    <3> QED
      BY <3>1, <3>2, <3>3
  <2> DEFINE pg == [page EXCEPT ![p] = Opened(n, load)]
  <2>2. PICK ok \in Written(Flagged(pg)) :
               /\ o_undo_savestate(pg, p, ok)
               /\ fate' \in [Names -> {"none", "orphan", "lost"}]
               /\ due' = [q \in Pages |-> IF q \in ok \cup {p} THEN "no" ELSE due[q]]
    BY <2>1
  <2>3. pg \in [Pages -> PageRecord]
    BY <2>1, OpenedType DEF FileTypeOK
  <2> HIDE DEF pg
  <2>4. /\ autosave' \in [Names -> Stored]
        /\ auto_mtime' \in [Names -> 0 .. MaxClock]
        /\ page' \in [Pages -> PageRecord]
    BY <2>2, <2>3, SavestateType
  <2>5. due' \in [Pages -> {"no", "edited", "due"}]
    BY <2>2 DEF FileTypeOK
  <2> QED
    BY <1>1, <2>2, <2>4, <2>5 DEF OpenFile, FileTypeOK, Idle
<1>2. ASSUME NEW n \in Names, NewPage(p, n)
      PROVE  FileTypeOK'
  <2> DEFINE pg == [page EXCEPT ![p] = [NotOpen EXCEPT !.name = n]]
  <2>1. PICK ok \in Written(Flagged(pg)) :
               /\ o_undo_savestate(pg, p, ok)
               /\ fate' = Touched({pg[q].name : q \in ok})
               /\ due' = [q \in Pages |-> IF q \in ok \cup {p} THEN "no" ELSE due[q]]
    BY <1>2 DEF NewPage
  <2>2. pg \in [Pages -> PageRecord]
    <3>1. [NotOpen EXCEPT !.name = n] \in PageRecord
      BY NotOpenType DEF PageRecord
    <3> QED
      BY <3>1 DEF FileTypeOK
  <2> HIDE DEF pg
  <2>3. /\ autosave' \in [Names -> Stored]
        /\ auto_mtime' \in [Names -> 0 .. MaxClock]
        /\ page' \in [Pages -> PageRecord]
    BY <2>1, <2>2, SavestateType
  <2>4. /\ due' \in [Pages -> {"no", "edited", "due"}]
        /\ fate' \in [Names -> {"none", "orphan", "lost"}]
    BY <2>1, TouchedType DEF FileTypeOK
  <2> QED
    BY <1>2, <2>3, <2>4 DEF NewPage, FileTypeOK, Idle
<1>3. ASSUME NEW c \in Contents, EditPage(p, c)
      PROVE  FileTypeOK'
  <2> DEFINE pg == [page EXCEPT ![p].content = c, ![p].CHANGED = TRUE]
  <2>1. PICK ok \in Written(Flagged(pg)) :
               /\ o_undo_savestate(pg, p, ok)
               /\ fate' = Touched({pg[q].name : q \in ok})
               /\ due' = [q \in Pages |-> IF q \in ok THEN "no"
                                      ELSE IF q = p /\ due[q] = "no" THEN "edited"
                                      ELSE due[q]]
    BY <1>3 DEF EditPage
  <2>2. pg \in [Pages -> PageRecord]
    BY DEF FileTypeOK, PageRecord
  <2> HIDE DEF pg
  <2>3. /\ autosave' \in [Names -> Stored]
        /\ auto_mtime' \in [Names -> 0 .. MaxClock]
        /\ page' \in [Pages -> PageRecord]
    BY <2>1, <2>2, SavestateType
  <2>4. /\ due' \in [Pages -> {"no", "edited", "due"}]
        /\ fate' \in [Names -> {"none", "orphan", "lost"}]
    BY <2>1, TouchedType DEF FileTypeOK
  <2> QED
    BY <1>3, <2>3, <2>4 DEF EditPage, FileTypeOK, Idle
<1> QED
  BY <1>1, <1>2, <1>3

LEMMA StepType == FileTypeOK /\ [Next]_vars => FileTypeOK'
<1> SUFFICES ASSUME FileTypeOK, [Next]_vars PROVE FileTypeOK'
  OBVIOUS
<1>1. ASSUME NEW p \in Pages, NEW n \in Names, OpenFile(p, n) \/ NewPage(p, n)
      PROVE  FileTypeOK'
  BY <1>1, EditingType
<1>2. ASSUME NEW S \in SUBSET Pages, Deleted(S)
      PROVE  /\ autosave' \in [Names -> Stored]
             /\ fate' \in [Names -> {"none", "orphan", "lost"}]
             /\ page' \in [Pages -> PageRecord]
             /\ due' \in [Pages -> {"no", "edited", "due"}]
             /\ overwritten' \subseteq Pages
  BY <1>2, NotOpenType, TouchedType DEF Deleted, FileTypeOK, Stored
<1>3. ASSUME NEW p \in Pages, ClosePage(p)
      PROVE  FileTypeOK'
  BY <1>2, <1>3 DEF ClosePage, FileTypeOK, Idle
<1>4. ASSUME NEW p \in Pages, NEW c \in Contents, EditPage(p, c)
      PROVE  FileTypeOK'
  BY <1>4, EditingType
<1>5. ASSUME NEW p \in Pages, NEW c \in Contents, EditUndo(p, c)
      PROVE  FileTypeOK'
  <2>1. page' \in [Pages -> PageRecord]
    <3>1. page' = [page EXCEPT ![p].content = c, ![p].CHANGED = TRUE]
      BY <1>5 DEF EditUndo
    <3>2. page \in [Pages -> PageRecord]
      BY DEF FileTypeOK
    <3> QED
      BY <3>1, <3>2 DEF PageRecord
  <2> QED
    BY <1>5, <2>1 DEF EditUndo, FileTypeOK, Idle, disk, ghost
<1>6. ASSUME Timer
      PROVE  FileTypeOK'
  <2>1. page' \in [Pages -> PageRecord]
    BY <1>6 DEF Timer, FileTypeOK, PageRecord
  <2>2. due' \in [Pages -> {"no", "edited", "due"}]
    BY <1>6 DEF Timer, FileTypeOK
  <2> QED
    BY <1>6, <2>1, <2>2 DEF Timer, FileTypeOK, Idle, disk
<1>7. ASSUME NEW p \in Pages, NEW n \in Names, SaveStarts(p, n)
      PROVE  FileTypeOK'
  <2>1. backup' \in [Names -> Stored] /\ file' \in [Names -> Stored]
    BY <1>7 DEF SaveStarts, FileTypeOK, Stored
  <2>2. saving' \in [page : Pages, name : Names]
    BY <1>7 DEF SaveStarts, FileTypeOK
  <2>3. saving'.page = p /\ IsOpen(p)'
    BY <1>7 DEF SaveStarts, IsOpen
  <2> QED
    BY <1>7, <2>1, <2>2, <2>3 DEF SaveStarts, FileTypeOK, ghost, IsOpen
<1>8. ASSUME SaveSucceeds
      PROVE  FileTypeOK'
  <2> DEFINE p == saving.page
             n == saving.name
  <2>1. p \in Pages /\ n \in Names
    BY <1>8 DEF SaveSucceeds, FileTypeOK
  <2>2. page[p].content \in Stored
    BY <2>1 DEF FileTypeOK, PageRecord, Stored
  <2>3. /\ file' \in [Names -> Stored]
        /\ saved' \in [Names -> Stored]
        /\ mtime' \in [Names -> 0 .. MaxClock]
        /\ due' \in [Pages -> {"no", "edited", "due"}]
    BY <1>8, <2>1, <2>2 DEF SaveSucceeds, FileTypeOK
  <2>4. page' \in [Pages -> PageRecord]
    <3> DEFINE r == [page[p] EXCEPT !.name = Renamed(page[p].name, n),
                                    !.CHANGED = FALSE,
                                    !.saved_since_first_loaded = TRUE,
                                    !.ops_since_last_backup = FALSE,
                                    !.do_autosave_backup = FALSE]
    <3>1. page \in [Pages -> PageRecord]
      BY DEF FileTypeOK
    <3>2. Renamed(page[p].name, n) \in Names \cup {NoName}
      BY <2>1, <3>1 DEF PageRecord, Renamed
    <3>3. r \in PageRecord
      BY <2>1, <3>1, <3>2 DEF PageRecord
    <3>4. page' = [page EXCEPT ![p] = r]
      BY <1>8 DEF SaveSucceeds
    <3> QED
      BY <3>1, <3>3, <3>4
  <2> QED
    BY <1>8, <2>3, <2>4 DEF SaveSucceeds, FileTypeOK
<1>9. ASSUME SaveFails
      PROVE  FileTypeOK'
  BY <1>9 DEF SaveFails, FileTypeOK, disk, ghost
<1>10. ASSUME Quit
       PROVE  FileTypeOK'
  BY <1>2, <1>10 DEF Quit, FileTypeOK, Idle
<1>11. ASSUME Crash
       PROVE  FileTypeOK'
  BY <1>11, NotOpenType DEF Crash, FileTypeOK, disk
<1>12. ASSUME Start
       PROVE  FileTypeOK'
  BY <1>12 DEF Start, FileTypeOK, disk, ghost, IsOpen
<1>13. ASSUME Tick
       PROVE  FileTypeOK'
  BY <1>13, FileAssumption DEF Tick, FileTypeOK, disk, ghost, IsOpen
<1>14. ASSUME UNCHANGED vars
       PROVE  FileTypeOK'
  BY <1>14 DEF vars, disk, ghost, FileTypeOK, IsOpen
<1> QED
  BY <1>1, <1>3, <1>4, <1>5, <1>6, <1>7, <1>8, <1>9, <1>10, <1>11, <1>12, <1>13, <1>14
     DEF Next

\* The variables of FileSave keep their types: in particular the page a save has
\* begun for stays open until the save ends, and no page shows a missing file.
THEOREM FileTypeCorrect == Spec => []FileTypeOK
  BY InitType, StepType, PTL DEF Spec

-----------------------------------------------------------------------------
(* The version saved last. *)

LEMMA StepSurvives ==
  FileTypeOK /\ SavedVersionSurvives /\ [Next]_vars => SavedVersionSurvives'
<1> SUFFICES ASSUME FileTypeOK, SavedVersionSurvives, [Next]_vars
             PROVE  SavedVersionSurvives'
  OBVIOUS
<1>1. CASE UNCHANGED <<file, backup, saved>>
  BY <1>1 DEF SavedVersionSurvives
<1>2. ASSUME NEW p \in Pages, NEW n \in Names, SaveStarts(p, n)
      PROVE  SavedVersionSurvives'
  <2>1. CASE ~BackupFirst(p, n)
    BY <1>1, <1>2, <2>1 DEF SaveStarts, ghost
  <2>2. CASE BackupFirst(p, n)
    <3>1. /\ backup' = [backup EXCEPT ![n] = file[n]]
          /\ file' = [file EXCEPT ![n] = Missing]
          /\ saved' = saved
          /\ file[n] # Missing
      BY <1>2, <2>2 DEF SaveStarts, BackupFirst, ghost
    <3> QED
      BY <3>1 DEF SavedVersionSurvives, FileTypeOK
  <2> QED
    BY <2>1, <2>2
<1>3. CASE SaveSucceeds
  BY <1>3 DEF SaveSucceeds, SavedVersionSurvives, FileTypeOK
<1> QED
  BY <1>1, <1>2, <1>3
     DEF Next, vars, disk, ghost, OpenFile, NewPage, ClosePage, EditPage, EditUndo, Timer,
         SaveFails, Quit, Crash, Start, Tick

\* f_save: whatever fails and whenever the program crashes, the version saved last
\* under a name is on disk, in the file or, if that is gone, in its backup.
THEOREM SavedVersionsSurvive == Spec => []SavedVersionSurvives
<1>1. Init => SavedVersionSurvives
  BY DEF Init, SavedVersionSurvives
<1> QED
  BY <1>1, InitType, StepType, StepSurvives, PTL DEF Spec

-----------------------------------------------------------------------------
(* What an unchanged page shows. *)

\* What a page called n may show although it counts as unchanged.
OnDisk(n, c) ==
  \/ c = file[n]
  \/ file[n] = Missing /\ c \in {backup[n], EmptyPage}
  \/ n \in Untitled /\ c = EmptyPage

\* UnchangedIsSaved, and during a save too.
Kept ==
  \A p \in Pages \ overwritten :
    IsOpen(p) /\ ~page[p].CHANGED => OnDisk(page[p].name, page[p].content)

\* No two names are the same name in other case.
NamesDifferInMore == \A a, b \in Names : Lower[a] = Lower[b] => a = b

\* Saving an undo state changes only what is to be autosaved.
LEMMA SavestateShows ==
  ASSUME NEW pg \in [Pages -> PageRecord], NEW p, NEW ok,
         o_undo_savestate(pg, p, ok), NEW q \in Pages
  PROVE  /\ page'[q].name = pg[q].name
         /\ page'[q].content = pg[q].content
         /\ page'[q].CHANGED = pg[q].CHANGED
<1>1. pg[q] \in PageRecord
  OBVIOUS
<1> QED
  BY <1>1 DEF o_undo_savestate, PageRecord

\* A step that writes no file keeps Kept if each page is as it was, is closed, counts
\* as changed, or shows what its file has.
LEMMA KeptIfPagesAre ==
  ASSUME Kept, UNCHANGED <<file, backup>>,
         \A q \in Pages \ overwritten' :
           \/ page'[q].name = NoName
           \/ page'[q].CHANGED
           \/ OnDisk(page'[q].name, page'[q].content)
           \/ /\ q \notin overwritten
              /\ page'[q].name = page[q].name
              /\ page'[q].content = page[q].content
              /\ page'[q].CHANGED = page[q].CHANGED
  PROVE  Kept'
<1> SUFFICES ASSUME NEW q \in (Pages \ overwritten)',
                    IsOpen(q)', ~page'[q].CHANGED
             PROVE  OnDisk(page[q].name, page[q].content)'
  BY DEF Kept
<1>1. CASE OnDisk(page'[q].name, page'[q].content)
  BY <1>1 DEF OnDisk
<1>2. CASE /\ q \notin overwritten
           /\ page'[q].name = page[q].name
           /\ page'[q].content = page[q].content
           /\ page'[q].CHANGED = page[q].CHANGED
  <2>1. OnDisk(page[q].name, page[q].content)
    BY <1>2 DEF Kept, IsOpen
  <2> QED
    BY <1>2, <2>1 DEF OnDisk
<1> QED
  BY <1>1, <1>2 DEF IsOpen

\* The actions that save the state of a page.
LEMMA EditingKeeps ==
  ASSUME FileTypeOK, Kept, NEW p \in Pages,
         \/ \E n \in Names : OpenFile(p, n)
         \/ \E n \in Names : NewPage(p, n)
         \/ \E c \in Contents : EditPage(p, c)
  PROVE  Kept'
<1>1. ASSUME NEW n \in Names, OpenFile(p, n)
      PROVE  Kept'
  <2> DEFINE asked == file[n] # Missing /\ f_has_active_autosave(n)
  <2>1. PICK load \in IF asked THEN BOOLEAN ELSE {FALSE} :
          \E ok \in Written(Flagged([page EXCEPT ![p] = Opened(n, load)])) :
            o_undo_savestate([page EXCEPT ![p] = Opened(n, load)], p, ok)
    BY <1>1 DEF OpenFile
  <2> DEFINE pg == [page EXCEPT ![p] = Opened(n, load)]
  <2>2. PICK ok : o_undo_savestate(pg, p, ok)
    BY <2>1
  <2>3. load \in BOOLEAN /\ (load => autosave[n] # Missing)
    BY DEF f_has_active_autosave
  <2>4. /\ pg \in [Pages -> PageRecord]
        /\ pg[p] = Opened(n, load)
        /\ \A q \in Pages \ {p} : pg[q] = page[q]
    BY <2>3, OpenedType DEF FileTypeOK
  <2> HIDE DEF pg
  <2>5. /\ Opened(n, load).name = n
        /\ Opened(n, load).CHANGED = load
        /\ ~load => Opened(n, load).content = IF file[n] = Missing THEN EmptyPage ELSE file[n]
    <3>1. NotOpen \in PageRecord
      BY NotOpenType
    <3> QED
      BY <3>1, <2>3 DEF Opened, PageRecord
  <2>6. ~load => OnDisk(n, Opened(n, load).content)
    BY <2>5 DEF OnDisk
  <2>7. UNCHANGED <<file, backup, overwritten>>
    BY <1>1 DEF OpenFile
  <2>8. \A q \in Pages \ overwritten' :
           \/ page'[q].name = NoName
           \/ page'[q].CHANGED
           \/ OnDisk(page'[q].name, page'[q].content)
           \/ /\ q \notin overwritten
              /\ page'[q].name = page[q].name
              /\ page'[q].content = page[q].content
              /\ page'[q].CHANGED = page[q].CHANGED
    <3> TAKE q \in Pages \ overwritten'
    <3>1. /\ page'[q].name = pg[q].name
          /\ page'[q].content = pg[q].content
          /\ page'[q].CHANGED = pg[q].CHANGED
      BY <2>2, <2>4, SavestateShows
    <3>2. CASE q = p
      BY <2>3, <2>4, <2>5, <2>6, <3>1, <3>2
    <3>3. CASE q # p
      BY <2>4, <2>7, <3>1, <3>3
    <3> QED
      BY <3>2, <3>3
  <2> QED
    BY <2>7, <2>8, KeptIfPagesAre
<1>2. ASSUME NEW n \in Names, NewPage(p, n)
      PROVE  Kept'
  <2> DEFINE pg == [page EXCEPT ![p] = [NotOpen EXCEPT !.name = n]]
  <2>1. PICK ok : o_undo_savestate(pg, p, ok)
    BY <1>2 DEF NewPage
  <2>2. /\ [NotOpen EXCEPT !.name = n] \in PageRecord
        /\ [NotOpen EXCEPT !.name = n].name = n
        /\ [NotOpen EXCEPT !.name = n].content = EmptyPage
    BY NotOpenType DEF PageRecord, NotOpen
  <2>3. /\ pg \in [Pages -> PageRecord]
        /\ pg[p].name = n /\ pg[p].content = EmptyPage
        /\ \A q \in Pages \ {p} : pg[q] = page[q]
    BY <2>2 DEF FileTypeOK
  <2> HIDE DEF pg
  <2>4. OnDisk(n, EmptyPage)
    BY <1>2 DEF OnDisk, NewPage
  <2>5. UNCHANGED <<file, backup, overwritten>>
    BY <1>2 DEF NewPage
  <2>6. \A q \in Pages \ overwritten' :
           \/ page'[q].name = NoName
           \/ page'[q].CHANGED
           \/ OnDisk(page'[q].name, page'[q].content)
           \/ /\ q \notin overwritten
              /\ page'[q].name = page[q].name
              /\ page'[q].content = page[q].content
              /\ page'[q].CHANGED = page[q].CHANGED
    <3> TAKE q \in Pages \ overwritten'
    <3>1. /\ page'[q].name = pg[q].name
          /\ page'[q].content = pg[q].content
          /\ page'[q].CHANGED = pg[q].CHANGED
      BY <2>1, <2>3, SavestateShows
    <3>2. CASE q = p
      BY <2>3, <2>4, <3>1, <3>2
    <3>3. CASE q # p
      BY <2>3, <2>5, <3>1, <3>3
    <3> QED
      BY <3>2, <3>3
  <2> QED
    BY <2>5, <2>6, KeptIfPagesAre
<1>3. ASSUME NEW c \in Contents, EditPage(p, c)
      PROVE  Kept'
  <2> DEFINE pg == [page EXCEPT ![p].content = c, ![p].CHANGED = TRUE]
  <2>1. PICK ok : o_undo_savestate(pg, p, ok)
    BY <1>3 DEF EditPage
  <2>2. /\ pg \in [Pages -> PageRecord]
        /\ pg[p].CHANGED = TRUE
        /\ \A q \in Pages \ {p} : pg[q] = page[q]
    <3>1. page \in [Pages -> PageRecord]
      BY DEF FileTypeOK
    <3>2. pg \in [Pages -> PageRecord]
      BY <3>1 DEF PageRecord
    <3>3. \A q \in Pages \ {p} : pg[q] = page[q]
      BY <3>1
    <3>4. pg[p] = [page[p] EXCEPT !.content = c, !.CHANGED = TRUE]
      BY <3>1
    <3>5. page[p] \in PageRecord
      BY <3>1
    <3>6. pg[p].CHANGED = TRUE
      BY <3>4, <3>5 DEF PageRecord
    <3> QED
      BY <3>2, <3>3, <3>6
  <2> HIDE DEF pg
  <2>3. UNCHANGED <<file, backup, overwritten>>
    BY <1>3 DEF EditPage
  <2>4. \A q \in Pages \ overwritten' :
           \/ page'[q].name = NoName
           \/ page'[q].CHANGED
           \/ OnDisk(page'[q].name, page'[q].content)
           \/ /\ q \notin overwritten
              /\ page'[q].name = page[q].name
              /\ page'[q].content = page[q].content
              /\ page'[q].CHANGED = page[q].CHANGED
    <3> TAKE q \in Pages \ overwritten'
    <3>1. /\ page'[q].name = pg[q].name
          /\ page'[q].content = pg[q].content
          /\ page'[q].CHANGED = pg[q].CHANGED
      BY <2>1, <2>2, SavestateShows
    <3>2. CASE q = p
      BY <2>2, <3>1, <3>2
    <3>3. CASE q # p
      BY <2>2, <2>3, <3>1, <3>3
    <3> QED
      BY <3>2, <3>3
  <2> QED
    BY <2>3, <2>4, KeptIfPagesAre
<1> QED
  BY <1>1, <1>2, <1>3

\* A save first moves the old version to the backup.
LEMMA SaveStartKeeps ==
  ASSUME FileTypeOK, Kept, NEW p \in Pages, NEW n \in Names, SaveStarts(p, n)
  PROVE  Kept'
<1> SUFFICES ASSUME NEW q \in Pages \ overwritten, IsOpen(q), ~page[q].CHANGED
             PROVE  OnDisk(page[q].name, page[q].content)'
  BY DEF Kept, SaveStarts, ghost, IsOpen
<1>1. OnDisk(page[q].name, page[q].content) /\ page' = page
  BY DEF Kept, SaveStarts
<1>2. page[q].name \in Names
  BY DEF FileTypeOK, PageRecord, IsOpen
<1>3. CASE ~BackupFirst(p, n)
  BY <1>1, <1>3 DEF SaveStarts, OnDisk
<1>4. CASE BackupFirst(p, n)
  <2>1. /\ backup' = [backup EXCEPT ![n] = file[n]]
        /\ file' = [file EXCEPT ![n] = Missing]
        /\ file[n] # Missing
    BY <1>4 DEF SaveStarts, BackupFirst
  <2>2. CASE page[q].name = n
    BY <1>1, <1>2, <2>1, <2>2 DEF OnDisk, FileTypeOK
  <2>3. CASE page[q].name # n
    BY <1>1, <1>2, <2>1, <2>3 DEF OnDisk, FileTypeOK
  <2> QED
    BY <2>2, <2>3
<1> QED
  BY <1>3, <1>4

\* It then writes what the page shows, and gives the page the name of the file; every
\* other page of that name is one whose file was overwritten.
LEMMA SaveEndKeeps ==
  ASSUME FileTypeOK, Kept, NamesDifferInMore, SaveSucceeds
  PROVE  Kept'
<1> DEFINE p == saving.page
           n == saving.name
<1>1. p \in Pages /\ n \in Names /\ IsOpen(p)
  BY DEF SaveSucceeds, FileTypeOK
<1>2. page[p].name \in Names /\ page[p] \in PageRecord
  BY <1>1 DEF FileTypeOK, PageRecord, IsOpen
<1>3. /\ file' = [file EXCEPT ![n] = page[p].content]
      /\ page' = [page EXCEPT ![p] = [@ EXCEPT !.name = Renamed(page[p].name, n),
                                               !.CHANGED = FALSE,
                                               !.saved_since_first_loaded = TRUE,
                                               !.ops_since_last_backup = FALSE,
                                               !.do_autosave_backup = FALSE]]
      /\ overwritten' = (overwritten \cup {q \in Pages : page[q].name = n}) \ {p}
      /\ backup' = backup
  BY DEF SaveSucceeds
<1> HIDE DEF p, n
<1>4. Renamed(page[p].name, n) = n
  BY <1>1, <1>2 DEF Renamed, NamesDifferInMore
<1>5. page'[p].name = n /\ page'[p].content = page[p].content
  BY <1>1, <1>2, <1>3, <1>4 DEF FileTypeOK, PageRecord
<1>6. \A q \in Pages \ {p} : page'[q] = page[q]
  BY <1>1, <1>3 DEF FileTypeOK
<1> SUFFICES ASSUME NEW q \in (Pages \ overwritten)', IsOpen(q)', ~page'[q].CHANGED
             PROVE  OnDisk(page[q].name, page[q].content)'
  BY DEF Kept
<1>7. CASE q = p
  BY <1>1, <1>3, <1>5, <1>7 DEF OnDisk, FileTypeOK
<1>8. CASE q # p
  <2>1. /\ page'[q] = page[q] /\ page[q].name # n /\ q \notin overwritten
        /\ IsOpen(q) /\ ~page[q].CHANGED
    BY <1>3, <1>6, <1>8 DEF IsOpen
  <2>2. OnDisk(page[q].name, page[q].content) /\ page[q].name \in Names
    BY <2>1 DEF Kept, FileTypeOK, PageRecord, IsOpen
  <2> QED
    BY <1>1, <1>3, <2>1, <2>2 DEF OnDisk, FileTypeOK
<1> QED
  BY <1>7, <1>8

\* Every step keeps what unchanged pages show on disk.
LEMMA StepKeeps ==
  FileTypeOK /\ Kept /\ NamesDifferInMore /\ [Next]_vars => Kept'
<1> SUFFICES ASSUME FileTypeOK, Kept, NamesDifferInMore, [Next]_vars PROVE Kept'
  OBVIOUS
<1>1. ASSUME NEW p \in Pages, NEW n \in Names, OpenFile(p, n) \/ NewPage(p, n)
      PROVE  Kept'
  BY <1>1, EditingKeeps
<1>2. ASSUME NEW p \in Pages, NEW c \in Contents, EditPage(p, c)
      PROVE  Kept'
  BY <1>2, EditingKeeps
<1>3. ASSUME NEW S \in SUBSET Pages, Deleted(S), UNCHANGED <<file, backup>>
      PROVE  Kept'
  <2>1. \A q \in Pages \ overwritten' :
          page'[q].name = NoName \/ (q \notin overwritten /\ page'[q] = page[q])
    BY <1>3 DEF Deleted, NotOpen
  <2> QED
    BY <1>3, <2>1, KeptIfPagesAre
<1>4. ASSUME NEW p \in Pages, ClosePage(p)
      PROVE  Kept'
  BY <1>3, <1>4 DEF ClosePage
<1>5. ASSUME NEW p \in Pages, NEW c \in Contents, EditUndo(p, c)
      PROVE  Kept'
  <2>1. \A q \in Pages : page[q] \in PageRecord
    BY DEF FileTypeOK
  <2>2. \A q \in Pages : page'[q].CHANGED \/ page'[q] = page[q]
    BY <1>5, <2>1 DEF EditUndo, FileTypeOK, PageRecord
  <2>3. UNCHANGED <<file, backup, overwritten>>
    BY <1>5 DEF EditUndo, disk, ghost
  <2> QED
    BY <2>2, <2>3, KeptIfPagesAre
<1>6. CASE Timer
  <2>1. \A q \in Pages : /\ page'[q].name = page[q].name
                         /\ page'[q].content = page[q].content
                         /\ page'[q].CHANGED = page[q].CHANGED
    <3> TAKE q \in Pages
    <3>1. page[q] \in PageRecord
      BY DEF FileTypeOK
    <3> QED
      BY <1>6, <3>1 DEF Timer, PageRecord
  <2>2. UNCHANGED <<file, backup, overwritten>>
    BY <1>6 DEF Timer, disk
  <2> QED
    BY <2>1, <2>2, KeptIfPagesAre
<1>7. ASSUME NEW p \in Pages, NEW n \in Names, SaveStarts(p, n)
      PROVE  Kept'
  BY <1>7, SaveStartKeeps
<1>8. CASE SaveSucceeds
  BY <1>8, SaveEndKeeps
<1>9. CASE Quit
  BY <1>3, <1>9 DEF Quit
<1>10. CASE Crash
  BY <1>10 DEF Crash, Kept, IsOpen, NotOpen
<1>11. CASE SaveFails \/ Start \/ Tick \/ UNCHANGED vars
  <2>1. UNCHANGED <<file, backup, page, overwritten>>
    BY <1>11 DEF SaveFails, Start, Tick, vars, disk, ghost
  <2> QED
    BY <2>1, KeptIfPagesAre
<1> QED
  BY <1>1, <1>2, <1>4, <1>5, <1>6, <1>7, <1>8, <1>9, <1>10, <1>11 DEF Next

\* page_close asks about a page that has changed and about no other: what any other page
\* shows is in its file or its backup, unless names differ in case only (x_window.c:827).
THEOREM UnchangedPagesAreSaved == NamesDifferInMore => (Spec => []UnchangedIsSaved)
<1> SUFFICES ASSUME NamesDifferInMore PROVE Spec => []UnchangedIsSaved
  OBVIOUS
<1>1. Init => Kept
  BY DEF Init, Kept, IsOpen, NotOpen
<1>2. FileTypeOK /\ Kept /\ [Next]_vars => Kept'
  BY StepKeeps
<1>3. Kept => UnchangedIsSaved
  BY DEF Kept, UnchangedIsSaved, OnDisk
<1> QED
  BY <1>1, <1>2, <1>3, InitType, StepType, PTL DEF Spec

-----------------------------------------------------------------------------
(* Autosaves: what o_undo_savestate makes of them. *)

\* Is the user asked about the autosave of n.
Offered(n) == file[n] # Missing /\ f_has_active_autosave(n)

\* The pages were pg, p the one that has changed, and those of ok are autosaved. Page p
\* was edited, or has just been opened and is not flagged.
Autosaved(p, pg, ok) ==
  /\ pg \in [Pages -> PageRecord]
  /\ ok \subseteq Flagged(pg)
  /\ o_undo_savestate(pg, p, ok)
  /\ \A q \in Pages \ {p} : pg[q] = page[q]
  /\ \A q \in Pages : IF q \in ok THEN due'[q] = "no" ELSE q # p => due'[q] = due[q]
  /\ \/ /\ IsOpen(p) /\ pg[p].name = page[p].name
        /\ pg[p].do_autosave_backup = page[p].do_autosave_backup
        /\ pg[p].ops_since_last_backup = page[p].ops_since_last_backup
        /\ due'[p] = "due" => due[p] = "due"
     \/ /\ due'[p] = "no" /\ ~pg[p].do_autosave_backup

\* What becomes of the autosaves crashes left: they are touched, or the user was asked.
\* A file that is opened without asking has none to be offered, or an invented name.
FatesMove(p, pg, ok) ==
  \A n \in Names :
    \/ fate'[n] = "none"
    \/ /\ fate'[n] = Touched({pg[q].name : q \in ok})[n]
       /\ pg[p].name = n => page[p].name = n \/ n \in Untitled \/ ~Offered(n)

\* Each of the actions that save the state of a page is of this form.
SavesState(p) ==
  /\ \E pg, ok : Autosaved(p, pg, ok) /\ FatesMove(p, pg, ok)
  /\ UNCHANGED <<file, mtime, clock>>

\* Opening a file.
LEMMA OpenSavesState ==
  ASSUME FileTypeOK, NEW p \in Pages, NEW n \in Names, OpenFile(p, n)
  PROVE  SavesState(p)
<1>1. PICK load \in IF Offered(n) THEN BOOLEAN ELSE {FALSE} :
        \E ok \in Written(Flagged([page EXCEPT ![p] = Opened(n, load)])) :
          /\ o_undo_savestate([page EXCEPT ![p] = Opened(n, load)], p, ok)
          /\ fate' = [Touched({[page EXCEPT ![p] = Opened(n, load)][q].name : q \in ok}) EXCEPT
                        ![n] = IF Offered(n) THEN "none" ELSE @]
          /\ due' = [q \in Pages |-> IF q \in ok \cup {p} THEN "no" ELSE due[q]]
  BY DEF OpenFile, Offered
<1> DEFINE pg == [page EXCEPT ![p] = Opened(n, load)]
<1> DEFINE T(ok) == Touched({pg[q].name : q \in ok})
<1>2. PICK ok \in Written(Flagged(pg)) :
        /\ o_undo_savestate(pg, p, ok)
        /\ fate' = [T(ok) EXCEPT ![n] = IF Offered(n) THEN "none" ELSE @]
        /\ due' = [q \in Pages |-> IF q \in ok \cup {p} THEN "no" ELSE due[q]]
  BY <1>1
<1>3. Opened(n, load) \in PageRecord
  BY OpenedType DEF Offered, f_has_active_autosave
<1>4. /\ pg \in [Pages -> PageRecord]
      /\ pg[p] = Opened(n, load)
      /\ \A q \in Pages \ {p} : pg[q] = page[q]
  BY <1>3 DEF FileTypeOK
<1>5. /\ Opened(n, load).name = n
      /\ Opened(n, load).do_autosave_backup = FALSE
  BY NotOpenType DEF Opened, PageRecord, NotOpen
<1>6. o_undo_savestate(pg, p, ok) /\ ok \subseteq Flagged(pg)
  BY <1>2 DEF Written
<1>7. \A m \in Names : fate'[m] = IF m = n /\ Offered(n) THEN "none" ELSE T(ok)[m]
  <2>1. fate' = [T(ok) EXCEPT ![n] = IF Offered(n) THEN "none" ELSE @]
    BY <1>2
  <2>2. DOMAIN T(ok) = Names
    BY DEF Touched
  <2> HIDE DEF T
  <2> QED
    BY <2>1, <2>2
<1> HIDE DEF pg
<1>8. FatesMove(p, pg, ok)
  BY <1>4, <1>5, <1>7 DEF FatesMove, T
<1>9. Autosaved(p, pg, ok)
  <2>1. \A q \in Pages : IF q \in ok THEN due'[q] = "no" ELSE q # p => due'[q] = due[q]
    BY <1>2
  <2>2. due'[p] = "no" /\ ~pg[p].do_autosave_backup
    BY <1>2, <1>4, <1>5
  <2> QED
    BY <1>4, <1>6, <2>1, <2>2 DEF Autosaved
<1> QED
  BY <1>8, <1>9 DEF SavesState, OpenFile

\* A new page.
LEMMA NewSavesState ==
  ASSUME FileTypeOK, NEW p \in Pages, NEW n \in Names, NewPage(p, n)
  PROVE  SavesState(p)
<1> DEFINE new == [NotOpen EXCEPT !.name = n]
           pg  == [page EXCEPT ![p] = new]
<1>1. PICK ok \in Written(Flagged(pg)) :
        /\ o_undo_savestate(pg, p, ok)
        /\ fate' = Touched({pg[q].name : q \in ok})
        /\ due' = [q \in Pages |-> IF q \in ok \cup {p} THEN "no" ELSE due[q]]
  BY DEF NewPage
<1>2. new \in PageRecord /\ new.name = n /\ ~new.do_autosave_backup
  BY NotOpenType DEF PageRecord, NotOpen
<1>3. /\ pg \in [Pages -> PageRecord]
      /\ pg[p] = new
      /\ \A q \in Pages \ {p} : pg[q] = page[q]
  BY <1>2 DEF FileTypeOK
<1>4. ok \subseteq Flagged(pg)
  BY DEF Written
<1> HIDE DEF pg, new
<1>5. FatesMove(p, pg, ok)
  BY <1>1, <1>2, <1>3 DEF FatesMove, NewPage
<1>6. Autosaved(p, pg, ok)
  <2>1. \A q \in Pages : IF q \in ok THEN due'[q] = "no" ELSE q # p => due'[q] = due[q]
    BY <1>1
  <2>2. due'[p] = "no" /\ ~pg[p].do_autosave_backup
    BY <1>1, <1>2, <1>3
  <2> QED
    BY <1>1, <1>3, <1>4, <2>1, <2>2 DEF Autosaved
<1> QED
  BY <1>5, <1>6 DEF SavesState, NewPage

\* The pages as o_undo_savestate finds them after an edit.
Edited(p, c) == [page EXCEPT ![p].content = c, ![p].CHANGED = TRUE]

\* An edit leaves everything but the schematic and the flag for changes.
LEMMA EditedPage ==
  ASSUME FileTypeOK, NEW p \in Pages, NEW c \in Contents
  PROVE  /\ Edited(p, c) \in [Pages -> PageRecord]
         /\ Edited(p, c)[p].name = page[p].name
         /\ Edited(p, c)[p].do_autosave_backup = page[p].do_autosave_backup
         /\ Edited(p, c)[p].ops_since_last_backup = page[p].ops_since_last_backup
         /\ \A q \in Pages \ {p} : Edited(p, c)[q] = page[q]
<1>1. page \in [Pages -> PageRecord]
  BY DEF FileTypeOK
<1>2. Edited(p, c) \in [Pages -> PageRecord]
  BY <1>1 DEF PageRecord, Edited
<1>3. \A q \in Pages \ {p} : Edited(p, c)[q] = page[q]
  BY <1>1 DEF Edited
<1>4. Edited(p, c)[p] = [page[p] EXCEPT !.content = c, !.CHANGED = TRUE]
  BY <1>1 DEF Edited
<1>5. page[p] \in PageRecord
  BY <1>1
<1>6. /\ Edited(p, c)[p].name = page[p].name
      /\ Edited(p, c)[p].do_autosave_backup = page[p].do_autosave_backup
      /\ Edited(p, c)[p].ops_since_last_backup = page[p].ops_since_last_backup
  BY <1>4, <1>5 DEF PageRecord
<1> QED
  BY <1>2, <1>3, <1>6

\* The pages have the names they had, and what was flagged is flagged.
SameFlags(pg) ==
  \A q \in Pages : /\ pg[q].name = page[q].name
                   /\ pg[q].do_autosave_backup = page[q].do_autosave_backup

\* An edit.
LEMMA EditSavesState ==
  ASSUME FileTypeOK, NEW p \in Pages, NEW c \in Contents, EditPage(p, c)
  PROVE  /\ SavesState(p)
         /\ \E pg, ok : Autosaved(p, pg, ok) /\ SameFlags(pg)
<1> DEFINE pg == Edited(p, c)
<1>1. PICK ok \in Written(Flagged(pg)) :
        /\ o_undo_savestate(pg, p, ok)
        /\ fate' = Touched({pg[q].name : q \in ok})
        /\ due' = [q \in Pages |-> IF q \in ok THEN "no"
                                   ELSE IF q = p /\ due[q] = "no" THEN "edited"
                                   ELSE due[q]]
  BY DEF EditPage, Edited
<1>2. /\ pg \in [Pages -> PageRecord]
      /\ pg[p].name = page[p].name
      /\ pg[p].do_autosave_backup = page[p].do_autosave_backup
      /\ pg[p].ops_since_last_backup = page[p].ops_since_last_backup
      /\ \A q \in Pages \ {p} : pg[q] = page[q]
  BY EditedPage
<1> HIDE DEF pg
<1>3. ok \subseteq Flagged(pg)
  BY <1>1 DEF Written
<1>4. FatesMove(p, pg, ok)
  BY <1>1, <1>2 DEF FatesMove
<1>5. Autosaved(p, pg, ok)
  <2>1. \A q \in Pages : IF q \in ok THEN due'[q] = "no" ELSE q # p => due'[q] = due[q]
    BY <1>1
  <2>2. due'[p] = "due" => due[p] = "due"
    BY <1>1
  <2>3. IsOpen(p)
    BY DEF EditPage
  <2> QED
    BY <1>1, <1>2, <1>3, <2>1, <2>2, <2>3 DEF Autosaved
<1>6. SameFlags(pg)
  BY <1>2 DEF SameFlags
<1> QED
  BY <1>4, <1>5, <1>6 DEF SavesState, EditPage

\* The flags of a page afterwards.
LEMMA AutosavedFlags ==
  ASSUME NEW p, NEW pg, NEW ok, Autosaved(p, pg, ok), NEW q \in Pages
  PROVE  /\ page'[q].name = pg[q].name
         /\ page'[q].content = pg[q].content
         /\ page'[q].do_autosave_backup = (pg[q].do_autosave_backup /\ q \notin ok)
         /\ page'[q].ops_since_last_backup =
              ((pg[q].ops_since_last_backup /\ q \notin ok)
                 \/ (q = p /\ UndoControl /\ Autosaving))
<1> DEFINE d == pg[q].do_autosave_backup /\ q \notin ok
           o == (pg[q].ops_since_last_backup /\ q \notin ok)
                  \/ (q = p /\ UndoControl /\ Autosaving)
<1>1. pg[q] \in PageRecord
  BY DEF Autosaved
<1>2. page'[q] = [pg[q] EXCEPT !.do_autosave_backup = d, !.ops_since_last_backup = o]
  <2>1. page' = [r \in Pages |->
          [pg[r] EXCEPT !.do_autosave_backup = @ /\ r \notin ok,
                        !.ops_since_last_backup = (@ /\ r \notin ok)
                                               \/ (r = p /\ UndoControl /\ Autosaving)]]
    BY DEF Autosaved, o_undo_savestate
  <2> QED
    BY <2>1
<1> HIDE DEF d, o
<1>3. /\ page'[q].name = pg[q].name
      /\ page'[q].content = pg[q].content
      /\ page'[q].do_autosave_backup = d
      /\ page'[q].ops_since_last_backup = o
  BY <1>1, <1>2 DEF PageRecord
<1> QED
  BY <1>3 DEF d, o

\* The autosaves afterwards.
LEMMA AutosavedFiles ==
  ASSUME NEW p, NEW pg, NEW ok, Autosaved(p, pg, ok), NEW n \in Names
  PROVE  IF n \in {pg[q].name : q \in ok}
         THEN /\ \E q \in ok : pg[q].name = n /\ autosave'[n] = pg[q].content
              /\ auto_mtime'[n] = clock
         ELSE autosave'[n] = autosave[n] /\ auto_mtime'[n] = auto_mtime[n]
  BY DEF Autosaved, o_undo_savestate, o_autosave_backups

-----------------------------------------------------------------------------
(* Autosaves that are due. *)

\* A page that was edited since it was last saved, in either way, is counted; one that
\* the timer has seen since is flagged.
DuePagesAreFlagged ==
  \A p \in Pages :
    /\ due[p] # "no" /\ Autosaving => IsOpen(p) /\ page[p].ops_since_last_backup
    /\ due[p] = "due" => Autosaving /\ page[p].do_autosave_backup

\* Saving the state of a page.
LEMMA SavesStateFlags ==
  ASSUME UndoControl, FileTypeOK, DuePagesAreFlagged, NEW p \in Pages, SavesState(p)
  PROVE  DuePagesAreFlagged'
<1>1. PICK pg, ok : Autosaved(p, pg, ok)
  BY DEF SavesState
<1> SUFFICES ASSUME NEW q \in Pages
             PROVE  /\ due'[q] # "no" /\ Autosaving
                         => page'[q].name # NoName /\ page'[q].ops_since_last_backup
                    /\ due'[q] = "due" => Autosaving /\ page'[q].do_autosave_backup
  BY DEF DuePagesAreFlagged, IsOpen
<1>2. /\ page'[q].name = pg[q].name
      /\ page'[q].do_autosave_backup = (pg[q].do_autosave_backup /\ q \notin ok)
      /\ page'[q].ops_since_last_backup =
              ((pg[q].ops_since_last_backup /\ q \notin ok)
                 \/ (q = p /\ UndoControl /\ Autosaving))
  BY <1>1, AutosavedFlags
<1>3. CASE q \in ok
  BY <1>1, <1>3 DEF Autosaved
<1>4. CASE q \notin ok /\ q # p
  <2>1. due'[q] = due[q] /\ pg[q] = page[q]
    BY <1>1, <1>4 DEF Autosaved
  <2> QED
    BY <1>2, <1>4, <2>1 DEF DuePagesAreFlagged, IsOpen
<1>5. CASE q \notin ok /\ q = p
  BY <1>1, <1>2, <1>5 DEF Autosaved, DuePagesAreFlagged, IsOpen
<1> QED
  BY <1>3, <1>4, <1>5

\* The other steps.
LEMMA StepFlags ==
  ASSUME UndoControl, FileTypeOK, DuePagesAreFlagged, [Next]_vars
  PROVE  DuePagesAreFlagged'
<1>1. ASSUME NEW p \in Pages, NEW n \in Names, OpenFile(p, n) \/ NewPage(p, n)
      PROVE  DuePagesAreFlagged'
  BY <1>1, OpenSavesState, NewSavesState, SavesStateFlags
<1>2. ASSUME NEW p \in Pages, NEW c \in Contents, EditPage(p, c)
      PROVE  DuePagesAreFlagged'
  BY <1>2, EditSavesState, SavesStateFlags
<1>3. ASSUME NEW S \in SUBSET Pages, Deleted(S)
      PROVE  DuePagesAreFlagged'
  BY <1>3 DEF Deleted, DuePagesAreFlagged, IsOpen
<1>4. CASE (\E p \in Pages : ClosePage(p)) \/ Quit
  BY <1>3, <1>4 DEF ClosePage, Quit
<1>5. ASSUME NEW p \in Pages, NEW c \in Contents, EditUndo(p, c)
      PROVE  DuePagesAreFlagged'
  <2>1. \A q \in Pages :
          /\ page'[q].name = page[q].name
          /\ page'[q].do_autosave_backup = page[q].do_autosave_backup
          /\ page'[q].ops_since_last_backup = page[q].ops_since_last_backup
    <3> TAKE q \in Pages
    <3>1. page' = Edited(p, c)
      BY <1>5 DEF EditUndo, Edited
    <3>2. CASE q = p
      BY <3>1, <3>2, EditedPage
    <3>3. CASE q # p
      BY <3>1, <3>3, EditedPage
    <3> QED
      BY <3>2, <3>3
  <2>2. due' = due
    BY <1>5 DEF EditUndo, ghost
  <2> QED
    BY <2>1, <2>2 DEF DuePagesAreFlagged, IsOpen
<1>6. CASE Timer
  <2>1. \A q \in Pages :
          /\ page'[q].name = page[q].name
          /\ page'[q].ops_since_last_backup = page[q].ops_since_last_backup
          /\ page'[q].do_autosave_backup =
               (page[q].do_autosave_backup \/ page[q].ops_since_last_backup)
    <3> TAKE q \in Pages
    <3>1. page[q] \in PageRecord
      BY DEF FileTypeOK
    <3> QED
      BY <1>6, <3>1 DEF Timer, PageRecord
  <2>2. \A q \in Pages : due'[q] = IF due[q] = "edited" THEN "due" ELSE due[q]
    BY <1>6 DEF Timer
  <2>3. Autosaving
    BY <1>6 DEF Timer
  <2> QED
    BY <2>1, <2>2, <2>3 DEF DuePagesAreFlagged, IsOpen
<1>7. CASE SaveSucceeds
  <2> DEFINE p == saving.page
  <2>1. p \in Pages
    BY <1>7 DEF SaveSucceeds, FileTypeOK
  <2>2. /\ due' = [due EXCEPT ![p] = "no"]
        /\ page' = [page EXCEPT ![p] = page'[p]]
    BY <1>7, <2>1 DEF SaveSucceeds, FileTypeOK
  <2> HIDE DEF p
  <2>3. \A q \in Pages : due'[q] # "no" => due'[q] = due[q] /\ page'[q] = page[q]
    BY <2>1, <2>2 DEF FileTypeOK
  <2> QED
    BY <2>3 DEF DuePagesAreFlagged, IsOpen
<1>8. CASE Crash
  BY <1>8 DEF Crash, DuePagesAreFlagged
<1>9. CASE \/ \E p \in Pages, n \in Names : SaveStarts(p, n)
           \/ SaveFails \/ Start \/ Tick \/ UNCHANGED vars
  <2>1. due' = due /\ page' = page
    BY <1>9 DEF SaveStarts, SaveFails, Start, Tick, vars, ghost
  <2> QED
    BY <2>1 DEF DuePagesAreFlagged, IsOpen
<1> QED
  BY <1>1, <1>2, <1>4, <1>5, <1>6, <1>7, <1>8, <1>9 DEF Next

\* The edit that follows writes the autosave of a page that is due, or leaves it flagged.
LEMMA DueIsWritten ==
  ASSUME FileTypeOK, DuePagesAreFlagged, NEW p \in Pages, due[p] = "due", NamedAlone(p),
         NEW q \in Pages, NEW c \in Contents, EditPage(q, c)
  PROVE  \/ autosave'[page[p].name] = page'[p].content
         \/ page'[p].do_autosave_backup
<1>1. PICK pg, ok : Autosaved(q, pg, ok) /\ SameFlags(pg)
  BY EditSavesState
<1>2. IsOpen(p) /\ page[p].do_autosave_backup
  BY DEF DuePagesAreFlagged
<1>3. page[p].name \in Names
  BY <1>2 DEF FileTypeOK, PageRecord, IsOpen
<1>4. ok \subseteq Pages
  BY <1>1 DEF Autosaved, Flagged
<1>5. CASE p \in ok
  <2>1. \E r \in ok : pg[r].name = page[p].name /\ autosave'[page[p].name] = pg[r].content
    BY <1>1, <1>3, <1>5, AutosavedFiles DEF SameFlags
  <2>2. \A r \in ok : pg[r].name = page[p].name => r = p
    BY <1>1, <1>4 DEF NamedAlone, SameFlags
  <2>3. page'[p].content = pg[p].content
    BY <1>1, AutosavedFlags
  <2> QED
    BY <2>1, <2>2, <2>3
<1>6. CASE p \notin ok
  <2>1. pg[p].do_autosave_backup
    BY <1>1, <1>2 DEF SameFlags
  <2> QED
    BY <1>1, <1>6, <2>1, AutosavedFlags
<1> QED
  BY <1>5, <1>6

\* The autosave of a page that was edited before the timer came is written with the next
\* edit of any page, and if it cannot be written, it is tried again with the one after
\* that: for any number of pages, as long as operations are counted at all (o_undo.c:144).
THEOREM DueAutosavesAreWritten == UndoControl => (Spec => AutosaveWhenDue)
<1> SUFFICES ASSUME UndoControl PROVE Spec => AutosaveWhenDue
  OBVIOUS
<1>1. Init => DuePagesAreFlagged
  BY DEF Init, DuePagesAreFlagged
<1>2. FileTypeOK /\ DuePagesAreFlagged /\ [Next]_vars => DuePagesAreFlagged'
  BY StepFlags
<1>3. FileTypeOK /\ DuePagesAreFlagged /\ [Next]_vars =>
        [\A p \in Pages :
           (/\ due[p] = "due" /\ NamedAlone(p)
            /\ \E q \in Pages, c \in Contents : EditPage(q, c)) =>
             \/ autosave'[page[p].name] = page'[p].content
             \/ page'[p].do_autosave_backup]_vars
  BY DueIsWritten
<1> QED
  BY <1>1, <1>2, <1>3, InitType, StepType, PTL DEF Spec, AutosaveWhenDue

-----------------------------------------------------------------------------
(* Autosaves that a crash left behind. *)

\* The autosave of n is not one the user is to be asked about: the file is gone, or it
\* was written as late.
NotOffered(n) == file[n] = Missing \/ auto_mtime[n] <= mtime[n]

\* An orphan is still there; one whose file is open is not to be asked about any more.
OrphanIsKept(n) ==
  /\ auto_mtime[n] <= clock
  /\ fate[n] = "orphan" => autosave[n] # Missing
  /\ fate[n] = "orphan" /\ Loaded(n) => n \in Untitled \/ NotOffered(n)

OrphansAreKept == \A n \in Names : OrphanIsKept(n)

\* OrphanIsKept while nobody touches the autosave of n and n is not opened.
LEMMA OrphanIsLeft ==
  ASSUME FileTypeOK, NEW n \in Names, OrphanIsKept(n),
         file'[n] = file[n] \/ file'[n] = Missing,
         mtime' = mtime, clock' \in Nat, clock <= clock',
         autosave'[n] = autosave[n], auto_mtime'[n] = auto_mtime[n],
         fate'[n] = "orphan" => /\ fate[n] = "orphan"
                                /\ Loaded(n)' => Loaded(n) \/ n \in Untitled \/ NotOffered(n)
  PROVE  OrphanIsKept(n)'
<1>1. /\ auto_mtime[n] \in Nat /\ clock \in Nat
  BY FileAssumption DEF FileTypeOK
<1>2. auto_mtime'[n] <= clock'
  BY <1>1 DEF OrphanIsKept
<1>3. fate'[n] = "orphan" => autosave'[n] # Missing
  BY DEF OrphanIsKept
<1>4. fate'[n] = "orphan" /\ Loaded(n)' => n \in Untitled \/ NotOffered(n)'
  BY DEF OrphanIsKept, NotOffered
<1> QED
  BY <1>2, <1>3, <1>4 DEF OrphanIsKept

\* Saving the state of a page.
LEMMA SavesStateOrphans ==
  ASSUME FileTypeOK, OrphansAreKept, NEW p \in Pages, SavesState(p)
  PROVE  OrphansAreKept'
<1>1. PICK pg, ok : Autosaved(p, pg, ok) /\ FatesMove(p, pg, ok)
  BY DEF SavesState
<1> SUFFICES ASSUME NEW n \in Names PROVE OrphanIsKept(n)'
  BY DEF OrphansAreKept
<1>2. UNCHANGED <<file, mtime, clock>> /\ clock \in Nat
  BY FileAssumption DEF SavesState, FileTypeOK
<1>3. OrphanIsKept(n)
  BY DEF OrphansAreKept
<1>4. \/ fate'[n] = "none"
      \/ /\ fate'[n] = Touched({pg[q].name : q \in ok})[n]
         /\ pg[p].name = n => page[p].name = n \/ n \in Untitled \/ ~Offered(n)
  BY <1>1 DEF FatesMove
<1>5. CASE n \in {pg[q].name : q \in ok}
  <2>1. auto_mtime'[n] = clock
    BY <1>1, <1>5, AutosavedFiles
  <2>2. fate'[n] # "orphan"
    BY <1>4, <1>5 DEF Touched
  <2> QED
    BY <1>2, <2>1, <2>2 DEF OrphanIsKept
<1>6. CASE n \notin {pg[q].name : q \in ok}
  <2>1. autosave'[n] = autosave[n] /\ auto_mtime'[n] = auto_mtime[n]
    BY <1>1, <1>6, AutosavedFiles
  <2>2. ASSUME fate'[n] = "orphan"
        PROVE  /\ fate[n] = "orphan"
               /\ Loaded(n)' => Loaded(n) \/ n \in Untitled \/ NotOffered(n)
    <3>1. fate[n] = "orphan" /\ autosave[n] # Missing
      BY <1>3, <1>4, <1>6, <2>2 DEF Touched, OrphanIsKept
    <3>2. ASSUME NEW q \in Pages, page'[q].name = n
          PROVE  Loaded(n) \/ n \in Untitled \/ NotOffered(n)
      <4>1. pg[q].name = n
        BY <1>1, <3>2, AutosavedFlags
      <4>2. CASE q = p
        <5>1. page[p].name = n \/ n \in Untitled \/ ~Offered(n)
          BY <1>4, <2>2, <4>1, <4>2
        <5>2. ~Offered(n) => NotOffered(n)
          <6>1. auto_mtime[n] \in Nat /\ mtime[n] \in Nat
            BY FileAssumption DEF FileTypeOK
          <6> QED
            BY <3>1, <6>1 DEF Offered, NotOffered, f_has_active_autosave
        <5> QED
          BY <5>1, <5>2 DEF Loaded
      <4>3. CASE q # p
        <5>1. pg[q] = page[q]
          BY <1>1, <4>3 DEF Autosaved
        <5> QED
          BY <4>1, <5>1 DEF Loaded
      <4> QED
        BY <4>2, <4>3
    <3> QED
      BY <3>1, <3>2 DEF Loaded
  <2> QED
    BY <1>2, <1>3, <2>1, <2>2, OrphanIsLeft
<1> QED
  BY <1>5, <1>6

\* Deleting pages.
LEMMA DeletedOrphans ==
  ASSUME FileTypeOK, OrphansAreKept, NEW S \in SUBSET Pages, Deleted(S),
         UNCHANGED <<file, mtime, auto_mtime, clock>>
  PROVE  OrphansAreKept'
<1> SUFFICES ASSUME NEW n \in Names PROVE OrphanIsKept(n)'
  BY DEF OrphansAreKept
<1> DEFINE names == {page[q].name : q \in S}
<1>1. OrphanIsKept(n) /\ clock \in Nat /\ clock <= clock
  BY FileAssumption DEF OrphansAreKept, FileTypeOK
<1>2. /\ autosave'[n] = IF n \in names THEN Missing ELSE autosave[n]
      /\ fate'[n] = IF n \in names /\ autosave[n] # Missing
                    THEN IF fate[n] = "orphan" THEN "lost" ELSE "none"
                    ELSE fate[n]
  BY DEF Deleted, Touched
<1>3. Loaded(n)' => Loaded(n)
  BY FileAssumption DEF Deleted, Loaded, NotOpen
<1>4. CASE n \in names
  <2>1. fate'[n] # "orphan"
    BY <1>1, <1>2, <1>4 DEF OrphanIsKept
  <2> QED
    BY <1>1, <2>1 DEF OrphanIsKept
<1>5. CASE n \notin names
  BY <1>1, <1>2, <1>3, <1>5, OrphanIsLeft
<1> QED
  BY <1>4, <1>5

\* A save that succeeds: the file becomes as late as any autosave.
LEMMA SaveOrphans ==
  ASSUME FileTypeOK, OrphansAreKept, SaveSucceeds
  PROVE  OrphansAreKept'
<1> SUFFICES ASSUME NEW n \in Names PROVE OrphanIsKept(n)'
  BY DEF OrphansAreKept
<1> DEFINE p == saving.page
           m == saving.name
<1>1. p \in Pages /\ m \in Names
  BY DEF SaveSucceeds, FileTypeOK
<1>2. OrphanIsKept(n)
  BY DEF OrphansAreKept
<1>3. /\ page'[p].name \in {page[p].name, m}
      /\ \A q \in Pages \ {p} : page'[q] = page[q]
      /\ mtime' = [mtime EXCEPT ![m] = clock]
      /\ file' = [file EXCEPT ![m] = page[p].content]
      /\ UNCHANGED <<autosave, auto_mtime, clock, fate>>
  <2>1. page \in [Pages -> PageRecord]
    BY DEF FileTypeOK
  <2>2. page'[p].name = Renamed(page[p].name, m)
    BY <1>1, <2>1 DEF SaveSucceeds, PageRecord
  <2> QED
    BY <1>1, <2>1, <2>2 DEF SaveSucceeds, Renamed
<1> HIDE DEF p, m
<1>4. CASE n = m
  <2>1. mtime'[n] = clock
    BY <1>3, <1>4 DEF FileTypeOK
  <2> QED
    BY <1>2, <1>3, <2>1 DEF OrphanIsKept, NotOffered
<1>5. CASE n # m
  <2>1. mtime'[n] = mtime[n] /\ file'[n] = file[n]
    BY <1>3, <1>5 DEF FileTypeOK
  <2>2. Loaded(n)' => Loaded(n)
    BY <1>1, <1>3, <1>5 DEF Loaded
  <2> QED
    BY <1>2, <1>3, <2>1, <2>2 DEF OrphanIsKept, NotOffered
<1> QED
  BY <1>4, <1>5

\* Every step.
LEMMA StepOrphans ==
  ASSUME FileTypeOK, OrphansAreKept, [Next]_vars
  PROVE  OrphansAreKept'
<1>1. ASSUME NEW p \in Pages, NEW n \in Names, OpenFile(p, n) \/ NewPage(p, n)
      PROVE  OrphansAreKept'
  BY <1>1, OpenSavesState, NewSavesState, SavesStateOrphans
<1>2. ASSUME NEW p \in Pages, NEW c \in Contents, EditPage(p, c)
      PROVE  OrphansAreKept'
  BY <1>2, EditSavesState, SavesStateOrphans
<1>3. ASSUME NEW S \in SUBSET Pages, Deleted(S), UNCHANGED <<file, mtime, auto_mtime, clock>>
      PROVE  OrphansAreKept'
  BY <1>3, DeletedOrphans
<1>4. CASE (\E p \in Pages : ClosePage(p)) \/ Quit
  BY <1>3, <1>4 DEF ClosePage, Quit
<1>5. ASSUME UNCHANGED <<autosave, auto_mtime, mtime, fate>>,
             \A n \in Names : file'[n] = file[n] \/ file'[n] = Missing,
             \A q \in Pages : page'[q].name = page[q].name,
             clock' \in Nat, clock <= clock'
      PROVE  OrphansAreKept'
  <2> SUFFICES ASSUME NEW n \in Names PROVE OrphanIsKept(n)'
    BY DEF OrphansAreKept
  <2>1. OrphanIsKept(n)
    BY DEF OrphansAreKept
  <2>2. Loaded(n)' => Loaded(n)
    BY <1>5 DEF Loaded
  <2> QED
    BY <1>5, <2>1, <2>2, OrphanIsLeft
<1>6. clock \in Nat /\ clock <= clock
  BY FileAssumption DEF FileTypeOK
<1>7. ASSUME NEW p \in Pages, NEW c \in Contents, EditUndo(p, c)
      PROVE  OrphansAreKept'
  <2>1. \A q \in Pages : page'[q].name = page[q].name
    <3> TAKE q \in Pages
    <3>1. page' = Edited(p, c)
      BY <1>7 DEF EditUndo, Edited
    <3>2. CASE q = p
      BY <3>1, <3>2, EditedPage
    <3>3. CASE q # p
      BY <3>1, <3>3, EditedPage
    <3> QED
      BY <3>2, <3>3
  <2>2. UNCHANGED <<file, autosave, auto_mtime, mtime, fate, clock>>
    BY <1>7 DEF EditUndo, disk, ghost
  <2> QED
    BY <1>5, <1>6, <2>1, <2>2
<1>8. CASE Timer
  <2>1. \A q \in Pages : page'[q].name = page[q].name
    <3> TAKE q \in Pages
    <3>1. page[q] \in PageRecord
      BY DEF FileTypeOK
    <3> QED
      BY <1>8, <3>1 DEF Timer, PageRecord
  <2>2. UNCHANGED <<file, autosave, auto_mtime, mtime, fate, clock>>
    BY <1>8 DEF Timer, disk
  <2> QED
    BY <1>5, <1>6, <2>1, <2>2
<1>9. ASSUME NEW p \in Pages, NEW n \in Names, SaveStarts(p, n)
      PROVE  OrphansAreKept'
  <2>1. \A m \in Names : file'[m] = file[m] \/ file'[m] = Missing
    BY <1>9 DEF SaveStarts, FileTypeOK
  <2>2. UNCHANGED <<page, autosave, auto_mtime, mtime, fate, clock>>
    BY <1>9 DEF SaveStarts, ghost
  <2> QED
    BY <1>5, <1>6, <2>1, <2>2
<1>10. CASE SaveSucceeds
  BY <1>10, SaveOrphans
<1>11. CASE Crash
  <2> SUFFICES ASSUME NEW n \in Names PROVE OrphanIsKept(n)'
    BY DEF OrphansAreKept
  <2>1. OrphanIsKept(n)
    BY DEF OrphansAreKept
  <2>2. ~Loaded(n)'
    BY <1>11, FileAssumption DEF Crash, Loaded, NotOpen
  <2>3. fate'[n] = IF autosave[n] # Missing THEN "orphan" ELSE fate[n]
    BY <1>11 DEF Crash
  <2>4. UNCHANGED <<autosave, auto_mtime, clock>>
    BY <1>11 DEF Crash, disk
  <2> QED
    BY <2>1, <2>2, <2>3, <2>4 DEF OrphanIsKept
<1>12. CASE Tick
  <2>1. UNCHANGED <<file, page, autosave, auto_mtime, mtime, fate>>
    BY <1>12 DEF Tick, disk, ghost
  <2>2. clock' \in Nat /\ clock <= clock'
    BY <1>6, <1>12 DEF Tick
  <2> QED
    BY <1>5, <2>1, <2>2
<1>13. CASE SaveFails \/ Start \/ UNCHANGED vars
  <2>1. UNCHANGED <<file, page, autosave, auto_mtime, mtime, fate, clock>>
    BY <1>13 DEF SaveFails, Start, vars, disk, ghost
  <2> QED
    BY <1>5, <1>6, <2>1
<1> QED
  BY <1>1, <1>2, <1>4, <1>7, <1>8, <1>9, <1>10, <1>11, <1>12, <1>13 DEF Next

\* A step that loses an autosave is taken with its file open.
LEMMA LostWhileLoaded ==
  ASSUME FileTypeOK, [Next]_vars, NEW n \in Names, fate[n] = "orphan", fate'[n] = "lost"
  PROVE  Loaded(n)
<1>1. ASSUME NEW p \in Pages, SavesState(p)
      PROVE  Loaded(n)
  <2>1. PICK pg, ok : Autosaved(p, pg, ok) /\ FatesMove(p, pg, ok)
    BY <1>1 DEF SavesState
  <2>2. fate'[n] = Touched({pg[q].name : q \in ok})[n]
    BY <2>1 DEF FatesMove
  <2>3. n \in {pg[q].name : q \in ok}
    BY <2>2 DEF Touched
  <2>4. PICK q \in ok : pg[q].name = n
    BY <2>3
  <2>5. q \in Pages /\ pg[q].do_autosave_backup
    BY <2>1, <2>4 DEF Autosaved, Flagged
  <2>6. CASE q = p
    BY <2>1, <2>4, <2>5, <2>6 DEF Autosaved, Loaded
  <2>7. CASE q # p
    BY <2>1, <2>4, <2>5, <2>7 DEF Autosaved, Loaded
  <2> QED
    BY <2>6, <2>7
<1>2. ASSUME NEW S \in SUBSET Pages, Deleted(S)
      PROVE  Loaded(n)
  <2>1. fate'[n] = Touched({m \in {page[q].name : q \in S} : autosave[m] # Missing})[n]
    BY <1>2 DEF Deleted
  <2>2. n \in {page[q].name : q \in S}
    BY <2>1 DEF Touched
  <2> QED
    BY <2>2 DEF Loaded
<1>3. CASE fate' = fate
  BY <1>3
<1>4. CASE Crash
  BY <1>4 DEF Crash
<1>5. CASE (\E p \in Pages : ClosePage(p)) \/ Quit
  BY <1>2, <1>5 DEF ClosePage, Quit
<1>6. ASSUME NEW p \in Pages,
             \/ \E m \in Names : OpenFile(p, m) \/ NewPage(p, m)
             \/ \E c \in Contents : EditPage(p, c)
      PROVE  Loaded(n)
  BY <1>1, <1>6, OpenSavesState, NewSavesState, EditSavesState
<1>7. CASE \/ \E p \in Pages, c \in Contents : EditUndo(p, c)
           \/ \E p \in Pages, m \in Names : SaveStarts(p, m)
           \/ Timer \/ SaveSucceeds \/ SaveFails \/ Start \/ Tick \/ UNCHANGED vars
  <2>1. fate' = fate
    BY <1>7 DEF EditUndo, SaveStarts, Timer, SaveSucceeds, SaveFails, Start, Tick, vars, ghost
  <2> QED
    BY <1>3, <2>1
<1> QED
  BY <1>4, <1>5, <1>6, <1>7 DEF Next

\* The autosave that a crash left of a file which is still there and older is removed or
\* overwritten only after f_open has asked about it (f_basic.c:254), in any order of
\* crashes, saves and edits of any pages; names the program invented are never asked about.
THEOREM CrashedWorkIsAskedAbout == Spec => CrashedWorkIsOffered
<1>1. Init => OrphansAreKept
  BY DEF Init, OrphansAreKept, OrphanIsKept
<1>2. FileTypeOK /\ OrphansAreKept /\ [Next]_vars => OrphansAreKept'
  BY StepOrphans
<1>3. FileTypeOK /\ OrphansAreKept /\ [Next]_vars =>
        [\A n \in Names \ Untitled :
           (fate[n] = "orphan" /\ fate'[n] = "lost") =>
             file[n] = Missing \/ auto_mtime[n] <= mtime[n]]_vars
  BY LostWhileLoaded DEF OrphansAreKept, OrphanIsKept, NotOffered
<1> QED
  BY <1>1, <1>2, <1>3, InitType, StepType, PTL DEF Spec, CrashedWorkIsOffered
=============================================================================
