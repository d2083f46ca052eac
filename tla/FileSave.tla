------------------------------ MODULE FileSave ------------------------------
(***************************************************************************)
(* Schematic files on disk: opening, saving with a backup, autosaving, and *)
(* finding an autosave again after a crash.  liblepton/src/f_basic.c       *)
(* (f_open, f_save), geda_page.c (the autosave timer, closing a page),     *)
(* schematic/src/o_misc.c (writing autosaves), and the commands of         *)
(* x_window.c that call them.                                              *)
(*                                                                         *)
(* For every name n there are three files: n itself, the backup n~ of its  *)
(* first version in a session, and the autosave #n#.                       *)
(***************************************************************************)
EXTENDS Integers, FiniteSets

CONSTANTS
  Pages,          \* PAGE structures
  Names,          \* file names, symbolic links followed
  NoName,         \* the name of a page that is not open
  Untitled,       \* the names x_window_open_page invents for new pages
  Lower,          \* a name in lower case, stood for by one of its spellings
  Contents,       \* schematics
  EmptyPage,      \* the schematic of a new page
  Missing,        \* a file that does not exist
  Initially,      \* the files there are at first
  MakeBackups,    \* rc make-backup-files
  UndoControl,    \* rc undo-control
  Autosaving,     \* rc auto-save-interval is not 0
  WritesMayFail,  \* may o_save fail
  MaxClock        \* bound: seconds of modification times

ASSUME FileAssumption ==
  /\ NoName \notin Names
  /\ Untitled \subseteq Names
  /\ Lower \in [Names -> Names]
  /\ EmptyPage \in Contents
  /\ Missing \notin Contents
  /\ Initially \in [Names -> Contents \cup {Missing}]
  /\ MakeBackups \in BOOLEAN /\ UndoControl \in BOOLEAN
  /\ Autosaving \in BOOLEAN /\ WritesMayFail \in BOOLEAN
  /\ MaxClock \in Nat

VARIABLES
  file, backup, autosave,  \* the files n, n~ and #n#
  mtime, auto_mtime,       \* when n and #n# were written
  clock,
  running,
  page,                    \* the open pages
  saving,                  \* the f_save that has done its rename
  saved,                   \* not in the code: the last version saved as n
  fate,                    \* not in the code: what became of an autosave
  due,                     \* not in the code: is an autosave due
  overwritten              \* not in the code: pages whose file another page has
                           \* written since they were loaded or saved

disk  == <<file, backup, autosave, mtime, auto_mtime>>
ghost == <<saved, fate, due, overwritten>>
vars  == <<disk, clock, running, page, saving, ghost>>

Stored == Contents \cup {Missing}

PageRecord ==
  [name : Names \cup {NoName}, content : Contents, CHANGED : BOOLEAN,
   saved_since_first_loaded : BOOLEAN,
   ops_since_last_backup : BOOLEAN,      \* is it not zero
   do_autosave_backup : BOOLEAN]

NotOpen == [name |-> NoName, content |-> EmptyPage, CHANGED |-> FALSE,
            saved_since_first_loaded |-> FALSE,
            ops_since_last_backup |-> FALSE, do_autosave_backup |-> FALSE]

NoSave == [page |-> NoName, name |-> NoName]

IsOpen(p) == page[p].name # NoName
Idle == running /\ saving = NoSave

\* s_page_search
Loaded(n) == \E p \in Pages : page[p].name = n

\* Mutant: the modification times compared the wrong way round.
OlderAutosave(n) ==
  autosave[n] # Missing /\ (file[n] = Missing \/ auto_mtime[n] < mtime[n])

f_has_active_autosave(n) ==
  autosave[n] # Missing /\ (file[n] = Missing \/ auto_mtime[n] > mtime[n])

\* An autosave that a crash left behind is lost if nobody was asked about it.
Touched(names) ==
  [n \in Names |-> IF n \notin names THEN fate[n]
                   ELSE IF fate[n] = "orphan" THEN "lost" ELSE "none"]

-----------------------------------------------------------------------------
(***************************************************************************)
(* o_undo_savestate, as far as files are concerned: the pages are pg, and  *)
(* page p has just changed.  Flagged pages are autosaved, those of ok      *)
(* successfully; only then, and only if undo is enabled, the operation is  *)
(* counted.                                                                *)
(***************************************************************************)
Flagged(pg) ==
  {p \in Pages : /\ pg[p].name # NoName
                 /\ pg[p].do_autosave_backup /\ pg[p].ops_since_last_backup}

Written(S) == IF WritesMayFail THEN SUBSET S ELSE {S}

\* Mutant: the loop over the pages stops after the first autosave.
WritesOnePage(pg, ok) ==
  LET p == CHOOSE q \in ok : TRUE
  IN  IF ok = {} THEN UNCHANGED <<autosave, auto_mtime>>
      ELSE /\ autosave' = [autosave EXCEPT ![pg[p].name] = pg[p].content]
           /\ auto_mtime' = [auto_mtime EXCEPT ![pg[p].name] = clock]

o_autosave_backups(pg, ok) ==
  LET names == {pg[p].name : p \in ok}
  IN  /\ autosave' \in {a \in [Names -> Stored] : \A n \in Names :
                          IF n \in names
                          THEN \E p \in ok : pg[p].name = n /\ a[n] = pg[p].content
                          ELSE a[n] = autosave[n]}
      /\ auto_mtime' = [n \in Names |-> IF n \in names THEN clock ELSE auto_mtime[n]]

\* Mutant: the flag is reset even if the autosave could not be written.
ForgetsFailed(pg, p, ok) ==
  /\ o_autosave_backups(pg, ok)
  /\ page' = [q \in Pages |->
       [pg[q] EXCEPT !.do_autosave_backup = FALSE,
                     !.ops_since_last_backup = (@ /\ q \notin ok)
                                               \/ (q = p /\ UndoControl /\ Autosaving)]]

o_undo_savestate(pg, p, ok) ==
  /\ o_autosave_backups(pg, ok)
  /\ page' = [q \in Pages |->
       [pg[q] EXCEPT !.do_autosave_backup = @ /\ q \notin ok,
                     !.ops_since_last_backup = (@ /\ q \notin ok)
                                               \/ (q = p /\ UndoControl /\ Autosaving)]]

-----------------------------------------------------------------------------
(* Opening and closing pages. *)

\* Mutant: a page loaded from an autosave counts as unchanged.
OpenedClean(n, load_backup_file) ==
  [NotOpen EXCEPT
     !.name = n,
     !.content = IF load_backup_file THEN autosave[n]
                 ELSE IF file[n] = Missing THEN EmptyPage ELSE file[n]]

\* The page f_open makes of file n, or of its autosave.
Opened(n, load_backup_file) ==
  [NotOpen EXCEPT
     !.name = n,
     !.content = IF load_backup_file THEN autosave[n]
                 ELSE IF file[n] = Missing THEN EmptyPage ELSE file[n],
     !.CHANGED = load_backup_file]

\* x_window_open_page for file n, in the unused page p. f_open_flags gives up on a
\* missing file before it looks for an autosave; the page stays, empty.
OpenFile(p, n) ==
  /\ Idle
  /\ ~IsOpen(p) /\ ~Loaded(n)
  /\ LET asked == file[n] # Missing /\ f_has_active_autosave(n)
     IN  \E load_backup_file \in IF asked THEN BOOLEAN ELSE {FALSE} :
         LET pg == [page EXCEPT ![p] = Opened(n, load_backup_file)]
         IN  \E ok \in Written(Flagged(pg)) :
               /\ o_undo_savestate(pg, p, ok)
               /\ fate' = [Touched({pg[q].name : q \in ok}) EXCEPT
                             ![n] = IF asked THEN "none" ELSE @]
               /\ due' = [q \in Pages |-> IF q \in ok \cup {p} THEN "no" ELSE due[q]]
  /\ UNCHANGED <<file, backup, mtime, clock, running, saving, saved, overwritten>>

\* file_new: a new page with the invented name n.
NewPage(p, n) ==
  /\ Idle
  /\ ~IsOpen(p) /\ ~Loaded(n)
  /\ n \in Untitled
  /\ LET pg == [page EXCEPT ![p] = [NotOpen EXCEPT !.name = n]]
     IN  \E ok \in Written(Flagged(pg)) :
           /\ o_undo_savestate(pg, p, ok)
           /\ fate' = Touched({pg[q].name : q \in ok})
           /\ due' = [q \in Pages |-> IF q \in ok \cup {p} THEN "no" ELSE due[q]]
  /\ UNCHANGED <<file, backup, mtime, clock, running, saving, saved, overwritten>>

\* s_page_delete for the pages of S: the autosave goes with the page.
Deleted(S) ==
  LET names == {page[p].name : p \in S}
  IN  /\ autosave' = [n \in Names |-> IF n \in names THEN Missing ELSE autosave[n]]
      /\ fate' = Touched({n \in names : autosave[n] # Missing})
      /\ page' = [p \in Pages |-> IF p \in S THEN NotOpen ELSE page[p]]
      /\ due' = [p \in Pages |-> IF p \in S THEN "no" ELSE due[p]]
      /\ overwritten' = overwritten \ S

\* Mutant: a page can be closed while it is being saved.
CloseWhileSaving(p) ==
  /\ running
  /\ IsOpen(p)
  /\ Deleted({p})
  /\ UNCHANGED <<file, backup, mtime, auto_mtime, clock, running, saving, saved>>

\* x_window_close_page. Whether to save first was asked before.
ClosePage(p) ==
  /\ Idle
  /\ IsOpen(p)
  /\ Deleted({p})
  /\ UNCHANGED <<file, backup, mtime, auto_mtime, clock, running, saving, saved>>

-----------------------------------------------------------------------------
(* Editing and autosaving. *)

\* Any editing operation.
EditPage(p, c) ==
  /\ Idle
  /\ IsOpen(p)
  /\ LET pg == [page EXCEPT ![p].content = c, ![p].CHANGED = TRUE]
     IN  \E ok \in Written(Flagged(pg)) :
           /\ o_undo_savestate(pg, p, ok)
           /\ fate' = Touched({pg[q].name : q \in ok})
           /\ due' = [q \in Pages |-> IF q \in ok THEN "no"
                                      ELSE IF q = p /\ due[q] = "no" THEN "edited"
                                      ELSE due[q]]
  /\ UNCHANGED <<file, backup, mtime, clock, running, saving, saved, overwritten>>

\* o_undo_callback: an earlier or later schematic comes back, nothing is counted.
EditUndo(p, c) ==
  /\ Idle
  /\ UndoControl
  /\ IsOpen(p)
  /\ page' = [page EXCEPT ![p].content = c, ![p].CHANGED = TRUE]
  /\ UNCHANGED <<disk, clock, running, saving, ghost>>

\* s_page_autosave, the timer callback.
Timer ==
  /\ Idle
  /\ Autosaving
  /\ page' = [p \in Pages |->
       [page[p] EXCEPT !.do_autosave_backup = @ \/ page[p].ops_since_last_backup]]
  /\ due' = [p \in Pages |-> IF due[p] = "edited" THEN "due" ELSE due[p]]
  /\ UNCHANGED <<disk, clock, running, saving, saved, fate, overwritten>>

-----------------------------------------------------------------------------
(* f_save: save page p as n. *)

\* Mutant: the backup is made even if there is no file.
BackupOfNothing(p, n) == ~page[p].saved_since_first_loaded /\ MakeBackups

\* Is there a version to move to n~: the first save since the page was loaded.
BackupFirst(p, n) ==
  ~page[p].saved_since_first_loaded /\ MakeBackups /\ file[n] # Missing

\* Its first half: the backup.
SaveStarts(p, n) ==
  /\ Idle
  /\ IsOpen(p)
  /\ IF BackupFirst(p, n)
     THEN /\ backup' = [backup EXCEPT ![n] = file[n]]
          /\ file' = [file EXCEPT ![n] = Missing]
     ELSE UNCHANGED <<backup, file>>
  /\ saving' = [page |-> p, name |-> n]
  /\ UNCHANGED <<autosave, mtime, auto_mtime, clock, running, page, ghost>>

\* Mutant: Save As does not rename the page.
OldName(old, new) == old

\* x_window_save_page: the name of a page called old that was saved as new.
Renamed(old, new) == IF Lower[old] = Lower[new] THEN old ELSE new

\* Its second half, and what x_window_save_page and s_page_save_all do then.
SaveSucceeds ==
  /\ running
  /\ saving # NoSave
  /\ LET p == saving.page
         n == saving.name
     IN  /\ file' = [file EXCEPT ![n] = page[p].content]
         /\ mtime' = [mtime EXCEPT ![n] = clock]
         /\ page' = [page EXCEPT ![p] = [@ EXCEPT !.name = Renamed(page[p].name, n),
                                                  !.CHANGED = FALSE,
                                                  !.saved_since_first_loaded = TRUE,
                                                  !.ops_since_last_backup = FALSE,
                                                  !.do_autosave_backup = FALSE]]
         /\ saved' = [saved EXCEPT ![n] = page[p].content]
         /\ due' = [due EXCEPT ![p] = "no"]
         /\ overwritten' = (overwritten \cup {q \in Pages : page[q].name = n}) \ {p}
  /\ saving' = NoSave
  /\ UNCHANGED <<backup, autosave, auto_mtime, clock, running, fate>>

SaveFails ==
  /\ running
  /\ WritesMayFail
  /\ saving # NoSave
  /\ saving' = NoSave
  /\ UNCHANGED <<disk, clock, running, page, ghost>>

-----------------------------------------------------------------------------
(* The process. *)

\* The last window is closed: all pages are deleted.
Quit ==
  /\ Idle
  /\ running' = FALSE
  /\ Deleted({p \in Pages : IsOpen(p)})
  /\ UNCHANGED <<file, backup, mtime, auto_mtime, clock, saving, saved>>

Crash ==
  /\ running
  /\ running' = FALSE
  /\ page' = [p \in Pages |-> NotOpen]
  /\ saving' = NoSave
  /\ fate' = [n \in Names |-> IF autosave[n] # Missing THEN "orphan" ELSE fate[n]]
  /\ due' = [p \in Pages |-> "no"]
  /\ overwritten' = {}
  /\ UNCHANGED <<disk, clock, saved>>

Start ==
  /\ ~running
  /\ running' = TRUE
  /\ UNCHANGED <<disk, clock, page, saving, ghost>>

Tick ==
  /\ clock < MaxClock
  /\ clock' = clock + 1
  /\ UNCHANGED <<disk, running, page, saving, ghost>>

Init ==
  /\ file = Initially
  /\ backup = [n \in Names |-> Missing]
  /\ autosave = [n \in Names |-> Missing]
  /\ mtime = [n \in Names |-> 0]
  /\ auto_mtime = [n \in Names |-> 0]
  /\ clock = 0
  /\ running = TRUE
  /\ page = [p \in Pages |-> NotOpen]
  /\ saving = NoSave
  /\ saved = Initially
  /\ fate = [n \in Names |-> "none"]
  /\ due = [p \in Pages |-> "no"]
  /\ overwritten = {}

Next ==
  \/ \E p \in Pages, n \in Names : OpenFile(p, n)
  \/ \E p \in Pages, n \in Names : NewPage(p, n)
  \/ \E p \in Pages : ClosePage(p)
  \/ \E p \in Pages, c \in Contents : EditPage(p, c)
  \/ \E p \in Pages, c \in Contents : EditUndo(p, c)
  \/ Timer
  \/ \E p \in Pages, n \in Names : SaveStarts(p, n)
  \/ SaveSucceeds
  \/ SaveFails
  \/ Quit
  \/ Crash
  \/ Start
  \/ Tick

Spec == Init /\ [][Next]_vars

-----------------------------------------------------------------------------
FileTypeOK ==
  /\ file \in [Names -> Stored]
  /\ backup \in [Names -> Stored]
  /\ autosave \in [Names -> Stored]
  /\ mtime \in [Names -> 0 .. MaxClock]
  /\ auto_mtime \in [Names -> 0 .. MaxClock]
  /\ clock \in 0 .. MaxClock
  /\ running \in BOOLEAN
  /\ page \in [Pages -> PageRecord]
  /\ saving \in [page : Pages, name : Names] \cup {NoSave}
  /\ saving # NoSave => IsOpen(saving.page)
  /\ saved \in [Names -> Stored]
  /\ fate \in [Names -> {"none", "orphan", "lost"}]
  /\ due \in [Pages -> {"no", "edited", "due"}]
  /\ overwritten \subseteq Pages

-----------------------------------------------------------------------------
(* Properties. *)

\* f_save: whenever the program or the write fails, between any two steps of any
\* saves, the version saved last under a name can be found on disk: in the file
\* itself or, if the file is gone, in its backup.
SavedVersionSurvives ==
  \A n \in Names : saved[n] # Missing =>
    \/ file[n] = saved[n]
    \/ file[n] = Missing /\ backup[n] = saved[n]

\* page_close, "page->CHANGED && !x_dialog_close_changed_page": what a page shows that
\* may be closed without a question is in its file, or in the backup if a save lost
\* the file; or it is the empty page of a missing file or of an invented name. Save As
\* may have given two pages one name: neither knows of the other's later changes.
UnchangedIsSaved ==
  \A p \in Pages \ overwritten :
    (IsOpen(p) /\ ~page[p].CHANGED /\ saving = NoSave) =>
      LET n == page[p].name
      IN  \/ page[p].content = file[n]
          \/ file[n] = Missing /\ page[p].content \in {backup[n], EmptyPage}
          \/ n \in Untitled /\ page[p].content = EmptyPage

\* No other page has the name of p.
NamedAlone(p) == \A q \in Pages \ {p} : page[q].name # page[p].name

\* system-gschemrc.scm auto-save-interval, "the backup copy is made when you make
\* some change to the schematic, and there were more than interval seconds from the
\* last autosave": the first edit, of any page, after a timeout that follows an edit
\* of page p puts p into its autosave, or leaves it flagged for the next edit if that
\* could not be written. (Pages that Save As gave one name share one autosave.)
AutosaveWhenDue ==
  [][\A p \in Pages :
       (/\ due[p] = "due" /\ NamedAlone(p)
        /\ \E q \in Pages, c \in Contents : EditPage(q, c)) =>
         \/ autosave'[page[p].name] = page'[p].content
         \/ page'[p].do_autosave_backup]_vars

\* f_open_flags: an autosave left by a crash, of a file that is still there and
\* older, is removed or overwritten only after the user was asked about it.
CrashedWorkIsOffered ==
  [][\A n \in Names \ Untitled :
       (fate[n] = "orphan" /\ fate'[n] = "lost") =>
         file[n] = Missing \/ auto_mtime[n] <= mtime[n]]_vars
=============================================================================
