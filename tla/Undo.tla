-------------------------------- MODULE Undo --------------------------------
(***************************************************************************)
(* The undo/redo lists of lepton-schematic: liblepton/src/geda_undo.c (the *)
(* list), schematic/src/o_undo.c (saving a state, undo, redo, trimming,    *)
(* cleanup), and the page operations that create and destroy a list.       *)
(*                                                                         *)
(* A page's doubly linked list of UNDO nodes is a sequence: its first      *)
(* element is page->undo_bottom, its last page->undo_tos, and              *)
(* undo_current is an index into it (0 is the NULL pointer).  The          *)
(* schematic itself is one opaque value per page.                          *)
(***************************************************************************)
EXTENDS Integers, Sequences, FiniteSets

CONSTANTS
  Pages,          \* the PAGE structures (a page is never reused: pids grow)
  Links,          \* a page's place in the hierarchy: page_control and up
  NoLink,         \* the place of a new page: page_control 0, up -2
  Contents,       \* the schematics opened and drawn, as opaque values
  EmptyPage,      \* the schematic without objects, in Contents if anyone draws it
  NoObjects,      \* a NULL object_list in an UNDO node
  UndoControl,    \* rc undo-control: is undo enabled at all
  UndoType,       \* rc undo-type: "disk" or "memory"
  UndoLevels,     \* rc undo-levels: the levels trimming keeps
  UNDO_PADDING,   \* levels above UndoLevels before trimming starts (5)
  CheckPeriod,    \* trimming is considered when undo_file_index % 10 = 0
  Consolidate,    \* what geda_net_object_consolidate makes of a schematic
  WritesMayFail,  \* may o_save of an undo file fail (its result is ignored)
  MaxFiles,       \* bound: undo files written in a behaviour
  MaxNodes        \* bound: nodes in one page's list

ASSUME ConstantsAssumption ==
  /\ NoLink \in Links
  /\ NoObjects \notin Contents \cup {EmptyPage}
  /\ UndoControl \in BOOLEAN
  /\ UndoType \in {"disk", "memory"}
  /\ UndoLevels \in Nat \ {0}        \* g_rc_undo_levels refuses 0
  /\ UNDO_PADDING \in Nat
  /\ CheckPeriod \in Nat \ {0}
  /\ Consolidate \in [Contents -> Contents]
  /\ WritesMayFail \in BOOLEAN
  /\ MaxFiles \in Nat
  /\ MaxNodes \in Nat

VARIABLES
  phase,            \* a page is "new", "open" or "closed"
  content,          \* the objects on the page
  link,             \* page->page_control and page->up
  undo,             \* the list from undo_bottom to undo_tos
  undo_current,     \* index of page->undo_current in it, 0 if NULL
  undo_file_index,  \* the static counter that names undo files
  files,            \* the undo files in tmp_path, Unlinked if absent
  running           \* FALSE once gschem_quit has run

vars == <<phase, content, link, undo, undo_current,
          undo_file_index, files, running>>

-----------------------------------------------------------------------------
Indices  == 0 .. MaxFiles - 1
NoFile   == -1                       \* a NULL filename in an UNDO node
Unlinked == NoObjects                \* no file of that name

NodeType == {"UNDO_ALL", "UNDO_VIEWPORT_ONLY"}

\* An UNDO node. `shown` is not in the code: it records what the page showed
\* when the node was saved, so that properties can say what undo must restore.
Node == [type : NodeType,
         filename : Indices \cup {NoFile},
         object_list : Contents \cup {NoObjects},
         link : Links,
         shown : Contents \cup {EmptyPage}]

HasData(n) == n.filename # NoFile \/ n.object_list # NoObjects

\* s_undo_levels: the nodes with data, viewport-only nodes do not count.
Levels(s) == Cardinality({i \in DOMAIN s : HasData(s[i])})

\* The undo files the nodes of a list own.
Owned(s) == {s[i].filename : i \in DOMAIN s} \ {NoFile}

Tail2(s, k) == SubSeq(s, k + 1, Len(s))

\* A mutant: the trimming loop runs once too often.
TrimOneMore(s, index) ==
  IF index % CheckPeriod = 0 /\ Levels(s) >= UndoLevels + UNDO_PADDING
  THEN Levels(s) - UndoLevels + 1
  ELSE 0

\* How many nodes o_undo_savestate frees from the bottom of list s.
TrimCount(s, index) ==
  IF index % CheckPeriod = 0 /\ Levels(s) >= UndoLevels + UNDO_PADDING
  THEN Levels(s) - UndoLevels
  ELSE 0

\* The data of the nearest node below i that has any (o_undo_find_prev_*).
PrevWith(s, i, Has(_)) ==
  LET below == {j \in 1 .. i - 1 : Has(s[j])}
  IN  IF below = {} THEN 0 ELSE CHOOSE j \in below : \A k \in below : k <= j

\* Mutants: the search starts at the current node, one above i.
SearchFileFromCurrent(s, i) ==
  LET above == IF i < Len(s) THEN i + 2 ELSE i + 1
      j     == PrevWith(s, above, LAMBDA n : n.filename # NoFile)
  IN  IF j = 0 THEN NoFile ELSE s[j].filename

SearchListFromCurrent(s, i) ==
  LET above == IF i < Len(s) THEN i + 2 ELSE i + 1
      j     == PrevWith(s, above, LAMBDA n : n.object_list # NoObjects)
  IN  IF j = 0 THEN NoObjects ELSE s[j].object_list

o_undo_find_prev_filename(s, i) ==
  LET j == PrevWith(s, i, LAMBDA n : n.filename # NoFile)
  IN  IF j = 0 THEN NoFile ELSE s[j].filename

o_undo_find_prev_object_head(s, i) ==
  LET j == PrevWith(s, i, LAMBDA n : n.object_list # NoObjects)
  IN  IF j = 0 THEN NoObjects ELSE s[j].object_list

-----------------------------------------------------------------------------
(***************************************************************************)
(* o_undo_savestate.  The handler that calls it has just left schematic c  *)
(* and place l in page p; `written` tells whether o_save could write the   *)
(* undo file.                                                              *)
(***************************************************************************)
\* A mutant: the number in the file name wraps around at undo-levels.
NodeWithReusedName(flag, c, l) ==
  [type        |-> flag,
   filename    |-> IF UndoType = "disk" /\ flag = "UNDO_ALL"
                   THEN undo_file_index % UndoLevels ELSE NoFile,
   object_list |-> IF UndoType = "memory" /\ flag = "UNDO_ALL" /\ c # EmptyPage
                   THEN c ELSE NoObjects,
   link        |-> l,
   shown       |-> c]

NewNode(flag, c, l) ==
  [type        |-> flag,
   filename    |-> IF UndoType = "disk" /\ flag = "UNDO_ALL"
                   THEN undo_file_index ELSE NoFile,
   \* o_glist_copy_all of an empty page is NULL
   object_list |-> IF UndoType = "memory" /\ flag = "UNDO_ALL" /\ c # EmptyPage
                   THEN c ELSE NoObjects,
   link        |-> l,
   shown       |-> c]

WriteUndoFile(n, written) ==
  IF n.filename = NoFile \/ ~written
  THEN files
  ELSE [files EXCEPT ![n.filename] = n.shown]

\* A mutant: the nodes are freed and their files stay.
LeaveFiles(f, idx) == f

UnlinkFiles(f, idx) == [i \in Indices |-> IF i \in idx THEN Unlinked ELSE f[i]]

\* A mutant: the nodes above undo_current are not cleared.
PushedOnTop(p, n) == Append(undo[p], n)

\* The list after clearing what is above undo_current and adding n.
Pushed(p, n) == Append(SubSeq(undo[p], 1, undo_current[p]), n)

o_undo_savestate(p, flag, c, l, written) ==
  /\ link' = [link EXCEPT ![p] = l]
  /\ IF ~UndoControl
     THEN /\ content' = [content EXCEPT ![p] = c]
          /\ UNCHANGED <<undo, undo_current, undo_file_index, files>>
     ELSE LET cc     == IF flag = "UNDO_ALL" THEN Consolidate[c] ELSE c
              n      == NewNode(flag, cc, l)
              pushed == Pushed(p, n)
              index  == IF n.filename = NoFile THEN undo_file_index
                                               ELSE undo_file_index + 1
              kept   == Tail2(pushed, TrimCount(pushed, index))
          IN  /\ n.filename # NoFile => undo_file_index < MaxFiles
              /\ Len(pushed) <= MaxNodes
              /\ content' = [content EXCEPT ![p] = cc]
              /\ undo' = [undo EXCEPT ![p] = kept]
              /\ undo_current' = [undo_current EXCEPT ![p] = Len(kept)]
              /\ undo_file_index' = index
              /\ files' = UnlinkFiles(WriteUndoFile(n, written),
                                      Owned(undo[p]) \ Owned(kept))

(***************************************************************************)
(* o_undo_callback: move undo_current of page p to node t, restoring the   *)
(* schematic if the node (or, between an edit and a viewport change, a     *)
(* node below it) has one.  A file that cannot be read leaves the page     *)
(* empty: its objects were deleted first.                                  *)
(***************************************************************************)
o_undo_callback(p, t) ==
  LET s     == undo[p]
      from  == s[undo_current[p]]
      to    == s[t]
      find_prev_data == from.type = "UNDO_ALL" /\ to.type = "UNDO_VIEWPORT_ONLY"
      file  == IF find_prev_data /\ UndoType = "disk"
               THEN o_undo_find_prev_filename(s, t) ELSE to.filename
      list  == IF find_prev_data /\ UndoType = "memory"
               THEN o_undo_find_prev_object_head(s, t) ELSE to.object_list
      restored == IF UndoType = "disk" /\ file # NoFile
                  THEN IF files[file] = Unlinked THEN EmptyPage ELSE files[file]
                  ELSE IF UndoType = "memory" /\ list # NoObjects
                       THEN list
                       ELSE content[p]
  IN  /\ content' = [content EXCEPT ![p] = restored]
      /\ link' = [link EXCEPT ![p] = to.link]
      /\ undo_current' = [undo_current EXCEPT ![p] = t]
      /\ UNCHANGED <<phase, undo, undo_file_index, files, running>>

-----------------------------------------------------------------------------
\* Can the write of an undo file succeed; can it fail.
Written == IF WritesMayFail THEN BOOLEAN ELSE {TRUE}

\* x_window_open_page: a new page, its file loaded, its first state saved.
OpenPage(p) ==
  /\ running
  /\ phase[p] = "new"
  /\ \E c \in Contents, w \in Written : o_undo_savestate(p, "UNDO_ALL", c, NoLink, w)
  /\ phase' = [phase EXCEPT ![p] = "open"]
  /\ UNCHANGED running

\* s_hierarchy_load_subpage, s_hierarchy_traversepages: a page is loaded below
\* another one, without saving its first state.
LoadSubpage(p) ==
  /\ running
  /\ phase[p] = "new"
  /\ phase' = [phase EXCEPT ![p] = "open"]
  /\ \E c \in Contents : content' = [content EXCEPT ![p] = c]
  /\ \E l \in Links : link' = [link EXCEPT ![p] = l]
  /\ UNCHANGED <<undo, undo_current, undo_file_index, files, running>>

\* The hierarchy commands also move an open page without saving its state.
Relink(p) ==
  /\ running
  /\ phase[p] = "open"
  /\ \E l \in Links : link' = [link EXCEPT ![p] = l]
  /\ UNCHANGED <<phase, content, undo, undo_current,
                 undo_file_index, files, running>>

\* Any editing handler: it changes the schematic and saves the state.
EditPage(p) ==
  /\ running
  /\ phase[p] = "open"
  /\ \E c \in Contents, w \in Written : o_undo_savestate(p, "UNDO_ALL", c, link[p], w)
  /\ UNCHANGED <<phase, running>>

\* A pan or zoom handler with undo-panzoom enabled.
PanZoom(p) ==
  /\ running
  /\ phase[p] = "open"
  /\ o_undo_savestate(p, "UNDO_VIEWPORT_ONLY", content[p], link[p], TRUE)
  /\ UNCHANGED <<phase, running>>

EditUndo(p) ==
  /\ running
  /\ UndoControl
  /\ phase[p] = "open"
  /\ undo_current[p] - 1 \in DOMAIN undo[p]
  /\ o_undo_callback(p, undo_current[p] - 1)

EditRedo(p) ==
  /\ running
  /\ UndoControl
  /\ phase[p] = "open"
  /\ undo_current[p] # 0
  /\ undo_current[p] + 1 \in DOMAIN undo[p]
  /\ o_undo_callback(p, undo_current[p] + 1)

\* A mutant: undo_current is not reset.
CloseKeepsCurrent(p) ==
  /\ running
  /\ phase[p] = "open"
  /\ phase' = [phase EXCEPT ![p] = "closed"]
  /\ content' = [content EXCEPT ![p] = EmptyPage]
  /\ link' = [link EXCEPT ![p] = NoLink]
  /\ undo' = [undo EXCEPT ![p] = <<>>]
  /\ UNCHANGED <<undo_current, undo_file_index, files, running>>

\* s_page_delete: s_undo_free_all frees the nodes but unlinks no file.
ClosePage(p) ==
  /\ running
  /\ phase[p] = "open"
  /\ phase' = [phase EXCEPT ![p] = "closed"]
  /\ content' = [content EXCEPT ![p] = EmptyPage]
  /\ link' = [link EXCEPT ![p] = NoLink]
  /\ undo' = [undo EXCEPT ![p] = <<>>]
  /\ undo_current' = [undo_current EXCEPT ![p] = 0]
  /\ UNCHANGED <<undo_file_index, files, running>>

\* A mutant: the cleanup loop stops one file early.
QuitTooEarly ==
  /\ running
  /\ running' = FALSE
  /\ files' = UnlinkFiles(files, 0 .. undo_file_index - 2)
  /\ phase' = [p \in Pages |-> "closed"]
  /\ content' = [p \in Pages |-> EmptyPage]
  /\ link' = [p \in Pages |-> NoLink]
  /\ undo' = [p \in Pages |-> <<>>]
  /\ undo_current' = [p \in Pages |-> 0]
  /\ UNCHANGED undo_file_index

\* gschem_quit: o_undo_cleanup removes every file name the counter has used,
\* and the process with its pages is gone.
Quit ==
  /\ running
  /\ running' = FALSE
  /\ files' = UnlinkFiles(files, 0 .. undo_file_index - 1)
  /\ phase' = [p \in Pages |-> "closed"]
  /\ content' = [p \in Pages |-> EmptyPage]
  /\ link' = [p \in Pages |-> NoLink]
  /\ undo' = [p \in Pages |-> <<>>]
  /\ undo_current' = [p \in Pages |-> 0]
  /\ UNCHANGED undo_file_index

Init ==
  /\ phase = [p \in Pages |-> "new"]
  /\ content = [p \in Pages |-> EmptyPage]
  /\ link = [p \in Pages |-> NoLink]
  /\ undo = [p \in Pages |-> <<>>]             \* s_undo_init
  /\ undo_current = [p \in Pages |-> 0]
  /\ undo_file_index = 0
  /\ files = [i \in Indices |-> Unlinked]
  /\ running = TRUE

Next ==
  \/ \E p \in Pages : OpenPage(p)
  \/ \E p \in Pages : LoadSubpage(p)
  \/ \E p \in Pages : Relink(p)
  \/ \E p \in Pages : EditPage(p)
  \/ \E p \in Pages : PanZoom(p)
  \/ \E p \in Pages : EditUndo(p)
  \/ \E p \in Pages : EditRedo(p)
  \/ \E p \in Pages : ClosePage(p)
  \/ Quit

Spec == Init /\ [][Next]_vars

-----------------------------------------------------------------------------
TypeOK ==
  /\ phase \in [Pages -> {"new", "open", "closed"}]
  /\ content \in [Pages -> Contents \cup {EmptyPage}]
  /\ link \in [Pages -> Links]
  /\ undo \in [Pages -> Seq(Node)]
  /\ undo_current \in [Pages -> Nat]
  /\ \A p \in Pages : undo_current[p] \in 0 .. Len(undo[p])
  /\ undo_file_index \in 0 .. MaxFiles
  /\ files \in [Indices -> Contents \cup {Unlinked}]
  /\ running \in BOOLEAN
-----------------------------------------------------------------------------
(* Properties. *)

\* The node whose data undo shows at node i of list s, 0 if there is none.
DataAt(s, i) == PrevWith(s, i + 1, HasData)

\* What is stored in that node: an undo file's content or a copy in memory.
StoredAt(s, i) ==
  LET j == DataAt(s, i)
  IN  IF j = 0 THEN NoObjects
      ELSE IF s[j].filename # NoFile THEN files[s[j].filename]
      ELSE s[j].object_list

\* o_undo_callback: as long as the data a position depends on is still stored,
\* the schematic on a page is the one it showed when the current UNDO node was
\* saved, whatever edits, pans, undos, redos and trims led there.
ContentMatchesNode ==
  \A p \in Pages :
    LET s == undo[p]
        i == undo_current[p]
    IN  (i # 0 /\ StoredAt(s, i) # NoObjects) => content[p] = s[i].shown

\* o_undo_savestate, s_undo_remove_rest: no two UNDO nodes of any pages own the
\* same undo file, and while the node is in a list its file holds what the page
\* showed when it was saved (or nothing, if it could not be written): a later
\* save of any page never reuses its name.
UndoFilesIntact ==
  /\ \A p \in Pages : \A i \in DOMAIN undo[p] :
       undo[p][i].filename # NoFile =>
         /\ undo[p][i].filename < undo_file_index
         /\ files[undo[p][i].filename] \in
              {undo[p][i].shown} \cup (IF WritesMayFail THEN {Unlinked} ELSE {})
  /\ \A p, q \in Pages : \A i \in DOMAIN undo[p], j \in DOMAIN undo[q] :
       (undo[p][i].filename = undo[q][j].filename /\ undo[p][i].filename # NoFile)
         => p = q /\ i = j

\* The trimming loop: trimming counts levels with data but frees nodes, yet it
\* never leaves fewer than undo-levels states to go back to, unless there were
\* fewer to begin with; the current node itself is never freed.
TrimKeepsUndoLevels ==
  [][\A p \in Pages :
       LET before == SubSeq(undo[p], 1, undo_current[p])
       IN  (phase[p] = "open" /\ phase'[p] = "open" /\ undo'[p] # undo[p]) =>
             /\ undo'[p] # <<>>
             /\ \/ Levels(undo'[p]) >= UndoLevels
                \/ Levels(undo'[p]) >= Levels(before)]_vars

FilesFollow ==
  \A i \in Indices : running' =>
    /\ (files[i] # Unlinked /\ files'[i] = Unlinked)
         => \A p \in Pages : i \notin Owned(undo'[p])
    /\ \A p \in Pages :
         (i \in Owned(undo[p]) /\ i \notin Owned(undo'[p]) /\ phase'[p] = "open")
           => files'[i] = Unlinked

\* s_undo_remove_rest and the trimming loop: an undo file disappears only with
\* the node that owns it, and a node that is freed while its page stays open
\* takes its file along, so that tmp_path holds no file nobody can undo to.
FilesFollowNodes == [][FilesFollow]_vars

\* o_undo_cleanup: whatever pages were closed without unlinking their files,
\* no undo file survives an orderly exit.
QuitLeavesNoFiles == ~running => \A i \in Indices : files[i] = Unlinked

-----------------------------------------------------------------------------
(* Refinement: what is stored is the history AbstractUndo promises. *)

Promise == INSTANCE AbstractUndo WITH
  Lost <- NoObjects,
  doc  <- content,
  hist <- [p \in Pages |-> [i \in 1 .. Len(undo[p]) |-> StoredAt(undo[p], i)]],
  pos  <- undo_current

\* Every list of nodes, files and aliases is a linear history: the steps of the
\* code are edits, viewport changes, undos and redos of AbstractUndo.
ImplementsAbstractUndo == Promise!Spec
=============================================================================
