------------------------------ MODULE Hierarchy ------------------------------
(***************************************************************************)
(* Moving through a hierarchical design in lepton-schematic:               *)
(* liblepton/src/s_hierarchy.c and the Hierarchy and Page commands of      *)
(* schematic/src/i_callbacks.c and x_window.c, composed with the undo      *)
(* lists of module Undo, whose nodes save and restore a page's place       *)
(* (page_control and up) along with its objects.                           *)
(*                                                                         *)
(* A member of Pages is a page id: it is used for one load of one file.    *)
(***************************************************************************)
EXTENDS Undo

CONSTANTS
  NoPage,       \* a page id that names no page (up = -2, page_current NULL)
  FileOf,       \* the file a page is loaded from
  Openable,     \* the files the user opens directly
  SourcesIn,    \* per file, the source= lists of its components
  SymbolsIn,    \* per file, the symbol files of its components
  Library,      \* the files get-source-library-file finds
  MaxControl    \* bound: page_control_counter

Files == {FileOf[p] : p \in Pages}

ASSUME HierarchyAssumption ==
  /\ IsFiniteSet(Pages)
  /\ NoPage \notin Pages
  /\ MaxControl \in Nat
  /\ NoLink = [page_control |-> 0, up |-> NoPage]
  /\ Links = [page_control : 0 .. MaxControl, up : Pages \cup {NoPage}]
  /\ Openable \subseteq Files
  /\ \A f \in Files : \A fs \in SourcesIn[f] : fs \in Seq({fs[i] : i \in DOMAIN fs})
  \* an undo file that cannot be read leaves its page empty
  /\ UndoType = "disk" => EmptyPage \in Contents

VARIABLES
  pages,                \* toplevel->pages, in list order
  page_current,         \* toplevel->page_current
  page_control_counter,
  descent               \* what is left of a Down Schematic command, or Idle

Idle == [files |-> <<>>, parent |-> NoPage, page_control |-> 0, first |-> NoPage]

nav == <<pages, page_current, page_control_counter, descent>>
hvars == <<vars, nav>>

-----------------------------------------------------------------------------
IsOpen(p) == \E i \in DOMAIN pages : pages[i] = p

OpenPages == {p \in Pages : IsOpen(p)}

\* s_page_search: the page of a file, if it is loaded.
s_page_search(f) == {p \in OpenPages : FileOf[p] = f}

\* s_page_search_by_page_id: a page id whose page is gone finds nothing.
s_page_search_by_page_id(pid) == IF IsOpen(pid) THEN pid ELSE NoPage

\* The n-th page of the walk from p upwards along page->up.
Above(p) ==
  LET walk[n \in 0 .. Cardinality(Pages)] ==
        IF n = 0 THEN p
        ELSE IF walk[n - 1] = NoPage THEN NoPage
        ELSE s_page_search_by_page_id(link[walk[n - 1]].up)
  IN  walk

\* A mutant: only the page itself is compared, not those above it.
OnlyTheParent(found, parent) == found = parent

\* The loop over the parents list in s_hierarchy_down_schematic_single finds
\* `found` above (or at) `parent` ...
InParentsList(found, parent) == \E n \in DOMAIN Above(parent) : Above(parent)[n] = found

\* ... and comes to an end only if it finds it, or the walk leaves the design.
WalkEnds(found, parent) ==
  InParentsList(found, parent) \/ Above(parent)[Cardinality(Pages)] = NoPage

\* g_list_remove: the list without its first p.
Without(s, p) ==
  LET i == CHOOSE j \in DOMAIN s : s[j] = p
  IN  SubSeq(s, 1, i - 1) \o SubSeq(s, i + 1, Len(s))

\* A mutant: the parent is shown without looking whether it is still open.
ParentUnchecked(p) ==
  LET i == CHOOSE j \in DOMAIN pages : pages[j] = p
  IN  IF link[p].up # NoPage THEN link[p].up
      ELSE IF i > 1 THEN pages[i - 1]
      ELSE IF i < Len(pages) THEN pages[i + 1]
      ELSE NoPage

\* x_window_close_page: the page shown after the current page p is closed.
NextCurrent(p) ==
  LET i == CHOOSE j \in DOMAIN pages : pages[j] = p
  IN  IF IsOpen(link[p].up) THEN link[p].up
      ELSE IF i > 1 THEN pages[i - 1]
      ELSE IF i < Len(pages) THEN pages[i + 1]
      ELSE NoPage

\* A page id never used before, for a file that is not loaded.
Fresh(f) == {p \in Pages : FileOf[p] = f /\ phase[p] = "new" /\ s_page_search(f) = {}}

-----------------------------------------------------------------------------
\* x_window_open_page and page_open: a loaded file is only shown.
Open(f) ==
  /\ descent = Idle
  /\ f \in Openable
  /\ \/ \E p \in s_page_search(f) :
          /\ page_current' = p
          /\ UNCHANGED <<vars, pages, page_control_counter, descent>>
     \/ \E p \in Fresh(f) :
          /\ OpenPage(p)
          /\ pages' = Append(pages, p)
          /\ page_current' = p
          /\ UNCHANGED <<page_control_counter, descent>>

\* The user shows another page (page manager, next and previous page).
Goto(p) ==
  /\ descent = Idle
  /\ IsOpen(p)
  /\ page_current' = p
  /\ UNCHANGED <<vars, pages, page_control_counter, descent>>

\* Editing, viewport changes, undo and redo happen on the current page.
OnCurrentPage ==
  /\ descent = Idle
  /\ page_current # NoPage
  /\ \/ EditPage(page_current)
     \/ PanZoom(page_current)
     \/ EditUndo(page_current)
     \/ EditRedo(page_current)
  /\ UNCHANGED nav

\* hierarchy_down_schematic: a component of the current page names schematics.
DownSchematic ==
  /\ descent = Idle
  /\ page_current # NoPage
  /\ \E fs \in SourcesIn[FileOf[page_current]] :
       descent' = [Idle EXCEPT !.files = fs, !.parent = page_current]
  /\ UNCHANGED <<vars, pages, page_current, page_control_counter>>

\* A mutant: the page is hung below the first page reached.
BelowFirst(control) ==
  [page_control |-> control,
   up |-> IF descent.first = NoPage THEN descent.parent ELSE descent.first]

\* The place of a page reached by Down Schematic.
BelowParent(control) == [page_control |-> control, up |-> descent.parent]

\* A mutant: a loaded page joins the pages that were loaded last.
WithTheLatest(found) ==
  IF descent.page_control # 0 THEN descent.page_control ELSE page_control_counter

\* The page_control of a loaded page: that of the files before it in the list, or its own.
LoadedControl(found) ==
  IF descent.page_control # 0 THEN descent.page_control ELSE link[found].page_control

\* One round of its loop, up to the o_undo_savestate of the child.
Descended(child, control) ==
  /\ descent' = [descent EXCEPT
                   !.files = Tail(@),
                   !.page_control = control,
                   !.first = IF @ = NoPage THEN child ELSE @]
  /\ UNCHANGED page_current

\* s_hierarchy_down_schematic_single for a file that is already loaded.
DescendToLoaded ==
  /\ descent.files # <<>>
  /\ Head(descent.files) \in Library
  /\ \E found \in s_page_search(Head(descent.files)) :
       /\ WalkEnds(found, descent.parent)
       /\ ~InParentsList(found, descent.parent)
       /\ LET control == LoadedControl(found)
          IN  /\ o_undo_savestate(found, "UNDO_ALL", content[found], BelowParent(control), TRUE)
              /\ Descended(found, control)
  /\ UNCHANGED <<phase, running, pages, page_control_counter>>

\* ... and for one that has to be loaded.
DescendToNew ==
  /\ descent.files # <<>>
  /\ Head(descent.files) \in Library
  /\ LET counter == IF descent.page_control # 0 THEN page_control_counter
                    ELSE page_control_counter + 1
         control == IF descent.page_control # 0 THEN descent.page_control
                    ELSE counter
     IN  /\ control <= MaxControl
         /\ \E child \in Fresh(Head(descent.files)), c \in Contents :
              /\ phase' = [phase EXCEPT ![child] = "open"]
              /\ o_undo_savestate(child, "UNDO_ALL", c, BelowParent(control), TRUE)
              /\ pages' = Append(pages, child)
              /\ Descended(child, control)
         /\ page_control_counter' = counter
  /\ UNCHANGED running

\* ... and when it fails: not in the library, or a circular dependency.
DescendFails ==
  /\ descent.files # <<>>
  /\ \/ Head(descent.files) \notin Library
     \/ \E found \in s_page_search(Head(descent.files)) :
          InParentsList(found, descent.parent)
  /\ descent' = [descent EXCEPT !.files = Tail(@)]
  /\ UNCHANGED <<vars, pages, page_current, page_control_counter>>

\* After the loop the first page that was reached is shown.
DescentEnds ==
  /\ descent # Idle
  /\ descent.files = <<>>
  /\ page_current' = IF descent.first = NoPage THEN page_current ELSE descent.first
  /\ descent' = Idle
  /\ UNCHANGED <<vars, pages, page_control_counter>>

\* hierarchy_down_symbol, s_hierarchy_down_symbol.
DownSymbol ==
  /\ descent = Idle
  /\ page_current # NoPage
  /\ \E f \in SymbolsIn[FileOf[page_current]] :
       \/ \E page \in s_page_search(f) :
            /\ o_undo_savestate(page, "UNDO_ALL", content[page],
                                [link[page] EXCEPT !.up = page_current], TRUE)
            /\ page_current' = page
            /\ UNCHANGED <<phase, running, pages, page_control_counter>>
       \/ \E page \in Fresh(f), c \in Contents :
            /\ page_control_counter < MaxControl
            /\ page_control_counter' = page_control_counter + 1
            /\ phase' = [phase EXCEPT ![page] = "open"]
            /\ o_undo_savestate(page, "UNDO_ALL", c,
                   [page_control |-> page_control_counter', up |-> page_current], TRUE)
            /\ pages' = Append(pages, page)
            /\ page_current' = page
            /\ UNCHANGED running
  /\ UNCHANGED descent

\* hierarchy_up: close the current page and show the one above it.
HierarchyUp ==
  /\ descent = Idle
  /\ page_current # NoPage
  /\ LET up_page == s_page_search_by_page_id(link[page_current].up)
     IN  /\ up_page # NoPage
         /\ ClosePage(page_current)
         /\ pages' = Without(pages, page_current)
         /\ page_current' = up_page
  /\ UNCHANGED <<page_control_counter, descent>>

\* x_window_close_page, as page_close and the page manager call it. The last
\* page is not closed here: a new untitled page would take its place.
PageClose(p) ==
  /\ descent = Idle
  /\ IsOpen(p)
  /\ Len(pages) > 1
  /\ ClosePage(p)
  /\ pages' = Without(pages, p)
  /\ page_current' = IF p = page_current THEN NextCurrent(p) ELSE page_current
  /\ UNCHANGED <<page_control_counter, descent>>

\* "make sure we maintain the hierarchy info".
PlaceKept(old, new) == [link EXCEPT ![old] = NoLink, ![new] = link[old]]

\* page_revert: close the page, load its file as a new page, save that page's
\* first state, and only then give it the place of the old one. The undo lists
\* of the two pages change in one step.
PageRevert ==
  /\ descent = Idle
  /\ page_current # NoPage
  /\ Len(pages) > 1
  /\ running
  /\ LET old == page_current
     IN  \E new \in {p \in Pages : FileOf[p] = FileOf[old] /\ phase[p] = "new"},
            c \in Contents :
           /\ LET n == NewNode("UNDO_ALL", Consolidate[c], NoLink)
              IN  IF UndoControl
                  THEN /\ n.filename # NoFile => undo_file_index < MaxFiles
                       /\ undo' = [undo EXCEPT ![old] = <<>>, ![new] = <<n>>]
                       /\ undo_current' = [undo_current EXCEPT ![old] = 0, ![new] = 1]
                       /\ undo_file_index' = IF n.filename = NoFile THEN undo_file_index
                                             ELSE undo_file_index + 1
                       /\ files' = WriteUndoFile(n, TRUE)
                       /\ content' = [content EXCEPT ![old] = EmptyPage,
                                                     ![new] = Consolidate[c]]
                  ELSE /\ UNCHANGED <<undo, undo_current, undo_file_index, files>>
                       /\ content' = [content EXCEPT ![old] = EmptyPage, ![new] = c]
           /\ phase' = [phase EXCEPT ![old] = "closed", ![new] = "open"]
           /\ link' = PlaceKept(old, new)
           /\ pages' = Append(Without(pages, old), new)
           /\ page_current' = new
  /\ UNCHANGED <<running, page_control_counter, descent>>

HInit ==
  /\ Init
  /\ pages = <<>>
  /\ page_current = NoPage
  /\ page_control_counter = 0
  /\ descent = Idle

HNext ==
  \/ \E f \in Files : Open(f)
  \/ \E p \in Pages : Goto(p)
  \/ OnCurrentPage
  \/ DownSchematic
  \/ DescendToLoaded
  \/ DescendToNew
  \/ DescendFails
  \/ DescentEnds
  \/ DownSymbol
  \/ HierarchyUp
  \/ \E p \in Pages : PageClose(p)
  \/ PageRevert

HSpec == HInit /\ [][HNext]_hvars

-----------------------------------------------------------------------------
(* Properties. *)

HTypeOK ==
  /\ TypeOK
  /\ pages \in Seq(Pages)
  /\ OpenPages = {p \in Pages : phase[p] = "open"}
  /\ Len(pages) = Cardinality(OpenPages)
  /\ page_current \in OpenPages \cup {NoPage}
  /\ page_control_counter \in 0 .. MaxControl
  /\ descent.parent \in OpenPages \cup {NoPage}

\* s_hierarchy_down_schematic_single, "check whether this page is in the parents
\* list": no chain of page->up runs in a circle, so that every walk up the
\* hierarchy ends (the loop itself has no other way to stop).
HierarchyHasNoCycle ==
  \A p \in OpenPages : Above(p)[Cardinality(Pages)] = NoPage

\* hierarchy_up: whatever undo, redo, Revert and closed pages made of page->up,
\* the page it leads to is one whose schematic contains this page's file. SourcesIn and
\* SymbolsIn do not change: a page whose components are edited after the descent keeps
\* the pages below it, and nothing is said of those.
UpLeadsToAUser ==
  \A p \in OpenPages : \A q \in OpenPages :
    link[p].up = q =>
      \/ FileOf[p] \in SymbolsIn[FileOf[q]]
      \/ \E fs \in SourcesIn[FileOf[q]] : \E i \in DOMAIN fs : fs[i] = FileOf[p]

\* Two files are named by the source= list of one component.
InOneList(f, g) ==
  \E h \in Files : \E fs \in SourcesIn[h] : \E i, j \in DOMAIN fs : fs[i] = f /\ fs[j] = g

\* page_next and page_prev with enforce-hierarchy: s_hierarchy_find_next_page takes pages
\* of equal page_control for the files of one source= list. So they are, whatever undo and
\* redo, Revert and further descents made of page_control. (A file that two different lists
\* name keeps the page_control of the first: the pages of both lists are then taken together.)
SiblingsShareAList ==
  \A p, q \in OpenPages :
    FileOf[p] # FileOf[q] /\ link[p].page_control = link[q].page_control =>
      link[p].page_control = 0 \/ InOneList(FileOf[p], FileOf[q])
=============================================================================
