# Models and proofs of lepton-eda

Lepton EDA is a suite of programs for drawing electronic schematics and turning
them into netlists. This directory holds TLA+ models of the parts of
`lepton-schematic` and `liblepton` that keep state, TLC configurations that check
them on small instances, and TLAPS proofs of what holds for every instance. Paths
below are relative to the root of the sources (`src/`); `PROJECT.json` maps every
definition to the lines it stands for.

## 1. Inventory

| Component | State | Operations | Interacts with |
|---|---|---|---|
| Undo lists: `liblepton/src/geda_undo.c`, `schematic/src/o_undo.c` | per page a doubly linked list of UNDO nodes, `undo_bottom`, `undo_tos`, `undo_current`; one counter `undo_file_index` and the undo files of all pages | save a state, undo, redo, trim, free, clean up | called by every editing handler; restores `page_control` and `up` of the hierarchy; calls net consolidation and writes due autosaves |
| Hierarchy: `liblepton/src/s_hierarchy.c`, commands in `schematic/src/i_callbacks.c`, `x_window.c` | page list, current page, `page_control_counter`, per page `page_control` and `up` | Down Schematic, Down Symbol, Up, open, go to, close, Revert | saves undo states; loads files through the component library |
| Connections: `liblepton/src/s_conn.c`, `geda_net_object.c` | `connectible_list` of a page, `conn_list` of every net, bus and pin | add, remove, update, consolidate nets | page and component operations, the editor and the Scheme API call it |
| Files: `liblepton/src/f_basic.c`, `geda_page.c`, `schematic/src/o_misc.c` | a file, its backup, its autosave; per page `CHANGED`, `saved_since_first_loaded`, `ops_since_last_backup`, `do_autosave_backup` | open, save, Save As, autosave timer, write autosaves, close, quit, crash | undo (`o_undo_savestate` counts operations and writes autosaves) |
| Component library: `liblepton/src/s_clib.c`, `schematic/src/x_compselect.c` | sources and their symbols, cache of searches, cache of at most 128 symbols' data, rows of the selector | add a source, search, get data, invalidate, refresh, reset | hierarchy, placing and updating components, Revert |
| Editor actions: `schematic/src/x_event.c`, `o_move.c`, `o_place.c`, `o_select.c`, `i_callbacks.c` | `event_state`, `inside_action`, per page a place list and a selection; stretch list, grip, temporary path | mouse events and commands that start, draw, end, cancel or disturb an action | undo states, connections, page list |
| Scheme objects and weak references: `liblepton/src/scheme_smob.c`, `scheme_object.c`, `scheme_page.c`, `scheme_complex.c`, `scheme_attrib.c`, `s_weakref.c` | handles, their cache, who deletes an object | make, copy, append, remove, attach, garbage collection | every destructor, pages, components |
| Attributes and slots: `o_attrib.c`, `s_attrib.c`, `s_slot.c` | `attribs` and `attached_to` of objects | attach, detach, promote, slot | selection, connections of a component's pins |
| Autonumbering: `schematic/src/x_autonumber.c` | the dialog's options, `used_numbers`, `free_slots` | collect, number, slot, remove numbers over a hierarchy | slots, selection, undo |
| Selection and lists: `o_selection.c`, `geda_list.c`, `geda_object_list.c` | lists, their change callbacks | add, remove, copy, freeze, thaw | editor, dialogs |
| Objects and geometry: `geda_object.c`, `geda_complex_object.c` and one file per kind | coordinates, angles, a component's parts | translate, rotate, mirror | editor, Scheme API |
| File format, configuration, netlister, `gattrib`, `symcheck`, dialogs, rendering | values computed from others, settings, widgets | | |

What is hard here. There is one thread: the GTK main loop runs one handler at a
time. The interleavings are those of user commands, the autosave timer, scripts
and crashes, and the hazards lie in long sequences of them:

- *Undo*: the file counter is shared by all pages; trimming counts nodes with
  data and frees nodes; undoing over a viewport change borrows data from another
  node; undo brings back a page's old place in the hierarchy; an undo file that
  could not be written is noticed by nobody.
- *Hierarchy*: `up` is a page id that may be stale, or be brought back by undo;
  a loop over `up` has no other end than leaving the hierarchy; a descent into
  several files may fail half way.
- *Connections*: a connection is recorded in two lists, and the memory of an
  object is freed on the strength of them; every handler that moves objects must
  take them out first; scripts do not; consolidation frees nets while it runs.
- *Files*: a crash or a failed write between two steps of a save; the timer sets
  a flag that the next edit of any page acts on; the autosave of a crashed
  session and the new session use one file name.

- *Editor*: the place list of a page holds copies in some actions and the page's own
  objects in others; every handler decides by `event_state` and `inside_action`
  whether to free it.
- *Library*: symbols are freed when their source is listed again, while both caches
  and the rows of the selector hold pointers to them, and memory is used again.
- *Scheme objects*: the garbage collector runs at any time and deletes what it owns;
  ownership changes with every append and remove.
- *Autonumbering*: what is in use is collected text by text while texts change, over
  pages that are respected or not depending on two options.
- *Geometry*: a component keeps its parts in place and four numbers beside them, and
  only the numbers are saved.

What makes them correct: undo and redo show what was saved, undo files have one owner
and do not outlive it; Hierarchy Up leads to a page that uses this one, the hierarchy is
free of circles and its siblings are the files of one list; connections are mutual and
those a fresh load would find, and consolidation keeps nets as they are; no saved
version is lost, no unsaved one is taken for saved, and work left by a crash is offered;
no list of the editor keeps what another has freed; who asks for a component gets it;
handles and attribute links refer to living objects; numbers and slots are given once;
and what is shown is what is saved. `PROJECT.json` lists the hazards line by line with
the properties that watch them.

## 2. Modules

| Module | Models | Built on |
|---|---|---|
| `AbstractUndo` | what undo promises: per page a linear history and a position in it | |
| `Undo` | the undo lists, their files and page operations around them | implements `AbstractUndo` |
| `Hierarchy` | the page list and the hierarchy commands | extends `Undo`: every action that saves, restores or frees an undo list takes that step in `Undo` |
| `Conn` | connections of one page, editing, scripts, consolidation | |
| `FileSave` | files, backups and autosaves of several pages, crashes | |
| `Editor` | the actions of one window and the lists of objects they share | |
| `Clib` | sources, symbols, both caches, their users | |
| `SchemeObjects` | objects, attributes, handles and the garbage collector | |
| `Autonumber` | the Autonumber Text command | |
| `Placement` | moving, turning and mirroring objects and components | |
| `HierarchyProofs`, `ConnProofs`, `FileSaveProofs`, `EditorProofs`, `ClibProofs`, `SchemeObjectsProofs`, `AutonumberProofs`, `PlacementProofs` | theorems | extend the modules they are about; `HierarchyProofs` has those about `Undo` too |
| `MCUndo`, `MCHierarchy`, `MCConn`, `MCFileSave`, `MCEditor`, `MCClib`, `MCSchemeObjects`, `MCAutonumber` | instances for TLC | |

Operators with the name of a C function stand for that function. Definitions
marked *mutant* are wrong on purpose: each is a plausible bug in the definition
that follows it and is used nowhere; with it in place a property of the run that
`PROJECT.json` names is violated, which shows that the property says something.

### Undo

A page's list is the sequence `undo[p]`; its first element is `undo_bottom`, its
last `undo_tos`, and `undo_current[p]` an index (0 is NULL). A node is a record of
its type, file name, object list and place; a ghost field `shown` keeps what the
page showed when the node was saved. `files[i]` is what the i-th undo file holds.
A schematic is one opaque value, and net consolidation, which
`o_undo_savestate` runs on an edit, a function of it. `o_undo_savestate` is all of
that function: clear what is above `undo_current`, consolidate, write the file
(successfully or not), add the node, trim. `o_undo_callback` lends a viewport
node the data of a node below it when the step crosses from an edit, as the code
does. `EditPage`, `PanZoom`, `EditUndo`, `EditRedo`, `OpenPage`, `LoadSubpage`,
`Relink`, `ClosePage` and `Quit` are the callers.

### Hierarchy

`pages` and `page_current` are the page list; `link[p]` (from `Undo`) is
`page_control` and `up`. Down Schematic is a loop over files in the code and a
sequence of steps here (`DownSchematic`, then `DescendToLoaded`, `DescendToNew` or
`DescendFails` per file, then `DescentEnds`); no other command runs in between
(`descent # Idle`), as the handler does not return to the main loop. A page id is
a member of `Pages` and is never used twice; a second id of the same file serves a
second load. `PageRevert` changes two undo lists at once and therefore repeats the
save of a first state that `Undo!OpenPage` would make. What a file contains
(`SourcesIn`, `SymbolsIn`) does not change: `EditPage` edits a page, but not the
components the hierarchy is made of.

### Conn

`line` holds the end points, `pin_bus` the type of a pin, `connectible` the objects
on the page and `conn` their connection lists; the objects inside a component
(`Parent`) come and go together. `Joints` is the geometry of
`s_conn_update_line_object`: coincident ends, ends on the inside of a horizontal
or vertical line, with its rules for buses, pins and components. All editing
handlers have one of three forms, `Left` (remove and free), `Joined` (take out,
change, put in), and `ScriptTransform`, which moves objects and looks at no
connection. `moved`, a ghost, names the objects that scripts have moved and no
other operation has put in again. Consolidation is the loop of `Merge` steps
between `SaveState` and `ConsolidationEnds`, in any order of the pairs.

### FileSave

Per name there are `file`, `backup` (`n~`) and `autosave` (`#n#`), and the two
modification times that `f_has_active_autosave` compares. `f_save` has two steps,
`SaveStarts` (the rename to the backup) and `SaveSucceeds` or `SaveFails`, so that
`Crash` can come in between; nothing else can. The timer only sets
`do_autosave_backup`; `o_undo_savestate` writes the autosaves that are due before
it counts the operation, as in the code, and any subset of them may fail. Ghosts:
`saved` is the version last saved under a name, `fate` what became of an autosave
a crash left behind, `due` whether an edit has seen a timeout since, `overwritten`
the pages whose file another page has written.

### Editor

The window is one record `w`, and a handler an operator from such records to such
records, so that the calls it makes compose in the order of the code: `Cancel` calls
`MoveCancel` and `GripsCancel`, and then frees the place list, as `i_callbacks.c` does.
An object is a piece of memory; `live` says which are allocated, and `Fresh` takes
memory for new objects that nothing refers to, so that a stale pointer stays
recognisable. The actions are the five events of `x_event.c` (each a case on the mode)
and the commands, among them those of dialogs that stay open beside the page: text,
properties, attributes, slot, Hide Text, Find Text, Edit/Translate, the component
selector and Autonumber. Scripts that run as a command are not among them. `harm` keeps
the first thing that went wrong: use of freed memory, freeing an object that is still on
a page, an object put on a page twice, a failed assertion. `untidy` is set by the
commands that ignore an action in progress (section 3, divergences) and ends the
exploration of that behaviour.

### Clib

`symbols` and `name` are the symbols of each source, in memory that is used again;
`search` and `cache` the two caches, with access times in seconds, several of which
may be equal. `disk` and `broken` are the world, which changes at any time. Listing a
source again, in full or not at all, flushes the caches as `s_clib_flush_search_cache`
and `s_clib_flush_symbol_cache` do. `loaded` records the last request and its answer.
Trimming follows the loop of `s_clib_symbol_get_data`, which compares against an
entry it has just freed, and, if no entry is older, removes the one with the key it finds
there. The time it reads may be anything; the key is taken not to be the address of a
symbol that is cached.

### SchemeObjects

`m` holds the objects with page, component, owner and attributes, the handles with their
flag `gc`, and the cache of handles. A handle becomes garbage when scripts drop it
(`held`), and `smob_free` may then come at any later step. The user's side are placing,
deleting, attaching and detaching, and copying, by which `copied_to` is set and cleared.
All texts may be attributes. The editor's place list and buffers, whose objects are
loose and owned by C, are in `Editor` and not here. `m.stray` marks the use of a
`copied_to` that an earlier copy had left: the new copy is then attached to that earlier
one if it still exists (the code would write to a freed object otherwise, which is
outside the model). Exploration ends there, the proofs go on.

### Autonumber

One step per text: `Apply` takes the dialog's options, `StartPage` and `Collect` are
the two halves of the loop over pages, `Number` and `RemoveNumber` the loop over
texts, in any order, which covers every sort order. `used` and `free` are the
database. Pages form a chain, as the order of the depth-first walk is all that
matters to the database.

### Placement

Objects are records of their coordinates; `geda_line_object_rotate` and the like are
functions of them, one for each function of the code, and lines stand for nets, buses,
pins and paths. The state machine has one component and the operations by hand and by
script that change it; `UpdateComponent` is also what closing and opening the file
does to it. Coordinates are integers without bound. The corners of a box are in order,
although a file may hold one of negative width or height (`geda_box_object.c:321`).

## 3. Runs

Every run of TLC explores all reachable states of its instance; the numbers are
distinct states.

| Run | Instance | Shows |
|---|---|---|
| `UndoDisk` (167 295) | 2 pages that share the file counter, undo-levels 1, padding 1, trimming considered every 2 saves, 4 files, 3 nodes per page, writes may fail | `TypeOK`; `ContentMatchesNode`: undo and redo show what the node they stop at stands for; files have one owner (`UndoFilesIntact`), go with their nodes (`FilesFollowNodes`), and none is left after quitting (`QuitLeavesNoFiles`) |
| `UndoMemory` (23 198) | 1 page, 3 schematics of which consolidation changes one, copies in memory, undo-levels 2, 7 nodes; the counter stays 0, so every save considers trimming | `ContentMatchesNode`; `TrimKeepsUndoLevels`; `ImplementsAbstractUndo` |
| `HierarchyTree` (401 333) | 5 page ids of 4 files that form a tree, one of them both a schematic in a list of two and a symbol elsewhere, memory undo with 2 nodes per page, 3 values of the counter | `HTypeOK`; `UpLeadsToAUser`: whatever undo brings back, Up leads to a page that uses this one; `SiblingsShareAList`: pages that Next Page and Previous Page take for siblings are files of one `source=` list |
| `HierarchyNoUndo` (98 376) | a file that contains its own parent, a missing file, a symbol shared by two schematics; undo disabled | `HierarchyHasNoCycle` |
| `ConnEditing` (92 169) | a net, a pin, and a component of a net and a pin on a 3 x 3 grid; placing, replacing, reshaping, half turns, pin types, component editing, scripts | `ConnTypeOK`, `ConnectionsMutual`, `ConnectionsExact` |
| `ConnConsolidate` (18 954) | three nets, a bus and a pin whose segments meet without overlapping, consolidation | `ConnectionsComplete`; `ConnectionsMeet`: what merging leaves recorded is at a point of both objects; `ConsolidationKeepsAbuttingNets`, and, under fairness, `ConsolidationEndsMerged` |
| `FileCrash` (2 972 912) | 1 page, an existing file and a new page's name, Save As onto either, backups, failing writes, crashes, 2 instants | `FileTypeOK`, `SavedVersionSurvives`, `UnchangedIsSaved`, `AutosaveWhenDue`, `CrashedWorkIsOffered` |
| `EditorTidy` (17 146) | 2 pages, 4 objects | `EditorTypeOK`; `ListsAreSafe`; `IdleHasNothingPending`; `MoveListIsSelection` |
| `Library` (87 473) | 2 sources, 3 pieces of memory, 2 names, a cache of 2 trimmed to 1, one change from outside, 2 instants | `ClibTypeOK`, `SearchesAreCurrent`, `CachedDataIsItsSymbols`, `AnswersAreWhatWasAsked`, `UpdateReadsTheSource`, `EvictsOldest` |
| `Autonumber` (590 986) | 4 texts on 2 pages, a symbol with 2 slots, every option, every numbering to start from | `NumbersAreUnique`, `SlotsAreUsedOnce` |
| `Scripts` (246 769) | 2 components, 2 texts, 2 pages, 3 handles | `HandlesAreValid`, `CollectorOwnsLooseObjects`, `AttachmentsStayTogether` |

`UndoDisk`, `UndoMemory`, `HierarchyTree` and `HierarchyNoUndo` set `CHECK_DEADLOCK
FALSE`: the first two stop at `Quit`, the others where a bound is reached in the
middle of a descent (page ids, the counter, undo nodes). `EditorTidy`, `Scripts` and
`Autonumber` have a CONSTRAINT: it cuts off what follows after a command that ignored
an action in progress, after a stray copy, and after one run of the command.

One run shows the code at odds with its own comment. `HierarchyCycle` violates
`HierarchyHasNoCycle`: Down Schematic refuses a page that is among the parents of the
current one. Undo in a page that was descended into from two places restores an
earlier `up` (`o_undo.c:485`) without that check; two pages become each other's
parents, and the loop at `s_hierarchy.c:93` then never ends.

### Other divergences

The models show these as well, or the code does at the given line; no run is spent
on them. They are the reason for the provisos in some properties.

- `o_undo.c:453`: with undo-type memory the copy of an empty page is NULL, which
  stands for "no data": undo to the empty page leaves the later schematic there.
  `ContentMatchesNode` speaks of nodes whose data is stored.
- `o_undo.c:176`: nobody looks whether an undo file was written; undo to a node whose file
  was not empties the page and then reads nothing. `ContentMatchesNode` leaves such nodes
  out.
- `o_undo.c:242`: trimming counts nodes with data but frees from the bottom, so a
  viewport node may lose the schematic below it; undo to it changes nothing.
- `o_undo.c:238`: whether to trim depends on the counter of all pages; a page whose
  saves never meet a multiple of 10 is never trimmed.
- `i_callbacks.c:1547`: Revert restores the place of a page after its first undo
  state was saved; undo to that state takes the page out of the hierarchy, and Up then
  finds no parent. `UpLeadsToAUser` speaks of Up where it leads somewhere.
- `o_undo.c:485`: undo in a page reached from two parents makes Up go to the
  earlier one. `UpLeadsToAUser` is true of both.
- `s_hierarchy.c:157`: Down Symbol looks for no circle, unlike Down Schematic. A symbol
  file that has itself among its components becomes its own parent, and Up
  (`i_callbacks.c:2278`) then shows the page it has just freed; two symbols that contain
  each other close a circle that the next Down Schematic walks for ever. Hence
  `NoneIsItsOwnSymbol` and `SymbolsAreLeaves` in the theorems.
- `s_hierarchy.c:103`: a page that is loaded already keeps its `page_control` when another
  list names it first, and the files after it in that list get the same: pages of both
  lists are then taken together by Next Page and Previous Page. Hence `ListsAreDisjoint`
  in the theorem, and the lists of the run. A page taken over by another parent keeps its
  `page_control` too (104), and counts as a sibling of the pages below the first.
- `scheme_object.c:2125`: `%translate-object!` and its like update no connections;
  `object-connections` then reports the old ones. Hence `moved`.
- `o_undo.c:144`: with undo disabled no operation is counted and nothing is ever
  autosaved; `AutosaveWhenDue` is run with undo enabled.
- `x_window.c:682`: the autosave of an untitled page is overwritten by the untitled
  page of the next session; `CrashedWorkIsOffered` leaves untitled names out.
- `x_window.c:828`: Save As leaves the autosave of the old name behind; the user is
  asked about it later although nothing crashed.
- `x_window.c:827`: Save As to a name that differs only in case keeps the old name
  (`Renamed`); the runs use names that differ otherwise.
- `f_basic.c:427`: the permissions to restore are looked up after the file was
  renamed away. Permissions are not modelled.
- `geda_net_object.c:644`: two segments that start at one point and run on top of
  each other are merged although something else connects to the middle of the longer
  one; `o_net_consolidate_nomidpoint` looks only at the common end. Hence
  `ConsolidationKeepsAbuttingNets` and placements without such pairs.
- `f_basic.c:125`: an autosave without a file is to be offered ("The autosave file
  exists, but the actual file does not"), but `f_open_flags` gives up on the missing
  file (208) before it asks, and closing the page deletes the autosave
  (`geda_page.c:207`). So a crash between the rename and the write of a save leaves
  work that is never offered.

Editor:

- `i_callbacks.c:2810`, "Free the place list and its contents. If we were in a move
  action ... so this is OK": if the selection was emptied during the move, the place
  list still holds the page's objects when Escape frees it.
- `i_callbacks.c:2797` means to "re-wind the page contents back", but `o_move_cancel`
  rewinds nothing: Escape in a move after a rotation (`o_misc.c:198`) leaves the rotation,
  without an undo state.
- `o_slot.c:140`: the slot dialog marks the page as changed and saves no undo state, and
  Rotate in a drawing action leaves saving to an end that may not come. So there is no
  property that every change gets an undo state: it is false.
- `o_path.c:453`: `g_assert (w_current->temp_path != NULL)` fails when the Path hotkey
  is pressed while button 1 is held in select mode and then released; moving the mouse or
  pressing a button first uses the path that is not there (`PathWithoutStart`).
- `x_window_open_page` makes the new page current before it calls
  `o_redraw_cleanstates`, so the old page keeps its place list; so does Down Symbol. Find
  Text shows another page without calling it.
- These do not look at the action in progress: Redo, Lock, Unlock, Embed, Unembed,
  Update, Hide Text, Show Text, Autonumber, Buffer Cut while a grip is held, Rotate and
  Mirror with the pointer outside, Copy and Move with nothing selected, the Apply of the
  text dialog and of Edit/Translate, the property and slot dialogs, the dialogs that add,
  edit and delete attributes, and Down Schematic, which saves states of the page in view
  while it loads others. Saving a state may merge nets that are being moved. All these,
  and opening or finding a page, set `untidy`.
- Escape while copying or pasting leaks the copies. Copy or Move with nothing selected
  only sets the select mode.

Library:

- `s_clib.c:596`: a refresh in which no source can be listed has freed all symbols and
  flushes neither cache.
- `s_clib.c:1209`: the clean-up compares access times with an entry it has freed; what
  the freed memory then says decides whether it removes one entry or more.
- `i_callbacks.c:1542` (Revert) and `reset-component-library` free symbols to which the
  rows of an open component selector point.

Scheme objects and attributes:

- `scheme_object.c:192`, `x_multiattrib.c:655` and `geda_complex_object.c:278` copy
  objects and leave `copied_to` set, though `geda_object_list.c:129` says "Clean up
  dangling copied_to pointers"; copying only an attribute afterwards attaches the copy
  to that earlier, perhaps freed, copy (`stray`).
- `scheme_object.c:1607`: `object-component` of a part of a loose component makes a
  second handle; after `page-append!` through it the first still owns the component,
  and collecting it deletes the component from the page, contrary to
  `scheme_smob.c:47-54`. `CollectorOwnsLooseObjects` leaves objects with two handles
  out.
- `attach-attrib!` accepts a text as an attribute of itself or of its own attribute, and
  `attributes_attach` (`i_callbacks.c:2289`) lets two texts be attributes of each other.
  `o_save_objects` (`geda_object_list.c:356`) then leaves them out, or writes nested
  braces that `o_read_attribs` refuses.
- `add-attrib!` (`g_attrib.c`) accepts an object inside a component of the page.

Autonumbering:

- `x_autonumber.c:826`: several pages change, one gets an undo state.
- `x_autonumber.c:246-276`: `freeslot_compare` takes number 0 for "any number": a part
  numbered 0 may have a slot handed out twice, and the dialog accepts 0 as the first
  number. `Numbers` and `Starts` exclude it.
- A `slot` attribute above `numslots` puts slots on the free list a second time, and a
  component whose own `numslots` is lower than its symbol's gets a number whose slot
  `o_slot_end` refuses.

Geometry:

- `geda_text_object.c:772` against `geda_complex_object.c:441`: after reloading, a text
  in a component that is mirrored at 90 or 270 degrees is read from the other end; it
  covers the same place. Hence `Alike` in `ShownIsSaved`.
- `object.scm:363`: `set-component-with-transform!` first sets angle and mirror flag to
  nothing, which does not turn the parts back, and then turns them: on a component that
  was turned or mirrored its parts are so twice, though the manual
  (`docs/scheme-api/geda-scheme.texi:1411`) says "All transformations are applied
  immediately". `onlySet` stays set then.
- `object.scm:376`: `make-component/library` uses `set-component!`, so with an angle it
  returns contents that are not turned, though the manual (1371) has it that "contents
  have the transformation already applied".

### Bounds

The bounds are constants or in guards: `MaxFiles`, `MaxNodes` (`Undo`), `MaxControl`
and the page ids (`Hierarchy`), the sets of lines (`Placements`, `Shapes`, `Moves`
of `Conn`), `MaxClock` (`FileSave`, `Clib`), `MaxChanges` (`Clib`), and the sets of
objects, symbols, handles and texts. They are small, and chosen so that the cases
that matter occur: lists long enough to be trimmed with viewport nodes on either
side of the cut; two pages that alternate on the counter; designs with a shared
symbol, a circle and a missing file; all ways two lines meet (end to end, end to
middle, crossing, overlapping); a save, its retry and a crash in either half; one
autosave older than its file, one of the same second, one newer; a net, the object
that is moved and a copy, on a page in view and one that is not; symbols whose memory
is used by another after a refresh, with both equal and different access times; two
components on one part and a third on another page; an object with two handles while
a third handle is collected. Distinct schematics matter only up to equality, so two or
three do. `FileCrash` has one page: an edit that finds the autosaves of two pages due
is not exercised. `Autonumber` has one run of the
command, from every numbering; that further runs change nothing is proved.

Symmetry is used over memory, pages and handles (`Permutations`), in runs without
liveness only, and none of the symmetric constants is chosen from by CHOOSE where the
choice matters.

### Fairness and liveness

The user, the timer, scripts and crashes are under no obligation, and no command
waits for another; so the specifications are `Init /\ [][Next]_vars`, but for
`FairSpec` of `Conn`. There weak fairness is required of the consolidation loop and of
nothing else: `geda_net_object_consolidate` runs in the handler that saves an undo
state and does not return before it has found nothing to merge, so once it has begun
its next step is the only thing the program does. `ConsolidationEndsMerged` says that
it ends, and that no pair that could be merged is left then. What would be another
liveness property, "an edit is autosaved in the end", is false without a further
edit, and is stated as the action property `AutosaveWhenDue` instead. That the
loop over parents ends is the invariant `HierarchyHasNoCycle`.

## 4. Proofs

| Theorem | For every |
|---|---|
| `UndoTypeCorrect`, `UndoFilesAreIntact`, `QuitCleansUp`, `FilesLeaveWithNodes`, `UndoShowsWhatWasSaved`, `TrimmingKeepsLevels` | number of pages, undo-levels, padding, period, consolidation function, failing writes or not, either undo type |
| `UndoImplementsHistory` (`AbstractUndo`) | the same where no data is lost (`Reliable`) |
| `HierarchyTypeCorrect`, `UpIsToAUser` | number of pages and files, design of any shape (but `NoneIsItsOwnSymbol`), with and without undo |
| `PagesKeepToTheirList` | the same with no file in two lists (`ListsAreDisjoint`) |
| `CircularDesignsAreCut` | the same without undo and with `SymbolsAreLeaves` |
| `SoundDesignsStaySound` | design without circles, with and without undo |
| `ConnTypeCorrect`, `ConnectionsStayMutual`, `NoConnectionIsMissing` | set of objects, component structure, placements, shapes, moves; with and without scripts and consolidation |
| `ConnectionsStayExact` | the same with net consolidation off (it leaves old end points behind) |
| `MergingKeepsNets`, `ConnectionsStayWhereLinesMeet` | set of objects, component structure and so on as above, without scripts; merging in any order |
| `InvAlways`, `NumbersAreUniqueAlways`, `SlotsAreUsedOnceAlways` | set of texts, symbols and pages, numbers of slots, options, order of numbering and number of runs |
| `RotationsAddUp`, `FourTurnsAreNone`, `MirroredTwiceIsSame` | object of any kind and size, around any point |
| `PlacementHasType`, `WhatIsShownIsSaved` | symbol with any parts, and any sequence of operations |
| `FileTypeCorrect`, `SavedVersionsSurvive`, `CrashedWorkIsAskedAbout` | number of pages, names, schematics; every setting |
| `DueAutosavesAreWritten` | the same with undo enabled: without it operations are not counted (`o_undo.c:144`) |
| `UnchangedPagesAreSaved` | the same with names that differ in more than case (`NamesDifferInMore`) |
| `EditorTypeCorrect`, `ListsStaySafe`, `NothingIsLeftPending`, `MovedIsSelected` | number of pages and objects, any events and commands; the last three until one ignores an action in progress |
| `ClibTypeCorrect`, `KeptSearchesAreCurrent`, `KeptDataIsItsSymbols`, `AnswersAreRight`, `UpdatesReadSources`, `OldestAreEvicted` | set of sources, symbols and names, contents of the sources, limits of the cache, times of access; any listing, searching, loading and changing outside |
| `HandlesStayValid`, `CollectorIsRight`, `AttributesStayAttached` | set of components, texts, pages and handles; any calls, collections and editing |

They assume only the named assumptions of the modules (`ConstantsAssumption`,
`HierarchyAssumption`, `ConnAssumption`, `FileAssumption`, `EditorAssumption`,
`ClibAssumption`, `SchemeAssumption`, `AutonumberAssumption`), which TLC evaluates in every run.

*Undo.* The file of a node is written once and read much later, so
`UndoFilesIntact` alone is not enough: a save could find that a file of its number
exists, and quitting unlinks only numbers below the counter. The inductive invariant `FilesInv` is
`TypeOK`, `UndoFilesIntact`, "numbers not yet used are unlinked", and
`QuitLeavesNoFiles`. A save appends a node with the next number and
drops nodes from either end of the list; one lemma says that the nodes kept were
there before, others what is unlinked is owned by nobody who stays. `FilesFollowNodes`
follows from the invariant step by step.

What undo shows (`ContentMatchesNode`) needs to know where the data of a node is that
has none of its own: in the nearest node below it that has. The inductive invariant
`ContentInv` adds to `FilesInv` that the nodes of edits have data and viewport nodes
none (`ListsInv`), and that the data a node depends on is what was shown
(`StoredIsShown`). Saving, trimming and both directions of `o_undo_callback` then agree
with one function of the list (`StoredAt`). The same function is the refinement mapping
to `AbstractUndo`: each save is an edit or a viewport change that forgets entries at
either end, each callback moves the position by one. Two hypotheses are about the code
and not about the prover: `Recoverable`, that in memory no page is empty when it is
saved (`o_undo.c:453`), and for the refinement `Reliable`, that undo files are written.

*Hierarchy.* Undo and redo restore a place from any node of a list, so where `up` leads
has to be known of every node (`PlacesAreGood`): a place is the top or below another page
that was loaded before and whose schematic uses this file. Being open cannot be part of
it, since the page above may be closed, nor can being the page the user came from.
`HierInv` adds what the page list is (`PagesListed`: the open pages, each once) and what is
left of a Down Schematic command (`DescentOK`: names from the `source=` lists of its
parent). Every action of `Hierarchy` that saves or restores takes its step in `Undo`, and the
lemmas `SavePlaces` and `CallbackPlaces` are about those steps alone.

For `PagesKeepToTheirList` the same is needed of `page_control`: of every open page, every
node of an undo list and the descent that is going on (`SiblingInv`), a value that is not 0
belongs to one list. Every value above the counter is unused, so a descent into pages that
are not loaded takes a value no node has, and one that meets a loaded page first
(`LoadedControl`) takes that page's value, which is of this list because no other names it.

Without undo, each step moves at most one page, in one of four ways (`PlaceStep`), and
`NoCircle` holds: no set of open pages is closed under `up`. That form is the one to
prove: a circle that `DescendToLoaded` would close contains the new parent, and
following `up` from there inside it must come to the page that is moved
(`CircleIsAbove`, the first step at which the walk leaves the set), which the loop over
the parents list looked for. A walk that has not left the design after as many steps as
there are pages has been somewhere twice (`WalkRepeats`), and what lies in between is
such a set (`WalksEnd`), so `HierarchyHasNoCycle` follows. In a design that has no
circles the good places alone exclude them, with undo too (`SoundDesignsStaySound`).
`NoneIsItsOwnSymbol`, `SymbolsAreLeaves` and `DesignHasNoCircle` are hypotheses on the
design, `~UndoControl` is a setting; without them the properties are false (section 3).

*Connections.* `s_conn_remove_object_connections` looks only into the lists of the
objects its own list names, so that it removes *every* reference is true only if
connections are mutual: `RemoveForgets` derives it from `ConnectionsMutual`, which
is inductive with `ConnTypeOK` because the three loops treat both objects alike
(`JointsSymmetric`). Then every step is a removal, an exchange, or changes no
connection (`StepForm`), and the connections of objects it does not touch depend on
nothing else (`JointsLocal`); so completeness and, without consolidation,
soundness are each preserved.

`MergingKeepsNets` has to relate what `o_net_consolidate_nomidpoint` looks at, the recorded
connections, to what a fresh load would find. Merging leaves old ones behind, so
`ConnectionsExact` is not available; what is left of it is `Meeting` (`ConnectionsMeet` as
long as scripts keep off): the point of a recorded connection is still on both objects, as
nets only grow (`MergedReaches`). That such a connection keeps its kind is not true: an end
that comes to lie in the middle of a longer net stays recorded as an end until one of the
two is edited (`geda_net_object.c:675`). Two lines that share
only an end have no other point in common (`OneCommonPoint`), so that is the point the code
has checked, and as no connection is missing no other object has its middle there. Then the
merged line touches what the two have touched (`Composed`, `MeetsComposed`), and a set of
objects is closed with the two nets exactly if it is closed with the merged one
(`TakenOver`). Objects that a script has moved may have their middle where two nets meet
and no connection recorded, hence `~Scripts`.

*Files.* `SavedVersionSurvives` is inductive together with `FileTypeOK`: the only
step that removes a file renames it, and only if it is there, over its backup.
`UnchangedIsSaved` speaks of moments between two saves; `Kept` says the same during a save,
when the file may be missing and its backup is what the page shows. It needs that a save
under one name is a save of that name (`NamesDifferInMore`, because of `x_window.c:827`).
Opening, making and editing a page all end in `o_undo_savestate`; `SavesState` is what
they have in common, and the autosave theorems treat them as one step. A page that is due
is counted and flagged (`DuePagesAreFlagged`). An autosave left by a crash is lost only
while a page of its name is open, and then it is either older than its file, or its file
was gone when the page was opened or has been moved away by a save that has just begun
(`OrphansAreKept`).

*Editor.* `ListsAreSafe` depends on everything else: whether freeing the place list is
right depends on whether it holds copies or the page's own objects, that on the mode, and
that on every handler that changes the mode. The inductive invariant `Good(w)` says for each
mode what each list may share with the page. `Ready(w)` is `Good(w)` with nothing pending;
handlers that begin something need it, those that end something leave it, and `Cancel` and
`CleanStates` make any good state ready. Each handler has one lemma that says from which of
the two to which it goes, and events and commands are put together from those as the
handlers are from calls. All of it holds until a command ignores an action in progress
(`untidy`).

*Library.* `ClibInv` says when pointers to freed symbols are left (`Keeping`). A listing that
succeeds flushes both caches; one that fails frees symbols and flushes nothing, and sources
that have symbols are listed again only by `PageRevert` and `SelectorRefresh`, all at once. So
`"caches" \in dangling` implies that no source has a symbol at all, which makes the invariant
inductive: adding a source then either flushes the caches or leaves everything without a
symbol (`ListingKeeps`). `Fits` bounds the cache of data and needs to know what trimming
leaves (`Left`): after the first round of `CleanUp` an entry is gone, and after any number of
them what is gone was used no later than what is left, although the code takes the time it
compares with from an entry it has just freed. A search goes over the sources one by one
(`NonEmpty`). Both are recursive functions, and what they compute is proved by induction over
the number of rounds, put as a fact about sets of numbers (`SetInduction`). Answers, updates
and eviction then follow for each step from the cases of `GetData`.

*Scheme objects.* The invariant `SchemeInv` has three parts, each about all calls.
`HandlesInv`: an object and its handles know each other, and none refers to an object that
is gone. `PlacesInv`: an object is on a page or in a component or neither, and attributes
and their objects are mutual and together. `CollectorInv`: the collector owns exactly what is
nowhere. The third needs the second (an object that leaves its page takes its attributes'
links along or loses them), and the second in turn that what a script may append or remove
is on its own (`LooseAlone`).

*Autonumbering.* A number is chosen against the database, and the property compares
texts; the inductive invariant `Inv` ties the two together: the database knows the
number of every text in view that is settled, the slots listed as free for a part are
those none of its settled texts has, and whatever is still to be numbered is not
settled. It is kept text by text, and clearing the database between pages is harmless
because no text of another page is then in view.

*Placement.* Turning and flipping an object around the origin obey the laws of the
symmetries of a square (`ObjectLaws`: turns add up, two flips cancel, a flip reverses
the sense of a turn), for boxes and pictures although their corners are put in order
each time, for texts up to their reading direction (`Reversed`, which goes along with
everything). The inductive invariant `PInv` says that a component is `Faithful`: each
part is what its symbol's part becomes when it is flipped, turned and moved by the
four numbers. Each operation takes the parts to the origin and back (`PartsAtHome`)
and applies one law. `ShownIsSaved` follows because that is what `o_complex_new`
computes.

Only model-checked: that consolidation ends (`ConsolidationEndsMerged`; liveness under
fairness is beyond the prover). Only proved: `Placement`, whose state space is infinite
whatever the symbol.

## 5. Plan

Done, in this order: `Undo` with `AbstractUndo`; `Hierarchy`, composed with it;
`Conn`; `FileSave`; `Editor`; `Clib`; `SchemeObjects`; `Autonumber`; `Placement`; the
proofs of all, and liveness of consolidation.

What would come next:

1. The format of attributes in files, with what the editor can attach.
2. Composition of `Editor` with `Undo`, so that a redo in the middle of a move is a
   step of both.

## 6. Not modelled

The models cover the parts that keep state over several commands, which are a small
share of the code. Most of the rest computes values from values, or is user interface,
and neither has the interleavings and long histories that models are for: drawing,
dialogs and printing (widgets and output); the text format (reading and writing one
value); the netlister and its many back ends, `gattrib`'s spreadsheet widget,
`symcheck` and the converters (batch computation); bounds and distances of objects; rc files and
configuration. Left out of what is modelled: viewport coordinates, symbolic links,
file permissions and the working directory; names of library sources, searches by
pattern (nobody makes any) and errors within Scheme procedures that list symbols;
magnetic nets, strokes, scripts that run as a command of the editor and commands that only
change settings; promotion of attributes
and slotting by hand; handles of pages; the "*" that stands for a list of search
texts; placeholders, nested and embedded components and integer overflow of
coordinates. `s_hierarchy_traversepages` appears only as a way to load a page without
saving its first state. Library code (GLib, GTK, Guile) is taken at its word.
