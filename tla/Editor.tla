------------------------------- MODULE Editor -------------------------------
(***************************************************************************)
(* The editing actions of one lepton-schematic window: the mouse events of *)
(* x_event.c, the commands of i_callbacks.c and the handlers they call in  *)
(* o_select.c, o_move.c, o_copy.c, o_place.c, o_buffer.c, o_delete.c,      *)
(* o_grips.c, o_path.c, o_net.c, o_complex.c and o_text.c.                 *)
(*                                                                         *)
(* What can go wrong is a matter of lists that share objects.  The place   *)
(* list of a page holds copies while something is copied, pasted or placed *)
(* and the page's own selected objects while they are moved; the stretch   *)
(* list holds the nets a move drags along; the selection and the grip hold *)
(* objects of the page.  Every handler frees, clears or keeps these lists  *)
(* by looking only at `mode' and `inside', which other handlers set.       *)
(*                                                                         *)
(* A handler is an operator from window states to window states, so that   *)
(* the calls it makes compose in the order of the code.                    *)
(***************************************************************************)
EXTENDS FiniteSets

CONSTANTS
  Pages,      \* the pages a window can show
  Objects,    \* the memory an object of a schematic can have
  NoObject    \* which_object when no grip is held

ASSUME EditorAssumption == NoObject \notin Objects

VARIABLE w    \* the GschemToplevel: the state of the window

PlaceModes == {"COMPMODE", "TEXTMODE", "PASTEMODE", "COPYMODE", "MCOPYMODE"}
\* SHAPEMODE stands for the line, box, arc, circle and picture modes, whose
\* handlers have the same shape.
DrawModes == {"SHAPEMODE", "BUSMODE", "NETMODE", "PINMODE", "PATHMODE"}
Modes == PlaceModes \cup DrawModes \cup
         {"SELECT", "SBOX", "GRIPS", "ZOOMBOX", "PAN", "MOVEMODE",
          "ROTATEMODE", "MIRRORMODE"}

Harms == {"none", "freed", "lost", "twice", "assertion"}

-----------------------------------------------------------------------------
(* Reading a window state. *)

Selected(s) == s.sel[s.cur]
Placed(s) == s.place[s.cur]
OnPages(s) == UNION {s.page[p] : p \in Pages}
Referenced(s) ==
  (UNION {s.place[p] \cup s.sel[p] : p \in Pages})
    \cup s.stretch \cup ({s.grip} \ {NoObject})

\* Memory for a new object: not allocated, and no stale pointer to it.
Fresh(s) == Objects \ (s.live \cup Referenced(s))
Copies(s) == {{o} : o \in Fresh(s)}
News(s) == {{}} \cup Copies(s)
\* Sets of nets that a move of the selection may stretch.
Nets(s) == SUBSET (s.page[s.cur] \ Selected(s))

-----------------------------------------------------------------------------
(* Small steps of the handlers. *)

SetMode(s, m) == [s EXCEPT !.mode = m]
Start(s) == [s EXCEPT !.inside = TRUE]
Stop(s) == [s EXCEPT !.inside = FALSE]
BackToSelect(s) == Stop(SetMode(s, "SELECT"))

Hurt(s, what) == IF s.harm = "none" THEN [s EXCEPT !.harm = what] ELSE s
Uses(s, objs) == IF objs \subseteq s.live THEN s ELSE Hurt(s, "freed")

\* o_undo_savestate first merges nets that lie in line: b is merged into a and
\* freed, and a is selected in its place.
Merged(s, a, b) ==
  [s EXCEPT !.page[s.cur] = @ \ {b}, !.live = @ \ {b},
            !.sel[s.cur] = IF b \in @ THEN (@ \ {b}) \cup {a} ELSE @]
SaveStates(s) ==
  {s} \cup
  {Merged(s, ab[1], ab[2]) :
     ab \in {xy \in s.page[s.cur] \X s.page[s.cur] : xy[1] # xy[2]}}
\* Something is being placed, moved or gripped.
Pending(s) == Placed(s) # {} \/ s.stretch # {} \/ s.grip # NoObject
\* A command that does not look at the action in progress.
Untidy(s) == [s EXCEPT !.untidy = @ \/ Pending(s)]

\* geda_object_list_delete: every object is taken off its page and freed.
DeletePlaceList(s, p) ==
  LET gone == s.place[p]
      t == Uses(s, gone)
      u == IF gone \cap OnPages(s) = {} THEN t ELSE Hurt(t, "lost")
  IN [u EXCEPT !.page = [q \in Pages |-> @[q] \ gone],
               !.live = @ \ gone,
               !.place[p] = {}]

AppendTo(s, p, new) == [s EXCEPT !.page[p] = @ \cup new, !.live = @ \cup new]
Append(s, new) == AppendTo(s, s.cur, new)

\* A mutant: the stretch list survives.
CancelKeepsStretch(s) == Stop([s EXCEPT !.place[s.cur] = {}])

\* The place list itself is freed, not its objects: copies are leaked, and
\* as nothing can reach a leaked object again its memory counts as free.
MoveCancel(s) ==
  LET t == Uses(s, s.stretch)
  IN Stop([t EXCEPT !.live = @ \ (Placed(s) \ OnPages(s)),
                    !.place[s.cur] = {},
                    !.stretch = {}])

GripsCancel(s) ==
  IF s.grip = NoObject THEN s
  ELSE [Uses(s, {s.grip}) EXCEPT !.grip = NoObject]

\* A mutant: the moved objects are freed with the place list.
CleanWithoutCancel(s, q) ==
  IF ~s.inside \/ s.mode = "SELECT" THEN s
  ELSE BackToSelect(DeletePlaceList(s, q))

\* q is toplevel->page_current; the window's page s.cur is the page view's.
CleanStates(s, q) ==
  IF ~s.inside \/ s.mode \in {"SELECT", "PAN", "MIRRORMODE", "ROTATEMODE", "SBOX"}
  THEN s
  ELSE LET t == IF s.mode = "MOVEMODE" THEN MoveCancel(s) ELSE s
           u == IF s.mode = "GRIPS" THEN GripsCancel(t) ELSE t
       IN BackToSelect(DeletePlaceList(u, q))
Clean(s) == CleanStates(s, s.cur)

Cancel(s) ==
  LET t == IF s.inside THEN MoveCancel(s) ELSE s
      u == IF s.mode = "GRIPS" THEN GripsCancel(t) ELSE t
  IN BackToSelect(DeletePlaceList(u, s.cur))

UnselectAll(s) == [Uses(s, Selected(s)) EXCEPT !.sel[s.cur] = {}]
Select(s, objs) == [UnselectAll(s) EXCEPT !.sel[s.cur] = objs]

-----------------------------------------------------------------------------
(* The handlers of an action: how each starts and ends. *)

\* Stretching takes nets of the page that are not selected, and adds a net of
\* zero length where two pins meet.
MoveStart(s, nets, new) ==
  IF s.stretch # {} \/ Selected(s) = {} THEN s
  ELSE LET t == SetMode(Uses(s, Selected(s)), "MOVEMODE")
           u == IF new = {} THEN t ELSE Append(t, new)
           v == DeletePlaceList([u EXCEPT !.stretch = nets \cup new], s.cur)
       IN Start([v EXCEPT !.place[s.cur] = Selected(s)])

\* A mutant: the place list still holds the objects when the move is over.
EndKeepsPlaceList(s, gone) ==
  BackToSelect([s EXCEPT !.page[s.cur] = @ \ gone, !.live = @ \ gone,
                         !.sel[s.cur] = @ \ gone, !.stretch = {}])

\* gone: the stretched nets that end up with zero length.  The state is saved
\* by the event, as in the other handlers below.
MoveEnd(s, gone) ==
  LET t == Uses(s, Selected(s) \cup s.stretch)
  IN BackToSelect([t EXCEPT !.page[s.cur] = @ \ gone, !.live = @ \ gone,
                            !.sel[s.cur] = @ \ gone,
                            !.place[s.cur] = {}, !.stretch = {}])

\* One fresh object stands for the copies of a list.
SetPlaceList(s, p, new) ==
  [DeletePlaceList(s, p) EXCEPT !.place[p] = new, !.live = @ \cup new]

CopyStart(s, new) ==
  IF Selected(s) = {} THEN s
  ELSE Start(SetPlaceList(Uses(s, Selected(s)), s.cur, new))

\* A repeated placement puts a copy on the page and keeps the place list.
PlaceEnd(s, continue, copy) ==
  LET placed == IF continue THEN copy ELSE Placed(s)
      t == Uses(s, Placed(s))
      u == IF placed \cap OnPages(s) = {} THEN t ELSE Hurt(t, "twice")
      v == [Append(u, placed) EXCEPT !.place[s.cur] = IF continue THEN @ ELSE {}]
  IN IF continue THEN v ELSE BackToSelect(v)

PlaceTurn(s) == Uses(s, Placed(s))

\* gone: what the user agreed to delete of the selection.
DeleteSelected(s, gone) ==
  LET t == [Uses(s, Selected(s)) EXCEPT !.page[s.cur] = @ \ gone,
                                        !.sel[s.cur] = @ \ gone]
      u == IF s.inside /\ s.mode = "MOVEMODE"
           THEN SetMode(MoveCancel(t), "SELECT") ELSE t
  IN [u EXCEPT !.live = @ \ gone]
\* Nothing happens when the user cancels the question about locked objects.
DeleteStates(s) ==
  {s} \cup UNION {SaveStates(DeleteSelected(s, gone)) : gone \in SUBSET Selected(s)}

\* o_complex_prepare_place and o_text_prepare_place: {} when loading fails.
PreparePlace(s, mode, new) ==
  LET t == SetPlaceList(Start(SetMode(s, mode)), s.cur, new)
  IN IF new = {} THEN BackToSelect(t) ELSE t

\* o_undo_callback up to reading the saved page: all the page's objects and
\* the place list are freed.
Emptied(s) ==
  LET t == UnselectAll(s)
  IN DeletePlaceList([t EXCEPT !.live = @ \ t.page[s.cur], !.page[s.cur] = {}], s.cur)
Restored(s, new) == Append(Emptied(s), new)

-----------------------------------------------------------------------------
(* Handlers whose outcome depends on the data: relations on w. *)

StartMove(s) ==
  \E nets \in Nets(s), new \in News(s) : w' = MoveStart(s, nets, new)

\* o_rotate_world_update saves no state inside an action, the mirror does.
TurnSelection(s) ==
  \E mode \in {"ROTATEMODE", "MIRRORMODE"} :
    LET t == Uses(s, Selected(s))
        u == IF s.mode = mode THEN SetMode(t, "SELECT") ELSE t
    IN IF Selected(s) = {} THEN w' = BackToSelect(s)
       ELSE IF mode = "MIRRORMODE" \/ ~s.inside THEN w' \in SaveStates(u)
       ELSE w' = u

\* An undo node that keeps only a viewport leaves the page alone.
Restore(s) ==
  \/ w' = UnselectAll(s)
  \/ \E new \in SUBSET Fresh(Emptied(s)) : w' = Restored(s, new)

\* o_select_start grips what lies under the pointer, if it is selected.
SelectStart(s, grip) ==
  IF grip = NoObject THEN Start(s)
  ELSE Start(SetMode([s EXCEPT !.grip = grip], "GRIPS"))

PathStart(s) == Start([s EXCEPT !.path = TRUE])

-----------------------------------------------------------------------------
Window(p, objs) ==
  [mode |-> "SELECT", inside |-> FALSE, cur |-> p, open |-> {p},
   page |-> [q \in Pages |-> IF q = p THEN objs ELSE {}],
   place |-> [q \in Pages |-> {}], sel |-> [q \in Pages |-> {}],
   stretch |-> {}, grip |-> NoObject, live |-> objs, path |-> FALSE,
   untidy |-> FALSE, harm |-> "none"]

Init == \E p \in Pages, objs \in SUBSET Objects : w = Window(p, objs)

-----------------------------------------------------------------------------
(* Mouse events.  Events that change nothing here are left out. *)

LeftPressPlaces ==
  /\ w.inside /\ Placed(w) # {}
  /\ \/ /\ w.mode = "COMPMODE"
        /\ \E copy \in Copies(w) : w' \in SaveStates(PlaceEnd(w, TRUE, copy))
     \/ /\ w.mode \in {"COMPMODE", "TEXTMODE", "PASTEMODE"}
        /\ w' \in SaveStates(PlaceEnd(w, FALSE, {}))

LeftPressDraws ==
  /\ w.inside /\ Placed(w) = {} /\ w.mode \in DrawModes \ {"PATHMODE"}
  /\ \/ \E new \in Copies(w) :
          w' \in SaveStates(IF w.mode \in {"SHAPEMODE", "PINMODE"}
                            THEN Stop(Append(w, new)) ELSE Append(w, new))
     \/ w.mode \in {"SHAPEMODE", "NETMODE"} /\ w' = Stop(w)   \* zero length

LeftPressStarts ==
  /\ ~w.inside
  /\ \/ w.mode \in (DrawModes \ {"PATHMODE"}) \cup {"ZOOMBOX"} /\ w' = Start(w)
     \/ w.mode = "PATHMODE" /\ w' = PathStart(w)
     \/ w.mode = "SELECT" /\ \E grip \in {NoObject} \cup Selected(w) :
                               w' = SelectStart(w, grip)
     \/ w.mode \in {"COPYMODE", "MCOPYMODE"} /\ \E new \in Copies(w) :
                                                  w' = CopyStart(w, new)
     \/ w.mode = "MOVEMODE" /\ StartMove(w)

LeftPressTurns ==
  \/ w.mode \in {"ROTATEMODE", "MIRRORMODE"} /\ TurnSelection(w)
  \/ w.mode = "PAN" /\ w' = SetMode(w, "SELECT")

\* The first press of a double click has begun an action.
DoubleClick == w.mode = "SELECT" /\ w' = Stop(w)

LeftReleasePlaces ==
  /\ w.inside /\ Placed(w) # {}
  /\ \/ /\ w.mode = "MCOPYMODE"
        /\ \E copy \in Copies(w) : w' \in SaveStates(PlaceEnd(w, TRUE, copy))
     \/ w.mode = "COPYMODE" /\ w' \in SaveStates(PlaceEnd(w, FALSE, {}))
     \/ /\ w.mode = "MOVEMODE" /\ Selected(w) # {}
        /\ \E gone \in SUBSET w.stretch : w' \in SaveStates(MoveEnd(w, gone))
     \/ w.mode = "MOVEMODE" /\ Selected(w) = {} /\ w' = BackToSelect(w)

LeftReleaseEnds ==
  /\ w.inside /\ Placed(w) = {}
  /\ \/ /\ w.mode = "GRIPS" /\ w.grip # NoObject
        /\ w' \in SaveStates(BackToSelect(GripsCancel(w)))
     \/ w.mode = "GRIPS" /\ w.grip = NoObject /\ w' = BackToSelect(w)
     \/ /\ w.mode = "PATHMODE" /\ w.path
        /\ \E new \in Copies(w) :
             w' \in SaveStates(Stop(Append([w EXCEPT !.path = FALSE], new)))
     \/ /\ w.mode \in {"SBOX", "SELECT"}
        /\ \E objs \in SUBSET w.page[w.cur] : w' = BackToSelect(Select(w, objs))
     \/ w.mode = "ZOOMBOX" /\ w' = BackToSelect(w)

\* An action goes on in path mode, but no path was begun: press, motion and
\* release all look at temp_path.
PathWithoutStart ==
  w.inside /\ w.mode = "PATHMODE" /\ ~w.path /\ w' = Hurt(w, "assertion")

\* The middle button set to "action": what is under the pointer, or selected
\* already, is copied or moved.
MiddlePress ==
  \/ /\ w.inside /\ w.mode \notin PlaceModes \cup {"MOVEMODE"}
     /\ w' = Cancel(w)
  \/ /\ ~w.inside
     /\ \E objs \in (SUBSET w.page[w.cur]) \cup {Selected(w)} :
          LET s == IF objs = Selected(w) THEN w ELSE Select(w, objs) IN
          IF objs = {} THEN w' = BackToSelect(s)
          ELSE \/ \E new \in Copies(s) : w' = CopyStart(SetMode(s, "COPYMODE"), new)
               \/ StartMove(s)

\* Releasing the middle button turns what is being placed or moved.
MiddleRelease ==
  /\ w.inside /\ w.mode \in PlaceModes \cup {"MOVEMODE"}
  /\ w' = PlaceTurn(w)

RightPress ==
  /\ w.inside /\ w.mode \notin DrawModes \ {"NETMODE"}
  /\ w' = IF w.mode = "NETMODE" THEN Stop(w) ELSE Cancel(w)

\* A box is begun with shift or control, or where nothing can be selected;
\* close to the press it is not begun yet.
MotionSelects ==
  /\ w.inside /\ Placed(w) = {} /\ w.mode = "SELECT"
  /\ \/ w' = SetMode(w, "SBOX")
     \/ w' = UnselectAll(w)
     \/ w' = SetMode(UnselectAll(w), "SBOX")
     \/ Selected(w) # {} /\ StartMove(w)
     \/ \E objs \in (SUBSET w.page[w.cur]) \ {{}} : StartMove(Select(w, objs))

-----------------------------------------------------------------------------
(* Commands from menus, keys and dialogs.  at: the command was given with the *)
(* pointer over the page and starts its action there.                         *)

EditUndo ==
  IF w.inside THEN w' = Cancel(w) ELSE Restore(w)

EditRedo == Restore(Untidy(w))

EditSelect == w' = BackToSelect(Clean(w))
ToolbarSelect ==
  w' = BackToSelect(Clean(IF w.inside /\ w.mode \in DrawModes THEN w ELSE Cancel(w)))

SelectAll ==
  LET s == Clean(w) IN
  \E objs \in SUBSET s.page[s.cur] : w' = BackToSelect(Select(s, objs))

EditCopy ==
  \E mode \in {"COPYMODE", "MCOPYMODE"} :
    IF Selected(w) = {} THEN w' = SetMode(Untidy(w), "SELECT")
    ELSE LET s == Clean(w) IN
         \/ \E new \in Copies(s) : w' = SetMode(CopyStart(s, new), mode)
         \/ w' = SetMode(s, mode)

EditMove ==
  IF Selected(w) = {} THEN w' = SetMode(Untidy(w), "SELECT")
  ELSE LET s == Clean(w) IN
       \/ \E nets \in Nets(s), new \in News(s) : 
            w' = SetMode(MoveStart(s, nets, new), "MOVEMODE")
       \/ w' = SetMode(s, "MOVEMODE")

EditDelete ==
  /\ Selected(w) # {}
  /\ \E s \in DeleteStates(Clean(w)) : w' = BackToSelect(s)

ClipboardCut == Selected(w) # {} /\ w' \in DeleteStates(Clean(w))

BufferCut == Selected(w) # {} /\ w' \in DeleteStates(Untidy(w))

\* bounded: the pasted objects are visible, so that they have bounds.
Paste ==
  LET s == IF w.inside THEN Cancel(w) ELSE w IN
  \/ w' = SetMode(s, "SELECT")                              \* empty buffer
  \/ \E new \in Copies(s), bounded \in BOOLEAN :
       LET t == SetPlaceList(s, s.cur, new) IN
       w' = IF bounded THEN Start(SetMode(t, "PASTEMODE")) ELSE SetMode(t, "SELECT")

EditTurn ==
  \/ w.inside /\ Placed(w) # {} /\ w' = PlaceTurn(w)
  \/ /\ ~(w.inside /\ Placed(w) # {})
     /\ \/ \E mode \in {"ROTATEMODE", "MIRRORMODE"} : w' = SetMode(Untidy(w), mode)
        \/ Selected(w) # {} /\ TurnSelection(Clean(w))
        \/ Selected(w) = {} /\ w' = Clean(w)

EditLock ==
  /\ Selected(w) # {}
  /\ \E shift \in BOOLEAN :
       LET s == Uses(Untidy(w), Selected(w)) IN
       w' \in SaveStates(IF shift THEN s ELSE UnselectAll(s))

\* Unlock, embed, unembed, the properties and the attributes of selected
\* objects: they keep their places.
EditInPlace ==
  /\ Selected(w) # {}
  /\ w' \in SaveStates(Uses(Untidy(w), Selected(w)))

\* Attach, detach and the visibility of attributes: not inside an action.
EditAttached == ~w.inside /\ w' \in SaveStates(Uses(w, Selected(w)))

\* The slot dialog may add a slot= text; it saves no undo state.
EditSlot ==
  /\ Selected(w) # {}
  /\ LET s == SetMode(Uses(Untidy(w), Selected(w)), "SELECT") IN
     w' = s \/ \E new \in Copies(w) : w' = Append(s, new)

\* Each selected component is replaced by a new one from the library.
EditUpdate ==
  /\ Selected(w) # {}
  /\ \E old \in Selected(w), new \in Fresh(w) :
       LET s == Uses(Untidy(w), {old}) IN
       w' \in SaveStates(
         [s EXCEPT !.page[s.cur] = (@ \ {old}) \cup {new},
                   !.sel[s.cur] = (@ \ {old}) \cup {new},
                   !.live = (@ \ {old}) \cup {new}])

\* Embed, unembed and update with nothing selected.
EditNothing == Selected(w) = {} /\ w' = BackToSelect(Clean(w))

AddComponent == w' = SetMode(Clean(w), "SELECT")

\* The component selector, open beside the page: place, hide and close.
SelectorPlace ==
  LET s == IF w.mode = "COMPMODE" THEN DeletePlaceList(w, w.cur) ELSE Clean(w) IN
  \/ w' = BackToSelect(s)
  \/ \E new \in News(s) : w' = PreparePlace(s, "COMPMODE", new)

SelectorClose == w.mode = "COMPMODE" /\ w' = BackToSelect(Clean(w))

\* The attribute dialog may add a text to the page, and so may the dialog of
\* all attributes, which leaves the mode alone.
AddAttribute ==
  \/ w' = SetMode(Untidy(w), "SELECT")
  \/ \E new \in Copies(w), s \in {Untidy(w), SetMode(Untidy(w), "SELECT")} :
       w' \in SaveStates(Append(s, new))

DeleteAttribute ==
  \E text \in w.page[w.cur] :
    LET s == Untidy(w) IN
    w' \in SaveStates([s EXCEPT !.page[s.cur] = @ \ {text}, !.live = @ \ {text},
                                !.sel[s.cur] = @ \ {text}])

\* Hiding and showing texts touches objects of the page, as translating does.
OnAll(s) == Uses(s, s.page[s.cur])
HideText == w' \in SaveStates(OnAll(Untidy(w)))

\* The dialog of Edit/Translate stays open: its answer may come at any time.
Translate ==
  \/ w' = SetMode(Untidy(w), "SELECT")
  \/ \E s \in {OnAll(Untidy(w)), UnselectAll(OnAll(Untidy(w)))} :
       w' \in SaveStates(SetMode(s, "SELECT"))

AddDrawing ==
  LET s == Clean(w) IN
  \/ \E mode \in DrawModes : w' = SetMode(s, mode)
  \/ \E mode \in DrawModes \ {"PATHMODE"} : w' = Start(SetMode(s, mode))

AddPicture ==
  LET s == SetMode(Clean(w), "SELECT") IN
  w' = s \/ w' = SetMode(Stop(s), "SHAPEMODE")

AddText == w' = BackToSelect(Clean(w))
\* The text dialog stays open: its Apply may come at any time.
TextApply == \E new \in Copies(w) : w' = PreparePlace(Untidy(w), "TEXTMODE", new)
TextCancel == w' = Cancel(w)

ViewPan == w' = SetMode(Stop(Clean(w)), "PAN")
ViewZoomBox == 
  LET s == SetMode(Clean(w), "ZOOMBOX") IN w' = s \/ w' = Start(s)

EscapeKey == w' = Cancel(w)

SetCurrentPage ==
  \E p \in w.open \ {w.cur} : w' = [Clean(w) EXCEPT !.cur = p]

\* A page found by Find Text is shown without a look at the action.
FindText == \E p \in w.open \ {w.cur} : w' = [Untidy(w) EXCEPT !.cur = p]

\* The page p is loaded, unless it is open.
Loaded(s, p, new) ==
  IF p \in s.open THEN s ELSE AppendTo([s EXCEPT !.open = @ \cup {p}], p, new)

\* Opening a file and Down Symbol: p has already become toplevel->page_current
\* when o_redraw_cleanstates looks for the place list to free.
OpenPage ==
  \E p \in Pages \ {w.cur}, new \in News(w) :
    LET s == CleanStates(Loaded(Untidy(w), p, new), p)
    IN w' \in SaveStates([s EXCEPT !.cur = p])

\* Down Schematic saves a state of the page in view for every page it loads.
DownSchematic ==
  /\ Selected(w) # {}
  /\ \E p \in Pages \ {w.cur}, new \in News(w) :
     \E s \in SaveStates(Loaded(Untidy(w), p, new)) :
       w' = [Clean(s) EXCEPT !.cur = p]

\* Autonumber loads the pages of the hierarchy and may add slot= texts to
\* them; a state is saved of the page in view only.
Autonumber ==
  \E p \in Pages, new \in News(w), text \in News(w) :
    /\ new \cap text = {}
    /\ w' \in SaveStates(AppendTo(Loaded(Untidy(w), p, new), p, text))

\* A mutant: the window keeps showing the page it has closed.
CloseKeepsCurrent ==
  w.open # {w.cur} /\ w' = [w EXCEPT !.open = @ \ {w.cur}]

\* Closing the only page opens an empty one in its place.
ClosePage ==
  LET s == IF w.inside THEN Cancel(w) ELSE w
      t == DeletePlaceList([s EXCEPT !.live = @ \ s.page[s.cur],
                                     !.page[s.cur] = {}, !.sel[s.cur] = {}], s.cur)
  IN IF w.open = {w.cur} THEN w' = t
     ELSE \E p \in w.open \ {w.cur} :
            w' = [t EXCEPT !.open = @ \ {w.cur}, !.cur = p]

-----------------------------------------------------------------------------
Mouse ==
  \/ LeftPressPlaces \/ LeftPressDraws \/ LeftPressStarts \/ LeftPressTurns
  \/ DoubleClick \/ LeftReleasePlaces \/ LeftReleaseEnds \/ PathWithoutStart
  \/ MiddlePress \/ MiddleRelease \/ RightPress \/ MotionSelects

Commands ==
  \/ EditUndo \/ EditRedo \/ EditSelect \/ ToolbarSelect \/ SelectAll
  \/ EditCopy \/ EditMove \/ EditDelete \/ ClipboardCut \/ BufferCut \/ Paste
  \/ EditTurn \/ EditLock \/ EditInPlace \/ EditAttached \/ EditSlot
  \/ EditUpdate \/ EditNothing \/ HideText \/ Translate \/ Autonumber
  \/ AddComponent \/ SelectorPlace \/ SelectorClose
  \/ AddAttribute \/ DeleteAttribute \/ AddDrawing \/ AddPicture \/ AddText \/ TextApply \/ TextCancel
  \/ ViewPan \/ ViewZoomBox \/ EscapeKey
  \/ SetCurrentPage \/ FindText \/ OpenPage \/ DownSchematic \/ ClosePage

\* A harmed program may do anything; it is started again.
Restart == w.harm # "none" /\ \E p \in Pages : w' = Window(p, {})

Next == (w.harm = "none" /\ (Mouse \/ Commands)) \/ Restart

Spec == Init /\ [][Next]_w

-----------------------------------------------------------------------------
(* Properties. *)

EditorTypeOK ==
  /\ w.mode \in Modes /\ w.inside \in BOOLEAN /\ w.path \in BOOLEAN
  /\ w.cur \in w.open /\ w.open \subseteq Pages
  /\ w.page \in [Pages -> SUBSET Objects]
  /\ w.place \in [Pages -> SUBSET Objects]
  /\ w.sel \in [Pages -> SUBSET Objects]
  /\ w.stretch \subseteq Objects /\ w.grip \in Objects \cup {NoObject}
  /\ w.live \subseteq Objects /\ w.untidy \in BOOLEAN /\ w.harm \in Harms

\* No list of the window ever makes a handler use freed memory, free objects
\* that are still on a page or put an object on a page twice, unless a command
\* was given that ignores what is being placed, moved or gripped: redo, lock,
\* unlock, embed, unembed, update, translate, hide or show text, autonumber,
\* the slot, property, attribute and text dialogs, rotate or mirror from
\* outside the page, buffer cut, a page found by Find Text, Down Schematic,
\* Down Symbol or opening a page.
ListsAreSafe == w.harm \in {"freed", "lost", "twice"} => w.untidy

\* Between two actions the lists of an action that is over are gone: nothing
\* stretches, no grip is held and no place list holds objects of a page.
IdleHasNothingPending ==
  ~w.untidy /\ ~w.inside =>
    /\ w.stretch = {} /\ w.grip = NoObject
    /\ \A p \in Pages : w.place[p] \cap OnPages(w) = {}

\* A place list that holds objects of a page is the selection of the page in
\* view while it is moved (o_delete.c:121 "in MOVEMODE selection is equal to
\* the place list"), and everything in it is on the page.
MoveListIsSelection ==
  ~w.untidy => \A p \in Pages :
    w.place[p] \cap OnPages(w) # {} =>
      /\ p = w.cur /\ w.inside /\ w.mode = "MOVEMODE"
      /\ Placed(w) = Selected(w) /\ Selected(w) \subseteq w.page[p]
=============================================================================
