---------------------------- MODULE EditorProofs ----------------------------
(***************************************************************************)
(* What Editor promises, for any pages and objects.                        *)
(*                                                                         *)
(* The inductive invariant is Good(w): the lists of the window share       *)
(* objects only in the ways the handlers expect, as long as no command has *)
(* ignored what was pending.  Ready(w) is Good(w) with nothing of the page *)
(* on a list: what every handler needs that begins something, and what     *)
(* every handler leaves that ends something.  Good(w) and no move or grip  *)
(* is Ready(w) (GoodIsReady), and Cancel and CleanStates make a good state *)
(* ready whatever was going on (CancelReady, CleanReady): this is what the *)
(* code's checks of `mode' and `inside' are for.                           *)
(*                                                                         *)
(* Each handler has a lemma that says from which of the two to which of    *)
(* the two it goes (the names end in Good or Ready), each event and each   *)
(* command one that puts them together.                                    *)
(***************************************************************************)
EXTENDS Editor, TLAPS

-----------------------------------------------------------------------------
(* The inductive invariant. *)

WindowStates ==
  [mode : Modes, inside : BOOLEAN, cur : Pages, open : SUBSET Pages,
   page : [Pages -> SUBSET Objects], place : [Pages -> SUBSET Objects],
   sel : [Pages -> SUBSET Objects], stretch : SUBSET Objects,
   grip : Objects \cup {NoObject}, live : SUBSET Objects, path : BOOLEAN,
   untidy : BOOLEAN, harm : Harms]

Window_(s) == s \in WindowStates /\ s.cur \in s.open

\* An object on a page is allocated, on that page only, and not selected on another.
PagesApart(s) ==
  /\ \A p \in Pages : s.page[p] \subseteq s.live
  /\ \A p, q \in Pages : p # q => s.page[p] \cap s.page[q] = {}
  /\ \A p \in Pages : s.sel[p] \subseteq s.page[p]
  /\ \A p \in Pages \ s.open : s.page[p] = {}

\* No two place lists share an object.
PlacesApart(s) ==
  /\ \A p \in Pages : s.place[p] \subseteq s.live
  /\ \A p, q \in Pages : p # q => s.place[p] \cap s.place[q] = {}

Moving(s) == s.inside /\ s.mode = "MOVEMODE"

\* A place list holds no object of any page.
CopiesOnly(s, p) == \A q \in Pages : s.place[p] \cap s.page[q] = {}

\* Place lists hold copies, but for that of a move.
CopiesOrMove(s) ==
  \A p \in Pages :
    CopiesOnly(s, p) \/ (p = s.cur /\ Moving(s) /\ s.place[p] = s.sel[p])

\* Only a move of the selection stretches nets, and only nets of the page in view.
StretchIsMove(s) ==
  /\ s.stretch \subseteq s.page[s.cur]
  /\ s.stretch = {} \/ (Moving(s) /\ s.place[s.cur] = s.sel[s.cur])

\* A grip is held in its mode only, and is one of an object of the page in view.
GripIsHeld(s) ==
  s.grip # NoObject => s.inside /\ s.mode = "GRIPS" /\ s.grip \in s.page[s.cur]

Lists(s) ==
  PagesApart(s) /\ PlacesApart(s) /\ CopiesOrMove(s) /\ StretchIsMove(s) /\ GripIsHeld(s)

\* A state between two events or handlers, unless a command ignored what is pending.
Good(s) ==
  /\ Window_(s)
  /\ ~s.untidy => Lists(s) /\ s.harm \in {"none", "assertion"}

\* Nothing of the page is on a list of an action.
Idle(s) ==
  /\ \A p \in Pages : CopiesOnly(s, p)
  /\ s.stretch = {} /\ s.grip = NoObject

Ready(s) ==
  /\ Window_(s)
  /\ ~s.untidy => /\ PagesApart(s) /\ PlacesApart(s) /\ Idle(s)
                  /\ s.harm \in {"none", "assertion"}

-----------------------------------------------------------------------------
(* What the invariant says of a state depends on its lists alone. *)

\* Two states with the same lists.
SameLists(t, s) ==
  /\ t.cur = s.cur /\ t.open = s.open /\ t.page = s.page /\ t.place = s.place
  /\ t.sel = s.sel /\ t.stretch = s.stretch /\ t.grip = s.grip /\ t.live = s.live
  /\ t.untidy = s.untidy /\ t.harm = s.harm

\* A ready state stays ready while its lists do.
LEMMA ReadySame ==
  ASSUME NEW s, Ready(s), NEW t \in WindowStates, SameLists(t, s)
  PROVE  Ready(t)
<1>1. PagesApart(s) => PagesApart(t)
  BY DEF PagesApart, SameLists
<1>2. PlacesApart(s) => PlacesApart(t)
  BY DEF PlacesApart, SameLists
<1>3. Idle(s) => Idle(t)
  BY DEF Idle, CopiesOnly, SameLists
<1> QED
  BY <1>1, <1>2, <1>3 DEF Ready, Window_, SameLists

\* With the mode and what is inside, a good state stays good.
LEMMA GoodSame ==
  ASSUME NEW s, Good(s), NEW t \in WindowStates, SameLists(t, s),
         t.mode = s.mode, t.inside = s.inside
  PROVE  Good(t)
<1>1. PagesApart(s) => PagesApart(t)
  BY DEF PagesApart, SameLists
<1>2. PlacesApart(s) => PlacesApart(t)
  BY DEF PlacesApart, SameLists
<1>3. CopiesOrMove(s) => CopiesOrMove(t)
  BY DEF CopiesOrMove, CopiesOnly, Moving, SameLists
<1>4. StretchIsMove(s) => StretchIsMove(t)
  BY DEF StretchIsMove, Moving, SameLists
<1>5. GripIsHeld(s) => GripIsHeld(t)
  BY DEF GripIsHeld, SameLists
<1> QED
  BY <1>1, <1>2, <1>3, <1>4, <1>5 DEF Good, Lists, Window_, SameLists

\* A ready state is good, whatever the mode.
LEMMA ReadyIsGood == ASSUME NEW s, Ready(s) PROVE Good(s)
<1>1. Idle(s) => CopiesOrMove(s)
  BY DEF Idle, CopiesOrMove
<1>2. Idle(s) => StretchIsMove(s)
  BY DEF Idle, StretchIsMove
<1>3. Idle(s) => GripIsHeld(s)
  BY DEF Idle, GripIsHeld
<1> QED
  BY <1>1, <1>2, <1>3 DEF Good, Ready, Lists

\* Outside an action, and in every mode but two, a good state is ready.
LEMMA GoodIsReady ==
  ASSUME NEW s, Good(s), ~s.inside \/ s.mode \notin {"MOVEMODE", "GRIPS"}
  PROVE  Ready(s)
<1>1. CopiesOrMove(s) => \A p \in Pages : CopiesOnly(s, p)
  BY DEF CopiesOrMove, Moving
<1>2. StretchIsMove(s) => s.stretch = {}
  BY DEF StretchIsMove, Moving
<1>3. GripIsHeld(s) => s.grip = NoObject
  BY DEF GripIsHeld
<1> QED
  BY <1>1, <1>2, <1>3 DEF Good, Ready, Lists, Idle

\* Setting the mode, starting and stopping change no list.
LEMMA ModesReady ==
  ASSUME NEW s, Ready(s), NEW m \in Modes
  PROVE  /\ Ready(SetMode(s, m)) /\ Ready(Start(s)) /\ Ready(Stop(s))
         /\ Ready(BackToSelect(s))
<1>1. s \in WindowStates
  BY DEF Ready, Window_
<1>2. ASSUME NEW n \in Modes, NEW b \in BOOLEAN
      PROVE  Ready([s EXCEPT !.mode = n]) /\ Ready([s EXCEPT !.inside = b])
  <2>1. [s EXCEPT !.mode = n] \in WindowStates /\ SameLists([s EXCEPT !.mode = n], s)
    BY <1>1 DEF WindowStates, SameLists
  <2>2. [s EXCEPT !.inside = b] \in WindowStates /\ SameLists([s EXCEPT !.inside = b], s)
    BY <1>1 DEF WindowStates, SameLists
  <2> QED
    BY <2>1, <2>2, ReadySame
<1>3. "SELECT" \in Modes
  BY DEF Modes
<1>4. Ready([s EXCEPT !.mode = "SELECT"]) /\ [s EXCEPT !.mode = "SELECT"] \in WindowStates
  BY <1>1, <1>2, <1>3 DEF WindowStates
<1>5. /\ [[s EXCEPT !.mode = "SELECT"] EXCEPT !.inside = FALSE] \in WindowStates
      /\ SameLists([[s EXCEPT !.mode = "SELECT"] EXCEPT !.inside = FALSE], s)
  BY <1>1, <1>3 DEF WindowStates, SameLists
<1> QED
  BY <1>2, <1>5, ReadySame DEF SetMode, Start, Stop, BackToSelect

\* The modes are modes.
LEMMA ModesAre ==
  /\ PlaceModes \subseteq Modes /\ DrawModes \subseteq Modes
  /\ {"SELECT", "SBOX", "GRIPS", "ZOOMBOX", "PAN", "MOVEMODE", "ROTATEMODE", "MIRRORMODE"}
       \subseteq Modes
  /\ "MOVEMODE" \notin PlaceModes \cup DrawModes
  /\ "GRIPS" \notin PlaceModes \cup DrawModes
  BY DEF Modes, PlaceModes, DrawModes

-----------------------------------------------------------------------------
(* Using and touching objects. *)

\* Using allocated objects harms nothing.
LEMMA UsesFields ==
  ASSUME NEW s \in WindowStates, NEW objs
  PROVE  /\ Uses(s, objs) \in WindowStates
         /\ Uses(s, objs).mode = s.mode /\ Uses(s, objs).inside = s.inside
         /\ Uses(s, objs).cur = s.cur /\ Uses(s, objs).open = s.open
         /\ Uses(s, objs).page = s.page /\ Uses(s, objs).place = s.place
         /\ Uses(s, objs).sel = s.sel /\ Uses(s, objs).stretch = s.stretch
         /\ Uses(s, objs).grip = s.grip /\ Uses(s, objs).live = s.live
         /\ Uses(s, objs).untidy = s.untidy
         /\ objs \subseteq s.live => Uses(s, objs) = s
<1>1. CASE objs \subseteq s.live
  BY <1>1 DEF Uses
<1>2. CASE ~(objs \subseteq s.live)
  <2>1. CASE s.harm = "none"
    <3>1. Uses(s, objs) = [s EXCEPT !.harm = "freed"]
      BY <1>2, <2>1 DEF Uses, Hurt
    <3>2. [s EXCEPT !.harm = "freed"] \in WindowStates
      BY DEF WindowStates, Harms
    <3> QED
      BY <1>2, <3>1, <3>2 DEF WindowStates
  <2>2. CASE s.harm # "none"
    <3>1. Uses(s, objs) = s
      BY <1>2, <2>2 DEF Uses, Hurt
    <3> QED
      BY <3>1
  <2> QED
    BY <2>1, <2>2
<1> QED
  BY <1>1, <1>2

\* Whether the objects are there matters only in a state that is tidy.
LEMMA UsesReady ==
  ASSUME NEW s, Ready(s), NEW objs, ~s.untidy => objs \subseteq s.live
  PROVE  Ready(Uses(s, objs))
<1>1. CASE s.untidy
  BY <1>1, UsesFields DEF Ready, Window_
<1>2. CASE ~s.untidy
  BY <1>2, UsesFields DEF Ready, Window_
<1> QED
  BY <1>1, <1>2

\* The same for a good state.
LEMMA UsesGood ==
  ASSUME NEW s, Good(s), NEW objs, ~s.untidy => objs \subseteq s.live
  PROVE  Good(Uses(s, objs))
<1>1. CASE s.untidy
  BY <1>1, UsesFields DEF Good, Window_
<1>2. CASE ~s.untidy
  BY <1>2, UsesFields DEF Good, Window_
<1> QED
  BY <1>1, <1>2

\* What is selected is there, and so are the objects of the place lists.
LEMMA SelectedIsThere ==
  ASSUME NEW s, Good(s), ~s.untidy
  PROVE  /\ Selected(s) \subseteq s.page[s.cur] /\ Selected(s) \subseteq s.live
         /\ \A p \in Pages : s.place[p] \subseteq s.live
         /\ Placed(s) \subseteq s.live
         /\ s.stretch \subseteq s.live
<1>1. s.cur \in Pages
  BY DEF Good, Window_, WindowStates
<1>2. PagesApart(s) /\ PlacesApart(s) /\ StretchIsMove(s)
  BY DEF Good, Lists
<1> QED
  BY <1>1, <1>2 DEF PagesApart, PlacesApart, StretchIsMove, Selected, Placed

-----------------------------------------------------------------------------
(* Freeing and filling the place list. *)

\* A place list of copies has no object of a page.
LEMMA CopiesAreOff ==
  ASSUME NEW s \in WindowStates, NEW p \in Pages, CopiesOnly(s, p)
  PROVE  s.place[p] \cap OnPages(s) = {}
<1>1. s.page \in [Pages -> SUBSET Objects]
  BY DEF WindowStates
<1> QED
  BY <1>1 DEF CopiesOnly, OnPages

\* A state without some objects, and without a place list.
Without(t, gone, p) ==
  [t EXCEPT !.page = [q \in Pages |-> @[q] \ gone], !.live = @ \ gone, !.place[p] = {}]

\* What d is when gone and the place list of p are taken from t.
LeftOf(d, t, gone, p) ==
  /\ d \in WindowStates
  /\ d.mode = t.mode /\ d.inside = t.inside /\ d.cur = t.cur /\ d.open = t.open
  /\ \A q \in Pages : d.page[q] = t.page[q] \ gone
  /\ d.place[p] = {} /\ \A q \in Pages \ {p} : d.place[q] = t.place[q]
  /\ d.sel = t.sel /\ d.stretch = t.stretch /\ d.grip = t.grip
  /\ d.live = t.live \ gone
  /\ d.untidy = t.untidy

\* What is left of it.
LEMMA WithoutFields ==
  ASSUME NEW t \in WindowStates, NEW gone, gone \subseteq Objects, NEW p \in Pages
  PROVE  LeftOf(Without(t, gone, p), t, gone, p) /\ Without(t, gone, p).harm = t.harm
<1>1. Without(t, gone, p) \in WindowStates
  BY DEF Without, WindowStates
<1> QED
  BY <1>1 DEF Without, WindowStates, LeftOf

\* What is left when the objects of a place list are freed.
LEMMA DeleteFields ==
  ASSUME NEW s \in WindowStates, NEW p \in Pages
  PROVE  /\ LeftOf(DeletePlaceList(s, p), s, s.place[p], p)
         /\ (s.place[p] \subseteq s.live /\ s.place[p] \cap OnPages(s) = {})
              => DeletePlaceList(s, p).harm = s.harm
<1> DEFINE gone == s.place[p]
           t == Uses(s, gone)
           u == IF gone \cap OnPages(s) = {} THEN t ELSE Hurt(t, "lost")
<1>1. /\ t \in WindowStates
      /\ t.mode = s.mode /\ t.inside = s.inside /\ t.cur = s.cur /\ t.open = s.open
      /\ t.page = s.page /\ t.place = s.place /\ t.sel = s.sel /\ t.stretch = s.stretch
      /\ t.grip = s.grip /\ t.live = s.live /\ t.untidy = s.untidy
      /\ gone \subseteq s.live => t = s
  BY UsesFields
<1>2. DeletePlaceList(s, p) = Without(u, gone, p)
  BY DEF DeletePlaceList, Without
<1>3. gone \in SUBSET Objects
  BY DEF WindowStates
<1> HIDE DEF t
<1>4. /\ u \in WindowStates
      /\ u.mode = s.mode /\ u.inside = s.inside /\ u.cur = s.cur /\ u.open = s.open
      /\ u.page = s.page /\ u.place = s.place /\ u.sel = s.sel /\ u.stretch = s.stretch
      /\ u.grip = s.grip /\ u.live = s.live /\ u.untidy = s.untidy
      /\ gone \cap OnPages(s) = {} => u = t
  <2>1. CASE gone \cap OnPages(s) = {} \/ t.harm # "none"
    <3>1. u = t
      BY <2>1 DEF Hurt
    <3> QED
      BY <3>1, <1>1
  <2>2. CASE ~(gone \cap OnPages(s) = {} \/ t.harm # "none")
    <3>1. u = [t EXCEPT !.harm = "lost"]
      BY <2>2 DEF Hurt
    <3> QED
      BY <1>1, <2>2, <3>1 DEF WindowStates, Harms
  <2> QED
    BY <2>1, <2>2
<1>5. (gone \subseteq s.live /\ gone \cap OnPages(s) = {}) => u.harm = s.harm
  BY <1>1, <1>4
<1> HIDE DEF u, gone
<1>6. gone = s.place[p]
  BY DEF gone
<1> DEFINE d == Without(u, gone, p)
<1>7. LeftOf(d, u, gone, p) /\ d.harm = u.harm
  BY <1>3, <1>4, WithoutFields
<1> HIDE DEF d
<1>8. d = DeletePlaceList(s, p)
  BY <1>2 DEF d
<1>9. LeftOf(d, s, s.place[p], p)
  BY <1>4, <1>6, <1>7 DEF LeftOf
<1> QED
  BY <1>5, <1>6, <1>7, <1>8, <1>9

\* Freeing a place list of copies takes nothing from the pages.
LEMMA DeleteReady ==
  ASSUME NEW s, Ready(s), NEW p \in Pages
  PROVE  /\ Ready(DeletePlaceList(s, p))
         /\ DeletePlaceList(s, p).cur = s.cur /\ DeletePlaceList(s, p).open = s.open
         /\ ~s.untidy => DeletePlaceList(s, p).place[p] = {}
         /\ DeletePlaceList(s, p).page[s.cur] \subseteq s.page[s.cur]
         /\ DeletePlaceList(s, p).sel = s.sel
         /\ ~s.untidy => DeletePlaceList(s, p).page = s.page
<1> DEFINE d == DeletePlaceList(s, p)
<1>1. s \in WindowStates /\ s.cur \in Pages
  BY DEF Ready, Window_, WindowStates
<1>2. /\ LeftOf(d, s, s.place[p], p)
      /\ (s.place[p] \subseteq s.live /\ s.place[p] \cap OnPages(s) = {}) => d.harm = s.harm
  BY <1>1, DeleteFields
<1> HIDE DEF d
<1>3. Window_(d)
  BY <1>2 DEF Ready, Window_, LeftOf
<1>4. ASSUME ~s.untidy
      PROVE  /\ PagesApart(d) /\ PlacesApart(d) /\ Idle(d)
             /\ d.harm \in {"none", "assertion"}
             /\ d.page = s.page
  <2>1. PagesApart(s) /\ PlacesApart(s) /\ Idle(s)
    BY <1>4 DEF Ready
  <2>2. CopiesOnly(s, p) /\ s.place[p] \cap OnPages(s) = {}
    BY <1>1, <2>1, CopiesAreOff DEF Idle
  <2>3. d.harm = s.harm
    BY <1>2, <2>1, <2>2 DEF PlacesApart
  <2>4. s.page \in [Pages -> SUBSET Objects] /\ s.place \in [Pages -> SUBSET Objects]
    BY <1>1 DEF WindowStates
  <2>5. d.page = s.page
    <3>1. \A q \in Pages : d.page[q] = s.page[q]
      BY <1>2, <2>2, <2>4 DEF CopiesOnly, LeftOf
    <3>2. d.page \in [Pages -> SUBSET Objects]
      BY <1>2 DEF LeftOf, WindowStates
    <3> QED
      BY <2>4, <3>1, <3>2
  <2>6. PagesApart(d)
    BY <1>2, <2>1, <2>2, <2>5 DEF PagesApart, CopiesOnly, LeftOf
  <2>7. PlacesApart(d)
    BY <1>2, <2>1, <2>4 DEF PlacesApart, LeftOf
  <2>8. Idle(d)
    BY <1>2, <2>1, <2>4, <2>5 DEF Idle, CopiesOnly, LeftOf
  <2> QED
    BY <1>4, <2>3, <2>5, <2>6, <2>7, <2>8 DEF Ready
<1>5. s.page \in [Pages -> SUBSET Objects] /\ s.place \in [Pages -> SUBSET Objects]
  BY <1>1 DEF WindowStates
<1>6. Ready(d)
  BY <1>2, <1>3, <1>4 DEF Ready, LeftOf
<1> QED
  BY <1>1, <1>2, <1>4, <1>5, <1>6 DEF d, LeftOf

-----------------------------------------------------------------------------
(* New objects. *)

\* Objects that are not allocated, and that no list refers to.
Unknown(s, new) ==
  /\ new \in SUBSET Objects
  /\ new \cap s.live = {} /\ new \cap s.stretch = {} /\ s.grip \notin new
  /\ \A p \in Pages : new \cap s.place[p] = {} /\ new \cap s.sel[p] = {}

\* Fresh memory is unknown.
LEMMA FreshIsUnknown ==
  ASSUME NEW s \in WindowStates, NEW new, new \subseteq Fresh(s)
  PROVE  Unknown(s, new)
<1> DEFINE lists == UNION {s.place[q] \cup s.sel[q] : q \in Pages}
<1>0. Referenced(s) = lists \cup s.stretch \cup ({s.grip} \ {NoObject})
  BY DEF Referenced
<1> HIDE DEF lists
<1>1. new \in SUBSET Objects /\ new \cap s.live = {} /\ new \cap Referenced(s) = {}
  BY DEF Fresh
<1>2. \A p \in Pages : s.place[p] \subseteq Referenced(s) /\ s.sel[p] \subseteq Referenced(s)
  <2>1. ASSUME NEW p \in Pages
        PROVE  s.place[p] \subseteq lists /\ s.sel[p] \subseteq lists
    <3>1. s.place[p] \cup s.sel[p] \in {s.place[q] \cup s.sel[q] : q \in Pages}
      OBVIOUS
    <3> QED
      BY <3>1 DEF lists
  <2>2. lists \subseteq Referenced(s)
    BY <1>0
  <2> QED
    BY <2>1, <2>2
<1>3. s.stretch \subseteq Referenced(s) /\ (s.grip # NoObject => s.grip \in Referenced(s))
  <2>1. (s.stretch \cup ({s.grip} \ {NoObject})) \subseteq Referenced(s)
    BY <1>0
  <2> QED
    BY <2>1
<1>4. s.grip \notin new
  BY <1>1, <1>3, EditorAssumption
<1> QED
  BY <1>1, <1>2, <1>3, <1>4 DEF Unknown

\* So are the objects a handler is given.
LEMMA NewsAreUnknown ==
  ASSUME NEW s \in WindowStates, NEW new \in News(s)
  PROVE  new \subseteq Fresh(s) /\ Unknown(s, new)
<1>1. new \subseteq Fresh(s)
  BY DEF News, Copies
<1> QED
  BY <1>1, FreshIsUnknown

\* Copies are among them.
LEMMA CopiesAreNews == ASSUME NEW s PROVE Copies(s) \subseteq News(s)
  BY DEF News

\* s_page_append: the new objects are on an open page, and on no list.
LEMMA AppendToReady ==
  ASSUME NEW s, Ready(s), NEW p \in s.open, NEW new, Unknown(s, new)
  PROVE  Ready(AppendTo(s, p, new))
<1> DEFINE a == AppendTo(s, p, new)
<1>1. s \in WindowStates /\ s.cur \in Pages /\ s.cur \in s.open /\ p \in Pages
  BY DEF Ready, Window_, WindowStates
<1>2. a \in WindowStates
  BY <1>1 DEF AppendTo, WindowStates, Unknown
<1>3. /\ a.mode = s.mode /\ a.inside = s.inside /\ a.cur = s.cur /\ a.open = s.open
      /\ a.page = [s.page EXCEPT ![p] = @ \cup new]
      /\ a.place = s.place /\ a.sel = s.sel /\ a.stretch = s.stretch /\ a.grip = s.grip
      /\ a.live = s.live \cup new /\ a.untidy = s.untidy /\ a.harm = s.harm
  BY <1>1 DEF AppendTo, WindowStates
<1>4. s.page \in [Pages -> SUBSET Objects] /\ s.place \in [Pages -> SUBSET Objects]
  BY <1>1 DEF WindowStates
<1> HIDE DEF a
<1>5. ASSUME ~s.untidy PROVE PagesApart(a) /\ PlacesApart(a) /\ Idle(a)
  <2>1. PagesApart(s) /\ PlacesApart(s) /\ Idle(s)
    BY <1>5 DEF Ready
  <2>2. PagesApart(a)
    BY <1>1, <1>3, <1>4, <2>1 DEF PagesApart, Unknown
  <2>3. PlacesApart(a)
    BY <1>3, <2>1 DEF PlacesApart
  <2>4. Idle(a)
    BY <1>1, <1>3, <1>4, <2>1 DEF Idle, CopiesOnly, Unknown
  <2> QED
    BY <2>2, <2>3, <2>4
<1> QED
  BY <1>1, <1>2, <1>3, <1>5 DEF Ready, Window_, a

\* Mostly it is the page in view.
LEMMA AppendReady ==
  ASSUME NEW s, Ready(s), NEW new, Unknown(s, new)
  PROVE  Ready(Append(s, new))
<1>1. s.cur \in s.open
  BY DEF Ready, Window_
<1> QED
  BY <1>1, AppendToReady DEF Append

\* The place list is filled with new objects.
LEMMA SetPlaceReady ==
  ASSUME NEW s, Ready(s), NEW p \in Pages, NEW new, Unknown(s, new)
  PROVE  /\ Ready(SetPlaceList(s, p, new))
         /\ SetPlaceList(s, p, new).cur = s.cur /\ SetPlaceList(s, p, new).open = s.open
<1> DEFINE d == DeletePlaceList(s, p)
           a == [d EXCEPT !.place[p] = new, !.live = @ \cup new]
<1>1. s \in WindowStates /\ s.cur \in Pages
  BY DEF Ready, Window_, WindowStates
<1>2. LeftOf(d, s, s.place[p], p)
  BY <1>1, DeleteFields
<1>3. Ready(d) /\ d.cur = s.cur /\ d.open = s.open
  BY DeleteReady
<1> HIDE DEF d
<1>4. a \in WindowStates
  BY <1>2 DEF LeftOf, WindowStates, Unknown
<1>5. /\ a.cur = d.cur /\ a.open = d.open /\ a.page = d.page
      /\ a.place = [d.place EXCEPT ![p] = new]
      /\ a.sel = d.sel /\ a.stretch = d.stretch /\ a.grip = d.grip
      /\ a.live = d.live \cup new /\ a.untidy = d.untidy /\ a.harm = d.harm
  BY <1>2 DEF LeftOf, WindowStates
<1>6. d.page \in [Pages -> SUBSET Objects] /\ d.place \in [Pages -> SUBSET Objects]
      /\ s.page \in [Pages -> SUBSET Objects] /\ s.place \in [Pages -> SUBSET Objects]
  BY <1>1, <1>2 DEF LeftOf, WindowStates
<1> HIDE DEF a
<1>7. ASSUME ~s.untidy PROVE PagesApart(a) /\ PlacesApart(a) /\ Idle(a)
  <2>1. PagesApart(s) /\ PagesApart(d) /\ PlacesApart(d) /\ Idle(d)
    BY <1>2, <1>3, <1>7 DEF Ready, LeftOf
  <2>2. PagesApart(a)
    BY <1>5, <2>1 DEF PagesApart
  <2>3. \A q \in Pages : new \cap d.page[q] = {} /\ new \cap d.place[q] = {}
    BY <1>2, <1>6, <2>1 DEF PagesApart, Unknown, LeftOf
  <2>4. PlacesApart(a)
    BY <1>5, <1>6, <2>1, <2>3 DEF PlacesApart
  <2>5. Idle(a)
    BY <1>5, <1>6, <2>1, <2>3 DEF Idle, CopiesOnly
  <2> QED
    BY <2>2, <2>4, <2>5
<1>8. Ready(a) /\ a.cur = s.cur /\ a.open = s.open
  BY <1>2, <1>3, <1>4, <1>5, <1>7 DEF Ready, Window_, LeftOf
<1> QED
  BY <1>8 DEF SetPlaceList, a, d

-----------------------------------------------------------------------------
(* Saving an undo state. *)

\* Merging two nets of the page in view frees one and drops it from the selection.
LEMMA MergedReady ==
  ASSUME NEW s, Ready(s), NEW a \in s.page[s.cur], NEW b \in s.page[s.cur], a # b
  PROVE  Ready(Merged(s, a, b))
<1> DEFINE m == Merged(s, a, b)
<1>1. s \in WindowStates /\ s.cur \in Pages /\ s.cur \in s.open
  BY DEF Ready, Window_, WindowStates
<1>2. s.page \in [Pages -> SUBSET Objects] /\ s.sel \in [Pages -> SUBSET Objects]
  BY <1>1 DEF WindowStates
<1>3. a \in Objects /\ b \in Objects
  BY <1>1, <1>2
<1>4. m \in WindowStates
  BY <1>1, <1>3 DEF Merged, WindowStates
<1>5. /\ m.mode = s.mode /\ m.inside = s.inside /\ m.cur = s.cur /\ m.open = s.open
      /\ m.page = [s.page EXCEPT ![s.cur] = @ \ {b}] /\ m.live = s.live \ {b}
      /\ m.sel = [s.sel EXCEPT ![s.cur] = IF b \in @ THEN (@ \ {b}) \cup {a} ELSE @]
      /\ m.place = s.place /\ m.stretch = s.stretch /\ m.grip = s.grip
      /\ m.untidy = s.untidy /\ m.harm = s.harm
  BY <1>1 DEF Merged, WindowStates
<1> HIDE DEF m
<1>6. /\ m.page[s.cur] = s.page[s.cur] \ {b} /\ \A q \in Pages \ {s.cur} : m.page[q] = s.page[q]
      /\ m.sel[s.cur] \subseteq (s.sel[s.cur] \ {b}) \cup {a}
      /\ \A q \in Pages \ {s.cur} : m.sel[q] = s.sel[q]
  BY <1>1, <1>2, <1>5
<1>7. ASSUME ~s.untidy PROVE PagesApart(m) /\ PlacesApart(m) /\ Idle(m)
  <2>1. PagesApart(s) /\ PlacesApart(s) /\ Idle(s)
    BY <1>7 DEF Ready
  <2>2. PagesApart(m)
    BY <1>1, <1>5, <1>6, <2>1 DEF PagesApart
  <2>3. \A p \in Pages : b \notin s.place[p]
    BY <1>1, <2>1 DEF Idle, CopiesOnly
  <2>4. PlacesApart(m)
    BY <1>5, <2>1, <2>3 DEF PlacesApart
  <2>5. Idle(m)
    BY <1>1, <1>5, <1>6, <2>1 DEF Idle, CopiesOnly
  <2> QED
    BY <2>2, <2>4, <2>5
<1> QED
  BY <1>1, <1>4, <1>5, <1>7 DEF Ready, Window_, m

\* o_undo_savestate leaves a ready state, whatever it merges.
LEMMA SaveReady ==
  ASSUME NEW s, Ready(s), NEW t \in SaveStates(s)
  PROVE  Ready(t)
<1>1. CASE t = s
  BY <1>1
<1>2. CASE \E ab \in {xy \in s.page[s.cur] \X s.page[s.cur] : xy[1] # xy[2]} :
             t = Merged(s, ab[1], ab[2])
  <2>1. PICK ab \in {xy \in s.page[s.cur] \X s.page[s.cur] : xy[1] # xy[2]} :
             t = Merged(s, ab[1], ab[2])
    BY <1>2
  <2> QED
    BY <2>1, MergedReady
<1> QED
  BY <1>1, <1>2 DEF SaveStates

\* It opens no page.
LEMMA SaveOpensNothing ==
  ASSUME NEW s, Ready(s), NEW t \in SaveStates(s)
  PROVE  t.open = s.open
<1>1. s \in WindowStates
  BY DEF Ready, Window_
<1>2. \A a, b : Merged(s, a, b).open = s.open
  BY <1>1 DEF Merged, WindowStates
<1> QED
  BY <1>2 DEF SaveStates

-----------------------------------------------------------------------------
(* Selecting. *)

\* Any objects of the page in view may be selected when no move depends on the selection.
LEMMA SelectionReady ==
  ASSUME NEW s, Ready(s), NEW objs, objs \subseteq Objects,
         ~s.untidy => objs \subseteq s.page[s.cur]
  PROVE  Ready([s EXCEPT !.sel[s.cur] = objs])
<1> DEFINE t == [s EXCEPT !.sel[s.cur] = objs]
<1>1. s \in WindowStates /\ s.cur \in Pages /\ s.cur \in s.open
  BY DEF Ready, Window_, WindowStates
<1>2. t \in WindowStates
  BY <1>1 DEF WindowStates
<1>3. /\ t.cur = s.cur /\ t.open = s.open /\ t.page = s.page /\ t.place = s.place
      /\ t.sel = [s.sel EXCEPT ![s.cur] = objs]
      /\ t.stretch = s.stretch /\ t.grip = s.grip /\ t.live = s.live
      /\ t.untidy = s.untidy /\ t.harm = s.harm
  BY <1>1 DEF WindowStates
<1>4. s.sel \in [Pages -> SUBSET Objects]
  BY <1>1 DEF WindowStates
<1> HIDE DEF t
<1>5. ASSUME ~s.untidy PROVE PagesApart(t) /\ PlacesApart(t) /\ Idle(t)
  <2>1. PagesApart(s) /\ PlacesApart(s) /\ Idle(s)
    BY <1>5 DEF Ready
  <2>2. PagesApart(t)
    BY <1>3, <1>4, <1>5, <2>1 DEF PagesApart
  <2> QED
    BY <1>3, <2>1, <2>2 DEF PlacesApart, Idle, CopiesOnly
<1>6. Ready(t)
  BY <1>1, <1>2, <1>3, <1>5 DEF Ready, Window_
<1> QED
  BY <1>6 DEF t

\* o_select_unselect_all and selecting something instead.
LEMMA SelectReady ==
  ASSUME NEW s, Ready(s)
  PROVE  /\ Ready(UnselectAll(s)) /\ UnselectAll(s).page = s.page
         /\ UnselectAll(s).cur = s.cur
         /\ \A objs \in SUBSET s.page[s.cur] :
              /\ Ready(Select(s, objs))
              /\ Select(s, objs).cur = s.cur /\ Select(s, objs).page = s.page
              /\ Selected(Select(s, objs)) = objs
<1> DEFINE t == Uses(s, Selected(s))
<1>1. s \in WindowStates /\ s.cur \in Pages
  BY DEF Ready, Window_, WindowStates
<1>2. Ready(t) /\ t \in WindowStates /\ t.cur = s.cur /\ t.page = s.page
  BY <1>1, UsesReady, UsesFields, SelectedIsThere, ReadyIsGood
<1> HIDE DEF t
<1>3. UnselectAll(s) = [t EXCEPT !.sel[s.cur] = {}]
  BY DEF UnselectAll, t
<1>4. Ready(UnselectAll(s)) /\ UnselectAll(s).page = s.page /\ UnselectAll(s).cur = s.cur
  BY <1>2, <1>3, SelectionReady DEF WindowStates
<1>5. ASSUME NEW objs \in SUBSET s.page[s.cur]
      PROVE  /\ Ready(Select(s, objs))
             /\ Select(s, objs).cur = s.cur /\ Select(s, objs).page = s.page
             /\ Selected(Select(s, objs)) = objs
  <2>1. UnselectAll(s) \in WindowStates
    BY <1>4 DEF Ready, Window_
  <2>2. objs \subseteq Objects
    BY <1>1 DEF WindowStates
  <2>3. Select(s, objs) = [UnselectAll(s) EXCEPT !.sel[s.cur] = objs]
    BY DEF Select
  <2>4. Ready(Select(s, objs))
    BY <1>4, <2>2, <2>3, SelectionReady
  <2> QED
    BY <1>1, <1>4, <2>1, <2>3, <2>4 DEF WindowStates, Selected
<1> QED
  BY <1>4, <1>5

-----------------------------------------------------------------------------
(* Cancelling what is pending. *)

\* Nothing is pending but perhaps a grip.
OnlyAGrip(s) ==
  /\ Window_(s)
  /\ ~s.untidy =>
       /\ PagesApart(s) /\ PlacesApart(s) /\ s.harm \in {"none", "assertion"}
       /\ \A p \in Pages : CopiesOnly(s, p)
       /\ s.stretch = {} /\ (s.grip # NoObject => s.grip \in s.page[s.cur])

\* That is so in the mode of grips, and when nothing is pending.
LEMMA GripsOnly ==
  ASSUME NEW s, Ready(s) \/ (Good(s) /\ s.mode = "GRIPS")
  PROVE  OnlyAGrip(s)
<1>1. CASE Ready(s)
  BY <1>1 DEF Ready, OnlyAGrip, Idle
<1>2. CASE Good(s) /\ s.mode = "GRIPS"
  <2>1. ~Moving(s)
    BY <1>2 DEF Moving
  <2>2. ASSUME ~s.untidy
        PROVE  /\ PagesApart(s) /\ PlacesApart(s) /\ s.harm \in {"none", "assertion"}
               /\ \A p \in Pages : CopiesOnly(s, p)
               /\ s.stretch = {} /\ (s.grip # NoObject => s.grip \in s.page[s.cur])
    BY <1>2, <2>1, <2>2 DEF Good, Lists, CopiesOrMove, StretchIsMove, GripIsHeld
  <2> QED
    BY <1>2, <2>2 DEF OnlyAGrip, Good
<1> QED
  BY <1>1, <1>2

\* o_grips_cancel: no grip is held any more.
LEMMA GripsCancelReady ==
  ASSUME NEW s, OnlyAGrip(s)
  PROVE  Ready(GripsCancel(s)) /\ GripsCancel(s).cur = s.cur /\ GripsCancel(s).open = s.open
<1> DEFINE t == GripsCancel(s)
<1>1. s \in WindowStates /\ s.cur \in Pages
  BY DEF OnlyAGrip, Window_, WindowStates
<1>2. /\ t \in WindowStates
      /\ t.cur = s.cur /\ t.open = s.open
      /\ t.page = s.page /\ t.place = s.place /\ t.sel = s.sel
      /\ t.stretch = s.stretch /\ t.grip = NoObject /\ t.live = s.live
      /\ t.untidy = s.untidy /\ (~s.untidy => t.harm = s.harm)
  <2>1. CASE s.grip = NoObject
    BY <1>1, <2>1 DEF GripsCancel
  <2>2. CASE s.grip # NoObject
    <3> DEFINE u == Uses(s, {s.grip})
    <3>1. ~s.untidy => {s.grip} \subseteq s.live
      BY <1>1, <2>2 DEF OnlyAGrip, PagesApart
    <3>2. /\ u \in WindowStates
          /\ u.cur = s.cur /\ u.open = s.open
          /\ u.page = s.page /\ u.place = s.place /\ u.sel = s.sel
          /\ u.stretch = s.stretch /\ u.live = s.live
          /\ u.untidy = s.untidy /\ (~s.untidy => u = s)
      BY <1>1, <3>1, UsesFields
    <3> HIDE DEF u
    <3>3. t = [u EXCEPT !.grip = NoObject]
      BY <2>2 DEF GripsCancel, u
    <3> QED
      BY <3>2, <3>3 DEF WindowStates
  <2> QED
    BY <2>1, <2>2
<1> HIDE DEF t
<1>3. Window_(t)
  BY <1>2 DEF OnlyAGrip, Window_
<1>4. ASSUME ~s.untidy
      PROVE  PagesApart(t) /\ PlacesApart(t) /\ Idle(t) /\ t.harm \in {"none", "assertion"}
  BY <1>2, <1>4 DEF OnlyAGrip, PagesApart, PlacesApart, Idle, CopiesOnly
<1>5. Ready(t)
  BY <1>2, <1>3, <1>4 DEF Ready
<1> QED
  BY <1>2, <1>5 DEF t

\* o_move_cancel: what it leaves.
LEMMA MoveCancelFields ==
  ASSUME NEW s, Good(s)
  PROVE  LET t == MoveCancel(s) IN
         /\ t \in WindowStates
         /\ t.mode = s.mode /\ t.inside = FALSE /\ t.cur = s.cur /\ t.open = s.open
         /\ t.page = s.page /\ t.sel = s.sel
         /\ t.place = [s.place EXCEPT ![s.cur] = {}]
         /\ t.stretch = {} /\ t.grip = s.grip
         /\ t.live = s.live \ (Placed(s) \ OnPages(s))
         /\ t.untidy = s.untidy /\ (~s.untidy => t.harm = s.harm)
<1>1. s \in WindowStates /\ s.cur \in Pages
  BY DEF Good, Window_, WindowStates
<1> DEFINE u == Uses(s, s.stretch)
<1>2. /\ u \in WindowStates
      /\ u.mode = s.mode /\ u.inside = s.inside /\ u.cur = s.cur /\ u.open = s.open
      /\ u.page = s.page /\ u.place = s.place /\ u.sel = s.sel
      /\ u.grip = s.grip /\ u.live = s.live
      /\ u.untidy = s.untidy /\ (~s.untidy => u = s)
  BY <1>1, UsesFields, SelectedIsThere
<1> HIDE DEF u
<1> DEFINE lost == Placed(s) \ OnPages(s)
<1>3. MoveCancel(s) = Stop([u EXCEPT !.live = @ \ lost, !.place[s.cur] = {}, !.stretch = {}])
  BY DEF MoveCancel, u
<1> HIDE DEF lost
<1> DEFINE v == [u EXCEPT !.live = @ \ lost, !.place[s.cur] = {}, !.stretch = {}]
<1>4. /\ v \in WindowStates
      /\ v.mode = s.mode /\ v.cur = s.cur /\ v.open = s.open
      /\ v.page = s.page /\ v.sel = s.sel /\ v.place = [s.place EXCEPT ![s.cur] = {}]
      /\ v.stretch = {} /\ v.grip = s.grip /\ v.live = s.live \ lost
      /\ v.untidy = s.untidy /\ (~s.untidy => v.harm = s.harm)
  BY <1>1, <1>2 DEF WindowStates
<1> HIDE DEF v
<1>5. MoveCancel(s) = [v EXCEPT !.inside = FALSE]
  BY <1>3 DEF Stop, v
<1> QED
  BY <1>4, <1>5 DEF WindowStates, lost

\* When its move is cancelled, only a grip of a good state is left.
LEMMA MoveCancelReady ==
  ASSUME NEW s, Good(s)
  PROVE  /\ OnlyAGrip(MoveCancel(s))
         /\ s.mode # "GRIPS" \/ ~s.inside => Ready(MoveCancel(s))
         /\ MoveCancel(s).cur = s.cur /\ MoveCancel(s).open = s.open
         /\ MoveCancel(s).page = s.page /\ MoveCancel(s).mode = s.mode
<1> DEFINE t == MoveCancel(s)
<1>1. /\ t \in WindowStates
      /\ t.mode = s.mode /\ t.inside = FALSE /\ t.cur = s.cur /\ t.open = s.open
      /\ t.page = s.page /\ t.sel = s.sel
      /\ t.place = [s.place EXCEPT ![s.cur] = {}]
      /\ t.stretch = {} /\ t.grip = s.grip
      /\ t.live = s.live \ (Placed(s) \ OnPages(s))
      /\ t.untidy = s.untidy /\ (~s.untidy => t.harm = s.harm)
  BY MoveCancelFields
<1> HIDE DEF t
<1>2. Window_(t) /\ s \in WindowStates /\ s.cur \in Pages
  BY <1>1 DEF Good, Window_, WindowStates
<1>3. ASSUME ~s.untidy
      PROVE  /\ PagesApart(t) /\ PlacesApart(t) /\ t.harm \in {"none", "assertion"}
             /\ \A p \in Pages : CopiesOnly(t, p)
             /\ t.grip # NoObject => t.grip \in t.page[t.cur]
             /\ s.mode # "GRIPS" \/ ~s.inside => t.grip = NoObject
  <2>1. Lists(s) /\ s.harm \in {"none", "assertion"}
    BY <1>3 DEF Good
  <2>2. /\ PagesApart(s) /\ PlacesApart(s)
        /\ s.grip # NoObject => s.inside /\ s.mode = "GRIPS" /\ s.grip \in s.page[s.cur]
        /\ \A p \in Pages \ {s.cur} : CopiesOnly(s, p)
    BY <2>1 DEF Lists, CopiesOrMove, GripIsHeld
  <2>3. /\ s.page \in [Pages -> SUBSET Objects] /\ s.place \in [Pages -> SUBSET Objects]
        /\ \A p \in Pages : s.page[p] \subseteq OnPages(s)
    BY <1>2 DEF WindowStates, OnPages
  <2>4. PagesApart(t)
    BY <1>1, <2>2, <2>3 DEF PagesApart
  <2>5. t.place[s.cur] = {} /\ \A p \in Pages \ {s.cur} : t.place[p] = s.place[p]
    BY <1>1, <1>2, <2>3
  <2>6. PlacesApart(t)
    BY <1>1, <1>2, <2>2, <2>5 DEF PlacesApart, Placed
  <2>7. \A p \in Pages : CopiesOnly(t, p)
    BY <1>1, <2>2, <2>5 DEF CopiesOnly
  <2> QED
    BY <1>1, <1>3, <2>1, <2>2, <2>4, <2>6, <2>7
<1>4. OnlyAGrip(t)
  BY <1>1, <1>2, <1>3 DEF OnlyAGrip
<1>5. s.mode # "GRIPS" \/ ~s.inside => Ready(t)
  BY <1>1, <1>2, <1>3 DEF Ready, Idle
<1> QED
  BY <1>1, <1>4, <1>5 DEF t

-----------------------------------------------------------------------------
(* i_cancel and o_redraw_cleanstates. *)

\* The select mode is a mode, and what is ready stays so in it.
LEMMA BackReady ==
  ASSUME NEW s, Ready(s)
  PROVE  /\ Ready(BackToSelect(s)) /\ BackToSelect(s).cur = s.cur
         /\ BackToSelect(s).open = s.open /\ BackToSelect(s).page = s.page
         /\ BackToSelect(s).sel = s.sel
<1>1. "SELECT" \in Modes
  BY DEF Modes
<1>2. Ready(BackToSelect(s))
  BY <1>1, ModesReady
<1> QED
  BY <1>2 DEF BackToSelect, Stop, SetMode, Ready, Window_, WindowStates

\* Cancelling an action leaves nothing pending.
LEMMA CancelReady ==
  ASSUME NEW s, Good(s)
  PROVE  Ready(Cancel(s)) /\ Cancel(s).cur = s.cur /\ Cancel(s).open = s.open
<1> DEFINE t == IF s.inside THEN MoveCancel(s) ELSE s
           u == IF s.mode = "GRIPS" THEN GripsCancel(t) ELSE t
<1>1. OnlyAGrip(t) /\ (s.mode # "GRIPS" => Ready(t)) /\ t.cur = s.cur /\ t.open = s.open
  <2>1. CASE s.inside
    BY <2>1, MoveCancelReady
  <2>2. CASE ~s.inside
    BY <2>2, GoodIsReady, GripsOnly
  <2> QED
    BY <2>1, <2>2
<1> HIDE DEF t
<1>2. Ready(u) /\ u.cur = s.cur /\ u.open = s.open
  BY <1>1, GripsCancelReady
<1> HIDE DEF u
<1>3. s.cur \in Pages
  BY DEF Good, Window_, WindowStates
<1>4. /\ Ready(DeletePlaceList(u, s.cur)) /\ DeletePlaceList(u, s.cur).cur = s.cur
      /\ DeletePlaceList(u, s.cur).open = s.open
  BY <1>2, <1>3, DeleteReady
<1>5. Cancel(s) = BackToSelect(DeletePlaceList(u, s.cur))
  BY DEF Cancel, t, u
<1> QED
  BY <1>4, <1>5, BackReady

\* So does o_redraw_cleanstates, whichever page's place list it frees, and it leaves
\* alone only what is not pending.
LEMMA CleanStatesReady ==
  ASSUME NEW s, Good(s), NEW q \in Pages, q = s.cur \/ Ready(s)
  PROVE  /\ Ready(CleanStates(s, q)) /\ CleanStates(s, q).cur = s.cur
         /\ CleanStates(s, q).open = s.open
<1>1. CASE ~s.inside \/ s.mode \in {"SELECT", "PAN", "MIRRORMODE", "ROTATEMODE", "SBOX"}
  <2>1. Ready(s)
    BY <1>1, GoodIsReady
  <2> QED
    BY <1>1, <2>1 DEF CleanStates
<1>2. CASE ~(~s.inside \/ s.mode \in {"SELECT", "PAN", "MIRRORMODE", "ROTATEMODE", "SBOX"})
  <2> DEFINE t == IF s.mode = "MOVEMODE" THEN MoveCancel(s) ELSE s
             u == IF s.mode = "GRIPS" THEN GripsCancel(t) ELSE t
  <2>4. Ready(u) /\ u.cur = s.cur /\ u.open = s.open
    <3>1. CASE s.mode = "MOVEMODE"
      <4>1. u = MoveCancel(s)
        BY <3>1
      <4> QED
        BY <3>1, <4>1, MoveCancelReady
    <3>2. CASE s.mode = "GRIPS"
      <4>1. u = GripsCancel(s)
        BY <3>2
      <4> QED
        BY <3>2, <4>1, GripsOnly, GripsCancelReady
    <3>3. CASE s.mode # "MOVEMODE" /\ s.mode # "GRIPS"
      <4>1. u = s
        BY <3>3
      <4> QED
        BY <3>3, <4>1, GoodIsReady
    <3> QED
      BY <3>1, <3>2, <3>3
  <2>5. CleanStates(s, q) = BackToSelect(DeletePlaceList(u, q))
    BY <1>2 DEF CleanStates
  <2> HIDE DEF u
  <2>6. /\ Ready(DeletePlaceList(u, q)) /\ DeletePlaceList(u, q).cur = s.cur
        /\ DeletePlaceList(u, q).open = s.open
    BY <2>4, DeleteReady
  <2> QED
    BY <2>5, <2>6, BackReady
<1> QED
  BY <1>1, <1>2

\* For the page in view.
LEMMA CleanReady ==
  ASSUME NEW s, Good(s)
  PROVE  Ready(Clean(s)) /\ Clean(s).cur = s.cur /\ Clean(s).open = s.open
<1>1. s.cur \in Pages
  BY DEF Good, Window_, WindowStates
<1> QED
  BY <1>1, CleanStatesReady DEF Clean

-----------------------------------------------------------------------------
(* Placing copies. *)

\* What is unknown does not become known by using objects or changing the mode.
LEMMA UnknownSame ==
  ASSUME NEW s, NEW t, NEW new, Unknown(s, new),
         t.live = s.live, t.stretch = s.stretch, t.grip = s.grip,
         t.place = s.place, t.sel = s.sel
  PROVE  Unknown(t, new)
  BY DEF Unknown

\* o_copy_start: the place list holds copies of the selection.
LEMMA CopyStartReady ==
  ASSUME NEW s, Ready(s), NEW new, Unknown(s, new)
  PROVE  Ready(CopyStart(s, new))
<1>1. s \in WindowStates /\ s.cur \in Pages
  BY DEF Ready, Window_, WindowStates
<1> DEFINE t == Uses(s, Selected(s))
<1>2. Ready(t)
  BY UsesReady, SelectedIsThere, ReadyIsGood
<1>3. Unknown(t, new)
  BY <1>1, UsesFields, UnknownSame
<1> HIDE DEF t
<1>4. Ready(SetPlaceList(t, s.cur, new))
  BY <1>1, <1>2, <1>3, SetPlaceReady
<1>5. "SELECT" \in Modes
  BY DEF Modes
<1>6. Ready(Start(SetPlaceList(t, s.cur, new)))
  BY <1>4, <1>5, ModesReady
<1> QED
  BY <1>6 DEF CopyStart, t

\* o_place_end: what is placed is on the page afterwards, and on no list.
LEMMA PlaceEndReady ==
  ASSUME NEW s, Ready(s), NEW continue \in BOOLEAN, NEW copy,
         continue => Unknown(s, copy)
  PROVE  Ready(PlaceEnd(s, continue, copy))
<1>1. s \in WindowStates /\ s.cur \in Pages /\ s.cur \in s.open
  BY DEF Ready, Window_, WindowStates
<1> DEFINE placed == IF continue THEN copy ELSE Placed(s)
           t == Uses(s, Placed(s))
           u == IF placed \cap OnPages(s) = {} THEN t ELSE Hurt(t, "twice")
<1>2. Ready(t) /\ t \in WindowStates /\ t.page = s.page /\ t.place = s.place /\ t.sel = s.sel
      /\ t.stretch = s.stretch /\ t.grip = s.grip /\ t.live = s.live /\ t.cur = s.cur
      /\ t.open = s.open /\ t.untidy = s.untidy
  BY <1>1, UsesReady, UsesFields, SelectedIsThere, ReadyIsGood
<1>3. placed \in SUBSET Objects
  BY <1>1 DEF Unknown, Placed, WindowStates
<1>4. ~s.untidy => placed \cap OnPages(s) = {}
  <2>1. CASE continue /\ ~s.untidy
    <3>1. \A p \in Pages : s.page[p] \cap copy = {}
      BY <2>1 DEF Ready, PagesApart, Unknown
    <3> QED
      BY <2>1, <3>1 DEF OnPages
  <2>2. CASE ~continue /\ ~s.untidy
    BY <1>1, <2>2, CopiesAreOff DEF Ready, Idle, Placed
  <2> QED
    BY <2>1, <2>2
<1>5. Ready(u) /\ u \in WindowStates /\ u.page = s.page /\ u.place = s.place /\ u.sel = s.sel
      /\ u.stretch = s.stretch /\ u.grip = s.grip /\ u.live = s.live /\ u.cur = s.cur
      /\ u.open = s.open /\ u.untidy = s.untidy
  <2>1. CASE placed \cap OnPages(s) = {}
    BY <1>2, <2>1
  <2>2. CASE placed \cap OnPages(s) # {}
    <3> HIDE DEF placed, t
    <3>1. u = Hurt(t, "twice") /\ s.untidy
      BY <1>4, <2>2
    <3>2. /\ Hurt(t, "twice") \in WindowStates
          /\ Hurt(t, "twice").page = t.page /\ Hurt(t, "twice").place = t.place
          /\ Hurt(t, "twice").sel = t.sel
          /\ Hurt(t, "twice").stretch = t.stretch /\ Hurt(t, "twice").grip = t.grip
          /\ Hurt(t, "twice").live = t.live /\ Hurt(t, "twice").cur = t.cur
          /\ Hurt(t, "twice").open = t.open /\ Hurt(t, "twice").untidy = t.untidy
      <4>1. CASE t.harm = "none"
        BY <1>2, <4>1 DEF Hurt, WindowStates, Harms
      <4>2. CASE t.harm # "none"
        BY <1>2, <4>2 DEF Hurt
      <4> QED
        BY <4>1, <4>2
    <3> QED
      BY <1>1, <1>2, <3>1, <3>2 DEF Ready, Window_
  <2> QED
    BY <2>1, <2>2
<1> HIDE DEF placed, t, u
<1> DEFINE a == Append(u, placed)
           v == [a EXCEPT !.place[s.cur] = IF continue THEN @ ELSE {}]
<1>6. /\ a \in WindowStates /\ a.cur = s.cur /\ a.open = s.open
      /\ a.page = [s.page EXCEPT ![s.cur] = @ \cup placed]
      /\ a.place = s.place /\ a.sel = s.sel /\ a.stretch = s.stretch /\ a.grip = s.grip
      /\ a.live = s.live \cup placed /\ a.untidy = s.untidy /\ a.harm = u.harm
  BY <1>1, <1>3, <1>5 DEF Append, AppendTo, WindowStates
<1> HIDE DEF a
<1>7. /\ v \in WindowStates /\ v.cur = s.cur /\ v.open = s.open
      /\ v.page = a.page /\ v.sel = s.sel /\ v.stretch = s.stretch /\ v.grip = s.grip
      /\ v.live = a.live /\ v.untidy = s.untidy /\ v.harm = u.harm
      /\ v.place[s.cur] = (IF continue THEN s.place[s.cur] ELSE {})
      /\ \A p \in Pages \ {s.cur} : v.place[p] = s.place[p]
  BY <1>1, <1>6 DEF WindowStates
<1> HIDE DEF v
<1>8. /\ s.page \in [Pages -> SUBSET Objects] /\ s.place \in [Pages -> SUBSET Objects]
      /\ v.page[s.cur] = s.page[s.cur] \cup placed
      /\ \A p \in Pages \ {s.cur} : v.page[p] = s.page[p]
  BY <1>1, <1>6, <1>7 DEF WindowStates
<1>9. ASSUME ~s.untidy PROVE PagesApart(v) /\ PlacesApart(v) /\ Idle(v)
  <2>1. PagesApart(s) /\ PlacesApart(s) /\ Idle(s)
    BY <1>9 DEF Ready
  <2>2. /\ \A p \in Pages : placed \cap s.page[p] = {}
        /\ \A p \in Pages : placed \cap v.place[p] = {}
    <3>1. CASE continue
      <4>1. placed = copy
        BY <3>1 DEF placed
      <4> QED
        BY <1>7, <2>1, <3>1, <4>1 DEF Unknown, PagesApart
    <3>2. CASE ~continue
      <4>1. placed = s.place[s.cur]
        BY <3>2 DEF placed, Placed
      <4> QED
        BY <1>1, <1>7, <2>1, <3>2, <4>1 DEF PlacesApart, Idle, CopiesOnly
    <3> QED
      BY <3>1, <3>2
  <2>3. PagesApart(v)
    BY <1>1, <1>6, <1>7, <1>8, <2>1, <2>2 DEF PagesApart
  <2>4. PlacesApart(v)
    BY <1>1, <1>6, <1>7, <2>1 DEF PlacesApart
  <2>5. Idle(v)
    BY <1>1, <1>7, <1>8, <2>1, <2>2 DEF Idle, CopiesOnly
  <2> QED
    BY <2>3, <2>4, <2>5
<1>10. Ready(v)
  BY <1>1, <1>5, <1>7, <1>9 DEF Ready, Window_
<1>11. PlaceEnd(s, continue, copy) = IF continue THEN v ELSE BackToSelect(v)
  BY DEF PlaceEnd, v, a, u, t, placed
<1> QED
  BY <1>10, <1>11, BackReady

\* o_place_rotate and o_place_mirror use the objects of the place list.
LEMMA PlaceTurnGood ==
  ASSUME NEW s, Good(s)
  PROVE  Good(PlaceTurn(s))
<1>1. Good(Uses(s, Placed(s)))
  BY UsesGood, SelectedIsThere
<1> QED
  BY <1>1 DEF PlaceTurn

\* o_complex_prepare_place and o_text_prepare_place.
LEMMA PreparePlaceReady ==
  ASSUME NEW s, Ready(s), NEW m \in Modes, NEW new, Unknown(s, new)
  PROVE  Ready(PreparePlace(s, m, new))
<1> DEFINE t == Start(SetMode(s, m))
<1>1. s \in WindowStates /\ s.cur \in Pages
  BY DEF Ready, Window_, WindowStates
<1>2. Ready(SetMode(s, m))
  BY ModesReady
<1>3. Ready(t)
  BY <1>2, ModesReady
<1>4. /\ t.live = s.live /\ t.stretch = s.stretch /\ t.grip = s.grip
      /\ t.place = s.place /\ t.sel = s.sel /\ t.cur = s.cur
  BY <1>1 DEF Start, SetMode, WindowStates
<1>5. Unknown(t, new)
  BY <1>4, UnknownSame
<1> HIDE DEF t
<1>6. Ready(SetPlaceList(t, s.cur, new))
  BY <1>1, <1>3, <1>5, SetPlaceReady
<1> QED
  BY <1>6, BackReady DEF PreparePlace, t

-----------------------------------------------------------------------------
(* What the smallest steps leave alone. *)

\* i_set_state changes the mode alone.
LEMMA SetModeFields ==
  ASSUME NEW s \in WindowStates, NEW m \in Modes
  PROVE  /\ SetMode(s, m) \in WindowStates /\ SetMode(s, m).mode = m
         /\ SetMode(s, m).inside = s.inside /\ SameLists(SetMode(s, m), s)
<1>1. SetMode(s, m) \in WindowStates
  BY DEF SetMode, WindowStates
<1>2. SetMode(s, m).mode = m /\ SetMode(s, m).inside = s.inside
  BY DEF SetMode, WindowStates
<1>3. SameLists(SetMode(s, m), s)
  BY DEF SetMode, SameLists, WindowStates
<1> QED
  BY <1>1, <1>2, <1>3

-----------------------------------------------------------------------------
(* Moving. *)

\* o_move_start: the objects of the place list are the selection from here on.
LEMMA MoveStartGood ==
  ASSUME NEW s, Ready(s), NEW nets \in Nets(s), NEW new \in News(s)
  PROVE  /\ Good(MoveStart(s, nets, new))
         /\ Good(SetMode(MoveStart(s, nets, new), "MOVEMODE"))
<1>1. s \in WindowStates /\ s.cur \in Pages /\ s.cur \in s.open
  BY DEF Ready, Window_, WindowStates
<1>2. CASE s.stretch # {} \/ Selected(s) = {}
  <2>1. MoveStart(s, nets, new) = s
    BY <1>2 DEF MoveStart
  <2> QED
    BY <2>1, ModesReady, ModesAre, ReadyIsGood
<1>3. CASE ~(s.stretch # {} \/ Selected(s) = {})
  <2> DEFINE t == SetMode(Uses(s, Selected(s)), "MOVEMODE")
             u == IF new = {} THEN t ELSE Append(t, new)
             x == [u EXCEPT !.stretch = nets \cup new]
             v == DeletePlaceList(x, s.cur)
             y == [v EXCEPT !.place[s.cur] = Selected(s)]
             z == [y EXCEPT !.inside = TRUE]
  <2>1. MoveStart(s, nets, new) = z
    BY <1>3 DEF MoveStart, Start
  <2>2. /\ Ready(t) /\ t \in WindowStates /\ t.mode = "MOVEMODE" /\ t.cur = s.cur
        /\ t.open = s.open /\ t.page = s.page /\ t.place = s.place /\ t.sel = s.sel
        /\ t.stretch = s.stretch /\ t.grip = s.grip /\ t.live = s.live
        /\ t.untidy = s.untidy
    <3>1. Ready(Uses(s, Selected(s)))
      BY UsesReady, SelectedIsThere, ReadyIsGood
    <3>2. Ready(t)
      BY <3>1, ModesReady, ModesAre
    <3> DEFINE r == Uses(s, Selected(s))
    <3>3. /\ r \in WindowStates /\ r.cur = s.cur
          /\ r.open = s.open /\ r.page = s.page /\ r.place = s.place /\ r.sel = s.sel
          /\ r.stretch = s.stretch /\ r.grip = s.grip /\ r.live = s.live
          /\ r.untidy = s.untidy
      BY <1>1, UsesFields
    <3>4. t = SetMode(r, "MOVEMODE")
      OBVIOUS
    <3>5. "MOVEMODE" \in Modes
      BY ModesAre
    <3> HIDE DEF r, t
    <3>6. t \in WindowStates /\ t.mode = "MOVEMODE" /\ SameLists(t, r)
      BY <3>3, <3>4, <3>5, SetModeFields
    <3> QED
      BY <3>2, <3>3, <3>6 DEF SameLists
  <2> HIDE DEF t
  <2>3. Unknown(s, new)
    BY <1>1, NewsAreUnknown
  <2>4. Unknown(t, new)
    BY <2>2, <2>3, UnknownSame
  <2>5. /\ Ready(u) /\ u \in WindowStates /\ u.mode = "MOVEMODE" /\ u.cur = s.cur
        /\ u.open = s.open /\ u.page[s.cur] = s.page[s.cur] \cup new
        /\ u.place = s.place /\ u.sel = s.sel /\ u.grip = s.grip
        /\ u.untidy = s.untidy
    <3>1. CASE new = {}
      BY <2>2, <3>1
    <3>2. CASE new # {}
      <4>1. Ready(Append(t, new))
        BY <2>2, <2>4, AppendReady
      <4> QED
        BY <1>1, <2>2, <3>2, <4>1 DEF Append, AppendTo, Ready, Window_, WindowStates
    <3> QED
      BY <3>1, <3>2
  <2> HIDE DEF u
  <2>6. nets \subseteq s.page[s.cur] /\ (nets \cup new) \in SUBSET Objects
    BY <1>1, <2>3 DEF Nets, Unknown, WindowStates
  <2>7. /\ x \in WindowStates /\ x.mode = "MOVEMODE" /\ x.cur = s.cur /\ x.open = s.open
        /\ x.page = u.page /\ x.place = s.place /\ x.sel = s.sel /\ x.grip = s.grip
        /\ x.stretch = nets \cup new /\ x.live = u.live /\ x.untidy = s.untidy
        /\ x.harm = u.harm
    BY <2>5, <2>6 DEF WindowStates
  <2> HIDE DEF x
  <2>8. /\ LeftOf(v, x, x.place[s.cur], s.cur)
        /\ (x.place[s.cur] \subseteq x.live /\ x.place[s.cur] \cap OnPages(x) = {})
              => v.harm = x.harm
    BY <1>1, <2>7, DeleteFields
  <2> HIDE DEF v
  <2>9. Selected(s) \in SUBSET Objects
    BY <1>1 DEF Selected, WindowStates
  <2>10. y \in WindowStates /\ y.mode = v.mode /\ y.cur = v.cur /\ y.open = v.open
         /\ y.page = v.page /\ y.place[s.cur] = Selected(s)
         /\ (\A p \in Pages \ {s.cur} : y.place[p] = v.place[p])
         /\ y.sel = v.sel /\ y.grip = v.grip
         /\ y.stretch = v.stretch /\ y.live = v.live /\ y.untidy = v.untidy /\ y.harm = v.harm
    BY <1>1, <2>8, <2>9 DEF WindowStates, LeftOf
  <2> HIDE DEF y
  <2>11. z \in WindowStates /\ z.inside = TRUE /\ z.mode = "MOVEMODE" /\ z.cur = s.cur
         /\ z.open = s.open /\ z.page = v.page /\ z.place = y.place
         /\ z.sel = s.sel /\ z.grip = s.grip /\ z.stretch = nets \cup new
         /\ z.live = v.live /\ z.untidy = s.untidy /\ z.harm = v.harm
    BY <2>7, <2>8, <2>10 DEF WindowStates, LeftOf
  <2> HIDE DEF z
  <2>12. ASSUME ~s.untidy PROVE Lists(z) /\ z.harm \in {"none", "assertion"}
    <3>1. /\ PagesApart(s) /\ PlacesApart(s) /\ Idle(s)
          /\ PagesApart(u) /\ PlacesApart(u) /\ Idle(u) /\ u.harm \in {"none", "assertion"}
      BY <2>5, <2>12 DEF Ready
    <3>2. u.place[s.cur] \cap OnPages(u) = {}
      BY <1>1, <2>5, <3>1, CopiesAreOff DEF Idle
    <3>3. x.place[s.cur] \subseteq x.live /\ x.place[s.cur] \cap OnPages(x) = {}
      BY <1>1, <2>5, <2>7, <3>1, <3>2 DEF PlacesApart, OnPages
    <3>4. z.harm \in {"none", "assertion"}
      BY <2>7, <2>8, <2>11, <3>1, <3>3
    <3>5. \A p \in Pages : z.page[p] = u.page[p]
      <4>1. \A p \in Pages : z.page[p] = u.page[p] \ u.place[s.cur]
        BY <2>5, <2>7, <2>8, <2>11 DEF LeftOf
      <4>2. \A p \in Pages : u.place[s.cur] \cap u.page[p] = {}
        BY <1>1, <3>1 DEF Idle, CopiesOnly
      <4> QED
        BY <4>1, <4>2
    <3>6. \A p \in Pages : u.page[p] \subseteq z.live
      BY <1>1, <2>5, <2>7, <2>8, <2>11, <3>1 DEF LeftOf, Idle, CopiesOnly, PagesApart
    <3>7. PagesApart(z)
      BY <2>5, <2>11, <3>1, <3>5, <3>6 DEF PagesApart
    <3>8. \A p \in Pages \ {s.cur} : z.place[p] = u.place[p]
      BY <2>5, <2>7, <2>8, <2>10, <2>11 DEF LeftOf
    <3>9. z.place[s.cur] = s.sel[s.cur] /\ s.sel[s.cur] \subseteq u.page[s.cur]
      BY <1>1, <2>5, <2>10, <2>11, <3>1 DEF Selected, PagesApart
    <3>10. PlacesApart(z)
      <4>1. \A p \in Pages : z.place[p] \subseteq z.live
        BY <1>1, <2>5, <2>7, <2>8, <2>11, <3>1, <3>6, <3>8, <3>9 DEF PlacesApart, LeftOf
      <4>2. \A p, q \in Pages : p # q => z.place[p] \cap z.place[q] = {}
        BY <1>1, <3>1, <3>8, <3>9 DEF PlacesApart, Idle, CopiesOnly
      <4> QED
        BY <4>1, <4>2 DEF PlacesApart
    <3>11. CopiesOrMove(z)
      <4>1. Moving(z)
        BY <2>11 DEF Moving
      <4>2. \A p \in Pages \ {s.cur} : CopiesOnly(z, p)
        BY <3>1, <3>5, <3>8 DEF Idle, CopiesOnly
      <4>3. z.place[z.cur] = z.sel[z.cur]
        BY <2>11, <3>9
      <4> QED
        BY <2>11, <4>1, <4>2, <4>3 DEF CopiesOrMove
    <3>12. StretchIsMove(z)
      BY <1>1, <2>5, <2>6, <2>11, <3>5, <3>9 DEF StretchIsMove, Moving
    <3>13. GripIsHeld(z)
      BY <2>11, <3>1 DEF GripIsHeld, Idle
    <3> QED
      BY <3>4, <3>7, <3>10, <3>11, <3>12, <3>13 DEF Lists
  <2>13. Good(z)
    BY <1>1, <2>11, <2>12 DEF Good, Window_
  <2>14. SetMode(z, "MOVEMODE") \in WindowStates
    BY <2>11 DEF SetMode, WindowStates
  <2>15. /\ SameLists(SetMode(z, "MOVEMODE"), z)
         /\ SetMode(z, "MOVEMODE").mode = z.mode /\ SetMode(z, "MOVEMODE").inside = z.inside
    BY <2>11 DEF SetMode, SameLists, WindowStates
  <2>16. Good(SetMode(z, "MOVEMODE"))
    BY <2>13, <2>14, <2>15, GoodSame
  <2> QED
    BY <2>1, <2>13, <2>16
<1> QED
  BY <1>2, <1>3

\* o_move_end: nothing is pending any more; the nets that came to nothing are gone.
LEMMA MoveEndReady ==
  ASSUME NEW s, Good(s), s.mode = "MOVEMODE", NEW gone, gone \subseteq s.stretch
  PROVE  Ready(MoveEnd(s, gone))
<1>1. s \in WindowStates /\ s.cur \in Pages /\ s.cur \in s.open
  BY DEF Good, Window_, WindowStates
<1> DEFINE t == Uses(s, Selected(s) \cup s.stretch)
           v == [t EXCEPT !.page[s.cur] = @ \ gone, !.live = @ \ gone,
                          !.sel[s.cur] = @ \ gone,
                          !.place[s.cur] = {}, !.stretch = {}]
<1>2. /\ t \in WindowStates /\ t.cur = s.cur
      /\ t.open = s.open /\ t.page = s.page /\ t.place = s.place /\ t.sel = s.sel
      /\ t.grip = s.grip /\ t.live = s.live /\ t.untidy = s.untidy
      /\ ~s.untidy => t.harm = s.harm
  <2>1. ~s.untidy => Selected(s) \cup s.stretch \subseteq s.live
    BY SelectedIsThere
  <2> QED
    BY <1>1, <2>1, UsesFields
<1> HIDE DEF t
<1>3. gone \in SUBSET Objects
  BY <1>1 DEF WindowStates
<1>4. /\ v \in WindowStates /\ v.cur = s.cur /\ v.open = s.open
      /\ v.page[s.cur] = s.page[s.cur] \ gone
      /\ \A p \in Pages \ {s.cur} : v.page[p] = s.page[p]
      /\ v.sel[s.cur] = s.sel[s.cur] \ gone
      /\ \A p \in Pages \ {s.cur} : v.sel[p] = s.sel[p]
      /\ v.place[s.cur] = {}
      /\ \A p \in Pages \ {s.cur} : v.place[p] = s.place[p]
      /\ v.stretch = {} /\ v.grip = s.grip /\ v.live = s.live \ gone
      /\ v.untidy = s.untidy /\ v.harm = t.harm
  <2>1. v \in WindowStates
    BY <1>1, <1>2, <1>3 DEF WindowStates
  <2> QED
    BY <1>1, <1>2, <2>1 DEF WindowStates
<1> HIDE DEF v
<1>5. ASSUME ~s.untidy PROVE PagesApart(v) /\ PlacesApart(v) /\ Idle(v)
  <2>1. /\ PagesApart(s) /\ PlacesApart(s) /\ s.grip = NoObject
        /\ \A p \in Pages \ {s.cur} : CopiesOnly(s, p)
        /\ gone \subseteq s.page[s.cur]
    BY <1>5 DEF Good, Lists, CopiesOrMove, StretchIsMove, GripIsHeld
  <2>2. PagesApart(v)
    BY <1>1, <1>4, <2>1 DEF PagesApart
  <2>3. PlacesApart(v)
    BY <1>1, <1>4, <2>1 DEF PlacesApart, CopiesOnly
  <2>4. Idle(v)
    BY <1>1, <1>4, <2>1 DEF Idle, CopiesOnly
  <2> QED
    BY <2>2, <2>3, <2>4
<1>6. Ready(v)
  BY <1>1, <1>2, <1>4, <1>5 DEF Ready, Window_, Good
<1> QED
  BY <1>6, BackReady DEF MoveEnd, v, t

-----------------------------------------------------------------------------
(* Deleting. *)

\* Memory that nothing refers to may be freed.
LEMMA FreeReady ==
  ASSUME NEW s, Ready(s), NEW gone,
         ~s.untidy => \A p \in Pages : gone \cap s.page[p] = {} /\ gone \cap s.place[p] = {}
  PROVE  Ready([s EXCEPT !.live = @ \ gone])
<1> DEFINE t == [s EXCEPT !.live = @ \ gone]
<1>1. s \in WindowStates
  BY DEF Ready, Window_
<1>2. t \in WindowStates
  BY <1>1 DEF WindowStates
<1>3. /\ t.cur = s.cur /\ t.open = s.open /\ t.page = s.page /\ t.place = s.place
      /\ t.sel = s.sel /\ t.stretch = s.stretch /\ t.grip = s.grip
      /\ t.live = s.live \ gone /\ t.untidy = s.untidy /\ t.harm = s.harm
  BY <1>1 DEF WindowStates
<1> HIDE DEF t
<1>4. ASSUME ~s.untidy PROVE PagesApart(t) /\ PlacesApart(t) /\ Idle(t)
  <2>1. PagesApart(s) /\ PlacesApart(s) /\ Idle(s)
    BY <1>4 DEF Ready
  <2>2. PagesApart(t)
    BY <1>3, <1>4, <2>1 DEF PagesApart
  <2>3. PlacesApart(t)
    BY <1>3, <1>4, <2>1 DEF PlacesApart
  <2>4. Idle(t)
    BY <1>3, <2>1 DEF Idle, CopiesOnly
  <2> QED
    BY <2>2, <2>3, <2>4
<1>5. Ready(t)
  BY <1>2, <1>3, <1>4 DEF Ready, Window_
<1> QED
  BY <1>5 DEF t

\* o_delete_selected: selected objects leave the page, then the selection, then memory.
LEMMA DeleteSelectedReady ==
  ASSUME NEW s, Ready(s), NEW gone, gone \subseteq Selected(s)
  PROVE  Ready(DeleteSelected(s, gone))
<1>1. s \in WindowStates /\ s.cur \in Pages /\ s.cur \in s.open
  BY DEF Ready, Window_, WindowStates
<1> DEFINE x == Uses(s, Selected(s))
           t == [x EXCEPT !.page[s.cur] = @ \ gone, !.sel[s.cur] = @ \ gone]
           u == IF s.inside /\ s.mode = "MOVEMODE"
                THEN SetMode(MoveCancel(t), "SELECT") ELSE t
<1>2. /\ Ready(x) /\ x \in WindowStates /\ x.mode = s.mode /\ x.inside = s.inside
      /\ x.cur = s.cur /\ x.open = s.open /\ x.page = s.page /\ x.place = s.place
      /\ x.sel = s.sel /\ x.stretch = s.stretch /\ x.grip = s.grip /\ x.live = s.live
      /\ x.untidy = s.untidy
  BY <1>1, UsesReady, UsesFields, SelectedIsThere, ReadyIsGood
<1> HIDE DEF x
<1>3. /\ t \in WindowStates /\ t.mode = s.mode /\ t.inside = s.inside
      /\ t.cur = s.cur /\ t.open = s.open
      /\ t.page[s.cur] = s.page[s.cur] \ gone
      /\ \A p \in Pages \ {s.cur} : t.page[p] = s.page[p]
      /\ t.sel[s.cur] = s.sel[s.cur] \ gone
      /\ \A p \in Pages \ {s.cur} : t.sel[p] = s.sel[p]
      /\ t.place = s.place /\ t.stretch = s.stretch /\ t.grip = s.grip
      /\ t.live = s.live /\ t.untidy = s.untidy /\ t.harm = x.harm
  BY <1>1, <1>2 DEF WindowStates
<1> HIDE DEF t
<1>4. Ready(t)
  <2>1. ASSUME ~s.untidy PROVE PagesApart(t) /\ PlacesApart(t) /\ Idle(t)
    <3>1. PagesApart(s) /\ PlacesApart(s) /\ Idle(s)
      BY <2>1 DEF Ready
    <3>2. PagesApart(t)
      BY <1>1, <1>3, <3>1 DEF PagesApart
    <3>3. Idle(t)
      BY <1>1, <1>3, <3>1 DEF Idle, CopiesOnly
    <3> QED
      BY <1>3, <3>1, <3>2, <3>3 DEF PlacesApart
  <2> QED
    BY <1>1, <1>2, <1>3, <2>1 DEF Ready, Window_
<1>5. ~s.untidy => \A p \in Pages : gone \cap t.page[p] = {} /\ gone \cap t.place[p] = {}
  BY <1>1, <1>3 DEF Ready, PagesApart, Idle, CopiesOnly, Selected
<1>6. /\ Ready(u) /\ u.untidy = s.untidy
      /\ ~s.untidy => \A p \in Pages : gone \cap u.page[p] = {} /\ gone \cap u.place[p] = {}
  <2>1. CASE ~(s.inside /\ s.mode = "MOVEMODE")
    BY <1>3, <1>4, <1>5, <2>1
  <2>2. CASE s.inside /\ s.mode = "MOVEMODE"
    <3> DEFINE c == MoveCancel(t)
    <3>1. Ready(c)
      BY <1>3, <1>4, <2>2, ReadyIsGood, MoveCancelReady
    <3>2. c \in WindowStates /\ c.page = t.page /\ c.untidy = s.untidy
          /\ c.place = [t.place EXCEPT ![t.cur] = {}]
      <4>1. Good(t)
        BY <1>4, ReadyIsGood
      <4>2. /\ c \in WindowStates /\ c.page = t.page /\ c.untidy = t.untidy
            /\ c.place = [t.place EXCEPT ![t.cur] = {}]
        BY <4>1, MoveCancelFields
      <4> QED
        BY <1>3, <4>2
    <3> HIDE DEF c
    <3>3. \A p \in Pages : c.place[p] \subseteq t.place[p]
      BY <1>1, <1>3, <3>2 DEF WindowStates
    <3>4. u = SetMode(c, "SELECT")
      BY <2>2 DEF c
    <3>5. Ready(u)
      BY <3>1, <3>4, ModesReady, ModesAre
    <3>6. u.page = c.page /\ u.place = c.place /\ u.untidy = c.untidy
      BY <3>2, <3>4 DEF SetMode, WindowStates
    <3> QED
      BY <1>5, <3>2, <3>3, <3>5, <3>6
  <2> QED
    BY <2>1, <2>2
<1> HIDE DEF u
<1>7. Ready([u EXCEPT !.live = @ \ gone])
  BY <1>6, FreeReady
<1> QED
  BY <1>1, <1>7 DEF DeleteSelected, u, t, x

\* Unless the user cancels, and then the state is what it was.
LEMMA DeleteStatesReady ==
  ASSUME NEW s, Ready(s), NEW t \in DeleteStates(s)
  PROVE  Ready(t)
<1>1. CASE t = s
  BY <1>1
<1>2. CASE \E gone \in SUBSET Selected(s) : t \in SaveStates(DeleteSelected(s, gone))
  BY <1>2, DeleteSelectedReady, SaveReady
<1> QED
  BY <1>1, <1>2 DEF DeleteStates

-----------------------------------------------------------------------------
(* Commands that ignore what is pending, and what they do. *)

\* A command that ignores the action in progress leaves the promise or finds nothing pending.
LEMMA UntidyReady ==
  ASSUME NEW s, Good(s)
  PROVE  /\ Ready(Untidy(s)) /\ Untidy(s) \in WindowStates
         /\ Untidy(s).mode = s.mode /\ Untidy(s).inside = s.inside
         /\ Untidy(s).cur = s.cur /\ Untidy(s).open = s.open
         /\ Untidy(s).page = s.page /\ Untidy(s).place = s.place
         /\ Untidy(s).sel = s.sel /\ Untidy(s).stretch = s.stretch
         /\ Untidy(s).grip = s.grip /\ Untidy(s).live = s.live
         /\ Untidy(s).harm = s.harm
<1>1. s \in WindowStates /\ s.cur \in Pages /\ s.cur \in s.open
  BY DEF Good, Window_, WindowStates
<1> DEFINE t == Untidy(s)
<1>2. Pending(s) \in BOOLEAN
  BY DEF Pending
<1>3. t \in WindowStates
  BY <1>1, <1>2 DEF Untidy, WindowStates
<1>4. /\ t.mode = s.mode /\ t.inside = s.inside
      /\ t.cur = s.cur /\ t.open = s.open /\ t.page = s.page /\ t.place = s.place
      /\ t.sel = s.sel /\ t.stretch = s.stretch /\ t.grip = s.grip /\ t.live = s.live
      /\ t.harm = s.harm
  BY <1>1 DEF Untidy, WindowStates
<1>5. t.untidy <=> (s.untidy \/ Pending(s))
  BY <1>1 DEF Untidy, WindowStates
<1> HIDE DEF t
<1>6. ASSUME ~t.untidy
      PROVE  PagesApart(t) /\ PlacesApart(t) /\ Idle(t) /\ t.harm \in {"none", "assertion"}
  <2>1. Lists(s) /\ s.harm \in {"none", "assertion"}
    BY <1>5, <1>6 DEF Good
  <2>2. s.place[s.cur] = {} /\ s.stretch = {} /\ s.grip = NoObject
    BY <1>5, <1>6 DEF Pending, Placed
  <2>3. \A p \in Pages : CopiesOnly(s, p)
    BY <2>1, <2>2 DEF Lists, CopiesOrMove, CopiesOnly
  <2>4. Idle(t)
    BY <1>4, <2>2, <2>3 DEF Idle, CopiesOnly
  <2>5. PagesApart(t)
    BY <1>4, <2>1 DEF Lists, PagesApart
  <2>6. PlacesApart(t)
    BY <1>4, <2>1 DEF Lists, PlacesApart
  <2> QED
    BY <1>4, <2>1, <2>4, <2>5, <2>6
<1>7. Ready(t)
  BY <1>1, <1>3, <1>4, <1>6 DEF Ready, Window_
<1> QED
  BY <1>3, <1>4, <1>7 DEF t

\* p_path and an assertion that fails belong to no list.
LEMMA PathReady ==
  ASSUME NEW s, Ready(s), NEW b \in BOOLEAN
  PROVE  Ready([s EXCEPT !.path = b]) /\ Ready(Hurt(s, "assertion"))
<1>1. s \in WindowStates
  BY DEF Ready, Window_
<1> DEFINE t == [s EXCEPT !.path = b]
           u == [s EXCEPT !.harm = "assertion"]
<1>2. t \in WindowStates
  BY <1>1 DEF WindowStates
<1>3. SameLists(t, s)
  BY <1>1 DEF SameLists, WindowStates
<1>4. u \in WindowStates
  BY <1>1 DEF WindowStates, Harms
<1>5. /\ u.cur = s.cur /\ u.open = s.open /\ u.page = s.page /\ u.place = s.place
      /\ u.sel = s.sel /\ u.stretch = s.stretch /\ u.grip = s.grip /\ u.live = s.live
      /\ u.untidy = s.untidy /\ u.harm = "assertion"
  BY <1>1 DEF WindowStates
<1> HIDE DEF t, u
<1>6. Ready(t)
  BY <1>2, <1>3, ReadySame
<1>7. ASSUME ~s.untidy PROVE PagesApart(u) /\ PlacesApart(u) /\ Idle(u)
  <2>1. PagesApart(s) /\ PlacesApart(s) /\ Idle(s)
    BY <1>7 DEF Ready
  <2> QED
    BY <1>5, <2>1 DEF PagesApart, PlacesApart, Idle, CopiesOnly
<1>8. Ready(u)
  BY <1>4, <1>5, <1>7 DEF Ready, Window_
<1> QED
  BY <1>6, <1>8 DEF Hurt, t, u

\* s_page_delete and s_page_delete_objects: a page whose selection is gone may be freed.
LEMMA PageFreedReady ==
  ASSUME NEW s, Ready(s)
  PROVE  LET t == [s EXCEPT !.live = @ \ s.page[s.cur], !.page[s.cur] = {},
                            !.sel[s.cur] = {}]
         IN Ready(t) /\ t.cur = s.cur /\ t.open = s.open /\ t.page[s.cur] = {}
<1>1. s \in WindowStates /\ s.cur \in Pages /\ s.cur \in s.open
  BY DEF Ready, Window_, WindowStates
<1> DEFINE t == [s EXCEPT !.live = @ \ s.page[s.cur], !.page[s.cur] = {}, !.sel[s.cur] = {}]
<1>2. t \in WindowStates
  BY <1>1 DEF WindowStates
<1>3. /\ t.cur = s.cur /\ t.open = s.open /\ t.place = s.place
      /\ t.page[s.cur] = {} /\ \A p \in Pages \ {s.cur} : t.page[p] = s.page[p]
      /\ t.sel[s.cur] = {} /\ \A p \in Pages \ {s.cur} : t.sel[p] = s.sel[p]
      /\ t.stretch = s.stretch /\ t.grip = s.grip /\ t.live = s.live \ s.page[s.cur]
      /\ t.untidy = s.untidy /\ t.harm = s.harm
  BY <1>1 DEF WindowStates
<1> HIDE DEF t
<1>4. ASSUME ~s.untidy PROVE PagesApart(t) /\ PlacesApart(t) /\ Idle(t)
  <2>1. PagesApart(s) /\ PlacesApart(s) /\ Idle(s)
    BY <1>4 DEF Ready
  <2>2. PagesApart(t)
    BY <1>1, <1>3, <2>1 DEF PagesApart
  <2>3. PlacesApart(t)
    BY <1>1, <1>3, <2>1 DEF PlacesApart, Idle, CopiesOnly
  <2>4. Idle(t)
    BY <1>1, <1>3, <2>1 DEF Idle, CopiesOnly
  <2> QED
    BY <2>2, <2>3, <2>4
<1>5. Ready(t)
  BY <1>1, <1>2, <1>3, <1>4 DEF Ready, Window_
<1> QED
  BY <1>3, <1>5 DEF t

\* o_undo_callback: the page of a step is emptied, then read from the undo node.
LEMMA RestoredReady ==
  ASSUME NEW s, Ready(s), NEW new, new \subseteq Fresh(Emptied(s))
  PROVE  Ready(Restored(s, new))
<1> DEFINE a == UnselectAll(s)
           b == [a EXCEPT !.live = @ \ a.page[s.cur], !.page[s.cur] = {}]
<1>1. s.cur \in Pages /\ s.cur \in s.open
  BY DEF Ready, Window_, WindowStates
<1>2. Ready(a) /\ a \in WindowStates /\ a.cur = s.cur /\ (\A p \in {s.cur} : a.sel[p] = {})
  <2>1. Ready(a) /\ a.cur = s.cur
    BY SelectReady
  <2>2. a.sel[s.cur] = {}
    BY <1>1, UsesFields DEF UnselectAll, Ready, Window_, WindowStates
  <2> QED
    BY <2>1, <2>2 DEF Ready, Window_
<1> HIDE DEF a
<1>3. Ready(b) /\ b.cur = s.cur
  <2>1. b \in WindowStates
    BY <1>1, <1>2 DEF WindowStates
  <2>2. /\ b.cur = a.cur /\ b.open = a.open /\ b.place = a.place
        /\ b.page[s.cur] = {} /\ \A p \in Pages \ {s.cur} : b.page[p] = a.page[p]
        /\ b.sel = a.sel
        /\ b.stretch = a.stretch /\ b.grip = a.grip /\ b.live = a.live \ a.page[s.cur]
        /\ b.untidy = a.untidy /\ b.harm = a.harm
    BY <1>1, <1>2 DEF WindowStates
  <2> HIDE DEF b
  <2>3. ASSUME ~a.untidy PROVE PagesApart(b) /\ PlacesApart(b) /\ Idle(b)
    <3>1. PagesApart(a) /\ PlacesApart(a) /\ Idle(a)
      BY <1>2, <2>3 DEF Ready
    <3>2. PagesApart(b)
      BY <1>1, <1>2, <2>2, <3>1 DEF PagesApart
    <3>3. PlacesApart(b)
      BY <1>1, <2>2, <3>1 DEF PlacesApart, Idle, CopiesOnly
    <3>4. Idle(b)
      BY <1>1, <2>2, <3>1 DEF Idle, CopiesOnly
    <3> QED
      BY <3>2, <3>3, <3>4
  <2> QED
    BY <1>1, <1>2, <2>1, <2>2, <2>3 DEF Ready, Window_
<1>4. Emptied(s) = DeletePlaceList(b, s.cur)
  BY DEF Emptied, b, a
<1> HIDE DEF b
<1>5. Ready(Emptied(s)) /\ Emptied(s) \in WindowStates
  BY <1>1, <1>3, <1>4, DeleteReady DEF Ready, Window_
<1>6. Unknown(Emptied(s), new)
  BY <1>5, FreshIsUnknown
<1> QED
  BY <1>5, <1>6, AppendReady DEF Restored

\* o_undo_callback on a node with or without the page's objects.
LEMMA RestoreReady ==
  ASSUME NEW s, Ready(s), Restore(s)
  PROVE  Ready(w')
<1>1. CASE w' = UnselectAll(s)
  BY <1>1, SelectReady
<1>2. CASE \E new \in SUBSET Fresh(Emptied(s)) : w' = Restored(s, new)
  BY <1>2, RestoredReady
<1> QED
  BY <1>1, <1>2 DEF Restore

-----------------------------------------------------------------------------
(* Handlers whose outcome depends on the data. *)

\* o_rotate_world_update and o_mirror_world_update turn what is selected in place.
LEMMA TurnSelectionReady ==
  ASSUME NEW s, Ready(s), TurnSelection(s)
  PROVE  Ready(w')
<1> DEFINE t == Uses(s, Selected(s))
           m == SetMode(t, "SELECT")
<1>1. /\ \/ Selected(s) = {} \/ w' \in SaveStates(t) \/ w' \in SaveStates(m)
         \/ w' \in {t, m}
      /\ Selected(s) = {} => w' = BackToSelect(s)
  BY DEF TurnSelection
<1>2. Ready(t)
  BY UsesReady, SelectedIsThere, ReadyIsGood
<1>3. Ready(m)
  <2>1. "SELECT" \in Modes
    BY ModesAre
  <2> HIDE DEF t
  <2> QED
    BY <1>2, <2>1, ModesReady
<1> HIDE DEF t, m
<1>4. CASE Selected(s) = {}
  BY <1>1, <1>4, BackReady
<1>5. CASE w' \in SaveStates(t)
  BY <1>2, <1>5, SaveReady
<1>6. CASE w' \in SaveStates(m)
  BY <1>3, <1>6, SaveReady
<1>7. CASE w' \in {t, m}
  BY <1>2, <1>3, <1>7
<1> QED
  BY <1>1, <1>4, <1>5, <1>6, <1>7

\* o_select_start holds a grip of an object that is selected, in the mode of grips.
LEMMA SelectStartGood ==
  ASSUME NEW s, Ready(s), NEW grip \in {NoObject} \cup Selected(s)
  PROVE  Good(SelectStart(s, grip))
<1>1. s \in WindowStates /\ s.cur \in Pages /\ s.cur \in s.open
  BY DEF Ready, Window_, WindowStates
<1>2. CASE grip = NoObject
  <2>1. Ready(Start(s))
    BY ModesReady, ModesAre
  <2>2. Good(Start(s))
    BY <2>1, ReadyIsGood
  <2> QED
    BY <1>2, <2>2 DEF SelectStart
<1>3. CASE grip # NoObject
  <2> DEFINE a == [s EXCEPT !.grip = grip]
             b == SetMode(a, "GRIPS")
             t == Start(b)
  <2>1. a \in WindowStates
    BY <1>1 DEF WindowStates, Selected
  <2>2. /\ a.cur = s.cur /\ a.open = s.open /\ a.page = s.page /\ a.place = s.place
        /\ a.sel = s.sel /\ a.stretch = s.stretch /\ a.grip = grip /\ a.live = s.live
        /\ a.untidy = s.untidy /\ a.harm = s.harm
    BY <1>1 DEF WindowStates
  <2> HIDE DEF a
  <2>3. "GRIPS" \in Modes
    BY ModesAre
  <2>4. b \in WindowStates /\ b.mode = "GRIPS" /\ SameLists(b, a)
    BY <2>1, <2>3, SetModeFields
  <2> HIDE DEF b
  <2>5. t \in WindowStates
    BY <2>4 DEF Start, WindowStates
  <2>6. t.mode = "GRIPS" /\ t.inside = TRUE /\ SameLists(t, b)
    BY <2>4 DEF Start, SameLists, WindowStates
  <2> HIDE DEF t
  <2>7. /\ t.cur = s.cur /\ t.open = s.open /\ t.page = s.page /\ t.place = s.place
        /\ t.sel = s.sel /\ t.stretch = s.stretch /\ t.grip = grip /\ t.live = s.live
        /\ t.untidy = s.untidy /\ t.harm = s.harm
    BY <2>2, <2>4, <2>6 DEF SameLists
  <2>8. ASSUME ~s.untidy PROVE Lists(t)
    <3>1. PagesApart(s) /\ PlacesApart(s) /\ Idle(s)
      BY <2>8 DEF Ready
    <3>2. PagesApart(t) /\ PlacesApart(t)
      BY <2>7, <3>1 DEF PagesApart, PlacesApart
    <3>3. CopiesOrMove(t) /\ StretchIsMove(t)
      BY <2>7, <3>1 DEF CopiesOrMove, CopiesOnly, StretchIsMove, Idle
    <3>4. grip \in s.page[s.cur]
      BY <1>1, <1>3, <3>1 DEF PagesApart, Selected
    <3>5. GripIsHeld(t)
      BY <2>6, <2>7, <3>4 DEF GripIsHeld
    <3> QED
      BY <3>2, <3>3, <3>5 DEF Lists
  <2>9. Good(t)
    BY <1>1, <2>5, <2>7, <2>8 DEF Good, Ready, Window_
  <2> QED
    BY <1>3, <2>9 DEF SelectStart, t, b, a
<1> QED
  BY <1>2, <1>3

\* o_move_start, whatever it stretches.
LEMMA StartMoveGood ==
  ASSUME NEW s, Ready(s), StartMove(s)
  PROVE  Good(w')
BY MoveStartGood DEF StartMove

\* o_component_replace: the new component takes the place of the old one.
LEMMA ReplacedReady ==
  ASSUME NEW s, Ready(s), NEW old \in Selected(s), NEW new \in Objects, Unknown(s, {new})
  PROVE  Ready([s EXCEPT !.page[s.cur] = (@ \ {old}) \cup {new},
                         !.sel[s.cur] = (@ \ {old}) \cup {new},
                         !.live = (@ \ {old}) \cup {new}])
<1>1. s \in WindowStates /\ s.cur \in Pages /\ s.cur \in s.open
  BY DEF Ready, Window_, WindowStates
<1> DEFINE t == [s EXCEPT !.page[s.cur] = (@ \ {old}) \cup {new},
                          !.sel[s.cur] = (@ \ {old}) \cup {new},
                          !.live = (@ \ {old}) \cup {new}]
<1>2. t \in WindowStates
  BY <1>1 DEF WindowStates
<1>3. /\ t.cur = s.cur /\ t.open = s.open /\ t.place = s.place
      /\ t.page[s.cur] = (s.page[s.cur] \ {old}) \cup {new}
      /\ \A p \in Pages \ {s.cur} : t.page[p] = s.page[p]
      /\ t.sel[s.cur] = (s.sel[s.cur] \ {old}) \cup {new}
      /\ \A p \in Pages \ {s.cur} : t.sel[p] = s.sel[p]
      /\ t.stretch = s.stretch /\ t.grip = s.grip /\ t.live = (s.live \ {old}) \cup {new}
      /\ t.untidy = s.untidy /\ t.harm = s.harm
  BY <1>1 DEF WindowStates
<1> HIDE DEF t
<1>4. ASSUME ~s.untidy PROVE PagesApart(t) /\ PlacesApart(t) /\ Idle(t)
  <2>1. PagesApart(s) /\ PlacesApart(s) /\ Idle(s)
    BY <1>4 DEF Ready
  <2>2. /\ old \in s.page[s.cur] /\ new \notin s.live
        /\ \A p \in Pages : new \notin s.place[p] /\ new \notin s.page[p]
    BY <1>1, <2>1 DEF Selected, PagesApart, Unknown
  <2>3. \A p \in Pages : t.page[p] \subseteq t.live
    BY <1>1, <1>3, <2>1, <2>2 DEF PagesApart
  <2>4. PagesApart(t)
    BY <1>1, <1>3, <2>1, <2>2, <2>3 DEF PagesApart
  <2>5. PlacesApart(t)
    BY <1>1, <1>3, <2>1, <2>2 DEF PlacesApart, Idle, CopiesOnly
  <2>6. Idle(t)
    BY <1>1, <1>3, <2>1, <2>2 DEF Idle, CopiesOnly
  <2> QED
    BY <2>4, <2>5, <2>6
<1>5. Ready(t)
  BY <1>1, <1>2, <1>3, <1>4 DEF Ready, Window_
<1> QED
  BY <1>5 DEF t

-----------------------------------------------------------------------------
(* Opening, closing and changing pages. *)

\* x_window_set_current_page, once no action is in progress.
LEMMA LookReady ==
  ASSUME NEW s, Ready(s), NEW p \in s.open
  PROVE  Ready([s EXCEPT !.cur = p])
<1>1. s \in WindowStates /\ p \in Pages
  BY DEF Ready, Window_, WindowStates
<1> DEFINE t == [s EXCEPT !.cur = p]
<1>2. t \in WindowStates
  BY <1>1 DEF WindowStates
<1>3. /\ t.cur = p /\ t.open = s.open /\ t.page = s.page /\ t.place = s.place
      /\ t.sel = s.sel /\ t.stretch = s.stretch /\ t.grip = s.grip /\ t.live = s.live
      /\ t.untidy = s.untidy /\ t.harm = s.harm
  BY <1>1 DEF WindowStates
<1> HIDE DEF t
<1>4. ASSUME ~s.untidy PROVE PagesApart(t) /\ PlacesApart(t) /\ Idle(t)
  <2>1. PagesApart(s) /\ PlacesApart(s) /\ Idle(s)
    BY <1>4 DEF Ready
  <2> QED
    BY <1>3, <2>1 DEF PagesApart, PlacesApart, Idle, CopiesOnly
<1>5. Ready(t)
  BY <1>2, <1>3, <1>4 DEF Ready, Window_
<1> QED
  BY <1>5 DEF t

\* s_page_new: a page without objects.
LEMMA OpenReady ==
  ASSUME NEW s, Ready(s), NEW p \in Pages
  PROVE  Ready([s EXCEPT !.open = @ \cup {p}])
<1> DEFINE t == [s EXCEPT !.open = @ \cup {p}]
<1>1. s \in WindowStates
  BY DEF Ready, Window_
<1>2. t \in WindowStates
  BY <1>1 DEF WindowStates
<1>3. /\ t.cur = s.cur /\ t.open = s.open \cup {p} /\ t.page = s.page /\ t.place = s.place
      /\ t.sel = s.sel /\ t.stretch = s.stretch /\ t.grip = s.grip /\ t.live = s.live
      /\ t.untidy = s.untidy /\ t.harm = s.harm
  BY <1>1 DEF WindowStates
<1> HIDE DEF t
<1>4. ASSUME ~s.untidy PROVE PagesApart(t) /\ PlacesApart(t) /\ Idle(t)
  <2>1. PagesApart(s) /\ PlacesApart(s) /\ Idle(s)
    BY <1>4 DEF Ready
  <2> QED
    BY <1>3, <2>1 DEF PagesApart, PlacesApart, Idle, CopiesOnly
<1>5. Ready(t)
  BY <1>2, <1>3, <1>4 DEF Ready, Window_
<1> QED
  BY <1>5 DEF t

\* The objects of a page that is read are unknown to every list.
LEMMA LoadedReady ==
  ASSUME NEW s, Ready(s), NEW p \in Pages, NEW new, Unknown(s, new)
  PROVE  /\ Ready(Loaded(s, p, new)) /\ Loaded(s, p, new).cur = s.cur
         /\ Loaded(s, p, new).open = s.open \cup {p}
         /\ Loaded(s, p, new).place = s.place /\ Loaded(s, p, new).sel = s.sel
         /\ Loaded(s, p, new).stretch = s.stretch /\ Loaded(s, p, new).grip = s.grip
         /\ Loaded(s, p, new).live \subseteq s.live \cup new
<1>1. s \in WindowStates
  BY DEF Ready, Window_
<1>2. CASE p \in s.open
  BY <1>2 DEF Loaded
<1>3. CASE p \notin s.open
  <2> DEFINE t == [s EXCEPT !.open = @ \cup {p}]
  <2>1. Ready(t)
    BY OpenReady
  <2>2. /\ t.cur = s.cur /\ t.open = s.open \cup {p} /\ t.place = s.place
        /\ t.sel = s.sel /\ t.stretch = s.stretch /\ t.grip = s.grip /\ t.live = s.live
    BY <1>1 DEF WindowStates
  <2>3. Loaded(s, p, new) = AppendTo(t, p, new)
    BY <1>3 DEF Loaded
  <2> HIDE DEF t
  <2>4. Unknown(t, new) /\ p \in t.open
    BY <2>2, UnknownSame
  <2>5. Ready(AppendTo(t, p, new))
    BY <2>1, <2>4, AppendToReady
  <2>6. /\ AppendTo(t, p, new).cur = t.cur /\ AppendTo(t, p, new).open = t.open
        /\ AppendTo(t, p, new).place = t.place /\ AppendTo(t, p, new).sel = t.sel
        /\ AppendTo(t, p, new).stretch = t.stretch /\ AppendTo(t, p, new).grip = t.grip
        /\ AppendTo(t, p, new).live = t.live \cup new
    BY <2>1 DEF AppendTo, Ready, Window_, WindowStates
  <2> QED
    BY <2>2, <2>3, <2>5, <2>6
<1> QED
  BY <1>2, <1>3

\* x_window_close_page: a page that was freed may leave the window for another one.
LEMMA ClosedReady ==
  ASSUME NEW s, Ready(s), ~s.untidy => s.page[s.cur] = {}, NEW p \in s.open \ {s.cur}
  PROVE  Ready([s EXCEPT !.open = @ \ {s.cur}, !.cur = p])
<1>1. s \in WindowStates /\ s.cur \in Pages /\ s.cur \in s.open /\ p \in Pages
  BY DEF Ready, Window_, WindowStates
<1> DEFINE t == [s EXCEPT !.open = @ \ {s.cur}, !.cur = p]
<1>2. t \in WindowStates
  BY <1>1 DEF WindowStates
<1>3. /\ t.cur = p /\ t.open = s.open \ {s.cur} /\ t.page = s.page /\ t.place = s.place
      /\ t.sel = s.sel /\ t.stretch = s.stretch /\ t.grip = s.grip /\ t.live = s.live
      /\ t.untidy = s.untidy /\ t.harm = s.harm
  BY <1>1 DEF WindowStates
<1> HIDE DEF t
<1>4. ASSUME ~s.untidy PROVE PagesApart(t) /\ PlacesApart(t) /\ Idle(t)
  <2>1. PagesApart(s) /\ PlacesApart(s) /\ Idle(s)
    BY <1>4 DEF Ready
  <2>2. PagesApart(t)
    BY <1>1, <1>3, <1>4, <2>1 DEF PagesApart
  <2> QED
    BY <1>3, <2>1, <2>2 DEF PlacesApart, Idle, CopiesOnly
<1>5. Ready(t)
  BY <1>1, <1>2, <1>3, <1>4 DEF Ready, Window_
<1> QED
  BY <1>5 DEF t

\* A closed page leaves nothing behind that the window could reach.
LEMMA ClosePageReady ==
  ASSUME Good(w), ClosePage
  PROVE  Ready(w')
<1> DEFINE s == IF w.inside THEN Cancel(w) ELSE w
           c == [s EXCEPT !.live = @ \ s.page[s.cur], !.page[s.cur] = {}, !.sel[s.cur] = {}]
           t == DeletePlaceList(c, s.cur)
<1>1. Ready(s) /\ s.cur = w.cur /\ s.open = w.open
  BY CancelReady, GoodIsReady
<1> HIDE DEF s
<1>2. Ready(c) /\ c.cur = s.cur /\ c.open = s.open /\ c.page[s.cur] = {}
  BY <1>1, PageFreedReady
<1>3. s.cur \in Pages
  BY <1>1 DEF Ready, Window_, WindowStates
<1> HIDE DEF c
<1>4. Ready(t) /\ t.cur = s.cur /\ t.open = s.open /\ (~c.untidy => t.page = c.page)
  BY <1>2, <1>3, DeleteReady
<1>5. c.untidy = t.untidy
  <2>1. LeftOf(t, c, c.place[s.cur], s.cur)
    BY <1>2, <1>3, DeleteFields DEF Ready, Window_
  <2> QED
    BY <2>1 DEF LeftOf
<1> HIDE DEF t
<1>6. t.cur = w.cur /\ t.open = w.open /\ (~t.untidy => t.page[t.cur] = {})
  BY <1>1, <1>2, <1>4, <1>5
<1>7. CASE w' = t
  BY <1>4, <1>7
<1>8. CASE \E p \in w.open \ {w.cur} : w' = [t EXCEPT !.open = @ \ {w.cur}, !.cur = p]
  <2>1. PICK p \in w.open \ {w.cur} : w' = [t EXCEPT !.open = @ \ {w.cur}, !.cur = p]
    BY <1>8
  <2>2. w' = [t EXCEPT !.open = @ \ {t.cur}, !.cur = p]
    BY <1>6, <2>1
  <2>3. p \in t.open \ {t.cur}
    BY <1>6, <2>1
  <2> QED
    BY <1>4, <1>6, <2>2, <2>3, ClosedReady
<1> QED
  BY <1>7, <1>8 DEF ClosePage, t, c, s

-----------------------------------------------------------------------------
(* Mouse events. *)

\* Between actions, and in every mode that holds neither a grip nor a move.
LEMMA NotMovingIsReady ==
  ASSUME Good(w), ~w.inside \/ w.mode \in Modes \ {"MOVEMODE", "GRIPS"}
  PROVE  Ready(w)
BY GoodIsReady

\* A fresh object that is placed or copied is unknown to every list.
LEMMA CopyIsUnknown ==
  ASSUME NEW s, Ready(s), NEW copy \in Copies(s)
  PROVE  Unknown(s, copy)
BY CopiesAreNews, NewsAreUnknown DEF Ready, Window_

\* i_callbacks and x_event set a mode, and start or stop an action.
LEMMA ModeReady ==
  ASSUME NEW s, Ready(s), NEW m \in Modes
  PROVE  /\ Ready(SetMode(s, m)) /\ Ready(Start(SetMode(s, m)))
         /\ Ready(SetMode(Stop(s), m)) /\ Ready(Stop(SetMode(s, m)))
<1>1. Ready(SetMode(s, m)) /\ Ready(Stop(s))
  BY ModesReady
<1> QED
  BY <1>1, ModesReady

\* Stopping and starting need no mode.
LEMMA StopReady == ASSUME NEW s, Ready(s) PROVE Ready(Stop(s)) /\ Ready(Start(s))
<1>1. "SELECT" \in Modes
  BY ModesAre
<1> QED
  BY <1>1, ModesReady

\* The modes in which the mouse places something.
LEMMA PlacesReady ==
  ASSUME Good(w), LeftPressPlaces
  PROVE  Ready(w')
<1>1. Ready(w)
  BY NotMovingIsReady, ModesAre DEF LeftPressPlaces, PlaceModes
<1>2. CASE \E copy \in Copies(w) : w' \in SaveStates(PlaceEnd(w, TRUE, copy))
  <2>1. PICK copy \in Copies(w) : w' \in SaveStates(PlaceEnd(w, TRUE, copy))
    BY <1>2
  <2>2. Ready(PlaceEnd(w, TRUE, copy))
    BY <1>1, CopyIsUnknown, PlaceEndReady
  <2> QED
    BY <2>1, <2>2, SaveReady
<1>3. CASE w' \in SaveStates(PlaceEnd(w, FALSE, {}))
  <2>1. Ready(PlaceEnd(w, FALSE, {}))
    BY <1>1, PlaceEndReady
  <2> QED
    BY <1>3, <2>1, SaveReady
<1> QED
  BY <1>2, <1>3 DEF LeftPressPlaces

\* The modes in which the mouse draws something.
LEMMA DrawsReady ==
  ASSUME Good(w), LeftPressDraws
  PROVE  Ready(w')
<1>1. Ready(w)
  BY NotMovingIsReady, ModesAre DEF LeftPressDraws
<1>2. ASSUME NEW new \in Copies(w) PROVE Ready(Append(w, new)) /\ Ready(Stop(Append(w, new)))
  <2>1. Ready(Append(w, new))
    BY <1>1, CopyIsUnknown, AppendReady
  <2> QED
    BY <2>1, StopReady
<1>3. ASSUME NEW new \in Copies(w),
             w' \in SaveStates(Append(w, new)) \/ w' \in SaveStates(Stop(Append(w, new)))
      PROVE  Ready(w')
  BY <1>2, <1>3, SaveReady
<1>4. CASE w' = Stop(w)
  BY <1>1, <1>4, StopReady
<1> QED
  BY <1>3, <1>4 DEF LeftPressDraws

\* The mouse starts an action.
LEMMA StartsGood ==
  ASSUME Good(w), LeftPressStarts
  PROVE  Good(w')
<1>1. Ready(w)
  BY GoodIsReady DEF LeftPressStarts
<1>2. CASE w' = Start(w)
  BY <1>1, <1>2, StopReady, ReadyIsGood
<1>3. CASE w' = PathStart(w)
  <2>1. Ready([w EXCEPT !.path = TRUE])
    BY <1>1, PathReady
  <2>2. Ready(PathStart(w))
    BY <2>1, StopReady DEF PathStart
  <2> QED
    BY <1>3, <2>2, ReadyIsGood
<1>4. CASE \E grip \in {NoObject} \cup Selected(w) : w' = SelectStart(w, grip)
  BY <1>1, <1>4, SelectStartGood
<1>5. CASE \E new \in Copies(w) : w' = CopyStart(w, new)
  BY <1>1, <1>5, CopyIsUnknown, CopyStartReady, ReadyIsGood
<1>6. CASE StartMove(w)
  BY <1>1, <1>6, StartMoveGood
<1> QED
  BY <1>2, <1>3, <1>4, <1>5, <1>6 DEF LeftPressStarts

\* The mouse turns the selection or ends panning.
LEMMA TurnsReady ==
  ASSUME Good(w), LeftPressTurns
  PROVE  Ready(w')
<1>1. Ready(w)
  BY NotMovingIsReady, ModesAre DEF LeftPressTurns
<1>2. CASE TurnSelection(w)
  BY <1>1, <1>2, TurnSelectionReady
<1>3. CASE w' = SetMode(w, "SELECT")
  <2>1. "SELECT" \in Modes
    BY ModesAre
  <2> QED
    BY <1>1, <1>3, <2>1, ModesReady
<1> QED
  BY <1>2, <1>3 DEF LeftPressTurns

\* A release of the button places what is copied or moved.
LEMMA ReleasePlacesReady ==
  ASSUME Good(w), LeftReleasePlaces
  PROVE  Ready(w')
<1>1. CASE w.mode \in {"MCOPYMODE", "COPYMODE"}
  <2>1. Ready(w)
    BY <1>1, NotMovingIsReady, ModesAre DEF PlaceModes
  <2>2. CASE \E copy \in Copies(w) : w' \in SaveStates(PlaceEnd(w, TRUE, copy))
    <3>1. PICK copy \in Copies(w) : w' \in SaveStates(PlaceEnd(w, TRUE, copy))
      BY <2>2
    <3>2. Ready(PlaceEnd(w, TRUE, copy))
      BY <2>1, CopyIsUnknown, PlaceEndReady
    <3> QED
      BY <3>1, <3>2, SaveReady
  <2>3. CASE w' \in SaveStates(PlaceEnd(w, FALSE, {}))
    <3>1. Ready(PlaceEnd(w, FALSE, {}))
      BY <2>1, PlaceEndReady
    <3> QED
      BY <2>3, <3>1, SaveReady
  <2> QED
    BY <1>1, <2>2, <2>3 DEF LeftReleasePlaces
<1>2. CASE /\ w.mode = "MOVEMODE" /\ Selected(w) # {}
           /\ \E gone \in SUBSET w.stretch : w' \in SaveStates(MoveEnd(w, gone))
  BY <1>2, MoveEndReady, SaveReady
<1>3. CASE w.mode = "MOVEMODE" /\ Placed(w) # {} /\ Selected(w) = {} /\ w' = BackToSelect(w)
  <2>1. w \in WindowStates /\ w.cur \in Pages /\ w.cur \in w.open
    BY DEF Good, Window_, WindowStates
  <2>2. ASSUME ~w.untidy PROVE PagesApart(w) /\ PlacesApart(w) /\ Idle(w)
    <3>1. PagesApart(w) /\ PlacesApart(w) /\ CopiesOrMove(w) /\ StretchIsMove(w) /\ GripIsHeld(w)
      BY <2>2 DEF Good, Lists
    <3>2. w.place[w.cur] # w.sel[w.cur]
      BY <1>3 DEF Placed, Selected
    <3>3. w.stretch = {} /\ w.grip = NoObject
      BY <1>3, <3>1, <3>2 DEF StretchIsMove, GripIsHeld
    <3>4. \A p \in Pages : CopiesOnly(w, p)
      BY <3>1, <3>2 DEF CopiesOrMove
    <3> QED
      BY <3>1, <3>3, <3>4 DEF Idle
  <2>3. Ready(w)
    BY <2>2 DEF Ready, Good
  <2> QED
    BY <1>3, <2>3, BackReady
<1> QED
  BY <1>1, <1>2, <1>3 DEF LeftReleasePlaces

\* A release of the button ends what places nothing.
LEMMA ReleaseEndsReady ==
  ASSUME Good(w), LeftReleaseEnds
  PROVE  Ready(w')
<1>1. CASE w.mode = "GRIPS" /\ w' \in SaveStates(BackToSelect(GripsCancel(w)))
  <2>1. Ready(GripsCancel(w))
    BY <1>1, GripsOnly, GripsCancelReady
  <2>2. Ready(BackToSelect(GripsCancel(w)))
    BY <2>1, BackReady
  <2> QED
    BY <1>1, <2>2, SaveReady
<1>2. CASE w.mode = "GRIPS" /\ w.grip = NoObject /\ w' = BackToSelect(w)
  <2>1. Ready(GripsCancel(w)) /\ GripsCancel(w) = w
    BY <1>2, GripsOnly, GripsCancelReady DEF GripsCancel
  <2> QED
    BY <1>2, <2>1, BackReady
<1>3. CASE w.mode \in {"PATHMODE", "SBOX", "SELECT", "ZOOMBOX"}
  <2>1. Ready(w)
    BY <1>3, NotMovingIsReady, ModesAre DEF DrawModes
  <2>3. CASE \E new \in Copies(w) :
               w' \in SaveStates(Stop(Append([w EXCEPT !.path = FALSE], new)))
    <3>1. PICK new \in Copies(w) :
            w' \in SaveStates(Stop(Append([w EXCEPT !.path = FALSE], new)))
      BY <2>3
    <3> DEFINE t == [w EXCEPT !.path = FALSE]
    <3>2. Ready(t)
      BY <2>1, PathReady
    <3>3. /\ t.live = w.live /\ t.stretch = w.stretch /\ t.grip = w.grip
          /\ t.place = w.place /\ t.sel = w.sel
      BY <2>1 DEF Ready, Window_, WindowStates
    <3>4. Unknown(t, new)
      BY <2>1, <3>3, CopyIsUnknown, UnknownSame
    <3>5. w' \in SaveStates(Stop(Append(t, new)))
      BY <3>1
    <3> HIDE DEF t
    <3>6. Ready(Stop(Append(t, new)))
      BY <3>2, <3>4, AppendReady, StopReady
    <3> QED
      BY <3>5, <3>6, SaveReady
  <2>4. CASE \E objs \in SUBSET w.page[w.cur] : w' = BackToSelect(Select(w, objs))
    <3>1. PICK objs \in SUBSET w.page[w.cur] : w' = BackToSelect(Select(w, objs))
      BY <2>4
    <3>2. Ready(Select(w, objs))
      BY <2>1, SelectReady
    <3> QED
      BY <3>1, <3>2, BackReady
  <2>5. CASE w' = BackToSelect(w)
    BY <2>1, <2>5, BackReady
  <2> QED
    BY <1>3, <2>3, <2>4, <2>5 DEF LeftReleaseEnds
<1> QED
  BY <1>1, <1>2, <1>3 DEF LeftReleaseEnds

\* Select copies of what is there, or a move of it.
LEMMA CopyReady ==
  ASSUME NEW s, Ready(s), NEW m \in Modes, NEW new \in Copies(s)
  PROVE  /\ Ready(CopyStart(SetMode(s, m), new)) /\ Ready(SetMode(CopyStart(s, new), m))
<1>1. Unknown(s, new) /\ s \in WindowStates
  BY CopyIsUnknown DEF Ready, Window_
<1>2. Ready(SetMode(s, m)) /\ SameLists(SetMode(s, m), s)
  BY <1>1, ModesReady, SetModeFields
<1>3. Unknown(SetMode(s, m), new)
  BY <1>1, <1>2, UnknownSame DEF SameLists
<1>4. Ready(CopyStart(SetMode(s, m), new))
  BY <1>2, <1>3, CopyStartReady
<1>5. Ready(CopyStart(s, new))
  BY <1>1, CopyStartReady
<1> QED
  BY <1>4, <1>5, ModesReady

\* The middle button cancels, or copies or moves what is under the pointer.
LEMMA MiddleGood ==
  ASSUME Good(w), MiddlePress
  PROVE  Good(w')
<1>1. CASE w' = Cancel(w)
  BY <1>1, CancelReady, ReadyIsGood
<1>2. CASE ~w.inside /\ \E objs \in (SUBSET w.page[w.cur]) \cup {Selected(w)} :
          LET s == IF objs = Selected(w) THEN w ELSE Select(w, objs) IN
          IF objs = {} THEN w' = BackToSelect(s)
          ELSE \/ \E new \in Copies(s) : w' = CopyStart(SetMode(s, "COPYMODE"), new)
               \/ StartMove(s)
  <2>1. Ready(w)
    BY <1>2, GoodIsReady
  <2>2. PICK objs \in (SUBSET w.page[w.cur]) \cup {Selected(w)} :
          LET s == IF objs = Selected(w) THEN w ELSE Select(w, objs) IN
          IF objs = {} THEN w' = BackToSelect(s)
          ELSE \/ \E new \in Copies(s) : w' = CopyStart(SetMode(s, "COPYMODE"), new)
               \/ StartMove(s)
    BY <1>2
  <2> DEFINE s == IF objs = Selected(w) THEN w ELSE Select(w, objs)
  <2>3. Ready(s)
    BY <2>1, <2>2, SelectReady
  <2>4. \/ w' = BackToSelect(s)
        \/ \E new \in Copies(s) : w' = CopyStart(SetMode(s, "COPYMODE"), new)
        \/ StartMove(s)
    BY <2>2
  <2> HIDE DEF s
  <2>5. "COPYMODE" \in Modes
    BY ModesAre DEF PlaceModes
  <2>6. CASE w' = BackToSelect(s)
    BY <2>3, <2>6, BackReady, ReadyIsGood
  <2>7. CASE \E new \in Copies(s) : w' = CopyStart(SetMode(s, "COPYMODE"), new)
    BY <2>3, <2>5, <2>7, CopyReady, ReadyIsGood
  <2>8. CASE StartMove(s)
    BY <2>3, <2>8, StartMoveGood
  <2> QED
    BY <2>4, <2>6, <2>7, <2>8
<1> QED
  BY <1>1, <1>2 DEF MiddlePress

\* Dragging starts a selection box or a move.
LEMMA MotionGood ==
  ASSUME Good(w), MotionSelects
  PROVE  Good(w')
<1>1. Ready(w)
  BY NotMovingIsReady, ModesAre DEF MotionSelects
<1>2. CASE w' = SetMode(w, "SBOX")
  <2>1. "SBOX" \in Modes
    BY ModesAre
  <2> QED
    BY <1>1, <1>2, <2>1, ModeReady, ReadyIsGood
<1>3. CASE StartMove(w)
  BY <1>1, <1>3, StartMoveGood
<1>4. CASE \E objs \in (SUBSET w.page[w.cur]) \ {{}} : StartMove(Select(w, objs))
  BY <1>1, <1>4, SelectReady, StartMoveGood
<1>5. CASE w' \in {UnselectAll(w), SetMode(UnselectAll(w), "SBOX")}
  <2>1. "SBOX" \in Modes
    BY ModesAre
  <2>2. Ready(UnselectAll(w))
    BY <1>1, SelectReady
  <2> QED
    BY <1>5, <2>1, <2>2, ModeReady, ReadyIsGood
<1> QED
  BY <1>2, <1>3, <1>4, <1>5 DEF MotionSelects

\* Every event of the mouse keeps the lists apart.
LEMMA MouseGood ==
  ASSUME Good(w), Mouse
  PROVE  Good(w')
<1>1. CASE LeftPressPlaces \/ LeftPressDraws \/ LeftPressTurns
  BY <1>1, PlacesReady, DrawsReady, TurnsReady, ReadyIsGood
<1>2. CASE LeftReleasePlaces \/ LeftReleaseEnds
  BY <1>2, ReleasePlacesReady, ReleaseEndsReady, ReadyIsGood
<1>3. CASE LeftPressStarts \/ MiddlePress \/ MotionSelects
  BY <1>3, StartsGood, MiddleGood, MotionGood
<1>4. CASE DoubleClick
  <2>1. Ready(w)
    BY <1>4, NotMovingIsReady, ModesAre DEF DoubleClick
  <2> QED
    BY <1>4, <2>1, StopReady, ReadyIsGood DEF DoubleClick
<1>5. CASE MiddleRelease
  BY <1>5, PlaceTurnGood DEF MiddleRelease
<1>6. CASE RightPress
  <2>1. CASE w.mode = "NETMODE"
    <3>1. Ready(w)
      BY <2>1, NotMovingIsReady, ModesAre DEF DrawModes
    <3> QED
      BY <1>6, <2>1, <3>1, StopReady, ReadyIsGood DEF RightPress
  <2>2. CASE w.mode # "NETMODE"
    BY <1>6, <2>2, CancelReady, ReadyIsGood DEF RightPress
  <2> QED
    BY <2>1, <2>2
<1>7. CASE PathWithoutStart
  <2>1. Ready(w)
    BY <1>7, NotMovingIsReady, ModesAre DEF PathWithoutStart, DrawModes
  <2>2. TRUE \in BOOLEAN
    OBVIOUS
  <2> QED
    BY <1>7, <2>1, <2>2, PathReady, ReadyIsGood DEF PathWithoutStart
<1> QED
  BY <1>1, <1>2, <1>3, <1>4, <1>5, <1>6, <1>7 DEF Mouse

-----------------------------------------------------------------------------
(* Commands. *)

\* Undo and redo.
LEMMA UndoGood ==
  ASSUME Good(w), EditUndo \/ EditRedo
  PROVE  Good(w')
<1>1. CASE EditUndo /\ w.inside
  BY <1>1, CancelReady, ReadyIsGood DEF EditUndo
<1>2. CASE EditUndo /\ ~w.inside
  BY <1>2, GoodIsReady, RestoreReady, ReadyIsGood DEF EditUndo
<1>3. CASE EditRedo
  BY <1>3, UntidyReady, RestoreReady, ReadyIsGood DEF EditRedo
<1> QED
  BY <1>1, <1>2, <1>3

\* Commands that select.
LEMMA SelectsReady ==
  ASSUME Good(w), EditSelect \/ ToolbarSelect \/ SelectAll
  PROVE  Ready(w')
<1>1. CASE EditSelect
  BY <1>1, CleanReady, BackReady DEF EditSelect
<1>2. CASE ToolbarSelect
  <2> DEFINE s == IF w.inside /\ w.mode \in DrawModes THEN w ELSE Cancel(w)
  <2>1. Good(s)
    BY CancelReady, ReadyIsGood
  <2>2. w' = BackToSelect(Clean(s))
    BY <1>2 DEF ToolbarSelect
  <2> HIDE DEF s
  <2> QED
    BY <2>1, <2>2, CleanReady, BackReady
<1>3. CASE SelectAll
  <2>1. PICK objs \in SUBSET Clean(w).page[Clean(w).cur] :
          w' = BackToSelect(Select(Clean(w), objs))
    BY <1>3 DEF SelectAll
  <2>2. Ready(Select(Clean(w), objs))
    BY CleanReady, SelectReady
  <2> QED
    BY <2>1, <2>2, BackReady
<1> QED
  BY <1>1, <1>2, <1>3

\* Setting a mode after the pending action was ignored.
LEMMA UntidyModeReady ==
  ASSUME Good(w), NEW m \in Modes
  PROVE  Ready(SetMode(Untidy(w), m))
<1>1. Ready(Untidy(w))
  BY UntidyReady
<1> QED
  BY <1>1, ModesReady

\* Copying by command.
LEMMA CopyGood ==
  ASSUME Good(w), EditCopy
  PROVE  Good(w')
<1>1. "COPYMODE" \in Modes /\ "MCOPYMODE" \in Modes /\ "SELECT" \in Modes
  BY ModesAre DEF PlaceModes
<1>2. PICK mode \in {"COPYMODE", "MCOPYMODE"} :
        \/ w' = SetMode(Untidy(w), "SELECT")
        \/ \E new \in Copies(Clean(w)) : w' = SetMode(CopyStart(Clean(w), new), mode)
        \/ w' = SetMode(Clean(w), mode)
  BY DEF EditCopy
<1>3. mode \in Modes /\ Ready(Clean(w))
  BY <1>1, <1>2, CleanReady
<1>4. CASE w' = SetMode(Untidy(w), "SELECT")
  BY <1>1, <1>4, UntidyModeReady, ReadyIsGood
<1>5. CASE \E new \in Copies(Clean(w)) : w' = SetMode(CopyStart(Clean(w), new), mode)
  BY <1>3, <1>5, CopyReady, ReadyIsGood
<1>6. CASE w' = SetMode(Clean(w), mode)
  BY <1>3, <1>6, ModesReady, ReadyIsGood
<1> QED
  BY <1>2, <1>4, <1>5, <1>6

\* Moving by command.
LEMMA MoveGood ==
  ASSUME Good(w), EditMove
  PROVE  Good(w')
<1>1. "MOVEMODE" \in Modes /\ "SELECT" \in Modes
  BY ModesAre
<1>2. \/ w' = SetMode(Untidy(w), "SELECT")
      \/ \E nets \in Nets(Clean(w)), new \in News(Clean(w)) :
           w' = SetMode(MoveStart(Clean(w), nets, new), "MOVEMODE")
      \/ w' = SetMode(Clean(w), "MOVEMODE")
  BY DEF EditMove
<1>3. Ready(Clean(w))
  BY CleanReady
<1>4. CASE w' = SetMode(Untidy(w), "SELECT")
  BY <1>1, <1>4, UntidyModeReady, ReadyIsGood
<1>5. CASE \E nets \in Nets(Clean(w)), new \in News(Clean(w)) :
             w' = SetMode(MoveStart(Clean(w), nets, new), "MOVEMODE")
  BY <1>3, <1>5, MoveStartGood
<1>6. CASE w' = SetMode(Clean(w), "MOVEMODE")
  BY <1>1, <1>3, <1>6, ModesReady, ReadyIsGood
<1> QED
  BY <1>2, <1>4, <1>5, <1>6

\* Deleting and cutting.
LEMMA DeletesReady ==
  ASSUME Good(w), EditDelete \/ ClipboardCut \/ BufferCut
  PROVE  Ready(w')
<1>1. CASE EditDelete
  <2>1. PICK s \in DeleteStates(Clean(w)) : w' = BackToSelect(s)
    BY <1>1 DEF EditDelete
  <2>2. Ready(s)
    BY CleanReady, DeleteStatesReady
  <2> QED
    BY <2>1, <2>2, BackReady
<1>2. CASE ClipboardCut
  BY <1>2, CleanReady, DeleteStatesReady DEF ClipboardCut
<1>3. CASE BufferCut
  BY <1>3, UntidyReady, DeleteStatesReady DEF BufferCut
<1> QED
  BY <1>1, <1>2, <1>3

\* Pasting.
LEMMA PasteReady ==
  ASSUME Good(w), Paste
  PROVE  Ready(w')
<1> DEFINE s == IF w.inside THEN Cancel(w) ELSE w
<1>1. Ready(s)
  BY CancelReady, GoodIsReady
<1>2. \/ w' = SetMode(s, "SELECT")
      \/ \E new \in Copies(s) : \/ w' = Start(SetMode(SetPlaceList(s, s.cur, new), "PASTEMODE"))
                                \/ w' = SetMode(SetPlaceList(s, s.cur, new), "SELECT")
  BY DEF Paste
<1> HIDE DEF s
<1>3. "SELECT" \in Modes /\ "PASTEMODE" \in Modes /\ s.cur \in Pages
  BY <1>1, ModesAre DEF PlaceModes, Ready, Window_, WindowStates
<1>4. CASE w' = SetMode(s, "SELECT")
  BY <1>1, <1>3, <1>4, ModesReady
<1>5. ASSUME NEW new \in Copies(s)
      PROVE  /\ Ready(Start(SetMode(SetPlaceList(s, s.cur, new), "PASTEMODE")))
             /\ Ready(SetMode(SetPlaceList(s, s.cur, new), "SELECT"))
  <2>1. Ready(SetPlaceList(s, s.cur, new))
    BY <1>1, <1>3, CopyIsUnknown, SetPlaceReady
  <2> QED
    BY <1>3, <2>1, ModeReady
<1> QED
  BY <1>2, <1>4, <1>5

\* Turning by command.
LEMMA TurnGood ==
  ASSUME Good(w), EditTurn
  PROVE  Good(w')
<1>1. CASE w' = PlaceTurn(w)
  BY <1>1, PlaceTurnGood
<1>2. CASE \E mode \in {"ROTATEMODE", "MIRRORMODE"} : w' = SetMode(Untidy(w), mode)
  <2>1. {"ROTATEMODE", "MIRRORMODE"} \subseteq Modes
    BY ModesAre
  <2> QED
    BY <1>2, <2>1, UntidyModeReady, ReadyIsGood
<1>3. CASE TurnSelection(Clean(w))
  BY <1>3, CleanReady, TurnSelectionReady, ReadyIsGood
<1>4. CASE w' = Clean(w)
  BY <1>4, CleanReady, ReadyIsGood
<1> QED
  BY <1>1, <1>2, <1>3, <1>4 DEF EditTurn

\* Lock, unlock, embed, unembed, slots and attributes work on the selection where it is.
LEMMA InPlaceReady ==
  ASSUME Good(w), EditLock \/ EditInPlace \/ EditSlot
  PROVE  Ready(w')
<1> DEFINE s == Uses(Untidy(w), Selected(w))
<1>1. Ready(s)
  <2>1. Ready(Untidy(w)) /\ Selected(w) = Selected(Untidy(w))
    BY UntidyReady DEF Selected
  <2>2. ~Untidy(w).untidy => Selected(w) \subseteq Untidy(w).live
    BY <2>1, ReadyIsGood, SelectedIsThere
  <2> QED
    BY <2>1, <2>2, UsesReady
<1>2. \/ w' \in SaveStates(s) \/ w' \in SaveStates(UnselectAll(s))
      \/ w' = SetMode(s, "SELECT")
      \/ \E new \in Copies(w) : w' = Append(SetMode(s, "SELECT"), new)
  BY DEF EditLock, EditInPlace, EditSlot
<1>3. /\ s \in WindowStates /\ s.live = w.live /\ s.stretch = w.stretch
      /\ s.grip = w.grip /\ s.place = w.place /\ s.sel = w.sel
  BY UntidyReady, UsesFields
<1> HIDE DEF s
<1>4. Ready(UnselectAll(s))
  BY <1>1, SelectReady
<1>5. "SELECT" \in Modes
  BY ModesAre
<1>6. Ready(SetMode(s, "SELECT")) /\ SameLists(SetMode(s, "SELECT"), s)
  BY <1>1, <1>3, <1>5, ModesReady, SetModeFields
<1>7. ASSUME NEW new \in Copies(w) PROVE Ready(Append(SetMode(s, "SELECT"), new))
  <2>1. Unknown(w, new)
    BY CopiesAreNews, NewsAreUnknown DEF Good, Window_
  <2>2. Unknown(SetMode(s, "SELECT"), new)
    BY <1>3, <1>6, <2>1, UnknownSame DEF SameLists
  <2> QED
    BY <1>6, <2>2, AppendReady
<1> QED
  BY <1>1, <1>2, <1>4, <1>6, <1>7, SaveReady

\* Attaching and detaching happen between actions, the other commands to all the page's
\* objects or texts ignore the action in progress.
LEMMA TextsReady ==
  ASSUME Good(w), EditAttached \/ HideText \/ Translate \/ DeleteAttribute
  PROVE  Ready(w')
<1> DEFINE u == Untidy(w)
           s == OnAll(u)
<1>1. Ready(u)
  BY UntidyReady
<1> HIDE DEF u
<1>2. Ready(s)
  <2>1. ~u.untidy => u.page[u.cur] \subseteq u.live
    BY <1>1 DEF Ready, Window_, WindowStates, PagesApart
  <2> QED
    BY <1>1, <2>1, UsesReady DEF OnAll
<1> HIDE DEF s
<1>3. "SELECT" \in Modes
  BY ModesAre
<1>4. CASE EditAttached
  <2>1. Ready(w)
    BY <1>4, GoodIsReady DEF EditAttached
  <2>2. Ready(Uses(w, Selected(w)))
    BY <2>1, UsesReady, SelectedIsThere, ReadyIsGood
  <2> QED
    BY <1>4, <2>2, SaveReady DEF EditAttached
<1>5. CASE HideText
  BY <1>2, <1>5, SaveReady DEF HideText, s, u
<1>6. CASE Translate
  <2>1. Ready(UnselectAll(s))
    BY <1>2, SelectReady
  <2>2. \/ w' = SetMode(u, "SELECT")
        \/ w' \in SaveStates(SetMode(s, "SELECT"))
        \/ w' \in SaveStates(SetMode(UnselectAll(s), "SELECT"))
    BY <1>6 DEF Translate, s, u
  <2>3. /\ Ready(SetMode(u, "SELECT")) /\ Ready(SetMode(s, "SELECT"))
        /\ Ready(SetMode(UnselectAll(s), "SELECT"))
    BY <1>1, <1>2, <1>3, <2>1, ModesReady
  <2> QED
    BY <2>2, <2>3, SaveReady
<1>7. CASE DeleteAttribute
  <2>1. PICK text \in w.page[w.cur] :
          w' \in SaveStates([u EXCEPT !.page[u.cur] = @ \ {text}, !.live = @ \ {text},
                                      !.sel[u.cur] = @ \ {text}])
    BY <1>7 DEF DeleteAttribute, u
  <2> DEFINE t == [u EXCEPT !.page[u.cur] = @ \ {text}, !.live = @ \ {text},
                            !.sel[u.cur] = @ \ {text}]
  <2>2. u \in WindowStates /\ u.cur \in Pages /\ u.cur \in u.open /\ u.page = w.page
        /\ u.cur = w.cur
    BY <1>1, UntidyReady DEF Ready, Window_, WindowStates, u
  <2>3. t \in WindowStates
    BY <2>2 DEF WindowStates
  <2>4. /\ t.cur = u.cur /\ t.open = u.open /\ t.place = u.place
        /\ t.page[u.cur] = u.page[u.cur] \ {text}
        /\ \A p \in Pages \ {u.cur} : t.page[p] = u.page[p]
        /\ t.sel[u.cur] = u.sel[u.cur] \ {text}
        /\ \A p \in Pages \ {u.cur} : t.sel[p] = u.sel[p]
        /\ t.stretch = u.stretch /\ t.grip = u.grip /\ t.live = u.live \ {text}
        /\ t.untidy = u.untidy /\ t.harm = u.harm
    BY <2>2 DEF WindowStates
  <2> HIDE DEF t
  <2>5. ASSUME ~u.untidy PROVE PagesApart(t) /\ PlacesApart(t) /\ Idle(t)
    <3>1. PagesApart(u) /\ PlacesApart(u) /\ Idle(u) /\ text \in u.page[u.cur]
      BY <1>1, <2>1, <2>2, <2>5 DEF Ready
    <3>2. PagesApart(t)
      BY <2>2, <2>4, <3>1 DEF PagesApart
    <3>3. PlacesApart(t)
      BY <2>2, <2>4, <3>1 DEF PlacesApart, Idle, CopiesOnly
    <3>4. Idle(t)
      BY <2>2, <2>4, <3>1 DEF Idle, CopiesOnly
    <3> QED
      BY <3>2, <3>3, <3>4
  <2>6. Ready(t)
    BY <1>1, <2>2, <2>3, <2>4, <2>5 DEF Ready, Window_
  <2> QED
    BY <2>1, <2>6, SaveReady DEF t
<1> QED
  BY <1>4, <1>5, <1>6, <1>7

\* Updating replaces a selected component by a fresh object.
LEMMA UpdateReady ==
  ASSUME Good(w), EditUpdate
  PROVE  Ready(w')
<1>1. PICK old \in Selected(w), new \in Fresh(w) :
        LET s == Uses(Untidy(w), {old}) IN
        w' \in SaveStates(
          [s EXCEPT !.page[s.cur] = (@ \ {old}) \cup {new},
                    !.sel[s.cur] = (@ \ {old}) \cup {new},
                    !.live = (@ \ {old}) \cup {new}])
  BY DEF EditUpdate
<1> DEFINE u == Untidy(w)
           s == Uses(u, {old})
           t == [s EXCEPT !.page[s.cur] = (@ \ {old}) \cup {new},
                          !.sel[s.cur] = (@ \ {old}) \cup {new},
                          !.live = (@ \ {old}) \cup {new}]
<1>2. w \in WindowStates
  BY DEF Good, Window_
<1>3. /\ Ready(u) /\ u \in WindowStates /\ u.cur = w.cur /\ u.sel = w.sel
      /\ u.place = w.place /\ u.stretch = w.stretch /\ u.grip = w.grip /\ u.live = w.live
  BY UntidyReady
<1>4. w' \in SaveStates(t)
  BY <1>1
<1> HIDE DEF t, u
<1>5. old \in Selected(u)
  BY <1>3 DEF Selected
<1>6. ~u.untidy => {old} \subseteq u.live
  BY <1>3, <1>5, ReadyIsGood, SelectedIsThere
<1>8. /\ s \in WindowStates /\ s.cur = u.cur /\ s.place = u.place /\ s.sel = u.sel
      /\ s.stretch = u.stretch /\ s.grip = u.grip /\ s.live = u.live
  BY <1>3, UsesFields
<1>9. Ready(s)
  BY <1>3, <1>6, UsesReady
<1> HIDE DEF s
<1>10. new \in Objects /\ {new} \subseteq Fresh(w)
  BY DEF Fresh
<1>11. Unknown(w, {new})
  BY <1>2, <1>10, FreshIsUnknown
<1>12. Unknown(s, {new})
  BY <1>3, <1>8, <1>11, UnknownSame
<1>13. old \in Selected(s)
  BY <1>5, <1>8 DEF Selected
<1>14. Ready(t)
  BY <1>9, <1>10, <1>12, <1>13, ReplacedReady DEF t
<1> QED
  BY <1>4, <1>14, SaveReady

\* Commands that end what is pending and go back to selecting.
LEMMA BackToSelectReady ==
  ASSUME Good(w), EditNothing \/ AddText \/ SelectorClose
  PROVE  Ready(w')
BY CleanReady, BackReady DEF EditNothing, AddText, SelectorClose

\* The component selector takes away what it placed before and places another one.
LEMMA SelectorReady ==
  ASSUME Good(w), SelectorPlace
  PROVE  Ready(w')
<1> DEFINE s == IF w.mode = "COMPMODE" THEN DeletePlaceList(w, w.cur) ELSE Clean(w)
<1>1. Ready(s)
  <2>1. CASE w.mode = "COMPMODE"
    <3>1. Ready(w) /\ w.cur \in Pages
      BY <2>1, NotMovingIsReady, ModesAre DEF PlaceModes, Good, Window_, WindowStates
    <3> QED
      BY <2>1, <3>1, DeleteReady
  <2>2. CASE w.mode # "COMPMODE"
    BY <2>2, CleanReady
  <2> QED
    BY <2>1, <2>2
<1>2. w' = BackToSelect(s) \/ \E new \in News(s) : w' = PreparePlace(s, "COMPMODE", new)
  BY DEF SelectorPlace
<1> HIDE DEF s
<1>3. "COMPMODE" \in Modes
  BY ModesAre DEF PlaceModes
<1>4. ASSUME NEW new \in News(s) PROVE Ready(PreparePlace(s, "COMPMODE", new))
  <2>1. Unknown(s, new)
    BY <1>1, NewsAreUnknown DEF Ready, Window_
  <2> QED
    BY <1>1, <1>3, <2>1, PreparePlaceReady
<1> QED
  BY <1>1, <1>2, <1>4, BackReady

\* The dialogs beside the page add an attribute or a text.
LEMMA DialogsReady ==
  ASSUME Good(w), AddAttribute \/ TextApply
  PROVE  Ready(w')
<1> DEFINE s == Untidy(w)
<1>1. /\ Ready(s) /\ w \in WindowStates
      /\ s.live = w.live /\ s.stretch = w.stretch /\ s.grip = w.grip
      /\ s.place = w.place /\ s.sel = w.sel
  BY UntidyReady DEF Good, Window_
<1> HIDE DEF s
<1>2. "SELECT" \in Modes /\ "TEXTMODE" \in Modes
  BY ModesAre DEF PlaceModes
<1>3. ASSUME NEW new \in Copies(w) PROVE Unknown(s, new)
  <2>1. Unknown(w, new)
    BY <1>1, CopiesAreNews, NewsAreUnknown
  <2> QED
    BY <1>1, <2>1, UnknownSame
<1>4. CASE w' = SetMode(s, "SELECT")
  BY <1>1, <1>2, <1>4, ModesReady
<1>5. CASE \E new \in Copies(w), t \in {s, SetMode(s, "SELECT")} :
             w' \in SaveStates(Append(t, new))
  <2>1. PICK new \in Copies(w), t \in {s, SetMode(s, "SELECT")} :
             w' \in SaveStates(Append(t, new))
    BY <1>5
  <2>2. s \in WindowStates
    BY <1>1 DEF Ready, Window_
  <2>3. Ready(t) /\ (t = s \/ SameLists(t, s))
    <3>1. Ready(SetMode(s, "SELECT"))
      BY <1>1, <1>2, ModesReady
    <3>2. SameLists(SetMode(s, "SELECT"), s)
      BY <1>2, <2>2, SetModeFields
    <3>3. t = s \/ t = SetMode(s, "SELECT")
      BY <2>1
    <3> QED
      BY <1>1, <3>1, <3>2, <3>3
  <2>4. Unknown(t, new)
    BY <1>3, <2>3, UnknownSame DEF SameLists
  <2> QED
    BY <2>1, <2>3, <2>4, AppendReady, SaveReady
<1>6. CASE \E new \in Copies(w) : w' = PreparePlace(s, "TEXTMODE", new)
  BY <1>1, <1>2, <1>3, <1>6, PreparePlaceReady
<1> QED
  BY <1>4, <1>5, <1>6 DEF AddAttribute, TextApply, s

\* Commands that end what is pending and enter another mode.
LEMMA EntersReady ==
  ASSUME Good(w), AddComponent \/ AddDrawing \/ AddPicture \/ ViewPan \/ ViewZoomBox
  PROVE  Ready(w')
<1> DEFINE s == Clean(w)
<1>1. Ready(s)
  BY CleanReady
<1>2. DrawModes \cup {"SELECT", "PAN", "ZOOMBOX", "SHAPEMODE"} \subseteq Modes
  BY ModesAre DEF DrawModes
<1>3. \/ \E m \in DrawModes \cup {"SELECT", "PAN", "ZOOMBOX", "SHAPEMODE"} :
           w' \in {SetMode(s, m), Start(SetMode(s, m)), SetMode(Stop(s), m)}
      \/ w' = SetMode(Stop(SetMode(s, "SELECT")), "SHAPEMODE")
  BY DEF AddComponent, AddDrawing, AddPicture, ViewPan, ViewZoomBox
<1> HIDE DEF s
<1>4. ASSUME NEW m \in Modes
      PROVE  Ready(SetMode(s, m)) /\ Ready(Start(SetMode(s, m))) /\ Ready(SetMode(Stop(s), m))
  BY <1>1, ModeReady
<1>5. Ready(SetMode(Stop(SetMode(s, "SELECT")), "SHAPEMODE"))
  <2>1. Ready(Stop(SetMode(s, "SELECT")))
    BY <1>1, <1>2, ModeReady
  <2> QED
    BY <1>2, <2>1, ModesReady
<1> QED
  BY <1>2, <1>3, <1>4, <1>5

\* Opening a page: the place list that is freed is that of the new page.
LEMMA PagesReady ==
  ASSUME Good(w), SetCurrentPage \/ FindText
  PROVE  Ready(w')
<1>1. CASE SetCurrentPage
  <2>1. PICK p \in w.open : w' = [Clean(w) EXCEPT !.cur = p]
    BY <1>1 DEF SetCurrentPage
  <2>2. Ready(Clean(w)) /\ p \in Clean(w).open
    BY <2>1, CleanReady
  <2> QED
    BY <2>1, <2>2, LookReady
<1>2. CASE FindText
  <2>1. PICK p \in w.open : w' = [Untidy(w) EXCEPT !.cur = p]
    BY <1>2 DEF FindText
  <2>2. Ready(Untidy(w)) /\ p \in Untidy(w).open
    BY <2>1, UntidyReady
  <2> QED
    BY <2>1, <2>2, LookReady
<1> QED
  BY <1>1, <1>2

\* Commands that load pages.
LEMMA LoadsReady ==
  ASSUME Good(w), OpenPage \/ DownSchematic \/ Autonumber
  PROVE  Ready(w')
<1> DEFINE u == Untidy(w)
<1>1. /\ Ready(u) /\ u.open = w.open /\ w \in WindowStates
      /\ u.live = w.live /\ u.stretch = w.stretch /\ u.grip = w.grip
      /\ u.place = w.place /\ u.sel = w.sel
  BY UntidyReady DEF Good, Window_
<1> HIDE DEF u
<1>2. ASSUME NEW new \in News(w) PROVE Unknown(u, new)
  <2>1. Unknown(w, new)
    BY <1>1, NewsAreUnknown
  <2> QED
    BY <1>1, <2>1, UnknownSame
<1>3. CASE OpenPage
  <2>1. PICK p \in Pages, new \in News(w) :
          w' \in SaveStates([CleanStates(Loaded(u, p, new), p) EXCEPT !.cur = p])
    BY <1>3 DEF OpenPage, u
  <2> DEFINE s == Loaded(u, p, new)
  <2>2. Ready(s) /\ s.open = u.open \cup {p}
    BY <1>1, <1>2, LoadedReady
  <2> HIDE DEF s
  <2>3. Good(s)
    BY <2>2, ReadyIsGood
  <2>4. Ready(CleanStates(s, p)) /\ CleanStates(s, p).open = s.open
    BY <2>2, <2>3, CleanStatesReady
  <2>5. p \in CleanStates(s, p).open
    BY <2>2, <2>4
  <2>6. Ready([CleanStates(s, p) EXCEPT !.cur = p])
    BY <2>4, <2>5, LookReady
  <2> QED
    BY <2>1, <2>6, SaveReady DEF s
<1>4. CASE DownSchematic
  <2>1. PICK p \in Pages, new \in News(w) :
          \E s \in SaveStates(Loaded(u, p, new)) : w' = [Clean(s) EXCEPT !.cur = p]
    BY <1>4 DEF DownSchematic, u
  <2>2. PICK s \in SaveStates(Loaded(u, p, new)) : w' = [Clean(s) EXCEPT !.cur = p]
    BY <2>1
  <2>3. Ready(Loaded(u, p, new)) /\ p \in Loaded(u, p, new).open
    BY <1>1, <1>2, LoadedReady
  <2>4. Ready(s) /\ p \in s.open
    BY <2>3, SaveReady, SaveOpensNothing
  <2>5. Ready(Clean(s)) /\ p \in Clean(s).open
    BY <2>4, ReadyIsGood, CleanReady
  <2> QED
    BY <2>2, <2>5, LookReady
<1>5. CASE Autonumber
  <2>1. PICK p \in Pages, new \in News(w), text \in News(w) :
          /\ new \cap text = {}
          /\ w' \in SaveStates(AppendTo(Loaded(u, p, new), p, text))
    BY <1>5 DEF Autonumber, u
  <2> DEFINE s == Loaded(u, p, new)
  <2>2. /\ Ready(s) /\ p \in s.open /\ s.place = u.place /\ s.sel = u.sel
        /\ s.stretch = u.stretch /\ s.grip = u.grip /\ s.live \subseteq u.live \cup new
    BY <1>1, <1>2, LoadedReady
  <2> HIDE DEF s
  <2>3. Unknown(u, text)
    BY <1>2
  <2>4. Unknown(s, text)
    BY <2>1, <2>2, <2>3 DEF Unknown
  <2>5. Ready(AppendTo(s, p, text))
    BY <2>2, <2>4, AppendToReady
  <2> QED
    BY <2>1, <2>5, SaveReady DEF s
<1> QED
  BY <1>3, <1>4, <1>5

\* Every command keeps the lists apart.
LEMMA CommandsGood ==
  ASSUME Good(w), Commands
  PROVE  Good(w')
<1>1. CASE EditUndo \/ EditRedo
  BY <1>1, UndoGood
<1>2. CASE EditCopy \/ EditMove \/ EditTurn
  BY <1>2, CopyGood, MoveGood, TurnGood
<1>3. CASE EditSelect \/ ToolbarSelect \/ SelectAll
  BY <1>3, SelectsReady, ReadyIsGood
<1>4. CASE EditDelete \/ ClipboardCut \/ BufferCut \/ Paste
  BY <1>4, DeletesReady, PasteReady, ReadyIsGood
<1>5. CASE EditLock \/ EditInPlace \/ EditSlot \/ EditUpdate \/ EditNothing
  BY <1>5, InPlaceReady, UpdateReady, BackToSelectReady, ReadyIsGood
<1>6. CASE SelectorPlace \/ SelectorClose \/ AddText
  BY <1>6, SelectorReady, BackToSelectReady, ReadyIsGood
<1>7. CASE AddAttribute \/ TextApply
  BY <1>7, DialogsReady, ReadyIsGood
<1>8. CASE AddComponent \/ AddDrawing \/ AddPicture \/ ViewPan \/ ViewZoomBox
  BY <1>8, EntersReady, ReadyIsGood
<1>9. CASE TextCancel \/ EscapeKey
  BY <1>9, CancelReady, ReadyIsGood DEF TextCancel, EscapeKey
<1>10. CASE SetCurrentPage \/ FindText \/ ClosePage
  BY <1>10, PagesReady, ClosePageReady, ReadyIsGood
<1>11. CASE OpenPage \/ DownSchematic \/ Autonumber
  BY <1>11, LoadsReady, ReadyIsGood
<1>12. CASE EditAttached \/ HideText \/ Translate \/ DeleteAttribute
  BY <1>12, TextsReady, ReadyIsGood
<1> QED
  BY <1>1, <1>2, <1>3, <1>4, <1>5, <1>6, <1>7, <1>8, <1>9, <1>10, <1>11, <1>12 DEF Commands

-----------------------------------------------------------------------------
(* The theorems. *)

\* A window that has just been opened.
LEMMA WindowGood ==
  ASSUME NEW p \in Pages, NEW objs \in SUBSET Objects
  PROVE  Good(Window(p, objs))
<1> DEFINE s == Window(p, objs)
<1>1. s \in WindowStates
  <2>1. "SELECT" \in Modes
    BY ModesAre
  <2> QED
    BY <2>1 DEF Window, WindowStates, Harms
<1>2. /\ s.cur = p /\ s.open = {p} /\ s.stretch = {} /\ s.grip = NoObject /\ s.live = objs
      /\ s.harm = "none"
      /\ s.page[p] = objs /\ \A q \in Pages \ {p} : s.page[q] = {}
      /\ \A q \in Pages : s.place[q] = {} /\ s.sel[q] = {}
  BY DEF Window
<1> HIDE DEF s
<1>3. PagesApart(s)
  BY <1>2 DEF PagesApart
<1>4. PlacesApart(s) /\ Idle(s)
  BY <1>2 DEF PlacesApart, Idle, CopiesOnly
<1>5. Ready(s)
  BY <1>1, <1>2, <1>3, <1>4 DEF Ready, Window_
<1> QED
  BY <1>5, ReadyIsGood DEF s

\* The inductive invariant: while no command has ignored what is pending, the lists
\* of the window share objects only in the ways the handlers expect.
WindowInv == Good(w)

\* It holds at first and after every event and command.
LEMMA WindowStaysGood == Spec => []WindowInv
<1>1. Init => WindowInv
  BY WindowGood DEF Init, WindowInv
<1>2. WindowInv /\ [Next]_w => WindowInv'
  <2> SUFFICES ASSUME Good(w), [Next]_w PROVE Good(w')
    BY DEF WindowInv
  <2>1. CASE Mouse
    BY <2>1, MouseGood
  <2>2. CASE Commands
    BY <2>2, CommandsGood
  <2>3. CASE Restart
    BY <2>3, WindowGood DEF Restart
  <2>4. CASE UNCHANGED w
    BY <2>4
  <2> QED
    BY <2>1, <2>2, <2>3, <2>4 DEF Next
<1> QED
  BY <1>1, <1>2, PTL DEF Spec

\* The state of the window stays what its handlers take it for: one of the modes, the
\* page in view is open, and every list is a list of objects.
THEOREM EditorTypeCorrect == Spec => []EditorTypeOK
<1>1. WindowInv => EditorTypeOK
  BY DEF WindowInv, Good, Window_, WindowStates, EditorTypeOK
<1> QED
  BY <1>1, WindowStaysGood, PTL

\* No handler uses freed memory, frees an object that is on a page or puts an object on
\* a page twice, unless a command was given that ignores what is pending: for any number
\* of pages and objects, and after any sequence of events and commands.
THEOREM ListsStaySafe == Spec => []ListsAreSafe
<1>1. WindowInv => ListsAreSafe
  BY DEF WindowInv, Good, ListsAreSafe
<1> QED
  BY <1>1, WindowStaysGood, PTL

\* Between two actions nothing is left on the lists of an action that is over.
THEOREM NothingIsLeftPending == Spec => []IdleHasNothingPending
<1>1. WindowInv => IdleHasNothingPending
  <2> SUFFICES ASSUME Good(w), ~w.untidy, ~w.inside
               PROVE  /\ w.stretch = {} /\ w.grip = NoObject
                      /\ \A p \in Pages : w.place[p] \cap OnPages(w) = {}
    BY DEF WindowInv, IdleHasNothingPending
  <2>1. Idle(w) /\ w \in WindowStates
    BY GoodIsReady DEF Ready, Window_
  <2> QED
    BY <2>1, CopiesAreOff DEF Idle
<1> QED
  BY <1>1, WindowStaysGood, PTL

\* What o_delete.c:121 relies on: during a move the place list that holds objects of a
\* page is the selection of the page in view.
THEOREM MovedIsSelected == Spec => []MoveListIsSelection
<1>1. WindowInv => MoveListIsSelection
  <2> SUFFICES ASSUME Good(w), ~w.untidy, NEW p \in Pages, w.place[p] \cap OnPages(w) # {}
               PROVE  /\ p = w.cur /\ w.inside /\ w.mode = "MOVEMODE"
                      /\ Placed(w) = Selected(w) /\ Selected(w) \subseteq w.page[p]
    BY DEF WindowInv, MoveListIsSelection
  <2>1. w \in WindowStates /\ Lists(w)
    BY DEF Good, Window_
  <2>2. ~CopiesOnly(w, p)
    BY <2>1, CopiesAreOff
  <2>3. p = w.cur /\ Moving(w) /\ w.place[p] = w.sel[p]
    BY <2>1, <2>2 DEF Lists, CopiesOrMove
  <2> QED
    BY <2>1, <2>3 DEF Lists, PagesApart, Moving, Placed, Selected
<1> QED
  BY <1>1, WindowStaysGood, PTL
=============================================================================
