--------------------------- MODULE SchemeObjects ---------------------------
(***************************************************************************)
(* Objects, attributes and their Scheme handles.                           *)
(*                                                                         *)
(* An object is loose, on a page, or part of a component.  A text can be   *)
(* attached to another object as an attribute; the object lists it in      *)
(* "attribs".  Scripts refer to objects by smobs.  A smob either protects  *)
(* itself from the garbage collector in smob_cache, while C code owns the  *)
(* object, or has the flag "gc" set: then the object is deleted when the   *)
(* collector finalizes the smob (liblepton/src/scheme_smob.c:41-63).       *)
(* An object tells the smobs in "weak" of its death.                       *)
(*                                                                         *)
(* Pointers are identifiers that are used again after the object is freed. *)
(* All objects but components are texts, the only kind that can be         *)
(* attached.  Scheme errors leave everything as it is and are no steps.    *)
(***************************************************************************)
EXTENDS Naturals, FiniteSets

CONSTANTS Objects, Components, Pages, Smobs, None

\* What the OBJECT structure says of an object's place, the handles to tell of its
\* death ("weak"), and what a smob refers to.
Object == [page    : Pages \cup {None},
           parent  : Objects \cup {None},
           owner   : Objects \cup {None},
           attribs : SUBSET Objects,
           copied  : Objects \cup {None},
           weak    : SUBSET Smobs]
Handle == [data : Objects \cup {None}, gc : BOOLEAN, held : BOOLEAN]

ASSUME SchemeAssumption ==
  /\ Components \subseteq Objects
  /\ None \notin Objects \cup Pages \cup Smobs
  /\ None \notin Object \cup Handle

\* m.heap: the objects, None where nothing is allocated; m.smob: the handles,
\* None where there is none; m.cache: smob_cache; m.twice: the objects that got a
\* second handle; m.stray: a copied attribute went to what another copy command had
\* left in copied_to.
VARIABLE m

Live == {o \in Objects : m.heap[o] # None}
Texts == Objects \ Components
Unused == {s \in Smobs : m.smob[s] = None}

HandlesOf(o) == {s \in Smobs : m.smob[s] # None /\ m.smob[s].data = o}
\* What scripts refer to by a smob that is still valid.
Named == {s \in Smobs \ Unused : m.smob[s].held /\ m.smob[s].data # None}

s_basic_init_object == [page |-> None, parent |-> None, owner |-> None, attribs |-> {},
                        copied |-> None, weak |-> {}]

o_get_page(o) == LET q == m.heap[o].parent
                 IN  IF q # None THEN m.heap[q].page ELSE m.heap[o].page
Loose(o) == m.heap[o].page = None /\ m.heap[o].parent = None
Contents(o) == {c \in Live : m.heap[c].parent = o}
WithContents(S) == S \cup UNION {Contents(o) : o \in S}

-----------------------------------------------------------------------------
\* Handles.

\* edascm_from_object: the cached smob, or the new smob s.
FromObject(w, o, s) ==
  IF w.cache[o] # None
  THEN [w EXCEPT !.smob[w.cache[o]].held = TRUE]
  ELSE [w EXCEPT !.smob[s] = [data |-> o, gc |-> FALSE, held |-> TRUE],
                 !.heap[o].weak = @ \cup {s},
                 !.cache[o] = s,
                !.twice = IF HandlesOf(o) = {} THEN @ ELSE @ \cup {o}]

edascm_c_set_gc(w, s, gc) ==
  LET o == w.smob[s].data
  IN  [w EXCEPT !.cache[o] = IF gc = w.smob[s].gc THEN @ ELSE IF gc THEN None ELSE s,
                !.smob[s].gc = gc]

\* The objects of S die: they leave the lists they are in, their attributes are
\* detached, and their handles are told.
s_delete_object(w, S) ==
  LET told     == UNION {w.heap[o].weak : o \in S}
      detached == UNION {w.heap[o].attribs : o \in S}
      left(o)  == {a \in S : w.heap[a].owner = o}
  IN [w EXCEPT
       !.heap  = [o \in Objects |->
                    IF o \in S \/ w.heap[o] = None THEN None
                    ELSE [w.heap[o] EXCEPT !.attribs = @ \ left(o),
                                           !.owner   = IF o \in detached THEN None ELSE @]],
       !.smob  = [s \in Smobs |-> IF s \in told THEN [w.smob[s] EXCEPT !.data = None]
                                  ELSE w.smob[s]],
       !.cache = [o \in Objects |-> IF o \in S /\ w.heap[o].weak # {} THEN None
                                    ELSE w.cache[o]],
       !.twice = @ \ S]

\* A script finds an object and gets its handle: the contents of a page
\* (page-contents) or component (component-contents), the component an object is
\* in (object-component), attributes (object-attribs) and what they are attached
\* to (attrib-attachment).
Ask(o, s) ==
  /\ m.cache[o] # None \/ s \in Unused
  /\ \/ m.heap[o].page # None
     \/ \E t \in Named : LET q == m.smob[t].data
                         IN  o = m.heap[q].parent \/ m.heap[o].parent = q
                             \/ o = m.heap[q].owner \/ o \in m.heap[q].attribs
  /\ m' = FromObject(m, o, s)

\* A script forgets a handle ...
Drop(s) ==
  /\ m.smob[s] # None
  /\ m.smob[s].held
  /\ m' = [m EXCEPT !.smob[s].held = FALSE]

\* A mutant: the object goes on telling a handle that is gone.
FreeStaysRegistered(w, s) ==
  LET o == w.smob[s].data
  IN  IF o # None /\ w.smob[s].gc
      THEN [s_delete_object(w, WithContents({o})) EXCEPT !.smob[s] = None]
      ELSE [w EXCEPT !.smob[s] = None]

\* ... and smob_free removes it.
smob_free(w, s) ==
  LET o == w.smob[s].data
      v == [w EXCEPT !.heap[o].weak = @ \ {s}]
  IN  IF o = None THEN [w EXCEPT !.smob[s] = None]
      ELSE IF w.smob[s].gc THEN [s_delete_object(v, WithContents({o})) EXCEPT !.smob[s] = None]
      ELSE [v EXCEPT !.smob[s] = None]

\* The collector finalizes a smob that neither a script nor smob_cache refers to.
Collect(s) ==
  /\ m.smob[s] # None
  /\ ~m.smob[s].held
  /\ \A o \in Objects : m.cache[o] # s
  /\ m' = smob_free(m, s)

-----------------------------------------------------------------------------
\* Objects that scripts make, copy and put into pages and components.

\* A new object o with the contents K.
Made(w, o, K) ==
  [w EXCEPT !.heap = [x \in Objects |-> IF x = o THEN s_basic_init_object
                                        ELSE IF x \in K
                                        THEN [s_basic_init_object EXCEPT !.parent = o]
                                        ELSE w.heap[x]]]

Owned(w, o, s) == edascm_c_set_gc(FromObject(w, o, s), s, TRUE)

Fresh(o, K) ==
  /\ o \notin Live
  /\ K \subseteq Texts \ (Live \cup {o})
  /\ o \notin Components => K = {}
  /\ Cardinality(K) <= 1

Make(o, K, s) ==
  /\ s \in Unused
  /\ Fresh(o, K)
  /\ m' = Owned(Made(m, o, K), o, s)

\* o_attrib_attach
Attached(w, a, q) ==
  IF a \in Components \/ w.heap[a] = None \/ w.heap[q] = None \/ w.heap[a].owner # None THEN w
  ELSE [w EXCEPT !.heap = [w.heap EXCEPT ![a].owner = q, ![q].attribs = @ \cup {a}]]

\* Copies f[o] of the objects o of S with their contents.  o_glist_copy_all
\* copies the texts L last: each is attached to the copy of its object, or to
\* what copied_to holds from an earlier copy if its object is not copied or, being
\* a text of the set late, is copied after it.
Image(f, L, a, late) ==
  LET q == m.heap[a].owner
  IN  IF a \notin L \/ q = None THEN None
      ELSE IF q \in DOMAIN f /\ a \notin late THEN f[q] ELSE m.heap[q].copied

Copies(f, L, late) ==
  LET from(x) == CHOOSE o \in DOMAIN f : f[o] = x
      new     == {f[o] : o \in DOMAIN f}
      to(x)   == Image(f, L, from(x), late)
      copy(x) == [s_basic_init_object EXCEPT
                    !.parent  = LET q == m.heap[from(x)].parent
                                IN  IF q \in DOMAIN f THEN f[q] ELSE None,
                    !.owner   = IF to(x) \in new \cup Live THEN to(x) ELSE None,
                    !.attribs = {y \in new : to(y) = x}]
  IN [m EXCEPT
       !.heap = [x \in Objects |->
                   IF x \in new THEN copy(x)
                   ELSE IF x \in Live
                   THEN [m.heap[x] EXCEPT !.attribs = @ \cup {y \in new : to(y) = x},
                                          !.copied  = IF x \in L THEN None ELSE @]
                   ELSE None],
       !.stray = @ \/ \E a \in DOMAIN f : Image(f, L, a, late) \notin
                        {None} \cup {f[q] : q \in DOMAIN f \cap {m.heap[a].owner}}]

IsCopying(f, S, L, late) ==
  /\ DOMAIN f = WithContents(S)
  /\ \A o \in DOMAIN f : /\ f[o] \in Objects \ Live
                         /\ f[o] \in Components <=> o \in Components
                         /\ \A x \in DOMAIN f : f[x] = f[o] => x = o
  /\ late \subseteq {a \in L : m.heap[a].owner \in Texts \ {a}}

\* copy-object leaves copied_to set.
CopyObject(t, f, late, s) ==
  LET o == m.smob[t].data
  IN  /\ t \in Named
      /\ s \in Unused
      /\ IsCopying(f, {o}, Contents(o), late)
      /\ m' = Owned([Copies(f, Contents(o), late) EXCEPT !.heap[o].copied = f[o]], f[o], s)

\* A mutant: the handle goes on owning the object.
AppendOwned(t, p) ==
  /\ t \in Named
  /\ Loose(m.smob[t].data)
  /\ m' = [m EXCEPT !.heap[m.smob[t].data].page = p]

PageAppend(t, p) ==
  LET o == m.smob[t].data
  IN  /\ t \in Named
      /\ Loose(o)
      /\ m' = [edascm_c_set_gc(m, t, FALSE) EXCEPT !.heap[o].page = p]

\* A mutant: an object is removed that has attributes.
RemoveWithAttribs(t, p) ==
  LET o == m.smob[t].data
  IN  /\ t \in Named
      /\ m.heap[o].parent = None
      /\ m.heap[o].page = p
      /\ m.heap[o].owner = None
      /\ m' = edascm_c_set_gc([m EXCEPT !.heap[o].page = None], t, TRUE)

PageRemove(t, p) ==
  LET o == m.smob[t].data
  IN  /\ t \in Named
      /\ m.heap[o].parent = None
      /\ m.heap[o].page = p
      /\ m.heap[o].owner = None
      /\ m.heap[o].attribs = {}
      /\ m' = edascm_c_set_gc([m EXCEPT !.heap[o].page = None], t, TRUE)

ComplexAppend(t, c) ==
  LET o == m.smob[t].data
      q == m.smob[c].data
  IN  /\ {t, c} \subseteq Named
      /\ q \in Components
      /\ o \notin Components
      /\ Loose(o)
      /\ m' = [edascm_c_set_gc(m, t, FALSE) EXCEPT !.heap[o].parent = q]

ComplexRemove(t, c) ==
  LET o == m.smob[t].data
  IN  /\ {t, c} \subseteq Named
      /\ m.smob[c].data \in Components
      /\ m.heap[o].parent = m.smob[c].data
      /\ m.heap[o].owner = None
      /\ m.heap[o].attribs = {}
      /\ m' = edascm_c_set_gc([m EXCEPT !.heap[o].parent = None], t, TRUE)

MayAttach(a, q) ==
  /\ m.heap[q].parent = m.heap[a].parent
  /\ o_get_page(q) = o_get_page(a)
  /\ m.heap[q].parent # None \/ o_get_page(q) # None
  /\ m.heap[q].owner = None
  /\ m.heap[a].owner = None

AttachAttrib(t, c) ==
  LET a == m.smob[t].data
      q == m.smob[c].data
  IN  /\ {t, c} \subseteq Named
      /\ a \in Texts
      /\ MayAttach(a, q)
      /\ m' = Attached(m, a, q)

DetachAttrib(t, c) ==
  LET a == m.smob[t].data
      q == m.smob[c].data
  IN  /\ {t, c} \subseteq Named
      /\ a \in Texts
      /\ m.heap[a].owner = q
      /\ m' = [m EXCEPT !.heap = [m.heap EXCEPT ![a].owner = None, ![q].attribs = @ \ {a}]]

-----------------------------------------------------------------------------
\* What the user does to the same objects.

OnPage(p) == {o \in Live : m.heap[o].page = p}

EditorAdd(p, o, K) ==
  /\ Fresh(o, K)
  /\ m' = [Made(m, o, K) EXCEPT !.heap[o].page = p]

EditorDelete(p, o) ==
  /\ o \in OnPage(p)
  /\ m' = s_delete_object(m, WithContents({o}))

\* Copy and place, cut and paste ...: o_glist_copy_all.
EditorCopy(p, S, f, late) ==
  LET w == Copies(f, DOMAIN f, late)
  IN  /\ S # {}
      /\ S \subseteq OnPage(p)
      /\ IsCopying(f, S, DOMAIN f, late)
      /\ m' = [w EXCEPT !.heap = [x \in Objects |-> IF \E o \in S : f[o] = x
                                                    THEN [w.heap[x] EXCEPT !.page = p]
                                                    ELSE w.heap[x]]]

\* Attach checks what o_attrib_attach checks.
EditorAttach(p, a, q) ==
  /\ {a, q} \subseteq OnPage(p)
  /\ a # q
  /\ a \in Texts
  /\ m.heap[a].owner = None
  /\ m' = Attached(m, a, q)

EditorDetach(p, q) ==
  /\ q \in OnPage(p)
  /\ m.heap[q].attribs # {}
  /\ m' = [m EXCEPT !.heap = [o \in Objects |->
             IF o = q
             THEN [m.heap[o] EXCEPT !.attribs = {},
                                    !.owner = IF q \in m.heap[q].attribs THEN None ELSE @]
             ELSE IF o \in m.heap[q].attribs THEN [m.heap[o] EXCEPT !.owner = None]
             ELSE m.heap[o]]]

\* Close page; undo and redo too delete the objects of a page, and read others.
ClosePage(p) ==
  /\ OnPage(p) # {}
  /\ m' = s_delete_object(m, WithContents(OnPage(p)))

-----------------------------------------------------------------------------
Init == m = [heap  |-> [o \in Objects |-> None],
             smob  |-> [s \in Smobs |-> None],
             cache |-> [o \in Objects |-> None],
             twice |-> {},
             stray |-> FALSE]

Copying(S) == [WithContents(S) -> Objects \ Live]

Next ==
  \/ \E s \in Smobs : Drop(s) \/ Collect(s)
  \/ \E o \in Live, s \in Smobs : Ask(o, s)
  \/ \E o \in Objects, K \in SUBSET Texts :
       \/ \E s \in Smobs : Make(o, K, s)
       \/ \E p \in Pages : EditorAdd(p, o, K)
  \/ \E t \in Named, s \in Smobs, late \in SUBSET Texts :
       \E f \in Copying({m.smob[t].data}) : CopyObject(t, f, late, s)
  \/ \E t \in Named, p \in Pages : PageAppend(t, p) \/ PageRemove(t, p)
  \/ \E t, c \in Named :
       \/ ComplexAppend(t, c)
       \/ ComplexRemove(t, c)
       \/ AttachAttrib(t, c)
       \/ DetachAttrib(t, c)
  \/ \E p \in Pages :
       \/ ClosePage(p)
       \/ \E o \in OnPage(p) : EditorDelete(p, o) \/ EditorDetach(p, o)
       \/ \E a, q \in OnPage(p) : EditorAttach(p, a, q)
       \/ \E S \in SUBSET OnPage(p), late \in SUBSET Texts :
            \E f \in Copying(S) : EditorCopy(p, S, f, late)

Spec == Init /\ [][Next]_m

-----------------------------------------------------------------------------
\* A handle refers to an object that is there, which knows it; smob_cache holds
\* handles of living objects that C code owns.  The finalizer of a smob and the
\* notification of a dead object write through these pointers.
HandlesAreValid ==
  /\ \A o \in Live : m.heap[o].weak = HandlesOf(o)
  /\ \A o \in Objects \ Live : HandlesOf(o) = {}
  /\ \A o \in Objects : m.cache[o] # None => m.cache[o] \in HandlesOf(o) /\ ~m.smob[m.cache[o]].gc

\* The garbage collector can delete an object that is not in use anywhere else, and
\* only such objects: every loose object a script has made, copied or taken off a page or
\* out of a component has a handle that owns it, so that it is not leaked, and an object
\* on a page or in a component has none (scheme_smob.c:47-54), unless object-component
\* made a second handle of a loose component.  The objects of the editor's place list
\* and buffers, loose too but owned by C, are not in this model.
CollectorOwnsLooseObjects ==
  \A o \in Live :
    LET owned == \E s \in HandlesOf(o) : m.smob[s].gc
    IN  (Loose(o) => owned) /\ (owned => Loose(o) \/ o \in m.twice)

\* An attribute and the object it is attached to know of each other: otherwise
\* deleting one of them leaves a pointer to freed memory in the other.  And they are on
\* the same page or in the same component, otherwise saving the page leaves the
\* attribute out, unless a copy went to what another copy command had left.
AttachmentsStayTogether ==
  \A a \in Live :
    /\ \A b \in m.heap[a].attribs : b \in Live /\ m.heap[b].owner = a
    /\ LET q == m.heap[a].owner
       IN  q # None => /\ q \in Live
                       /\ a \in m.heap[q].attribs
                       /\ m.stray \/ /\ m.heap[q].page = m.heap[a].page
                                     /\ m.heap[q].parent = m.heap[a].parent
=============================================================================
