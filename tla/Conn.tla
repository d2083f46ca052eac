-------------------------------- MODULE Conn --------------------------------
(***************************************************************************)
(* The connections between the nets, buses and pins of a page:             *)
(* liblepton/src/s_conn.c (finding and forgetting connections), the page,  *)
(* component and editing operations that call it, and the consolidation of *)
(* net segments in geda_net_object.c.                                      *)
(*                                                                         *)
(* Every editing operation takes the objects it changes out of the         *)
(* connection system, changes their coordinates, and puts them back in.    *)
(***************************************************************************)
EXTENDS Integers, FiniteSets

CONSTANTS
  Objects,       \* the nets, buses and pins, on the page or inside components
  Type,          \* "net", "bus" or "pin"
  Parent,        \* the component an object is inside of, or NoParent
  NoParent,
  WhichEnd,      \* pin->whichend: the end of a pin that connects, 1 or 2
  Placements,    \* what can be put on a page at once: coordinates for one
                 \* object, or for all the objects inside one component
  Shapes,        \* the coordinates one object can be given later
  Moves,         \* rotations, mirrorings, translations: functions on lines
  Consolidate,   \* rc net-consolidate
  Scripts        \* are the transformations of the Scheme API used

Points == Int \X Int
Lines  == Points \X Points
NoLine == <<>>     \* the coordinates of an object that is not on the page

ASSUME ConnAssumption ==
  /\ Type \in [Objects -> {"net", "bus", "pin"}]
  /\ WhichEnd \in [Objects -> {1, 2}]
  /\ DOMAIN Parent = Objects
  /\ \A f \in Placements : DOMAIN f \subseteq Objects /\ f \in [DOMAIN f -> Lines]
  /\ Shapes \subseteq Lines
  /\ \A m \in Moves : DOMAIN m \subseteq Lines /\ m \in [DOMAIN m -> Lines]
  /\ Consolidate \in BOOLEAN
  /\ Scripts \in BOOLEAN

VARIABLES
  connectible,     \* page->connectible_list
  line,            \* object->line: its two ends
  pin_bus,         \* pin->pin_type is PIN_TYPE_BUS
  conn,            \* object->conn_list
  moved,           \* not in the code: objects a script has moved since their
                   \* connections were last looked for
  consolidating    \* geda_net_object_consolidate is at work

vars == <<connectible, line, pin_bus, conn, moved, consolidating>>

\* A CONN structure. Which of the two ends it is about is left out.
Conns == [other : Objects, type : {"endpoint", "midpoint"}, at : Points]

-----------------------------------------------------------------------------
(* The geometry s_conn_update_line_object looks at: lines ln, pin types pb. *)

\* The ends that can connect; of a pin, only one.
Ends(ln, o) == IF Type[o] = "pin" THEN {ln[o][WhichEnd[o]]} ELSE {ln[o][1], ln[o][2]}

is_bus_related(pb, o) == Type[o] = "bus" \/ (Type[o] = "pin" /\ pb[o])

check_direct_compat(pb, a, b) == is_bus_related(pb, a) = is_bus_related(pb, b)

Between(i, a, b) == (a < i /\ i < b) \/ (b < i /\ i < a)

\* s_conn_check_midpoint: is point q strictly inside a horizontal or vertical line.
s_conn_check_midpoint(l, q) ==
  \/ l[1][1] = l[2][1] /\ q[1] = l[1][1] /\ Between(q[2], l[1][2], l[2][2])
  \/ l[1][2] = l[2][2] /\ q[2] = l[1][2] /\ Between(q[1], l[1][1], l[2][1])

\* An object inside a component connects only within it, unless it is a pin.
Reachable(a, b) ==
  LET inside == {o \in {a, b} : Parent[o] # NoParent}
  IN  Parent[a] = Parent[b] \/ \A o \in inside : Type[o] = "pin"

EndsMeet(ln, pb, a, b) ==
  IF check_direct_compat(pb, a, b) THEN Ends(ln, a) \cap Ends(ln, b) ELSE {}

\* The ends of a that may connect to the middle of b, and lie there.
EndsInside(ln, pb, a, b) ==
  IF Type[b] # "pin" /\ ((Type[a] = "net" /\ Type[b] = "bus")
                          \/ check_direct_compat(pb, a, b))
  THEN {q \in Ends(ln, a) : s_conn_check_midpoint(ln[b], q)}
  ELSE {}

\* The connections the three loops give object a to object b.
Joints(ln, pb, a, b) ==
  IF a = b \/ ~Reachable(a, b) THEN {}
  ELSE [other : {b}, type : {"endpoint"}, at : EndsMeet(ln, pb, a, b)]
       \cup [other : {b}, type : {"midpoint"},
             at : EndsInside(ln, pb, a, b) \cup EndsInside(ln, pb, b, a)]

-----------------------------------------------------------------------------
(* s_conn.c *)

\* A mutant: only the lists of the removed objects are emptied.
ForgetOneSide(S) == [o \in Objects |-> IF o \in S THEN {} ELSE conn[o]]

\* s_conn_remove_object_connections for the objects of S: an object forgets
\* those of S that know about it.
s_conn_remove_object_connections(S) ==
  [o \in Objects |->
     IF o \in S THEN {}
     ELSE {c \in conn[o] : c.other \notin S \/ \A d \in conn[c.other] : d.other # o}]

\* A mutant: objects that come together are not compared with each other.
UpdateAgainstRest(cn, S, cset, ln, pb) ==
  [o \in Objects |->
     IF o \in cset
     THEN cn[o] \cup UNION {Joints(ln, pb, o, b) :
                               b \in IF o \in S THEN cset \ S ELSE S \cap cset}
     ELSE cn[o]]

\* s_conn_update_object for the objects of S, when cset are connectible: lists
\* cn gain every joint between an object of S and a connectible one.
s_conn_update_object(cn, S, cset, ln, pb) ==
  [o \in Objects |->
     IF o \in cset
     THEN cn[o] \cup UNION {Joints(ln, pb, o, b) : b \in IF o \in S THEN cset ELSE S \cap cset}
     ELSE cn[o]]

\* A mutant: the page still lists them.
LeftListed(S) ==
  /\ connectible' = connectible
  /\ conn' = s_conn_remove_object_connections(S)
  /\ line' = [o \in Objects |-> IF o \in S THEN NoLine ELSE line[o]]
  /\ pin_bus' = [o \in Objects |-> o \notin S /\ pin_bus[o]]
  /\ moved' = moved \ S

\* Objects of S leave the page and are freed.
Left(S) ==
  /\ connectible' = connectible \ S
  /\ conn' = s_conn_remove_object_connections(S)
  /\ line' = [o \in Objects |-> IF o \in S THEN NoLine ELSE line[o]]
  /\ pin_bus' = [o \in Objects |-> o \notin S /\ pin_bus[o]]
  /\ moved' = moved \ S

\* Objects of S come onto the page, or change there, with lines ln and types pb.
Joined(cn, S, cset, ln, pb) ==
  /\ connectible' = cset
  /\ line' = ln
  /\ pin_bus' = pb
  /\ conn' = s_conn_update_object(cn, S, cset, ln, pb)
  /\ moved' = (moved \cap cset) \ S

Placed(f) == [o \in Objects |-> IF o \in DOMAIN f THEN f[o] ELSE line[o]]

\* The objects that come and go with o: all those inside the same component.
Unit(o) == IF Parent[o] = NoParent THEN {o} ELSE {q \in Objects : Parent[q] = Parent[o]}

-----------------------------------------------------------------------------
(* Page and editing operations. *)

\* s_page_append, object_added.
Append(f) ==
  /\ ~consolidating
  /\ DOMAIN f \cap connectible = {}
  /\ Joined(conn, DOMAIN f, connectible \cup DOMAIN f, Placed(f), pin_bus)
  /\ UNCHANGED consolidating

\* s_page_remove, s_delete_object, and a net stretched to length zero.
Remove(o) ==
  /\ ~consolidating
  /\ o \in connectible
  /\ Left(Unit(o))
  /\ UNCHANGED consolidating

\* s_page_replace.
Replace(o, f) ==
  /\ ~consolidating
  /\ o \in connectible
  /\ DOMAIN f \cap (connectible \cup Unit(o)) = {}
  /\ Joined(s_conn_remove_object_connections(Unit(o)), DOMAIN f,
            (connectible \ Unit(o)) \cup DOMAIN f,
            [q \in Objects |-> IF q \in Unit(o) THEN NoLine ELSE Placed(f)[q]],
            [q \in Objects |-> q \notin Unit(o) /\ pin_bus[q]])
  /\ UNCHANGED consolidating

\* s_page_delete_objects.
Clear ==
  /\ ~consolidating
  /\ connectible # {}
  /\ Left(connectible)
  /\ UNCHANGED consolidating

\* One object gets new coordinates: o_grips_end_net, _pin and _bus,
\* o_move_end_lowlevel, o_move_end_rubberband, %set-line!.
Reshape(o, l) ==
  /\ ~consolidating
  /\ o \in connectible
  /\ l # line[o]
  /\ Joined(s_conn_remove_object_connections({o}), {o}, connectible,
            [line EXCEPT ![o] = l], pin_bus)
  /\ UNCHANGED consolidating

\* The selection is transformed: o_rotate_world_update, o_mirror_world_update,
\* o_complex_translate_all.
Transform(S, m) ==
  /\ ~consolidating
  /\ S # {} /\ S \subseteq connectible
  /\ \A o \in S : Unit(o) \cap connectible \subseteq S /\ line[o] \in DOMAIN m
  /\ Joined(s_conn_remove_object_connections(S), S, connectible,
            [o \in Objects |-> IF o \in S THEN m[line[o]] ELSE line[o]], pin_bus)
  /\ UNCHANGED consolidating

\* gschem_selection_adapter_set_pin_type.
SetPinType(o) ==
  /\ ~consolidating
  /\ o \in connectible
  /\ Type[o] = "pin"
  /\ Joined(s_conn_remove_object_connections({o}), {o}, connectible,
            line, [pin_bus EXCEPT ![o] = ~@])
  /\ UNCHANGED consolidating

\* %complex-remove! on a component of the page ...
ComplexRemove(o) ==
  /\ ~consolidating
  /\ o \in connectible
  /\ Parent[o] # NoParent
  /\ Left({o})
  /\ UNCHANGED consolidating

\* ... and %complex-append!, while the component has another object.
ComplexAppend(o, l) ==
  /\ ~consolidating
  /\ o \notin connectible
  /\ Parent[o] # NoParent
  /\ Unit(o) \cap connectible # {}
  /\ Joined(conn, {o}, connectible \cup {o}, [line EXCEPT ![o] = l], pin_bus)
  /\ UNCHANGED consolidating

\* %translate-object!, %rotate-object!, %mirror-object!, %set-complex!: the
\* coordinates change and no connection is looked at.
ScriptTransform(o, m) ==
  /\ Scripts
  /\ ~consolidating
  /\ o \in connectible
  /\ \A q \in Unit(o) \cap connectible : line[q] \in DOMAIN m
  /\ line' = [q \in Objects |-> IF q \in Unit(o) \cap connectible THEN m[line[q]] ELSE line[q]]
  /\ moved' = moved \cup (Unit(o) \cap connectible)
  /\ UNCHANGED <<connectible, pin_bus, conn, consolidating>>

-----------------------------------------------------------------------------
(* geda_net_object_consolidate, which o_undo_savestate runs after an edit. *)

horizontal(l) == l[1][2] = l[2][2]
vertical(l)   == ~horizontal(l) /\ l[1][1] = l[2][1]

SameOrientation(a, b) ==
  \/ horizontal(line[a]) /\ horizontal(line[b])
  \/ vertical(line[a]) /\ vertical(line[b])

\* A mutant: midpoint connections do not matter.
IgnoreMidpoints(a, q) == TRUE

\* No other object connects to the middle of net a at point q, nor a to another's.
o_net_consolidate_nomidpoint(a, q) ==
  \A c \in conn[a] : ~(c.type = "midpoint" /\ c.at = q)

\* o_net_consolidate_segments can merge net b into net a.
Mergeable(a, b) ==
  /\ a # b /\ Type[a] = "net" /\ Type[b] = "net"
  /\ Parent[a] = NoParent
  /\ \E c \in conn[a] : /\ c.other = b /\ c.type = "endpoint"
                        /\ o_net_consolidate_nomidpoint(a, c.at)
  /\ SameOrientation(a, b)

Least(S)    == CHOOSE i \in S : \A j \in S : i <= j
Greatest(S) == CHOOSE i \in S : \A j \in S : i >= j

\* A mutant: the upper end is the lesser of both, too.
MergedTooShort(k, l) ==
  LET low(i)  == Least({k[1][i], k[2][i], l[1][i], l[2][i]})
      high(i) == Least({k[2][i], l[2][i]})
  IN  IF horizontal(k)
      THEN <<<<low(1), k[1][2]>>, <<high(1), k[2][2]>>>>
      ELSE <<<<k[1][1], low(2)>>, <<k[2][1], high(2)>>>>

\* o_net_consolidate_lowlevel: a line as long as both.
Merged(k, l) ==
  LET xs == {k[1][1], k[2][1], l[1][1], l[2][1]}
      ys == {k[1][2], k[2][2], l[1][2], l[2][2]}
  IN  IF horizontal(k)
      THEN <<<<Least(xs), k[1][2]>>, <<Greatest(xs), k[2][2]>>>>
      ELSE <<<<k[1][1], Least(ys)>>, <<k[2][1], Greatest(ys)>>>>

\* o_undo_savestate with UNDO_ALL.
SaveState ==
  /\ Consolidate
  /\ ~consolidating
  /\ consolidating' = TRUE
  /\ UNCHANGED <<connectible, line, pin_bus, conn, moved>>

\* A mutant: net b is not deleted.
MergeKeepsOther(a, b) ==
  /\ consolidating
  /\ a \in connectible
  /\ Mergeable(a, b)
  /\ Joined(conn, {a}, connectible, [line EXCEPT ![a] = Merged(line[a], line[b])], pin_bus)
  /\ UNCHANGED consolidating

\* Net a takes over net b. The connections a has already are kept.
Merge(a, b) ==
  /\ consolidating
  /\ a \in connectible
  /\ Mergeable(a, b)
  /\ Joined(s_conn_remove_object_connections({b}), {a}, connectible \ {b},
            [line EXCEPT ![a] = Merged(line[a], line[b]), ![b] = NoLine], pin_bus)
  /\ UNCHANGED consolidating

ConsolidationEnds ==
  /\ consolidating
  /\ \A a, b \in connectible : ~Mergeable(a, b)
  /\ consolidating' = FALSE
  /\ UNCHANGED <<connectible, line, pin_bus, conn, moved>>

-----------------------------------------------------------------------------
Init ==
  /\ connectible = {}
  /\ line = [o \in Objects |-> NoLine]
  /\ pin_bus = [o \in Objects |-> FALSE]
  /\ conn = [o \in Objects |-> {}]
  /\ moved = {}
  /\ consolidating = FALSE

Next ==
  \/ \E f \in Placements : Append(f)
  \/ \E o \in Objects : Remove(o)
  \/ \E o \in Objects, f \in Placements : Replace(o, f)
  \/ Clear
  \/ \E o \in Objects, l \in Shapes : Reshape(o, l)
  \/ \E S \in SUBSET connectible, m \in Moves : Transform(S, m)
  \/ \E o \in Objects : SetPinType(o)
  \/ \E o \in Objects : ComplexRemove(o)
  \/ \E o \in Objects, l \in Shapes : ComplexAppend(o, l)
  \/ \E o \in Objects, m \in Moves : ScriptTransform(o, m)
  \/ SaveState
  \/ \E a, b \in Objects : Merge(a, b)
  \/ ConsolidationEnds

Spec == Init /\ [][Next]_vars

\* The loop of geda_net_object_consolidate runs on until it ends: nothing else runs
\* meanwhile.
FairSpec == Spec /\ WF_vars((\E a, b \in Objects : Merge(a, b)) \/ ConsolidationEnds)

-----------------------------------------------------------------------------
ConnTypeOK ==
  /\ connectible \subseteq Objects
  /\ line \in [Objects -> Lines \cup {NoLine}]
  /\ \A o \in connectible : line[o] \in Lines
  /\ pin_bus \in [Objects -> BOOLEAN]
  /\ conn \in [Objects -> SUBSET Conns]
  /\ moved \subseteq connectible
  /\ consolidating \in BOOLEAN

-----------------------------------------------------------------------------
(* Properties. *)

\* The connections object a should have to object b.
Expected(a, b) ==
  IF a \in connectible /\ b \in connectible THEN Joints(line, pin_bus, a, b) ELSE {}

\* s_conn_remove_object_connections relies on it to find every reference to an
\* object that is about to be freed: connections are always recorded on both
\* sides, and only between objects that are on the page.
ConnectionsMutual ==
  \A a \in Objects : \A c \in conn[a] :
    /\ a \in connectible /\ c.other \in connectible
    /\ [c EXCEPT !.other = a] \in conn[c.other]

\* s_conn_update_object, s_conn_remove_object_connections: after any operations
\* of editor and scripts, whatever their order, the recorded connections are
\* exactly those a fresh load of the page would find, except those of objects a
\* script has moved and no other operation has put back since.
ConnectionsExact ==
  \A a, b \in Objects \ moved : {c \in conn[a] : c.other = b} = Expected(a, b)

\* The same with net consolidation, which leaves some connections behind: none
\* that a fresh load would find is missing.
ConnectionsComplete ==
  \A a, b \in Objects \ moved : Expected(a, b) \subseteq conn[a]

EndSet(l) == {l[1], l[2]}

\* Point q is on line l, at an end or inside.
On(l, q) == q \in EndSet(l) \/ s_conn_check_midpoint(l, q)

\* geda_net_object_consolidate: a net that takes over others keeps the connections it
\* had, also those of the ends it no longer has. Of two objects no script has moved,
\* whatever was merged and edited since, a recorded connection is at a point that is
\* still on both lines, and between objects that may connect.
ConnectionsMeet ==
  \A a, b \in Objects \ moved : \A c \in conn[a] :
    c.other = b => Reachable(a, b) /\ On(line[a], c.at) /\ On(line[b], c.at)

\* geda_net_object_consolidate, "until no more consolidations are possible": the loop,
\* which starts over after every merge, ends, and no two nets that are left could be
\* merged.
ConsolidationEndsMerged ==
  consolidating ~> (~consolidating /\ \A a, b \in connectible : ~Mergeable(a, b))

\* Two objects are in one net, as a fresh load sees it, if no group of objects
\* contains just one of them and touches nothing outside.
Touch(ln, pb, a, b) == Joints(ln, pb, a, b) # {}
Linked(cset, ln, pb, a, b) ==
  \A S \in SUBSET cset :
    (a \in S /\ \A u \in S, v \in cset \ S : ~Touch(ln, pb, u, v)) => b \in S

\* Merging keeps the objects that are left in the nets they were in.
KeepsNets ==
  (consolidating /\ consolidating') =>
    \A a, b \in connectible \cap connectible' :
      Linked(connectible, line, pin_bus, a, b)
        <=> Linked(connectible', line', pin_bus', a, b)

\* The same for segments that share nothing but the point where they meet.
Abutting(a, b) ==
  /\ Cardinality(Ends(line, a) \cap Ends(line, b)) = 1
  /\ \A q \in Ends(line, a) : ~s_conn_check_midpoint(line[b], q)
  /\ \A q \in Ends(line, b) : ~s_conn_check_midpoint(line[a], q)

KeepsNetsAbutting ==
  (\A a, b \in connectible : Mergeable(a, b) => Abutting(a, b)) => KeepsNets

\* o_net_consolidate_nomidpoint, "Net segment's only can be merged if there is no
\* midpoint connection": merging two segments never changes which of the other objects
\* are connected, as long as no two segments to be merged run on top of each other.
ConsolidationKeepsAbuttingNets == [][KeepsNetsAbutting]_vars
=============================================================================
