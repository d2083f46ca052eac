----------------------------- MODULE Placement -----------------------------
(***************************************************************************)
(* Moving, rotating and mirroring objects (geda_*_object.c), and what this *)
(* does to a component: its parts are moved in place, and beside them it   *)
(* keeps x, y, angle and mirror.  A file has no more than these four; when *)
(* it is read, the parts are made anew from the symbol.                    *)
(*                                                                         *)
(* Rotations are by 0, 90, 180 or 270 degrees (the editor's by 90; scripts *)
(* have their angle brought into that range, scheme_object.c:2190).  Arcs  *)
(* start at 0 to 359 degrees.  Coordinates have no bound, those of the     *)
(* code are ints.                                                          *)
(*                                                                         *)
(* A text's alignment is <<h, v>>: h is -1 for LEFT, 0 for MIDDLE and 1    *)
(* for RIGHT, v is -1 for LOWER, 0 for MIDDLE and 1 for UPPER.  Lines      *)
(* stand for nets, buses, pins and paths too, with all their points.       *)
(* Attributes that are promoted to the page are not parts.                 *)
(***************************************************************************)
EXTENDS Integers

CONSTANT Parts      \* the names of the parts of the component

VARIABLES symbol,   \* the objects in the symbol's file, by part
          comp,     \* the component: at (x and y), angle, mirror, parts
          onlySet   \* a script set the angle or the mirror flag and no more

vars == <<symbol, comp, onlySet>>

Points == Int \X Int
Origin == <<0, 0>>
Quarters == {0, 90, 180, 270}
Aligns == {-1, 0, 1} \X {-1, 0, 1}
Degrees == 0 .. 359

Line(pts) == [kind |-> "line", pts |-> pts]
Box(upper, lower) == [kind |-> "box", upper |-> upper, lower |-> lower]
Picture(upper, lower, angle, mirrored) ==
  [kind |-> "picture", upper |-> upper, lower |-> lower, angle |-> angle, mirrored |-> mirrored]
Circle(center, radius) == [kind |-> "circle", center |-> center, radius |-> radius]
Arc(center, radius, start, sweep) ==
  [kind |-> "arc", center |-> center, radius |-> radius, start |-> start, sweep |-> sweep]
Text(at, angle, align) == [kind |-> "text", at |-> at, angle |-> angle, align |-> align]

\* Boxes and pictures are known by their upper left and lower right corners.  The corners
\* are taken to be in order, though a file can hold a box of negative width or height
\* (geda_box_object.c:321-352), which turning or mirroring puts in order.
Ordered(p, q) == p[1] <= q[1] /\ q[2] <= p[2]

Lines == [kind : {"line"}, pts : UNION {[1 .. n -> Points] : n \in Nat}]
Boxes == {o \in [kind : {"box"}, upper : Points, lower : Points] : Ordered(o.upper, o.lower)}
Pictures == {o \in [kind : {"picture"}, upper : Points, lower : Points,
                    angle : Quarters, mirrored : BOOLEAN] : Ordered(o.upper, o.lower)}
Circles == [kind : {"circle"}, center : Points, radius : Nat]
Arcs == [kind : {"arc"}, center : Points, radius : Nat, start : Degrees, sweep : Int]
Texts == [kind : {"text"}, at : Points, angle : Quarters, align : Aligns]
Objects == Lines \cup Boxes \cup Pictures \cup Circles \cup Arcs \cup Texts

-----------------------------------------------------------------------------
\* Points, and the corners of boxes.
Plus(p, q) == <<p[1] + q[1], p[2] + q[2]>>
Minus(p) == <<-p[1], -p[2]>>

geda_point_rotate_90(p, a) ==
  CASE a = 0 -> p
    [] a = 90 -> <<-p[2], p[1]>>
    [] a = 180 -> <<-p[1], -p[2]>>
    [] a = 270 -> <<p[2], -p[1]>>

Mirrored(p) == <<-p[1], p[2]>>
MirroredAngle(a) == CASE a = 90 -> 270 [] a = 270 -> 90 [] OTHER -> a

\* "reorder the corners after rotation"
Lesser(i, j) == IF i <= j THEN i ELSE j
Greater(i, j) == IF i >= j THEN i ELSE j
UpperOf(p, q) == <<Lesser(p[1], q[1]), Greater(p[2], q[2])>>
LowerOf(p, q) == <<Greater(p[1], q[1]), Lesser(p[2], q[2])>>

-----------------------------------------------------------------------------
\* The functions of each kind of object.  Those of the code each take the object
\* to the origin, turn or mirror it there, and take it back; here they do the
\* middle, and geda_object_rotate and geda_object_mirror the rest, for all kinds.
geda_line_object_translate(o, d) == Line([i \in DOMAIN o.pts |-> Plus(o.pts[i], d)])
geda_line_object_rotate(o, a) == Line([i \in DOMAIN o.pts |-> geda_point_rotate_90(o.pts[i], a)])
geda_line_object_mirror(o) == Line([i \in DOMAIN o.pts |-> Mirrored(o.pts[i])])

geda_box_object_translate(o, d) == Box(Plus(o.upper, d), Plus(o.lower, d))
geda_box_object_rotate(o, a) ==
  LET u == geda_point_rotate_90(o.upper, a)
      l == geda_point_rotate_90(o.lower, a)
  IN  Box(UpperOf(u, l), LowerOf(u, l))
geda_box_object_mirror(o) ==
  LET u == Mirrored(o.upper)
      l == Mirrored(o.lower)
  IN  Box(UpperOf(u, l), LowerOf(u, l))

geda_picture_object_translate(o, d) ==
  Picture(Plus(o.upper, d), Plus(o.lower, d), o.angle, o.mirrored)
geda_picture_object_rotate(o, a) ==
  LET u == geda_point_rotate_90(o.upper, a)
      l == geda_point_rotate_90(o.lower, a)
  IN  Picture(UpperOf(u, l), LowerOf(u, l), (o.angle + a) % 360, o.mirrored)
geda_picture_object_mirror(o) ==
  LET u == Mirrored(o.upper)
      l == Mirrored(o.lower)
  IN  Picture(UpperOf(u, l), LowerOf(u, l), MirroredAngle(o.angle), ~o.mirrored)

geda_circle_object_translate(o, d) == Circle(Plus(o.center, d), o.radius)
geda_circle_object_rotate(o, a) == Circle(geda_point_rotate_90(o.center, a), o.radius)
geda_circle_object_mirror(o) == Circle(Mirrored(o.center), o.radius)

geda_arc_object_translate(o, d) == Arc(Plus(o.center, d), o.radius, o.start, o.sweep)
geda_arc_object_rotate(o, a) ==
  Arc(geda_point_rotate_90(o.center, a), o.radius, (o.start + a) % 360, o.sweep)
geda_arc_object_mirror(o) == Arc(Mirrored(o.center), o.radius, (180 - o.start) % 360, -o.sweep)

geda_text_object_translate(o, d) == Text(Plus(o.at, d), o.angle, o.align)
geda_text_object_rotate(o, a) ==
  Text(geda_point_rotate_90(o.at, a), (o.angle + a) % 360, o.align)
\* The angle stays; the alignment changes sides, along or across the text.
geda_text_object_mirror(o) ==
  Text(Mirrored(o.at), o.angle,
       IF o.angle % 180 = 0 THEN <<-o.align[1], o.align[2]>> ELSE <<o.align[1], -o.align[2]>>)

-----------------------------------------------------------------------------
geda_object_translate(o, d) ==
  CASE o.kind = "line" -> geda_line_object_translate(o, d)
    [] o.kind = "box" -> geda_box_object_translate(o, d)
    [] o.kind = "picture" -> geda_picture_object_translate(o, d)
    [] o.kind = "circle" -> geda_circle_object_translate(o, d)
    [] o.kind = "arc" -> geda_arc_object_translate(o, d)
    [] o.kind = "text" -> geda_text_object_translate(o, d)

\* Around the origin.
Turned(o, a) ==
  CASE o.kind = "line" -> geda_line_object_rotate(o, a)
    [] o.kind = "box" -> geda_box_object_rotate(o, a)
    [] o.kind = "picture" -> geda_picture_object_rotate(o, a)
    [] o.kind = "circle" -> geda_circle_object_rotate(o, a)
    [] o.kind = "arc" -> geda_arc_object_rotate(o, a)
    [] o.kind = "text" -> geda_text_object_rotate(o, a)

Flipped(o) ==
  CASE o.kind = "line" -> geda_line_object_mirror(o)
    [] o.kind = "box" -> geda_box_object_mirror(o)
    [] o.kind = "picture" -> geda_picture_object_mirror(o)
    [] o.kind = "circle" -> geda_circle_object_mirror(o)
    [] o.kind = "arc" -> geda_arc_object_mirror(o)
    [] o.kind = "text" -> geda_text_object_mirror(o)

\* "translate object to origin", "translate object back to normal position"
geda_object_rotate(o, center, a) ==
  geda_object_translate(Turned(geda_object_translate(o, Minus(center)), a), center)
geda_object_mirror(o, center) ==
  geda_object_translate(Flipped(geda_object_translate(o, Minus(center))), center)

geda_object_list_translate(f, d) == [i \in Parts |-> geda_object_translate(f[i], d)]
geda_object_list_rotate(f, center, a) == [i \in Parts |-> geda_object_rotate(f[i], center, a)]
geda_object_list_mirror(f, center) == [i \in Parts |-> geda_object_mirror(f[i], center)]

-----------------------------------------------------------------------------
\* The component.  Its parts are taken to the origin, turned, and to their place.
Complex(at, angle, mirror, parts) ==
  [at |-> at, angle |-> angle, mirror |-> mirror, parts |-> parts]

geda_complex_object_translate(c, d) ==
  Complex(Plus(c.at, d), c.angle, c.mirror, geda_object_list_translate(c.parts, d))

geda_complex_object_rotate(c, center, a) ==
  LET new == Plus(geda_point_rotate_90(Plus(c.at, Minus(center)), a), center)
      home == geda_complex_object_translate(c, Minus(c.at))
      turned == Complex(Origin, c.angle, c.mirror, geda_object_list_rotate(home.parts, Origin, a))
      moved == geda_complex_object_translate(turned, new)
  IN  Complex(moved.at, (c.angle + a) % 360, moved.mirror, moved.parts)

geda_complex_object_mirror(c, center) ==
  LET new == <<2 * center[1] - c.at[1], c.at[2]>>
      home == geda_complex_object_translate(c, Minus(c.at))
      flipped == Complex(home.at, MirroredAngle(c.angle), ~c.mirror,
                         geda_object_list_mirror(home.parts, Origin))
  IN  geda_complex_object_translate(flipped, new)

\* A component that is read from a file, placed, or updated.
o_complex_new(at, angle, mirror) ==
  LET read == IF mirror THEN geda_object_list_mirror(symbol, Origin) ELSE symbol
  IN  Complex(at, angle, mirror,
              geda_object_list_translate(geda_object_list_rotate(read, Origin, angle), at))

\* %set-complex!: the parts follow the position, not the angle or the mirror flag.
set_complex_x(c, at, angle, mirror) ==
  LET moved == geda_complex_object_translate(c, Plus(at, Minus(c.at)))
  IN  Complex(moved.at, angle, mirror, moved.parts)

-----------------------------------------------------------------------------
Init ==
  /\ symbol \in [Parts -> Objects]
  /\ \E at \in Points, a \in Quarters, m \in BOOLEAN : comp = o_complex_new(at, a, m)
  /\ onlySet = FALSE

\* The end of a move, a placement, %translate-object!.
Translate(d) ==
  /\ comp' = geda_complex_object_translate(comp, d)
  /\ UNCHANGED <<symbol, onlySet>>

\* Edit -> Rotate 90, alone or within a move or a placement, %rotate-object!.
Rotate(center, a) ==
  /\ comp' = geda_complex_object_rotate(comp, center, a)
  /\ UNCHANGED <<symbol, onlySet>>

Mirror(center) ==
  /\ comp' = geda_complex_object_mirror(comp, center)
  /\ UNCHANGED <<symbol, onlySet>>

\* set-component!, whose manual says that the contents are not updated with it.
SetComponent(at, a, m) ==
  /\ comp' = set_complex_x(comp, at, a, m)
  /\ onlySet' = (onlySet \/ a # comp.angle \/ m # comp.mirror)
  /\ UNCHANGED symbol

\* set-component-with-transform!: to nothing first, and from there to what is asked.
SetWithTransform(at, a, m) ==
  LET c == set_complex_x(comp, Origin, 0, FALSE)
      f == IF m THEN geda_complex_object_mirror(c, Origin) ELSE c
  IN  /\ comp' = geda_complex_object_translate(geda_complex_object_rotate(f, Origin, a), at)
      /\ onlySet' = (onlySet \/ comp.angle # 0 \/ comp.mirror)
      /\ UNCHANGED symbol

\* Edit -> Update Component, and reading the file again.
UpdateComponent ==
  /\ comp' = o_complex_new(comp.at, comp.angle, comp.mirror)
  /\ onlySet' = FALSE
  /\ UNCHANGED symbol

Next ==
  \/ \E d \in Points : Translate(d)
  \/ \E center \in Points, a \in Quarters : Rotate(center, a)
  \/ \E center \in Points : Mirror(center)
  \/ \E at \in Points, a \in Quarters, m \in BOOLEAN :
       SetComponent(at, a, m) \/ SetWithTransform(at, a, m)
  \/ UpdateComponent

Spec == Init /\ [][Next]_vars

-----------------------------------------------------------------------------
Complexes == [at : Points, angle : Quarters, mirror : BOOLEAN, parts : [Parts -> Objects]]

PlacementTypeOK ==
  /\ symbol \in [Parts -> Objects]
  /\ comp \in Complexes
  /\ onlySet \in BOOLEAN

\* A text that is read from the other end: the same place, the other direction.
Reversed(o) == Text(o.at, (o.angle + 180) % 360, <<-o.align[1], -o.align[2]>>)
Alike(o, p) == o = p \/ (p.kind = "text" /\ o = Reversed(p))

\* What the editor shows is what the file says: reading the component again
\* (geda_complex_object.c:441) from its four numbers gives the parts that the
\* moves, turns and mirrorings of any session have left on the page, unless a
\* script has only set the numbers.
ShownIsSaved ==
  ~onlySet => \A i \in Parts :
                Alike(comp.parts[i], o_complex_new(comp.at, comp.angle, comp.mirror).parts[i])
=============================================================================
