-------------------------- MODULE PlacementProofs --------------------------
(***************************************************************************)
(* Theorems about the placement of components of module Placement.  The    *)
(* lemmas give the laws of moving, turning and flipping one object; the    *)
(* theorem follows from them as in a group.                                *)
(***************************************************************************)
EXTENDS Placement, TLAPS

Together(a, b) == (a + b) % 360

-----------------------------------------------------------------------------
(* Points and angles. *)

LEMMA Angles ==
  ASSUME NEW a \in Quarters, NEW b \in Quarters
  PROVE  /\ Together(a, b) \in Quarters
         /\ MirroredAngle(a) \in Quarters
         /\ MirroredAngle(MirroredAngle(a)) = a
         /\ MirroredAngle(Together(a, b)) = Together(MirroredAngle(a), MirroredAngle(b))
         /\ Together(a, 0) = a
BY DEF Quarters, Together, MirroredAngle

LEMMA MinusZero == \A x \in Int : x = 0 => -x = 0
<1>1. \A x \in Int : -x = 0 - x /\ x + (-x) = 0
  OBVIOUS
<1>2. \A x \in Int : -x \in Int
  OBVIOUS
<1> QED
  BY <1>1, <1>2

LEMMA PlusAssociates ==
  ASSUME NEW p \in Points, NEW d \in Points, NEW e \in Points
  PROVE  Plus(Plus(p, d), e) = Plus(p, Plus(d, e))
BY DEF Points, Plus

LEMMA PointsMove ==
  ASSUME NEW p \in Points, NEW d \in Points, NEW e \in Points
  PROVE  /\ Plus(p, d) \in Points /\ Minus(p) \in Points /\ Origin \in Points
         /\ Plus(Plus(p, d), e) = Plus(p, Plus(d, e))
         /\ Plus(p, Origin) = p
         /\ Minus(Origin) = Origin
         /\ Plus(d, Minus(d)) = Origin
         /\ Plus(d, Plus(e, Minus(d))) = e
<1>1. /\ p = <<p[1], p[2]>> /\ p[1] \in Int /\ p[2] \in Int
      /\ d = <<d[1], d[2]>> /\ d[1] \in Int /\ d[2] \in Int
      /\ e = <<e[1], e[2]>> /\ e[1] \in Int /\ e[2] \in Int
  BY DEF Points
<1>2. \A x, y \in Int : /\ x + 0 = x /\ x + (-x) = 0 /\ x + (y + (-x)) = y
                        /\ \A z \in Int : (x + y) + z = x + (y + z)
  OBVIOUS
<1>3. Plus(p, d) \in Points /\ Minus(p) \in Points /\ Origin \in Points
  BY <1>1 DEF Points, Plus, Minus, Origin
<1>4. Plus(Plus(p, d), e) = Plus(p, Plus(d, e))
  BY <1>1, <1>2 DEF Plus
<1>5. Plus(p, Origin) = p
  <2>1. Plus(p, Origin) = <<p[1] + 0, p[2] + 0>>
    BY DEF Plus, Origin
  <2> QED
    BY <1>1, <1>2, <2>1
<1>9. Minus(Origin) = Origin
  <2>1. Origin[1] = 0 /\ Origin[2] = 0
    BY DEF Origin
  <2>2. Minus(Origin) = <<-Origin[1], -Origin[2]>>
    BY DEF Minus
  <2>3. Origin[1] \in Int /\ Origin[2] \in Int
    BY <2>1
  <2>4. -Origin[1] = 0 /\ -Origin[2] = 0
    BY <2>1, <2>3, MinusZero
  <2> QED
    BY <2>2, <2>4 DEF Origin
<1>6. Plus(d, Minus(d)) = Origin
  <2>1. Plus(d, Minus(d)) = <<d[1] + (-d[1]), d[2] + (-d[2])>>
    BY DEF Plus, Minus
  <2> QED
    BY <1>1, <1>2, <2>1 DEF Origin
<1>7. Plus(d, Plus(e, Minus(d))) = <<d[1] + (e[1] + (-d[1])), d[2] + (e[2] + (-d[2]))>>
  BY DEF Plus, Minus
<1>8. Plus(d, Plus(e, Minus(d))) = e
  BY <1>1, <1>2, <1>7
<1> QED
  BY <1>3, <1>4, <1>5, <1>6, <1>8, <1>9

LEMMA PointsTurn ==
  ASSUME NEW p \in Points, NEW a \in Quarters, NEW b \in Quarters
  PROVE  /\ geda_point_rotate_90(p, a) \in Points
         /\ Mirrored(p) \in Points
         /\ Mirrored(Mirrored(p)) = p
         /\ geda_point_rotate_90(geda_point_rotate_90(p, a), b)
              = geda_point_rotate_90(p, Together(a, b))
         /\ Mirrored(geda_point_rotate_90(p, a))
              = geda_point_rotate_90(Mirrored(p), MirroredAngle(a))
BY DEF Points, Quarters, geda_point_rotate_90, Mirrored, Together, MirroredAngle

LEMMA TogetherAssociates ==
  ASSUME NEW a \in Quarters, NEW b \in Quarters, NEW c \in Quarters
  PROVE  Together(Together(a, b), c) = Together(a, Together(b, c))
BY DEF Quarters, Together

-----------------------------------------------------------------------------
(* Lines. *)

LEMMA LineLaws ==
  ASSUME NEW o \in Lines, NEW d \in Points, NEW e \in Points,
         NEW a \in Quarters, NEW b \in Quarters
  PROVE  /\ geda_line_object_translate(o, d) \in Lines
         /\ geda_line_object_rotate(o, a) \in Lines
         /\ geda_line_object_mirror(o) \in Lines
         /\ geda_line_object_translate(geda_line_object_translate(o, d), e)
              = geda_line_object_translate(o, Plus(d, e))
         /\ geda_line_object_translate(o, Origin) = o
         /\ geda_line_object_rotate(geda_line_object_rotate(o, a), b)
              = geda_line_object_rotate(o, Together(a, b))
         /\ geda_line_object_mirror(geda_line_object_mirror(o)) = o
         /\ geda_line_object_mirror(geda_line_object_rotate(o, a))
              = geda_line_object_rotate(geda_line_object_mirror(o), MirroredAngle(a))
<1>1. PICK n \in Nat : o.pts \in [1 .. n -> Points] /\ o.kind = "line"
  BY DEF Lines
<1>2. o = Line(o.pts)
  BY DEF Lines, Line
<1>3. ASSUME NEW f \in [1 .. n -> Points]
      PROVE  Line(f) \in Lines
  BY DEF Lines, Line
<1> DEFINE L(f) == Line(f)
<1>4. ASSUME NEW f \in [1 .. n -> Points], NEW g \in Points, NEW c \in Quarters
      PROVE  /\ geda_line_object_translate(L(f), g) = L([i \in 1 .. n |-> Plus(f[i], g)])
             /\ geda_line_object_rotate(L(f), c) = L([i \in 1 .. n |-> geda_point_rotate_90(f[i], c)])
             /\ geda_line_object_mirror(L(f)) = L([i \in 1 .. n |-> Mirrored(f[i])])
             /\ [i \in 1 .. n |-> Plus(f[i], g)] \in [1 .. n -> Points]
             /\ [i \in 1 .. n |-> geda_point_rotate_90(f[i], c)] \in [1 .. n -> Points]
             /\ [i \in 1 .. n |-> Mirrored(f[i])] \in [1 .. n -> Points]
  <2>1. DOMAIN f = 1 .. n
    OBVIOUS
  <2>2. \A i \in 1 .. n : /\ Plus(f[i], g) \in Points
                          /\ geda_point_rotate_90(f[i], c) \in Points
                          /\ Mirrored(f[i]) \in Points
    BY PointsMove, PointsTurn
  <2>3. /\ geda_line_object_translate(L(f), g) = L([i \in 1 .. n |-> Plus(f[i], g)])
        /\ geda_line_object_rotate(L(f), c) = L([i \in 1 .. n |-> geda_point_rotate_90(f[i], c)])
        /\ geda_line_object_mirror(L(f)) = L([i \in 1 .. n |-> Mirrored(f[i])])
    <3>1. L(f).pts = f
      BY DEF Line
    <3> QED
      BY <2>1, <3>1 DEF geda_line_object_translate, geda_line_object_rotate, geda_line_object_mirror
  <2> QED
    BY <2>2, <2>3
<1> DEFINE f == o.pts
           Moved(g, p) == [i \in 1 .. n |-> Plus(g[i], p)]
           Spun(g, c) == [i \in 1 .. n |-> geda_point_rotate_90(g[i], c)]
           Flip(g) == [i \in 1 .. n |-> Mirrored(g[i])]
<1>5. \A i \in 1 .. n : f[i] \in Points
  BY <1>1
<1>6. /\ Plus(d, e) \in Points /\ Origin \in Points
      /\ Together(a, b) \in Quarters /\ MirroredAngle(a) \in Quarters
  BY PointsMove, Angles
<1>7. Moved(Moved(f, d), e) = Moved(f, Plus(d, e))
  BY <1>5, PointsMove
<1>8. Moved(f, Origin) = f
  BY <1>1, <1>5, PointsMove
<1>9. Spun(Spun(f, a), b) = Spun(f, Together(a, b))
  BY <1>5, PointsTurn
<1>10. Flip(Flip(f)) = f
  BY <1>1, <1>5, PointsTurn
<1>11. Flip(Spun(f, a)) = Spun(Flip(f), MirroredAngle(a))
  BY <1>5, PointsTurn
<1>12. o = L(f)
  BY <1>2
<1>13. /\ Moved(f, d) \in [1 .. n -> Points] /\ Spun(f, a) \in [1 .. n -> Points]
       /\ Flip(f) \in [1 .. n -> Points]
  BY <1>1, <1>4
<1>14. /\ geda_line_object_translate(o, d) = L(Moved(f, d))
       /\ geda_line_object_rotate(o, a) = L(Spun(f, a))
       /\ geda_line_object_mirror(o) = L(Flip(f))
       /\ geda_line_object_translate(o, Origin) = L(Moved(f, Origin))
       /\ geda_line_object_translate(o, Plus(d, e)) = L(Moved(f, Plus(d, e)))
       /\ geda_line_object_rotate(o, Together(a, b)) = L(Spun(f, Together(a, b)))
  BY <1>1, <1>4, <1>6, <1>12
<1>15. /\ geda_line_object_translate(L(Moved(f, d)), e) = L(Moved(Moved(f, d), e))
       /\ geda_line_object_rotate(L(Spun(f, a)), b) = L(Spun(Spun(f, a), b))
       /\ geda_line_object_mirror(L(Flip(f))) = L(Flip(Flip(f)))
       /\ geda_line_object_mirror(L(Spun(f, a))) = L(Flip(Spun(f, a)))
       /\ geda_line_object_rotate(L(Flip(f)), MirroredAngle(a)) = L(Spun(Flip(f), MirroredAngle(a)))
  BY <1>4, <1>6, <1>13
<1>16. L(Moved(f, d)) \in Lines /\ L(Spun(f, a)) \in Lines /\ L(Flip(f)) \in Lines
  BY <1>3, <1>13
<1> HIDE DEF L, f, Moved, Spun, Flip
<1> QED
  BY <1>7, <1>8, <1>9, <1>10, <1>11, <1>12, <1>14, <1>15, <1>16
-----------------------------------------------------------------------------
(* Boxes and pictures: their corners. *)

LEMMA CornersMove ==
  ASSUME NEW p \in Points, NEW q \in Points, NEW d \in Points, Ordered(p, q)
  PROVE  Ordered(Plus(p, d), Plus(q, d))
BY DEF Points, Ordered, Plus

LEMMA CornersOrdered ==
  ASSUME NEW p \in Points, NEW q \in Points
  PROVE  /\ UpperOf(p, q) \in Points /\ LowerOf(p, q) \in Points
         /\ Ordered(UpperOf(p, q), LowerOf(p, q))
BY DEF Points, Ordered, UpperOf, LowerOf, Lesser, Greater

LEMMA CornersFlip ==
  ASSUME NEW p \in Points, NEW q \in Points, Ordered(p, q)
  PROVE  LET u == UpperOf(Mirrored(p), Mirrored(q))
             l == LowerOf(Mirrored(p), Mirrored(q))
         IN  UpperOf(Mirrored(u), Mirrored(l)) = p /\ LowerOf(Mirrored(u), Mirrored(l)) = q
BY DEF Points, Ordered, UpperOf, LowerOf, Lesser, Greater, Mirrored

LEMMA CornersTurn ==
  ASSUME NEW p \in Points, NEW q \in Points, Ordered(p, q), NEW a \in Quarters, NEW b \in Quarters
  PROVE  LET r(x, c) == geda_point_rotate_90(x, c)
             u == UpperOf(r(p, a), r(q, a))
             l == LowerOf(r(p, a), r(q, a))
         IN  /\ UpperOf(r(u, b), r(l, b)) = UpperOf(r(p, Together(a, b)), r(q, Together(a, b)))
             /\ LowerOf(r(u, b), r(l, b)) = LowerOf(r(p, Together(a, b)), r(q, Together(a, b)))
BY DEF Points, Ordered, UpperOf, LowerOf, Lesser, Greater, Quarters, Together, geda_point_rotate_90

LEMMA CornersTurnAndFlip ==
  ASSUME NEW p \in Points, NEW q \in Points, Ordered(p, q), NEW a \in Quarters
  PROVE  LET r(x, c) == geda_point_rotate_90(x, c)
             u == UpperOf(r(p, a), r(q, a))
             l == LowerOf(r(p, a), r(q, a))
             fu == UpperOf(Mirrored(p), Mirrored(q))
             fl == LowerOf(Mirrored(p), Mirrored(q))
             m == MirroredAngle(a)
         IN  /\ UpperOf(Mirrored(u), Mirrored(l)) = UpperOf(r(fu, m), r(fl, m))
             /\ LowerOf(Mirrored(u), Mirrored(l)) = LowerOf(r(fu, m), r(fl, m))
BY DEF Points, Ordered, UpperOf, LowerOf, Lesser, Greater, Quarters, MirroredAngle, Mirrored,
       geda_point_rotate_90
-----------------------------------------------------------------------------
(* Boxes. *)

LEMMA BoxParts ==
  /\ \A o \in Boxes : /\ o = Box(o.upper, o.lower)
                      /\ o.upper \in Points /\ o.lower \in Points /\ Ordered(o.upper, o.lower)
  /\ \A p, q \in Points : Ordered(p, q) => Box(p, q) \in Boxes
  /\ \A p, q : Box(p, q).upper = p /\ Box(p, q).lower = q
BY DEF Boxes, Box, Ordered

LEMMA BoxLaws ==
  ASSUME NEW o \in Boxes, NEW d \in Points, NEW e \in Points,
         NEW a \in Quarters, NEW b \in Quarters
  PROVE  /\ geda_box_object_translate(o, d) \in Boxes
         /\ geda_box_object_rotate(o, a) \in Boxes
         /\ geda_box_object_mirror(o) \in Boxes
         /\ geda_box_object_translate(geda_box_object_translate(o, d), e)
              = geda_box_object_translate(o, Plus(d, e))
         /\ geda_box_object_translate(o, Origin) = o
         /\ geda_box_object_rotate(geda_box_object_rotate(o, a), b)
              = geda_box_object_rotate(o, Together(a, b))
         /\ geda_box_object_mirror(geda_box_object_mirror(o)) = o
         /\ geda_box_object_mirror(geda_box_object_rotate(o, a))
              = geda_box_object_rotate(geda_box_object_mirror(o), MirroredAngle(a))
<1> DEFINE p == o.upper
           q == o.lower
           r(x, c) == geda_point_rotate_90(x, c)
<1>1. o = Box(p, q) /\ p \in Points /\ q \in Points /\ Ordered(p, q)
  BY BoxParts
<1>2. /\ \A c \in Quarters : r(p, c) \in Points /\ r(q, c) \in Points
      /\ Mirrored(p) \in Points /\ Mirrored(q) \in Points
      /\ Plus(p, d) \in Points /\ Plus(q, d) \in Points
  BY <1>1, PointsTurn, PointsMove
<1>3. geda_box_object_translate(o, d) \in Boxes
  BY <1>1, <1>2, BoxParts, CornersMove DEF geda_box_object_translate
<1>4. geda_box_object_rotate(o, a) \in Boxes /\ geda_box_object_mirror(o) \in Boxes
  BY <1>1, <1>2, BoxParts, CornersOrdered DEF geda_box_object_rotate, geda_box_object_mirror
<1>5. geda_box_object_translate(geda_box_object_translate(o, d), e)
        = geda_box_object_translate(o, Plus(d, e))
  <2>1. Plus(Plus(p, d), e) = Plus(p, Plus(d, e)) /\ Plus(Plus(q, d), e) = Plus(q, Plus(d, e))
    BY <1>1, PlusAssociates
  <2> QED
    BY <2>1, BoxParts DEF geda_box_object_translate
<1>6. geda_box_object_translate(o, Origin) = o
  BY <1>1, BoxParts, PointsMove DEF geda_box_object_translate
<1>7. geda_box_object_rotate(geda_box_object_rotate(o, a), b)
        = geda_box_object_rotate(o, Together(a, b))
  BY <1>1, BoxParts, CornersTurn DEF geda_box_object_rotate
<1>8. geda_box_object_mirror(geda_box_object_mirror(o)) = o
  BY <1>1, BoxParts, CornersFlip DEF geda_box_object_mirror
<1>9. geda_box_object_mirror(geda_box_object_rotate(o, a))
        = geda_box_object_rotate(geda_box_object_mirror(o), MirroredAngle(a))
  BY <1>1, BoxParts, CornersTurnAndFlip DEF geda_box_object_rotate, geda_box_object_mirror
<1> QED
  BY <1>3, <1>4, <1>5, <1>6, <1>7, <1>8, <1>9

-----------------------------------------------------------------------------
(* Pictures. *)

LEMMA PictureParts ==
  /\ \A o \in Pictures :
       /\ o = Picture(o.upper, o.lower, o.angle, o.mirrored)
       /\ o.upper \in Points /\ o.lower \in Points /\ Ordered(o.upper, o.lower)
       /\ o.angle \in Quarters /\ o.mirrored \in BOOLEAN
  /\ \A p, q \in Points, x \in Quarters, m \in BOOLEAN :
       Ordered(p, q) => Picture(p, q, x, m) \in Pictures
  /\ \A p, q, x, m : /\ Picture(p, q, x, m).upper = p /\ Picture(p, q, x, m).lower = q
                     /\ Picture(p, q, x, m).angle = x /\ Picture(p, q, x, m).mirrored = m
BY DEF Pictures, Picture, Ordered

LEMMA PictureLaws ==
  ASSUME NEW o \in Pictures, NEW d \in Points, NEW e \in Points,
         NEW a \in Quarters, NEW b \in Quarters
  PROVE  /\ geda_picture_object_translate(o, d) \in Pictures
         /\ geda_picture_object_rotate(o, a) \in Pictures
         /\ geda_picture_object_mirror(o) \in Pictures
         /\ geda_picture_object_translate(geda_picture_object_translate(o, d), e)
              = geda_picture_object_translate(o, Plus(d, e))
         /\ geda_picture_object_translate(o, Origin) = o
         /\ geda_picture_object_rotate(geda_picture_object_rotate(o, a), b)
              = geda_picture_object_rotate(o, Together(a, b))
         /\ geda_picture_object_mirror(geda_picture_object_mirror(o)) = o
         /\ geda_picture_object_mirror(geda_picture_object_rotate(o, a))
              = geda_picture_object_rotate(geda_picture_object_mirror(o), MirroredAngle(a))
<1> DEFINE p == o.upper
           q == o.lower
           r(x, c) == geda_point_rotate_90(x, c)
<1>1. /\ o = Picture(p, q, o.angle, o.mirrored) /\ p \in Points /\ q \in Points
      /\ Ordered(p, q) /\ o.angle \in Quarters /\ o.mirrored \in BOOLEAN
  BY PictureParts
<1>2. /\ \A c \in Quarters : r(p, c) \in Points /\ r(q, c) \in Points
      /\ Mirrored(p) \in Points /\ Mirrored(q) \in Points
      /\ Plus(p, d) \in Points /\ Plus(q, d) \in Points
  BY <1>1, PointsTurn, PointsMove
<1>3. geda_picture_object_translate(o, d) \in Pictures
  BY <1>1, <1>2, PictureParts, CornersMove DEF geda_picture_object_translate
<1>4. geda_picture_object_rotate(o, a) \in Pictures
  <2>1. (o.angle + a) % 360 \in Quarters
    BY <1>1, Angles DEF Together
  <2> QED
    BY <1>1, <1>2, <2>1, PictureParts, CornersOrdered DEF geda_picture_object_rotate
<1>5. geda_picture_object_mirror(o) \in Pictures
  BY <1>1, <1>2, PictureParts, CornersOrdered, Angles DEF geda_picture_object_mirror
<1>6. geda_picture_object_translate(geda_picture_object_translate(o, d), e)
        = geda_picture_object_translate(o, Plus(d, e))
  <2>1. Plus(Plus(p, d), e) = Plus(p, Plus(d, e)) /\ Plus(Plus(q, d), e) = Plus(q, Plus(d, e))
    BY <1>1, PlusAssociates
  <2> QED
    BY <2>1, PictureParts DEF geda_picture_object_translate
<1>7. geda_picture_object_translate(o, Origin) = o
  BY <1>1, PictureParts, PointsMove DEF geda_picture_object_translate
<1>8. geda_picture_object_rotate(geda_picture_object_rotate(o, a), b)
        = geda_picture_object_rotate(o, Together(a, b))
  <2>1. (((o.angle + a) % 360) + b) % 360 = (o.angle + Together(a, b)) % 360
    BY <1>1, TogetherAssociates DEF Together
  <2> QED
    BY <1>1, <2>1, PictureParts, CornersTurn DEF geda_picture_object_rotate
<1>9. geda_picture_object_mirror(geda_picture_object_mirror(o)) = o
  <2>1. MirroredAngle(MirroredAngle(o.angle)) = o.angle
    BY <1>1, Angles
  <2> DEFINE u == UpperOf(Mirrored(p), Mirrored(q))
             l == LowerOf(Mirrored(p), Mirrored(q))
             m == ~o.mirrored
             n == Picture(u, l, MirroredAngle(o.angle), m)
  <2>2. geda_picture_object_mirror(o) = n
    BY DEF geda_picture_object_mirror
  <2>3. n.upper = u /\ n.lower = l /\ n.angle = MirroredAngle(o.angle) /\ n.mirrored = m
    BY DEF Picture
  <2>4. UpperOf(Mirrored(u), Mirrored(l)) = p /\ LowerOf(Mirrored(u), Mirrored(l)) = q
    BY <1>1, CornersFlip
  <2>5. (~n.mirrored) = o.mirrored
    BY <1>1, <2>3
  <2>6. geda_picture_object_mirror(n) = Picture(p, q, o.angle, o.mirrored)
    <3>1. geda_picture_object_mirror(n)
            = Picture(UpperOf(Mirrored(n.upper), Mirrored(n.lower)),
                      LowerOf(Mirrored(n.upper), Mirrored(n.lower)),
                      MirroredAngle(n.angle), ~n.mirrored)
      BY DEF geda_picture_object_mirror
    <3> HIDE DEF n, u, l, m
    <3>2. /\ UpperOf(Mirrored(n.upper), Mirrored(n.lower)) = p
          /\ LowerOf(Mirrored(n.upper), Mirrored(n.lower)) = q
          /\ MirroredAngle(n.angle) = o.angle
      BY <2>1, <2>3, <2>4
    <3> QED
      BY <2>5, <3>1, <3>2, Zenon
  <2> QED
    BY <1>1, <2>2, <2>6
<1>10. geda_picture_object_mirror(geda_picture_object_rotate(o, a))
        = geda_picture_object_rotate(geda_picture_object_mirror(o), MirroredAngle(a))
  <2>1. MirroredAngle((o.angle + a) % 360) = (MirroredAngle(o.angle) + MirroredAngle(a)) % 360
    BY <1>1, Angles DEF Together
  <2> QED
    BY <1>1, <2>1, PictureParts, CornersTurnAndFlip
    DEF geda_picture_object_rotate, geda_picture_object_mirror
<1> QED
  BY <1>3, <1>4, <1>5, <1>6, <1>7, <1>8, <1>9, <1>10

-----------------------------------------------------------------------------
(* Circles and arcs. *)

LEMMA CircleParts ==
  /\ \A o \in Circles : /\ o = Circle(o.center, o.radius)
                        /\ o.center \in Points /\ o.radius \in Nat
  /\ \A p \in Points, x \in Nat : Circle(p, x) \in Circles
  /\ \A p, x : Circle(p, x).center = p /\ Circle(p, x).radius = x
BY DEF Circles, Circle

LEMMA CircleLaws ==
  ASSUME NEW o \in Circles, NEW d \in Points, NEW e \in Points,
         NEW a \in Quarters, NEW b \in Quarters
  PROVE  /\ geda_circle_object_translate(o, d) \in Circles
         /\ geda_circle_object_rotate(o, a) \in Circles
         /\ geda_circle_object_mirror(o) \in Circles
         /\ geda_circle_object_translate(geda_circle_object_translate(o, d), e)
              = geda_circle_object_translate(o, Plus(d, e))
         /\ geda_circle_object_translate(o, Origin) = o
         /\ geda_circle_object_rotate(geda_circle_object_rotate(o, a), b)
              = geda_circle_object_rotate(o, Together(a, b))
         /\ geda_circle_object_mirror(geda_circle_object_mirror(o)) = o
         /\ geda_circle_object_mirror(geda_circle_object_rotate(o, a))
              = geda_circle_object_rotate(geda_circle_object_mirror(o), MirroredAngle(a))
<1>1. o = Circle(o.center, o.radius) /\ o.center \in Points /\ o.radius \in Nat
  BY CircleParts
<1>2. Plus(Plus(o.center, d), e) = Plus(o.center, Plus(d, e))
  BY <1>1, PlusAssociates
<1>3. /\ Plus(o.center, d) \in Points /\ geda_point_rotate_90(o.center, a) \in Points
      /\ Mirrored(o.center) \in Points /\ Plus(o.center, Origin) = o.center
  BY <1>1, PointsMove, PointsTurn
<1>4. /\ geda_point_rotate_90(geda_point_rotate_90(o.center, a), b)
           = geda_point_rotate_90(o.center, Together(a, b))
      /\ Mirrored(geda_point_rotate_90(o.center, a))
           = geda_point_rotate_90(Mirrored(o.center), MirroredAngle(a))
      /\ Mirrored(Mirrored(o.center)) = o.center
  BY <1>1, PointsTurn
<1> QED
  BY <1>1, <1>2, <1>3, <1>4, CircleParts
  DEF geda_circle_object_translate, geda_circle_object_rotate, geda_circle_object_mirror

\* The angles of an arc.
StartTurned(s, a) == (s + a) % 360
StartFlipped(s) == (180 - s) % 360
SweepFlipped(w) == -w

LEMMA ArcAngles ==
  ASSUME NEW s \in Degrees, NEW w \in Int, NEW a \in Quarters, NEW b \in Quarters
  PROVE  /\ StartTurned(s, a) \in Degrees
         /\ StartFlipped(s) \in Degrees
         /\ StartTurned(StartTurned(s, a), b) = StartTurned(s, Together(a, b))
         /\ StartFlipped(StartFlipped(s)) = s
         /\ StartFlipped(StartTurned(s, a)) = StartTurned(StartFlipped(s), MirroredAngle(a))
         /\ SweepFlipped(w) \in Int /\ SweepFlipped(SweepFlipped(w)) = w
BY DEF Degrees, Quarters, Together, MirroredAngle, StartTurned, StartFlipped, SweepFlipped

LEMMA ArcParts ==
  /\ \A o \in Arcs : /\ o = Arc(o.center, o.radius, o.start, o.sweep)
                     /\ o.center \in Points /\ o.radius \in Nat
                     /\ o.start \in Degrees /\ o.sweep \in Int
  /\ \A p \in Points, x \in Nat, s \in Degrees, w \in Int : Arc(p, x, s, w) \in Arcs
  /\ \A p, x, s, w, d : geda_arc_object_translate(Arc(p, x, s, w), d) = Arc(Plus(p, d), x, s, w)
  /\ \A p, x, s, w, a : geda_arc_object_rotate(Arc(p, x, s, w), a)
                          = Arc(geda_point_rotate_90(p, a), x, StartTurned(s, a), w)
  /\ \A p, x, s, w : geda_arc_object_mirror(Arc(p, x, s, w))
                       = Arc(Mirrored(p), x, StartFlipped(s), SweepFlipped(w))
<1>1. \A p, x, s, w : /\ Arc(p, x, s, w).center = p /\ Arc(p, x, s, w).radius = x
                      /\ Arc(p, x, s, w).start = s /\ Arc(p, x, s, w).sweep = w
  BY DEF Arc
<1>2. /\ \A o, d : geda_arc_object_translate(o, d) = Arc(Plus(o.center, d), o.radius, o.start, o.sweep)
      /\ \A o, a : geda_arc_object_rotate(o, a)
           = Arc(geda_point_rotate_90(o.center, a), o.radius, StartTurned(o.start, a), o.sweep)
      /\ \A o : geda_arc_object_mirror(o)
           = Arc(Mirrored(o.center), o.radius, StartFlipped(o.start), SweepFlipped(o.sweep))
  BY DEF geda_arc_object_translate, geda_arc_object_rotate, geda_arc_object_mirror,
         StartTurned, StartFlipped, SweepFlipped
<1>3. \A o \in Arcs : /\ o = Arc(o.center, o.radius, o.start, o.sweep)
                      /\ o.center \in Points /\ o.radius \in Nat
                      /\ o.start \in Degrees /\ o.sweep \in Int
  BY DEF Arcs, Arc
<1>4. \A p \in Points, x \in Nat, s \in Degrees, w \in Int : Arc(p, x, s, w) \in Arcs
  BY DEF Arcs, Arc
<1> QED
  BY <1>1, <1>2, <1>3, <1>4

LEMMA ArcLaws ==
  ASSUME NEW o \in Arcs, NEW d \in Points, NEW e \in Points,
         NEW a \in Quarters, NEW b \in Quarters
  PROVE  /\ geda_arc_object_translate(o, d) \in Arcs
         /\ geda_arc_object_rotate(o, a) \in Arcs
         /\ geda_arc_object_mirror(o) \in Arcs
         /\ geda_arc_object_translate(geda_arc_object_translate(o, d), e)
              = geda_arc_object_translate(o, Plus(d, e))
         /\ geda_arc_object_translate(o, Origin) = o
         /\ geda_arc_object_rotate(geda_arc_object_rotate(o, a), b)
              = geda_arc_object_rotate(o, Together(a, b))
         /\ geda_arc_object_mirror(geda_arc_object_mirror(o)) = o
         /\ geda_arc_object_mirror(geda_arc_object_rotate(o, a))
              = geda_arc_object_rotate(geda_arc_object_mirror(o), MirroredAngle(a))
<1>1. PICK p \in Points, x \in Nat, s \in Degrees, w \in Int : o = Arc(p, x, s, w)
  BY ArcParts
<1>2. Plus(Plus(p, d), e) = Plus(p, Plus(d, e))
  BY PlusAssociates
<1>3. /\ Plus(p, d) \in Points /\ geda_point_rotate_90(p, a) \in Points
      /\ Mirrored(p) \in Points /\ Plus(p, Origin) = p
  BY PointsMove, PointsTurn
<1>4. /\ geda_point_rotate_90(geda_point_rotate_90(p, a), b)
           = geda_point_rotate_90(p, Together(a, b))
      /\ Mirrored(geda_point_rotate_90(p, a))
           = geda_point_rotate_90(Mirrored(p), MirroredAngle(a))
      /\ Mirrored(Mirrored(p)) = p
  BY PointsTurn
<1>5. /\ StartTurned(s, a) \in Degrees
      /\ StartFlipped(s) \in Degrees
      /\ StartTurned(StartTurned(s, a), b) = StartTurned(s, Together(a, b))
      /\ StartFlipped(StartFlipped(s)) = s
      /\ StartFlipped(StartTurned(s, a)) = StartTurned(StartFlipped(s), MirroredAngle(a))
  BY ArcAngles
<1>6. SweepFlipped(w) \in Int /\ SweepFlipped(SweepFlipped(w)) = w
  BY ArcAngles
<1>7. /\ geda_arc_object_translate(o, d) = Arc(Plus(p, d), x, s, w)
      /\ geda_arc_object_rotate(o, a) = Arc(geda_point_rotate_90(p, a), x, StartTurned(s, a), w)
      /\ geda_arc_object_mirror(o) = Arc(Mirrored(p), x, StartFlipped(s), SweepFlipped(w))
  BY <1>1, ArcParts
<1>8. /\ geda_arc_object_translate(o, d) \in Arcs
      /\ geda_arc_object_rotate(o, a) \in Arcs
      /\ geda_arc_object_mirror(o) \in Arcs
  BY <1>3, <1>5, <1>6, <1>7, ArcParts
<1>9. /\ geda_arc_object_translate(Arc(Plus(p, d), x, s, w), e) = Arc(Plus(Plus(p, d), e), x, s, w)
      /\ geda_arc_object_translate(o, Plus(d, e)) = Arc(Plus(p, Plus(d, e)), x, s, w)
      /\ geda_arc_object_translate(o, Origin) = Arc(Plus(p, Origin), x, s, w)
  BY <1>1, ArcParts
<1>10. /\ geda_arc_object_rotate(Arc(geda_point_rotate_90(p, a), x, StartTurned(s, a), w), b)
            = Arc(geda_point_rotate_90(geda_point_rotate_90(p, a), b), x, StartTurned(StartTurned(s, a), b), w)
       /\ geda_arc_object_rotate(o, Together(a, b))
            = Arc(geda_point_rotate_90(p, Together(a, b)), x, StartTurned(s, Together(a, b)), w)
  BY <1>1, ArcParts
<1>11. /\ geda_arc_object_mirror(Arc(Mirrored(p), x, StartFlipped(s), SweepFlipped(w)))
            = Arc(Mirrored(Mirrored(p)), x, StartFlipped(StartFlipped(s)), SweepFlipped(SweepFlipped(w)))
       /\ geda_arc_object_mirror(Arc(geda_point_rotate_90(p, a), x, StartTurned(s, a), w))
            = Arc(Mirrored(geda_point_rotate_90(p, a)), x, StartFlipped(StartTurned(s, a)), SweepFlipped(w))
       /\ geda_arc_object_rotate(Arc(Mirrored(p), x, StartFlipped(s), SweepFlipped(w)), MirroredAngle(a))
            = Arc(geda_point_rotate_90(Mirrored(p), MirroredAngle(a)), x,
                  StartTurned(StartFlipped(s), MirroredAngle(a)), SweepFlipped(w))
  BY ArcParts
<1> QED
  BY <1>1, <1>2, <1>3, <1>4, <1>5, <1>6, <1>7, <1>8, <1>9, <1>10, <1>11

-----------------------------------------------------------------------------
(* Texts. *)

AlignFlipped(t, l) == IF t % 180 = 0 THEN <<-l[1], l[2]>> ELSE <<l[1], -l[2]>>
AlignReversed(l) == <<-l[1], -l[2]>>

LEMMA TextAngles ==
  ASSUME NEW t \in Quarters, NEW l \in Aligns, NEW a \in Quarters
  PROVE  /\ AlignFlipped(t, l) \in Aligns /\ AlignReversed(l) \in Aligns
         /\ AlignFlipped(t, AlignFlipped(t, l)) = l
         /\ AlignReversed(AlignReversed(l)) = l
         /\ AlignFlipped(t, AlignReversed(l)) = AlignReversed(AlignFlipped(t, l))
         /\ AlignFlipped(Together(t, 180), l) = AlignFlipped(t, l)
         /\ Together(Together(t, 180), 180) = t /\ Together(t, 180) \in Quarters
         /\ Together(Together(t, 180), a) = Together(Together(t, a), 180)
<1>1. PICK h \in {-1, 0, 1}, v \in {-1, 0, 1} : l = <<h, v>>
  BY DEF Aligns
<1>2. /\ \A x, y \in {-1, 0, 1} : AlignReversed(<<x, y>>) = <<-x, -y>>
      /\ \A x, y \in {-1, 0, 1} : /\ t % 180 = 0 => AlignFlipped(t, <<x, y>>) = <<-x, y>>
                                  /\ t % 180 # 0 => AlignFlipped(t, <<x, y>>) = <<x, -y>>
  BY DEF AlignReversed, AlignFlipped
<1>3. \A x \in {-1, 0, 1} : -x \in {-1, 0, 1} /\ -(-x) = x
  OBVIOUS
<1>4. \A x, y \in {-1, 0, 1} : <<x, y>> \in Aligns
  BY DEF Aligns
<1>5. AlignFlipped(t, l) \in Aligns /\ AlignReversed(l) \in Aligns
  BY <1>1, <1>2, <1>3, <1>4
<1>6. AlignFlipped(t, AlignFlipped(t, l)) = l
  BY <1>1, <1>2, <1>3
<1>7. AlignReversed(AlignReversed(l)) = l
  BY <1>1, <1>2, <1>3
<1>8. AlignFlipped(t, AlignReversed(l)) = AlignReversed(AlignFlipped(t, l))
  BY <1>1, <1>2, <1>3
<1>9. AlignFlipped(Together(t, 180), l) = AlignFlipped(t, l)
  <2>1. Together(t, 180) % 180 = 0 <=> t % 180 = 0
    BY DEF Quarters, Together
  <2> QED
    BY <2>1 DEF AlignFlipped
<1>10. /\ Together(Together(t, 180), 180) = t /\ Together(t, 180) \in Quarters
       /\ Together(Together(t, 180), a) = Together(Together(t, a), 180)
  BY DEF Quarters, Together
<1> QED
  BY <1>5, <1>6, <1>7, <1>8, <1>9, <1>10

\* Turning the other way: the same, or the half turn of a text.
LEMMA TextTurns ==
  ASSUME NEW t \in Quarters, NEW l \in Aligns, NEW a \in Quarters
  PROVE  \/ /\ Together(t, a) = Together(t, MirroredAngle(a))
            /\ AlignFlipped(Together(t, a), l) = AlignFlipped(t, l)
         \/ /\ Together(t, a) = Together(Together(t, MirroredAngle(a)), 180)
            /\ AlignFlipped(Together(t, a), l) = AlignReversed(AlignFlipped(t, l))
<1>1. CASE a \in {0, 180}
  <2>1. Together(t, a) = Together(t, MirroredAngle(a)) /\ (Together(t, a) % 180 = 0 <=> t % 180 = 0)
    BY <1>1 DEF Quarters, Together, MirroredAngle
  <2> QED
    BY <2>1 DEF AlignFlipped
<1>2. CASE a \in {90, 270}
  <2>1. /\ Together(t, a) = Together(Together(t, MirroredAngle(a)), 180)
        /\ Together(t, a) % 180 = 0 <=> t % 180 # 0
    BY <1>2 DEF Quarters, Together, MirroredAngle
  <2>2. PICK h \in {-1, 0, 1}, v \in {-1, 0, 1} : l = <<h, v>>
    BY DEF Aligns
  <2>3. -(-h) = h /\ -(-v) = v /\ <<h, v>>[1] = h /\ <<h, v>>[2] = v
    OBVIOUS
  <2>4. /\ AlignFlipped(Together(t, a), l) = IF t % 180 # 0 THEN <<-h, v>> ELSE <<h, -v>>
        /\ AlignFlipped(t, l) = IF t % 180 = 0 THEN <<-h, v>> ELSE <<h, -v>>
    BY <2>1, <2>2 DEF AlignFlipped
  <2>5. AlignReversed(<<-h, v>>) = <<h, -v>> /\ AlignReversed(<<h, -v>>) = <<-h, v>>
    BY <2>3 DEF AlignReversed
  <2> QED
    BY <2>1, <2>4, <2>5
<1> QED
  BY <1>1, <1>2 DEF Quarters

LEMMA TextParts ==
  /\ \A o \in Texts : /\ o = Text(o.at, o.angle, o.align)
                      /\ o.at \in Points /\ o.angle \in Quarters /\ o.align \in Aligns
  /\ \A p \in Points, t \in Quarters, l \in Aligns : Text(p, t, l) \in Texts
  /\ \A p, t, l, d : geda_text_object_translate(Text(p, t, l), d) = Text(Plus(p, d), t, l)
  /\ \A p, t, l, a : geda_text_object_rotate(Text(p, t, l), a)
                       = Text(geda_point_rotate_90(p, a), Together(t, a), l)
  /\ \A p, t, l : geda_text_object_mirror(Text(p, t, l)) = Text(Mirrored(p), t, AlignFlipped(t, l))
  /\ \A p, t, l : Reversed(Text(p, t, l)) = Text(p, Together(t, 180), AlignReversed(l))
<1>1. \A p, t, l : Text(p, t, l).at = p /\ Text(p, t, l).angle = t /\ Text(p, t, l).align = l
  BY DEF Text
<1>2. /\ \A o, d : geda_text_object_translate(o, d) = Text(Plus(o.at, d), o.angle, o.align)
      /\ \A o, a : geda_text_object_rotate(o, a)
                     = Text(geda_point_rotate_90(o.at, a), Together(o.angle, a), o.align)
      /\ \A o : geda_text_object_mirror(o) = Text(Mirrored(o.at), o.angle, AlignFlipped(o.angle, o.align))
      /\ \A o : Reversed(o) = Text(o.at, Together(o.angle, 180), AlignReversed(o.align))
  BY DEF geda_text_object_translate, geda_text_object_rotate, geda_text_object_mirror,
         Reversed, Together, AlignFlipped, AlignReversed
<1>3. \A o \in Texts : /\ o = Text(o.at, o.angle, o.align)
                       /\ o.at \in Points /\ o.angle \in Quarters /\ o.align \in Aligns
  BY DEF Texts, Text
<1>4. \A p \in Points, t \in Quarters, l \in Aligns : Text(p, t, l) \in Texts
  BY DEF Texts, Text
<1>5. \A p, t, l, d : geda_text_object_translate(Text(p, t, l), d) = Text(Plus(p, d), t, l)
  BY <1>1, <1>2
<1>6. \A p, t, l, a : geda_text_object_rotate(Text(p, t, l), a)
                        = Text(geda_point_rotate_90(p, a), Together(t, a), l)
  BY <1>1, <1>2
<1>7. \A p, t, l : geda_text_object_mirror(Text(p, t, l)) = Text(Mirrored(p), t, AlignFlipped(t, l))
  BY <1>1, <1>2
<1>8. \A p, t, l : Reversed(Text(p, t, l)) = Text(p, Together(t, 180), AlignReversed(l))
  BY <1>1, <1>2
<1> QED
  BY <1>3, <1>4, <1>5, <1>6, <1>7, <1>8

LEMMA TextLaws ==
  ASSUME NEW o \in Texts, NEW d \in Points, NEW e \in Points,
         NEW a \in Quarters, NEW b \in Quarters
  PROVE  /\ geda_text_object_translate(o, d) \in Texts
         /\ geda_text_object_rotate(o, a) \in Texts
         /\ geda_text_object_mirror(o) \in Texts
         /\ geda_text_object_translate(geda_text_object_translate(o, d), e)
              = geda_text_object_translate(o, Plus(d, e))
         /\ geda_text_object_translate(o, Origin) = o
         /\ geda_text_object_rotate(geda_text_object_rotate(o, a), b)
              = geda_text_object_rotate(o, Together(a, b))
         /\ geda_text_object_mirror(geda_text_object_mirror(o)) = o
         /\ LET x == geda_text_object_mirror(geda_text_object_rotate(o, a))
                y == geda_text_object_rotate(geda_text_object_mirror(o), MirroredAngle(a))
            IN  x = y \/ x = Reversed(y)
<1>1. PICK p \in Points, t \in Quarters, l \in Aligns : o = Text(p, t, l)
  BY TextParts
<1>2. Plus(Plus(p, d), e) = Plus(p, Plus(d, e))
  BY PlusAssociates
<1>3. /\ Plus(p, d) \in Points /\ geda_point_rotate_90(p, a) \in Points
      /\ Mirrored(p) \in Points /\ Plus(p, Origin) = p
  BY PointsMove, PointsTurn
<1>4. /\ geda_point_rotate_90(geda_point_rotate_90(p, a), b)
           = geda_point_rotate_90(p, Together(a, b))
      /\ Mirrored(geda_point_rotate_90(p, a))
           = geda_point_rotate_90(Mirrored(p), MirroredAngle(a))
      /\ Mirrored(Mirrored(p)) = p
  BY PointsTurn
<1>5. /\ Together(t, a) \in Quarters /\ AlignFlipped(t, l) \in Aligns
      /\ AlignFlipped(t, AlignFlipped(t, l)) = l
      /\ Together(Together(t, a), b) = Together(t, Together(a, b))
  <2>1. Together(t, a) \in Quarters
    BY Angles
  <2>2. AlignFlipped(t, l) \in Aligns /\ AlignFlipped(t, AlignFlipped(t, l)) = l
    BY TextAngles
  <2>3. Together(Together(t, a), b) = Together(t, Together(a, b))
    BY TogetherAssociates
  <2> QED
    BY <2>1, <2>2, <2>3
<1>6. /\ geda_text_object_translate(o, d) = Text(Plus(p, d), t, l)
      /\ geda_text_object_rotate(o, a) = Text(geda_point_rotate_90(p, a), Together(t, a), l)
      /\ geda_text_object_mirror(o) = Text(Mirrored(p), t, AlignFlipped(t, l))
  BY <1>1, TextParts
<1>7. /\ geda_text_object_translate(o, d) \in Texts
      /\ geda_text_object_rotate(o, a) \in Texts
      /\ geda_text_object_mirror(o) \in Texts
  BY <1>3, <1>5, <1>6, TextParts
<1>8. /\ geda_text_object_translate(geda_text_object_translate(o, d), e)
            = geda_text_object_translate(o, Plus(d, e))
      /\ geda_text_object_translate(o, Origin) = o
  BY <1>1, <1>2, <1>3, <1>6, TextParts
<1>9. geda_text_object_rotate(geda_text_object_rotate(o, a), b)
        = geda_text_object_rotate(o, Together(a, b))
  BY <1>1, <1>4, <1>5, <1>6, TextParts
<1>10. geda_text_object_mirror(geda_text_object_mirror(o)) = o
  BY <1>1, <1>4, <1>5, <1>6, TextParts
<1> DEFINE x == geda_text_object_mirror(geda_text_object_rotate(o, a))
           y == geda_text_object_rotate(geda_text_object_mirror(o), MirroredAngle(a))
<1>11. x = Text(Mirrored(geda_point_rotate_90(p, a)), Together(t, a), AlignFlipped(Together(t, a), l))
  BY <1>6, TextParts
<1>12. y = Text(geda_point_rotate_90(Mirrored(p), MirroredAngle(a)),
                Together(t, MirroredAngle(a)), AlignFlipped(t, l))
  BY <1>6, TextParts
<1>13. Reversed(y) = Text(geda_point_rotate_90(Mirrored(p), MirroredAngle(a)),
                          Together(Together(t, MirroredAngle(a)), 180),
                          AlignReversed(AlignFlipped(t, l)))
  BY <1>12, TextParts
<1>14. \/ /\ Together(t, a) = Together(t, MirroredAngle(a))
          /\ AlignFlipped(Together(t, a), l) = AlignFlipped(t, l)
       \/ /\ Together(t, a) = Together(Together(t, MirroredAngle(a)), 180)
          /\ AlignFlipped(Together(t, a), l) = AlignReversed(AlignFlipped(t, l))
  BY TextTurns
<1>15. x = y \/ x = Reversed(y)
  <2> HIDE DEF x, y
  <2> QED
    BY <1>4, <1>11, <1>12, <1>13, <1>14
<1> QED
  BY <1>7, <1>8, <1>9, <1>10, <1>15

\* Reading from the other end goes along with everything.
LEMMA ReversedLaws ==
  ASSUME NEW o \in Texts, NEW d \in Points, NEW a \in Quarters
  PROVE  /\ Reversed(o) \in Texts
         /\ Reversed(Reversed(o)) = o
         /\ geda_text_object_translate(Reversed(o), d) = Reversed(geda_text_object_translate(o, d))
         /\ geda_text_object_rotate(Reversed(o), a) = Reversed(geda_text_object_rotate(o, a))
         /\ geda_text_object_mirror(Reversed(o)) = Reversed(geda_text_object_mirror(o))
<1>1. PICK p \in Points, t \in Quarters, l \in Aligns : o = Text(p, t, l)
  BY TextParts
<1>2. /\ AlignReversed(l) \in Aligns
      /\ AlignReversed(AlignReversed(l)) = l
      /\ AlignFlipped(t, AlignReversed(l)) = AlignReversed(AlignFlipped(t, l))
      /\ Together(Together(t, 180), 180) = t /\ Together(t, 180) \in Quarters
      /\ Together(Together(t, 180), a) = Together(Together(t, a), 180)
  BY TextAngles
<1>3. AlignFlipped(Together(t, 180), AlignReversed(l)) = AlignFlipped(t, AlignReversed(l))
  BY <1>2, TextAngles
<1>4. Reversed(o) = Text(p, Together(t, 180), AlignReversed(l))
  BY <1>1, TextParts
<1>5. Reversed(o) \in Texts
  BY <1>2, <1>4, TextParts
<1>6. Reversed(Reversed(o)) = o
  BY <1>1, <1>2, <1>4, TextParts
<1>7. geda_text_object_translate(Reversed(o), d) = Reversed(geda_text_object_translate(o, d))
  BY <1>1, <1>4, TextParts
<1>8. geda_text_object_rotate(Reversed(o), a) = Reversed(geda_text_object_rotate(o, a))
  BY <1>1, <1>2, <1>4, TextParts
<1>9. geda_text_object_mirror(Reversed(o)) = Reversed(geda_text_object_mirror(o))
  BY <1>1, <1>2, <1>3, <1>4, TextParts
<1> QED
  BY <1>5, <1>6, <1>7, <1>8, <1>9

-----------------------------------------------------------------------------
(* All kinds of objects. *)

LEMMA Dispatch ==
  /\ \A o \in Lines : /\ \A d : geda_object_translate(o, d) = geda_line_object_translate(o, d)
                     /\ \A a : Turned(o, a) = geda_line_object_rotate(o, a)
                     /\ Flipped(o) = geda_line_object_mirror(o)
  /\ \A o \in Boxes : /\ \A d : geda_object_translate(o, d) = geda_box_object_translate(o, d)
                     /\ \A a : Turned(o, a) = geda_box_object_rotate(o, a)
                     /\ Flipped(o) = geda_box_object_mirror(o)
  /\ \A o \in Pictures : /\ \A d : geda_object_translate(o, d) = geda_picture_object_translate(o, d)
                     /\ \A a : Turned(o, a) = geda_picture_object_rotate(o, a)
                     /\ Flipped(o) = geda_picture_object_mirror(o)
  /\ \A o \in Circles : /\ \A d : geda_object_translate(o, d) = geda_circle_object_translate(o, d)
                     /\ \A a : Turned(o, a) = geda_circle_object_rotate(o, a)
                     /\ Flipped(o) = geda_circle_object_mirror(o)
  /\ \A o \in Arcs : /\ \A d : geda_object_translate(o, d) = geda_arc_object_translate(o, d)
                     /\ \A a : Turned(o, a) = geda_arc_object_rotate(o, a)
                     /\ Flipped(o) = geda_arc_object_mirror(o)
  /\ \A o \in Texts : /\ \A d : geda_object_translate(o, d) = geda_text_object_translate(o, d)
                     /\ \A a : Turned(o, a) = geda_text_object_rotate(o, a)
                     /\ Flipped(o) = geda_text_object_mirror(o)
<1>1. \A o \in Lines : o.kind = "line"
  BY DEF Lines
<1>2. \A o \in Boxes : o.kind = "box"
  BY DEF Boxes
<1>3. \A o \in Pictures : o.kind = "picture"
  BY DEF Pictures
<1>4. \A o \in Circles : o.kind = "circle"
  BY DEF Circles
<1>5. \A o \in Arcs : o.kind = "arc"
  BY DEF Arcs
<1>6. \A o \in Texts : o.kind = "text"
  BY DEF Texts
<1> QED
  BY <1>1, <1>2, <1>3, <1>4, <1>5, <1>6 DEF geda_object_translate, Turned, Flipped

LEMMA ObjectLaws ==
  ASSUME NEW o \in Objects, NEW d \in Points, NEW e \in Points,
         NEW a \in Quarters, NEW b \in Quarters
  PROVE  /\ geda_object_translate(o, d) \in Objects
         /\ Turned(o, a) \in Objects
         /\ Flipped(o) \in Objects
         /\ geda_object_translate(geda_object_translate(o, d), e) = geda_object_translate(o, Plus(d, e))
         /\ geda_object_translate(o, Origin) = o
         /\ Turned(Turned(o, a), b) = Turned(o, Together(a, b))
         /\ Flipped(Flipped(o)) = o
         /\ Alike(Flipped(Turned(o, a)), Turned(Flipped(o), MirroredAngle(a)))
<1>1. CASE o \in Lines
  <2>1. Lines \subseteq Objects
    BY DEF Objects
  <2> QED
    BY <1>1, <2>1, LineLaws, Dispatch DEF Alike
<1>2. CASE o \in Boxes
  <2>1. Boxes \subseteq Objects
    BY DEF Objects
  <2> QED
    BY <1>2, <2>1, BoxLaws, Dispatch DEF Alike
<1>3. CASE o \in Pictures
  <2>1. Pictures \subseteq Objects
    BY DEF Objects
  <2> QED
    BY <1>3, <2>1, PictureLaws, Dispatch DEF Alike
<1>4. CASE o \in Circles
  <2>1. Circles \subseteq Objects
    BY DEF Objects
  <2> QED
    BY <1>4, <2>1, CircleLaws, Dispatch DEF Alike
<1>5. CASE o \in Arcs
  <2>1. Arcs \subseteq Objects
    BY DEF Objects
  <2> QED
    BY <1>5, <2>1, ArcLaws, Dispatch DEF Alike
<1>6. CASE o \in Texts
  <2>1. Texts \subseteq Objects
    BY DEF Objects
  <2>2. geda_text_object_rotate(geda_text_object_mirror(o), MirroredAngle(a)) \in Texts
    BY <1>6, TextLaws, Angles
  <2>3. \A x \in Texts : x.kind = "text"
    BY DEF Texts
  <2> QED
    BY <1>6, <2>1, <2>2, <2>3, TextLaws, Dispatch DEF Alike
<1> QED
  BY <1>1, <1>2, <1>3, <1>4, <1>5, <1>6 DEF Objects

\* Being alike is kept by everything, and transitive.
LEMMA AlikeLaws ==
  ASSUME NEW o, NEW p \in Objects, NEW d \in Points, NEW a \in Quarters, Alike(o, p)
  PROVE  /\ o \in Objects
         /\ Alike(geda_object_translate(o, d), geda_object_translate(p, d))
         /\ Alike(Turned(o, a), Turned(p, a))
         /\ Alike(Flipped(o), Flipped(p))
         /\ \A q \in Objects : Alike(p, q) => Alike(o, q)
<1>1. CASE o = p
  BY <1>1 DEF Alike
<1>2. CASE p.kind = "text" /\ o = Reversed(p)
  <2>1. p \in Texts
    BY <1>2 DEF Objects, Lines, Boxes, Pictures, Circles, Arcs, Texts
  <2>2. o \in Texts /\ Texts \subseteq Objects /\ \A x \in Texts : x.kind = "text"
    BY <1>2, <2>1, ReversedLaws DEF Objects, Texts
  <2>3. /\ geda_text_object_translate(p, d) \in Texts
        /\ geda_text_object_rotate(p, a) \in Texts
        /\ geda_text_object_mirror(p) \in Texts
    BY <2>1, TextLaws
  <2>4. /\ geda_object_translate(o, d) = Reversed(geda_object_translate(p, d))
        /\ Turned(o, a) = Reversed(Turned(p, a))
        /\ Flipped(o) = Reversed(Flipped(p))
    BY <1>2, <2>1, <2>2, ReversedLaws, Dispatch
  <2>5. /\ geda_object_translate(p, d) \in Texts /\ Turned(p, a) \in Texts /\ Flipped(p) \in Texts
    BY <2>1, <2>3, Dispatch
  <2>6. ASSUME NEW q \in Objects, Alike(p, q)
        PROVE  Alike(o, q)
    <3>1. CASE p = q
      BY <1>2, <3>1 DEF Alike
    <3>2. CASE q.kind = "text" /\ p = Reversed(q)
      <4>1. q \in Texts
        BY <3>2 DEF Objects, Lines, Boxes, Pictures, Circles, Arcs, Texts
      <4>2. Reversed(Reversed(q)) = q
        BY <4>1, ReversedLaws
      <4> QED
        BY <1>2, <3>2, <4>2 DEF Alike
    <3> QED
      BY <2>6, <3>1, <3>2 DEF Alike
  <2> QED
    BY <2>2, <2>4, <2>5, <2>6 DEF Alike
<1> QED
  BY <1>1, <1>2 DEF Alike

-----------------------------------------------------------------------------
(* Around a center. *)

LEMMA CenterLaws ==
  ASSUME NEW o \in Objects, NEW c \in Points, NEW a \in Quarters
  PROVE  /\ geda_object_rotate(o, Origin, a) = Turned(o, a)
         /\ geda_object_mirror(o, Origin) = Flipped(o)
         /\ geda_object_rotate(o, c, a) \in Objects
         /\ geda_object_mirror(o, c) \in Objects
<1>1. Minus(Origin) = Origin /\ Origin \in Points /\ Minus(c) \in Points
  BY PointsMove
<1>2. geda_object_translate(o, Origin) = o
  BY <1>1, ObjectLaws
<1>3. /\ Turned(o, a) \in Objects /\ Flipped(o) \in Objects
      /\ geda_object_translate(o, Minus(c)) \in Objects
  BY <1>1, ObjectLaws
<1>4. /\ geda_object_translate(Turned(o, a), Origin) = Turned(o, a)
      /\ geda_object_translate(Flipped(o), Origin) = Flipped(o)
  BY <1>1, <1>3, ObjectLaws
<1>5. /\ Turned(geda_object_translate(o, Minus(c)), a) \in Objects
      /\ Flipped(geda_object_translate(o, Minus(c))) \in Objects
  BY <1>3, ObjectLaws
<1>6. geda_object_rotate(o, c, a) \in Objects /\ geda_object_mirror(o, c) \in Objects
  BY <1>5, ObjectLaws DEF geda_object_rotate, geda_object_mirror
<1> QED
  BY <1>1, <1>2, <1>4, <1>6 DEF geda_object_rotate, geda_object_mirror

\* An object that is moved away and back is where it was.
LEMMA AwayAndBack ==
  ASSUME NEW o \in Objects, NEW c \in Points
  PROVE  /\ geda_object_translate(geda_object_translate(o, c), Minus(c)) = o
         /\ geda_object_translate(geda_object_translate(o, Minus(c)), c) = o
<1>1. Minus(c) \in Points /\ Plus(c, Minus(c)) = Origin
  BY PointsMove
<1>2. Plus(Minus(c), c) = Origin
  BY DEF Points, Plus, Minus, Origin
<1>3. 0 \in Quarters
  BY DEF Quarters
<1>4. geda_object_translate(o, Origin) = o
  BY <1>1, <1>3, ObjectLaws
<1>5. geda_object_translate(geda_object_translate(o, c), Minus(c))
        = geda_object_translate(o, Plus(c, Minus(c)))
  BY <1>1, <1>3, ObjectLaws
<1>6. geda_object_translate(geda_object_translate(o, Minus(c)), c)
        = geda_object_translate(o, Plus(Minus(c), c))
  BY <1>1, <1>3, ObjectLaws
<1> QED
  BY <1>1, <1>2, <1>4, <1>5, <1>6

\* Two rotations of an object around the same point (geda_object_rotate) are the
\* rotation by both angles, for boxes and pictures too, whose corners are put in
\* order on the way.
THEOREM RotationsAddUp ==
  ASSUME NEW o \in Objects, NEW c \in Points, NEW a \in Quarters, NEW b \in Quarters
  PROVE  geda_object_rotate(geda_object_rotate(o, c, a), c, b) = geda_object_rotate(o, c, (a + b) % 360)
<1> DEFINE p == geda_object_translate(o, Minus(c))
<1>1. Minus(c) \in Points
  BY PointsMove
<1>2. p \in Objects
  BY <1>1, ObjectLaws
<1>3. Turned(p, a) \in Objects
  BY <1>2, ObjectLaws
<1>4. geda_object_translate(geda_object_rotate(o, c, a), Minus(c)) = Turned(p, a)
  BY <1>3, AwayAndBack DEF geda_object_rotate
<1>5. Turned(Turned(p, a), b) = Turned(p, Together(a, b))
  BY <1>2, ObjectLaws
<1> QED
  BY <1>4, <1>5 DEF geda_object_rotate, Together

\* A turn by nothing.
LEMMA TurnedByNothing ==
  ASSUME NEW o \in Objects
  PROVE  Turned(o, 0) = o
<1>1. \A p \in Points : geda_point_rotate_90(p, 0) = p
  BY DEF Points, geda_point_rotate_90
<1>2. \A t \in Quarters : (t + 0) % 360 = t
  BY DEF Quarters
<1>3. ASSUME NEW p \in Points, NEW q \in Points, Ordered(p, q)
      PROVE  UpperOf(p, q) = p /\ LowerOf(p, q) = q
  BY <1>3 DEF Points, Ordered, UpperOf, LowerOf, Lesser, Greater
<1>4. CASE o \in Lines
  <2>1. PICK n \in Nat : o.pts \in [1 .. n -> Points]
    BY <1>4 DEF Lines
  <2>2. [i \in DOMAIN o.pts |-> geda_point_rotate_90(o.pts[i], 0)] = o.pts
    BY <1>1, <2>1
  <2>3. o = Line(o.pts)
    BY <1>4 DEF Lines, Line
  <2> QED
    BY <1>4, <2>2, <2>3, Dispatch DEF geda_line_object_rotate
<1>5. CASE o \in Boxes
  BY <1>1, <1>3, <1>5, BoxParts, Dispatch DEF geda_box_object_rotate
<1>6. CASE o \in Pictures
  BY <1>1, <1>2, <1>3, <1>6, PictureParts, Dispatch DEF geda_picture_object_rotate
<1>7. CASE o \in Circles
  BY <1>1, <1>7, CircleParts, Dispatch DEF geda_circle_object_rotate
<1>8. CASE o \in Arcs
  <2>1. o.center \in Points /\ o.start \in 0 .. 359
    BY <1>8 DEF Arcs, Degrees
  <2>2. (o.start + 0) % 360 = o.start
    BY <2>1
  <2>3. o = Arc(o.center, o.radius, o.start, o.sweep)
    BY <1>8 DEF Arcs, Arc
  <2>4. Turned(o, 0) = Arc(geda_point_rotate_90(o.center, 0), o.radius, (o.start + 0) % 360, o.sweep)
    BY <1>8, Dispatch DEF geda_arc_object_rotate
  <2> QED
    BY <1>1, <2>1, <2>2, <2>3, <2>4
<1>9. CASE o \in Texts
  <2>1. o.at \in Points /\ o.angle \in Quarters /\ o = Text(o.at, o.angle, o.align)
    BY <1>9 DEF Texts, Text
  <2> QED
    BY <1>1, <1>2, <1>9, <2>1, Dispatch DEF geda_text_object_rotate
<1> QED
  BY <1>4, <1>5, <1>6, <1>7, <1>8, <1>9 DEF Objects

\* Edit -> Rotate 90, four times around the same point, changes nothing.
THEOREM FourTurnsAreNone ==
  ASSUME NEW o \in Objects, NEW c \in Points
  PROVE  LET turn(x) == geda_object_rotate(x, c, 90)
         IN  turn(turn(turn(turn(o)))) = o
<1>1. /\ {0, 90, 180, 270} = Quarters
      /\ (90 + 90) % 360 = 180 /\ (180 + 180) % 360 = 0
  BY DEF Quarters
<1>2. ASSUME NEW x \in Objects
      PROVE  geda_object_rotate(geda_object_rotate(x, c, 90), c, 90) = geda_object_rotate(x, c, 180)
  BY <1>1, RotationsAddUp
<1>3. geda_object_rotate(o, c, 180) \in Objects
  BY <1>1, CenterLaws
<1>4. geda_object_rotate(geda_object_rotate(o, c, 180), c, 180) = geda_object_rotate(o, c, 0)
  BY <1>1, RotationsAddUp
<1>5. geda_object_rotate(o, c, 0) = o
  <2>1. Minus(c) \in Points
    BY PointsMove
  <2>2. geda_object_translate(o, Minus(c)) \in Objects
    BY <1>1, <2>1, ObjectLaws
  <2> QED
    BY <2>2, TurnedByNothing, AwayAndBack DEF geda_object_rotate
<1> QED
  BY <1>2, <1>3, <1>4, <1>5

\* Mirroring an object twice at the same point (geda_object_mirror) changes nothing.
THEOREM MirroredTwiceIsSame ==
  ASSUME NEW o \in Objects, NEW c \in Points
  PROVE  geda_object_mirror(geda_object_mirror(o, c), c) = o
<1> DEFINE p == geda_object_translate(o, Minus(c))
<1>1. Minus(c) \in Points /\ 0 \in Quarters
  BY PointsMove DEF Quarters
<1>2. p \in Objects
  BY <1>1, ObjectLaws
<1>3. Flipped(p) \in Objects /\ Flipped(Flipped(p)) = p
  BY <1>1, <1>2, ObjectLaws
<1>4. geda_object_translate(geda_object_mirror(o, c), Minus(c)) = Flipped(p)
  BY <1>3, AwayAndBack DEF geda_object_mirror
<1>5. geda_object_translate(p, c) = o
  BY AwayAndBack
<1> QED
  BY <1>3, <1>4, <1>5 DEF geda_object_mirror

-----------------------------------------------------------------------------
(* Components. *)

Original(i, m) == IF m THEN Flipped(symbol[i]) ELSE symbol[i]
Placed(i, at, a, m) == geda_object_translate(Turned(Original(i, m), a), at)

SymbolOK == symbol \in [Parts -> Objects]

\* The component looks like the symbol placed with its four numbers.
Faithful(c) ==
  /\ c \in Complexes
  /\ \A i \in Parts : Alike(c.parts[i], Placed(i, c.at, c.angle, c.mirror))

LEMMA OriginalType ==
  ASSUME SymbolOK, NEW i \in Parts, NEW m \in BOOLEAN
  PROVE  /\ Original(i, m) \in Objects
         /\ Flipped(Original(i, m)) = Original(i, ~m)
<1>1. symbol[i] \in Objects
  BY DEF SymbolOK
<1>2. /\ Flipped(symbol[i]) \in Objects
      /\ Flipped(Flipped(symbol[i])) = symbol[i]
  <2>1. 0 \in Quarters /\ Origin \in Points
    BY PointsMove DEF Quarters, Points, Origin
  <2> QED
    BY <1>1, <2>1, ObjectLaws
<1> QED
  BY <1>1, <1>2 DEF Original

LEMMA PlacedType ==
  ASSUME SymbolOK, NEW i \in Parts, NEW at \in Points, NEW a \in Quarters, NEW m \in BOOLEAN
  PROVE  Turned(Original(i, m), a) \in Objects /\ Placed(i, at, a, m) \in Objects
<1>1. Original(i, m) \in Objects
  BY OriginalType
<1>2. Turned(Original(i, m), a) \in Objects
  BY <1>1, ObjectLaws
<1> QED
  BY <1>2, ObjectLaws DEF Placed

\* What o_complex_new makes.
LEMMA NewIsPlaced ==
  ASSUME SymbolOK, NEW at \in Points, NEW a \in Quarters, NEW m \in BOOLEAN
  PROVE  /\ o_complex_new(at, a, m) \in Complexes
         /\ o_complex_new(at, a, m) = Complex(at, a, m, [i \in Parts |-> Placed(i, at, a, m)])
         /\ Faithful(o_complex_new(at, a, m))
<1> DEFINE read == IF m THEN geda_object_list_mirror(symbol, Origin) ELSE symbol
<1>1. \A i \in Parts : symbol[i] \in Objects
  BY DEF SymbolOK
<1>2. \A i \in Parts : geda_object_mirror(symbol[i], Origin) = Flipped(symbol[i])
  <2>1. 0 \in Quarters /\ Origin \in Points
    BY DEF Quarters, Points, Origin
  <2> QED
    BY <1>1, <2>1, CenterLaws
<1>3. \A i \in Parts : read[i] = Original(i, m)
  BY <1>2 DEF geda_object_list_mirror, Original
<1>4. \A i \in Parts : geda_object_rotate(read[i], Origin, a) = Turned(Original(i, m), a)
  <2>1. \A i \in Parts : Original(i, m) \in Objects
    BY OriginalType
  <2>2. Origin \in Points
    BY DEF Points, Origin
  <2> HIDE DEF read
  <2> QED
    BY <1>3, <2>1, <2>2, CenterLaws
<1>5. geda_object_list_translate(geda_object_list_rotate(read, Origin, a), at)
        = [i \in Parts |-> Placed(i, at, a, m)]
  <2> HIDE DEF read
  <2> QED
    BY <1>4 DEF geda_object_list_translate, geda_object_list_rotate, Placed
<1>6. o_complex_new(at, a, m) = Complex(at, a, m, [i \in Parts |-> Placed(i, at, a, m)])
  BY <1>5 DEF o_complex_new
<1>7. [i \in Parts |-> Placed(i, at, a, m)] \in [Parts -> Objects]
  BY PlacedType
<1>8. Complex(at, a, m, [i \in Parts |-> Placed(i, at, a, m)]) \in Complexes
  BY <1>7 DEF Complex, Complexes
<1>9. \A x : Alike(x, x)
  BY DEF Alike
<1>10. Faithful(Complex(at, a, m, [i \in Parts |-> Placed(i, at, a, m)]))
  BY <1>8, <1>9 DEF Faithful, Complex
<1> QED
  BY <1>6, <1>8, <1>10

LEMMA ComplexParts ==
  /\ \A c \in Complexes : /\ c.at \in Points /\ c.angle \in Quarters /\ c.mirror \in BOOLEAN
                          /\ c.parts \in [Parts -> Objects]
                          /\ c = Complex(c.at, c.angle, c.mirror, c.parts)
  /\ \A at \in Points, a \in Quarters, m \in BOOLEAN, f \in [Parts -> Objects] :
       Complex(at, a, m, f) \in Complexes
  /\ \A at, a, m, f : /\ Complex(at, a, m, f).at = at
                      /\ Complex(at, a, m, f).angle = a
                      /\ Complex(at, a, m, f).mirror = m
                      /\ Complex(at, a, m, f).parts = f
BY DEF Complexes, Complex

\* Its parts are turned, or flipped, around its position.
LEMMA MovedParts ==
  ASSUME NEW f \in [Parts -> Objects], NEW d \in Points
  PROVE  /\ geda_object_list_translate(f, d) \in [Parts -> Objects]
         /\ \A i \in Parts : geda_object_list_translate(f, d)[i] = geda_object_translate(f[i], d)
<1>1. \A i \in Parts : geda_object_translate(f[i], d) \in Objects
  <2>1. 0 \in Quarters
    BY DEF Quarters
  <2> QED
    BY <2>1, ObjectLaws
<1> QED
  BY <1>1 DEF geda_object_list_translate

LEMMA MovedComplex ==
  ASSUME NEW c \in Complexes, NEW d \in Points
  PROVE  /\ geda_complex_object_translate(c, d) \in Complexes
         /\ geda_complex_object_translate(c, d).at = Plus(c.at, d)
         /\ geda_complex_object_translate(c, d).angle = c.angle
         /\ geda_complex_object_translate(c, d).mirror = c.mirror
         /\ \A i \in Parts : geda_complex_object_translate(c, d).parts[i]
                               = geda_object_translate(c.parts[i], d)
<1>1. c.at \in Points /\ c.angle \in Quarters /\ c.mirror \in BOOLEAN /\ c.parts \in [Parts -> Objects]
  BY ComplexParts
<1>2. Plus(c.at, d) \in Points
  BY <1>1, PointsMove
<1>3. /\ geda_object_list_translate(c.parts, d) \in [Parts -> Objects]
      /\ \A i \in Parts : geda_object_list_translate(c.parts, d)[i]
                            = geda_object_translate(c.parts[i], d)
  BY <1>1, MovedParts
<1> QED
  BY <1>1, <1>2, <1>3, ComplexParts DEF geda_complex_object_translate

LEMMA MoveKeepsFaithful ==
  ASSUME SymbolOK, NEW c, Faithful(c), NEW d \in Points
  PROVE  Faithful(geda_complex_object_translate(c, d))
<1> DEFINE n == geda_complex_object_translate(c, d)
<1>1. /\ c \in Complexes /\ c.at \in Points /\ c.angle \in Quarters /\ c.mirror \in BOOLEAN
      /\ c.parts \in [Parts -> Objects]
  BY ComplexParts DEF Faithful
<1>2. /\ n \in Complexes /\ n.at = Plus(c.at, d) /\ n.angle = c.angle /\ n.mirror = c.mirror
      /\ \A i \in Parts : n.parts[i] = geda_object_translate(c.parts[i], d)
  BY <1>1, MovedComplex
<1>3. ASSUME NEW i \in Parts
      PROVE  Alike(n.parts[i], Placed(i, n.at, n.angle, n.mirror))
  <2> DEFINE o == Turned(Original(i, c.mirror), c.angle)
  <2>1. o \in Objects /\ Placed(i, c.at, c.angle, c.mirror) \in Objects
    BY <1>1, PlacedType
  <2>2. Alike(c.parts[i], Placed(i, c.at, c.angle, c.mirror))
    BY DEF Faithful
  <2>3. Alike(n.parts[i], geda_object_translate(Placed(i, c.at, c.angle, c.mirror), d))
    BY <1>1, <1>2, <2>1, <2>2, AlikeLaws
  <2>4. geda_object_translate(geda_object_translate(o, c.at), d) = geda_object_translate(o, Plus(c.at, d))
    BY <1>1, <2>1, ObjectLaws
  <2> QED
    BY <1>2, <2>3, <2>4 DEF Placed
<1> QED
  BY <1>2, <1>3 DEF Faithful

LEMMA OriginPlus ==
  ASSUME NEW p \in Points
  PROVE  Origin \in Points /\ Plus(Origin, p) = p /\ Plus(p, Minus(p)) = Origin
<1>1. Origin \in Points /\ Plus(p, Minus(p)) = Origin
  BY PointsMove
<1>2. Plus(Origin, p) = p
  BY DEF Points, Plus, Origin
<1> QED
  BY <1>1, <1>2

\* In geda_complex_object_rotate and geda_complex_object_mirror the parts are taken
\* from the component's position to the origin.
LEMMA PartsAtHome ==
  ASSUME SymbolOK, NEW c, Faithful(c), NEW i \in Parts
  PROVE  LET home == geda_complex_object_translate(c, Minus(c.at))
             o == Turned(Original(i, c.mirror), c.angle)
         IN  /\ home \in Complexes /\ home.at = Origin
             /\ home.angle = c.angle /\ home.mirror = c.mirror
             /\ o \in Objects /\ home.parts[i] \in Objects
             /\ Alike(home.parts[i], o)
<1> DEFINE home == geda_complex_object_translate(c, Minus(c.at))
           o == Turned(Original(i, c.mirror), c.angle)
<1>1. c \in Complexes /\ c.at \in Points /\ c.angle \in Quarters /\ c.mirror \in BOOLEAN
  BY ComplexParts DEF Faithful
<1>2. Minus(c.at) \in Points /\ Plus(c.at, Minus(c.at)) = Origin
  BY <1>1, PointsMove
<1>3. /\ home \in Complexes /\ home.at = Origin /\ home.angle = c.angle /\ home.mirror = c.mirror
      /\ home.parts[i] = geda_object_translate(c.parts[i], Minus(c.at))
  BY <1>1, <1>2, MovedComplex
<1>4. o \in Objects /\ Placed(i, c.at, c.angle, c.mirror) \in Objects
  BY <1>1, PlacedType
<1>5. Alike(c.parts[i], Placed(i, c.at, c.angle, c.mirror))
  BY DEF Faithful
<1>6. Alike(home.parts[i], geda_object_translate(Placed(i, c.at, c.angle, c.mirror), Minus(c.at)))
  BY <1>1, <1>2, <1>3, <1>4, <1>5, AlikeLaws
<1>7. geda_object_translate(Placed(i, c.at, c.angle, c.mirror), Minus(c.at)) = o
  BY <1>1, <1>4, AwayAndBack DEF Placed
<1>8. home.parts[i] \in Objects
  BY <1>3, ComplexParts
<1> QED
  BY <1>3, <1>4, <1>6, <1>7, <1>8

LEMMA TurnKeepsFaithful ==
  ASSUME SymbolOK, NEW c, Faithful(c), NEW center \in Points, NEW a \in Quarters
  PROVE  /\ Faithful(geda_complex_object_rotate(c, center, a))
         /\ geda_complex_object_rotate(c, center, a).angle = Together(c.angle, a)
         /\ geda_complex_object_rotate(c, center, a).mirror = c.mirror
<1> DEFINE new == Plus(geda_point_rotate_90(Plus(c.at, Minus(center)), a), center)
           home == geda_complex_object_translate(c, Minus(c.at))
           parts == geda_object_list_rotate(home.parts, Origin, a)
           turned == Complex(Origin, c.angle, c.mirror, parts)
           moved == geda_complex_object_translate(turned, new)
           n == Complex(moved.at, Together(c.angle, a), moved.mirror, moved.parts)
<1>1. /\ c \in Complexes /\ c.at \in Points /\ c.angle \in Quarters /\ c.mirror \in BOOLEAN
      /\ Origin \in Points
  BY ComplexParts, OriginPlus DEF Faithful
<1>2. new \in Points
  <2>1. Minus(center) \in Points
    BY PointsMove
  <2>2. Plus(c.at, Minus(center)) \in Points
    BY <1>1, <2>1, PointsMove
  <2>3. geda_point_rotate_90(Plus(c.at, Minus(center)), a) \in Points
    BY <2>2, PointsTurn
  <2> QED
    BY <2>3, PointsMove
<1>3. Plus(Origin, new) = new
  BY <1>2, OriginPlus
<1>4. \A i \in Parts : home.parts[i] \in Objects
  BY PartsAtHome
<1>5. \A i \in Parts : parts[i] = Turned(home.parts[i], a) /\ Turned(home.parts[i], a) \in Objects
  <2> HIDE DEF home
  <2> QED
    BY <1>1, <1>4, CenterLaws, ObjectLaws DEF geda_object_list_rotate
<1>6. parts \in [Parts -> Objects]
  BY <1>5 DEF geda_object_list_rotate
<1>7. turned \in Complexes /\ turned.parts = parts /\ turned.at = Origin /\ turned.mirror = c.mirror
  <2> HIDE DEF parts
  <2> QED
    BY <1>1, <1>6, ComplexParts
<1>8. /\ moved \in Complexes /\ moved.at = new /\ moved.mirror = c.mirror
      /\ \A i \in Parts : moved.parts[i] = geda_object_translate(parts[i], new)
  <2> HIDE DEF turned, new, parts
  <2> QED
    BY <1>2, <1>3, <1>7, MovedComplex
<1>9. Together(c.angle, a) \in Quarters
  BY <1>1, Angles
<1>10. /\ n \in Complexes /\ n.at = new /\ n.angle = Together(c.angle, a) /\ n.mirror = c.mirror
       /\ n.parts = moved.parts
  <2> HIDE DEF moved, new
  <2> QED
    BY <1>1, <1>2, <1>8, <1>9, ComplexParts
<1>11. ASSUME NEW i \in Parts
       PROVE  Alike(n.parts[i], Placed(i, n.at, n.angle, n.mirror))
  <2> DEFINE o == Original(i, c.mirror)
  <2>1. o \in Objects /\ Turned(o, c.angle) \in Objects
    BY <1>1, OriginalType, PlacedType
  <2>2. Alike(home.parts[i], Turned(o, c.angle))
    BY PartsAtHome
  <2>3. Alike(Turned(home.parts[i], a), Turned(Turned(o, c.angle), a))
    <3> HIDE DEF home, o
    <3> QED
      BY <1>1, <2>1, <2>2, AlikeLaws
  <2>4. Turned(Turned(o, c.angle), a) = Turned(o, Together(c.angle, a))
    <3> HIDE DEF o
    <3> QED
      BY <1>1, <2>1, ObjectLaws
  <2>5. Turned(o, Together(c.angle, a)) \in Objects
    BY <1>1, <1>9, PlacedType
  <2>6. Alike(geda_object_translate(Turned(home.parts[i], a), new),
              geda_object_translate(Turned(o, Together(c.angle, a)), new))
    <3> HIDE DEF home, o, new
    <3> QED
      BY <1>2, <2>3, <2>4, <2>5, AlikeLaws
  <2> HIDE DEF n, new, moved, parts, home
  <2> QED
    BY <1>5, <1>8, <1>10, <2>6 DEF Placed
<1>12. Faithful(n)
  <2> HIDE DEF n
  <2> QED
    BY <1>10, <1>11 DEF Faithful
<1>13. n = geda_complex_object_rotate(c, center, a)
  BY DEF geda_complex_object_rotate, Together
<1> HIDE DEF n
<1> QED
  BY <1>10, <1>12, <1>13

LEMMA FlipKeepsFaithful ==
  ASSUME SymbolOK, NEW c, Faithful(c), NEW center \in Points
  PROVE  /\ Faithful(geda_complex_object_mirror(c, center))
         /\ geda_complex_object_mirror(c, center).angle = MirroredAngle(c.angle)
         /\ geda_complex_object_mirror(c, center).mirror = ~c.mirror
<1> DEFINE new == <<2 * center[1] - c.at[1], c.at[2]>>
           home == geda_complex_object_translate(c, Minus(c.at))
           parts == geda_object_list_mirror(home.parts, Origin)
           m == ~c.mirror
           flipped == Complex(home.at, MirroredAngle(c.angle), m, parts)
           n == geda_complex_object_translate(flipped, new)
<1>1. /\ c \in Complexes /\ c.at \in Points /\ c.angle \in Quarters /\ c.mirror \in BOOLEAN
      /\ m \in BOOLEAN /\ Origin \in Points /\ 0 \in Quarters
  BY ComplexParts, OriginPlus DEF Faithful, Quarters
<1>2. new \in Points
  BY <1>1 DEF Points
<1>3. Plus(Origin, new) = new
  BY <1>2, OriginPlus
<1>4. \A i \in Parts : home.parts[i] \in Objects
  BY PartsAtHome
<1>5. \A i \in Parts : parts[i] = Flipped(home.parts[i]) /\ Flipped(home.parts[i]) \in Objects
  <2> HIDE DEF home
  <2> QED
    BY <1>1, <1>4, CenterLaws, ObjectLaws DEF geda_object_list_mirror
<1>6. parts \in [Parts -> Objects]
  BY <1>5 DEF geda_object_list_mirror
<1>7. MirroredAngle(c.angle) \in Quarters
  BY <1>1, Angles
<1>8. home.at = Origin
  <2>1. Minus(c.at) \in Points /\ Plus(c.at, Minus(c.at)) = Origin
    BY <1>1, PointsMove
  <2> QED
    BY <1>1, <2>1, MovedComplex
<1>9. /\ flipped \in Complexes /\ flipped.parts = parts /\ flipped.at = Origin
      /\ flipped.angle = MirroredAngle(c.angle) /\ flipped.mirror = m
  <2> HIDE DEF parts, home, m
  <2> QED
    BY <1>1, <1>6, <1>7, <1>8, ComplexParts
<1>10. /\ n \in Complexes /\ n.at = new /\ n.mirror = m /\ n.angle = MirroredAngle(c.angle)
       /\ \A i \in Parts : n.parts[i] = geda_object_translate(parts[i], new)
  <2> HIDE DEF flipped, new, parts, m
  <2> QED
    BY <1>2, <1>3, <1>9, MovedComplex
<1>11. ASSUME NEW i \in Parts
       PROVE  Alike(n.parts[i], Placed(i, n.at, n.angle, n.mirror))
  <2> DEFINE o == Original(i, c.mirror)
             x == Turned(Flipped(o), MirroredAngle(c.angle))
  <2>1. o \in Objects /\ Turned(o, c.angle) \in Objects
    BY <1>1, OriginalType, PlacedType
  <2>2. Flipped(o) = Original(i, m)
    BY <1>1, OriginalType
  <2>3. Alike(home.parts[i], Turned(o, c.angle))
    BY PartsAtHome
  <2>4. Alike(Flipped(home.parts[i]), Flipped(Turned(o, c.angle)))
    <3> HIDE DEF home, o
    <3> QED
      BY <1>1, <2>1, <2>3, AlikeLaws
  <2>5. Alike(Flipped(Turned(o, c.angle)), x)
    <3> HIDE DEF o
    <3> QED
      BY <1>1, <2>1, ObjectLaws
  <2>6. Flipped(Turned(o, c.angle)) \in Objects /\ x \in Objects
    <3>1. Flipped(Turned(o, c.angle)) \in Objects /\ Flipped(o) \in Objects
      <4> HIDE DEF o
      <4> QED
        BY <1>1, <2>1, ObjectLaws
    <3> HIDE DEF o
    <3> QED
      BY <1>1, <1>7, <3>1, ObjectLaws
  <2>7. Alike(Flipped(home.parts[i]), x)
    <3> HIDE DEF home, o, x
    <3> QED
      BY <1>1, <2>4, <2>5, <2>6, AlikeLaws
  <2>8. Alike(geda_object_translate(Flipped(home.parts[i]), new), geda_object_translate(x, new))
    <3> HIDE DEF home, x, new
    <3> QED
      BY <1>1, <1>2, <2>6, <2>7, AlikeLaws
  <2> HIDE DEF n, new, parts, home, m, o
  <2> QED
    BY <1>5, <1>10, <2>2, <2>8 DEF Placed
<1>12. Faithful(n)
  <2> HIDE DEF n
  <2> QED
    BY <1>10, <1>11 DEF Faithful
<1>13. n = geda_complex_object_mirror(c, center)
  BY DEF geda_complex_object_mirror
<1> HIDE DEF n
<1> QED
  BY <1>10, <1>12, <1>13

-----------------------------------------------------------------------------
(* The operations on any component, also one of which only the numbers were set. *)

LEMMA TurnType ==
  ASSUME NEW c \in Complexes, NEW center \in Points, NEW a \in Quarters
  PROVE  geda_complex_object_rotate(c, center, a) \in Complexes
<1> DEFINE new == Plus(geda_point_rotate_90(Plus(c.at, Minus(center)), a), center)
           home == geda_complex_object_translate(c, Minus(c.at))
           parts == geda_object_list_rotate(home.parts, Origin, a)
           turned == Complex(Origin, c.angle, c.mirror, parts)
           moved == geda_complex_object_translate(turned, new)
<1>1. c.at \in Points /\ c.angle \in Quarters /\ c.mirror \in BOOLEAN /\ Origin \in Points
  BY ComplexParts, OriginPlus
<1>2. new \in Points /\ Minus(c.at) \in Points
  <2>1. Minus(center) \in Points /\ Minus(c.at) \in Points
    BY <1>1, PointsMove
  <2>2. Plus(c.at, Minus(center)) \in Points
    BY <1>1, <2>1, PointsMove
  <2>3. geda_point_rotate_90(Plus(c.at, Minus(center)), a) \in Points
    BY <2>2, PointsTurn
  <2> QED
    BY <2>1, <2>3, PointsMove
<1>3. home \in Complexes
  BY <1>2, MovedComplex
<1>4. home.parts \in [Parts -> Objects]
  <2> HIDE DEF home
  <2> QED
    BY <1>3, ComplexParts
<1>5. \A i \in Parts : geda_object_rotate(home.parts[i], Origin, a) \in Objects
  <2> HIDE DEF home
  <2> QED
    BY <1>1, <1>4, CenterLaws, ObjectLaws
<1>6. parts \in [Parts -> Objects]
  <2> HIDE DEF home
  <2> QED
    BY <1>5 DEF geda_object_list_rotate
<1>7. turned \in Complexes
  <2> HIDE DEF parts
  <2> QED
    BY <1>1, <1>6, ComplexParts
<1>8. moved \in Complexes
  <2> HIDE DEF turned, new
  <2> QED
    BY <1>2, <1>7, MovedComplex
<1>9. Together(c.angle, a) \in Quarters
  BY <1>1, Angles
<1>10. Complex(moved.at, Together(c.angle, a), moved.mirror, moved.parts) \in Complexes
  <2> HIDE DEF moved
  <2> QED
    BY <1>8, <1>9, ComplexParts
<1> QED
  BY <1>10 DEF geda_complex_object_rotate, Together

LEMMA FlipType ==
  ASSUME NEW c \in Complexes, NEW center \in Points
  PROVE  geda_complex_object_mirror(c, center) \in Complexes
<1> DEFINE new == <<2 * center[1] - c.at[1], c.at[2]>>
           home == geda_complex_object_translate(c, Minus(c.at))
           parts == geda_object_list_mirror(home.parts, Origin)
           m == ~c.mirror
           flipped == Complex(home.at, MirroredAngle(c.angle), m, parts)
<1>1. /\ c.at \in Points /\ c.angle \in Quarters /\ m \in BOOLEAN
      /\ Origin \in Points /\ 0 \in Quarters
  BY ComplexParts, OriginPlus DEF Quarters
<1>2. new \in Points
  BY <1>1 DEF Points
<1>3. home \in Complexes
  <2>1. Minus(c.at) \in Points
    BY <1>1, PointsMove
  <2> QED
    BY <2>1, MovedComplex
<1>4. home.parts \in [Parts -> Objects] /\ home.at \in Points
  <2> HIDE DEF home
  <2> QED
    BY <1>3, ComplexParts
<1>5. \A i \in Parts : geda_object_mirror(home.parts[i], Origin) \in Objects
  <2> HIDE DEF home
  <2> QED
    BY <1>1, <1>4, CenterLaws, ObjectLaws
<1>6. parts \in [Parts -> Objects]
  <2> HIDE DEF home
  <2> QED
    BY <1>5 DEF geda_object_list_mirror
<1>7. MirroredAngle(c.angle) \in Quarters
  BY <1>1, Angles
<1>8. flipped \in Complexes
  <2> HIDE DEF parts, home, m
  <2> QED
    BY <1>1, <1>4, <1>6, <1>7, ComplexParts
<1>9. geda_complex_object_translate(flipped, new) \in Complexes
  <2> HIDE DEF flipped, new
  <2> QED
    BY <1>2, <1>8, MovedComplex
<1> QED
  BY <1>9 DEF geda_complex_object_mirror

LEMMA SetComplex ==
  ASSUME NEW c \in Complexes, NEW at \in Points, NEW a \in Quarters, NEW m \in BOOLEAN
  PROVE  /\ set_complex_x(c, at, a, m) \in Complexes
         /\ a = c.angle /\ m = c.mirror
              => set_complex_x(c, at, a, m)
                   = geda_complex_object_translate(c, Plus(at, Minus(c.at)))
<1> DEFINE moved == geda_complex_object_translate(c, Plus(at, Minus(c.at)))
<1>1. Plus(at, Minus(c.at)) \in Points
  <2>1. c.at \in Points
    BY ComplexParts
  <2>2. Minus(c.at) \in Points
    BY <2>1, PointsMove
  <2> QED
    BY <2>2, PointsMove
<1>2. moved \in Complexes /\ moved.angle = c.angle /\ moved.mirror = c.mirror
  BY <1>1, MovedComplex
<1>3. set_complex_x(c, at, a, m) = Complex(moved.at, a, m, moved.parts)
  BY DEF set_complex_x
<1> HIDE DEF moved
<1>4. Complex(moved.at, a, m, moved.parts) \in Complexes
  BY <1>2, ComplexParts
<1>5. moved = Complex(moved.at, moved.angle, moved.mirror, moved.parts)
  BY <1>2, ComplexParts
<1>6. a = c.angle /\ m = c.mirror => set_complex_x(c, at, a, m) = moved
  BY <1>2, <1>3, <1>5
<1> QED
  BY <1>3, <1>4, <1>6 DEF moved

-----------------------------------------------------------------------------
\* The parts follow the four numbers, unless only these were set.
PInv ==
  /\ SymbolOK
  /\ comp \in Complexes
  /\ onlySet \in BOOLEAN
  /\ ~onlySet => Faithful(comp)

LEMMA InitPInv == Init => PInv
<1> SUFFICES ASSUME Init
             PROVE  PInv
  OBVIOUS
<1>1. SymbolOK /\ onlySet = FALSE
  BY DEF Init, SymbolOK
<1>2. PICK at \in Points, a \in Quarters, m \in BOOLEAN : comp = o_complex_new(at, a, m)
  BY DEF Init
<1>3. comp \in Complexes /\ Faithful(comp)
  BY <1>1, <1>2, NewIsPlaced
<1> QED
  BY <1>1, <1>3 DEF PInv

LEMMA NextPInv == PInv /\ [Next]_vars => PInv'
<1> SUFFICES ASSUME PInv, [Next]_vars
             PROVE  PInv'
  OBVIOUS
<1>1. SymbolOK /\ comp \in Complexes /\ onlySet \in BOOLEAN /\ (~onlySet => Faithful(comp))
  BY DEF PInv
<1>2. symbol' = symbol
  BY DEF Next, vars, Translate, Rotate, Mirror, SetComponent, SetWithTransform, UpdateComponent
<1>3. ASSUME comp' \in Complexes, onlySet' \in BOOLEAN, ~onlySet' => Faithful(comp')
      PROVE  PInv'
  BY <1>1, <1>2, <1>3 DEF PInv, SymbolOK, Faithful, Placed, Original
<1>4. ASSUME NEW d \in Points, Translate(d)
      PROVE  PInv'
  BY <1>1, <1>3, <1>4, MovedComplex, MoveKeepsFaithful DEF Translate
<1>5. ASSUME NEW center \in Points, NEW a \in Quarters, Rotate(center, a)
      PROVE  PInv'
  BY <1>1, <1>3, <1>5, TurnType, TurnKeepsFaithful DEF Rotate
<1>6. ASSUME NEW center \in Points, Mirror(center)
      PROVE  PInv'
  BY <1>1, <1>3, <1>6, FlipType, FlipKeepsFaithful DEF Mirror
<1>7. ASSUME NEW at \in Points, NEW a \in Quarters, NEW m \in BOOLEAN, SetComponent(at, a, m)
      PROVE  PInv'
  <2>1. comp' = set_complex_x(comp, at, a, m) /\ comp' \in Complexes
    BY <1>1, <1>7, SetComplex DEF SetComponent
  <2>2. onlySet' \in BOOLEAN
    BY <1>1, <1>7 DEF SetComponent
  <2>3. ASSUME ~onlySet'
        PROVE  Faithful(comp')
    <3>1. ~onlySet /\ a = comp.angle /\ m = comp.mirror
      BY <1>7, <2>3 DEF SetComponent
    <3>2. comp' = geda_complex_object_translate(comp, Plus(at, Minus(comp.at)))
      BY <1>1, <2>1, <3>1, SetComplex
    <3>3. Plus(at, Minus(comp.at)) \in Points
      <4>1. comp.at \in Points
        BY <1>1, ComplexParts
      <4>2. Minus(comp.at) \in Points
        BY <4>1, PointsMove
      <4> QED
        BY <4>2, PointsMove
    <3> QED
      BY <1>1, <3>1, <3>2, <3>3, MoveKeepsFaithful
  <2> QED
    BY <1>3, <2>1, <2>2, <2>3
<1>8. ASSUME NEW at \in Points, NEW a \in Quarters, NEW m \in BOOLEAN, SetWithTransform(at, a, m)
      PROVE  PInv'
  <2> DEFINE c == set_complex_x(comp, Origin, 0, FALSE)
             f == IF m THEN geda_complex_object_mirror(c, Origin) ELSE c
             t == geda_complex_object_rotate(f, Origin, a)
  <2>1. Origin \in Points /\ 0 \in Quarters /\ Minus(comp.at) \in Points
        /\ Plus(Origin, Minus(comp.at)) \in Points
    <3>1. comp.at \in Points
      BY <1>1, ComplexParts
    <3>2. Origin \in Points /\ 0 \in Quarters /\ Minus(comp.at) \in Points
      BY <3>1, PointsMove DEF Quarters
    <3> QED
      BY <3>2, PointsMove
  <2>2. comp' = geda_complex_object_translate(t, at)
        /\ onlySet' = (onlySet \/ comp.angle # 0 \/ comp.mirror)
    BY <1>8 DEF SetWithTransform
  <2>3. c \in Complexes
    BY <1>1, <2>1, SetComplex
  <2>4. f \in Complexes
    <3> HIDE DEF c
    <3> QED
      BY <2>1, <2>3, FlipType
  <2>5. t \in Complexes
    <3> HIDE DEF f
    <3> QED
      BY <2>1, <2>4, TurnType
  <2>6. comp' \in Complexes
    <3> HIDE DEF t
    <3> QED
      BY <2>2, <2>5, MovedComplex
  <2>7. ASSUME ~onlySet'
        PROVE  Faithful(comp')
    <3>1. ~onlySet /\ comp.angle = 0 /\ comp.mirror = FALSE
      <4>1. comp.mirror \in BOOLEAN
        BY <1>1, ComplexParts
      <4> QED
        BY <2>2, <2>7, <4>1
    <3>2. c = geda_complex_object_translate(comp, Plus(Origin, Minus(comp.at)))
      BY <1>1, <2>1, <3>1, SetComplex
    <3>3. Faithful(c)
      <4> HIDE DEF c
      <4> QED
        BY <1>1, <2>1, <3>1, <3>2, MoveKeepsFaithful
    <3>4. Faithful(f)
      <4> HIDE DEF c
      <4> QED
        BY <1>1, <2>1, <3>3, FlipKeepsFaithful
    <3>5. Faithful(t)
      <4> HIDE DEF f
      <4> QED
        BY <1>1, <2>1, <3>4, TurnKeepsFaithful
    <3> HIDE DEF t
    <3> QED
      BY <1>1, <2>2, <3>5, MoveKeepsFaithful
  <2>8. onlySet' \in BOOLEAN
    BY <2>2
  <2> QED
    BY <1>3, <2>6, <2>7, <2>8
<1>9. CASE UpdateComponent
  <2>1. comp.at \in Points /\ comp.angle \in Quarters /\ comp.mirror \in BOOLEAN
    BY <1>1, ComplexParts
  <2> QED
    BY <1>1, <1>3, <1>9, <2>1, NewIsPlaced DEF UpdateComponent
<1>10. CASE UNCHANGED vars
  BY <1>1, <1>3, <1>10 DEF vars
<1> QED
  BY <1>4, <1>5, <1>6, <1>7, <1>8, <1>9, <1>10 DEF Next

\* Each component keeps a position, an angle that is a multiple of 90 degrees, and
\* well-formed parts: no move, turn, mirroring or script makes an angle or a pair of
\* corners that geda_complex_object_new or a box could not have (geda_object.c:655-760).
THEOREM PlacementHasType == Spec => []PlacementTypeOK
<1>1. PInv => PlacementTypeOK
  BY DEF PInv, SymbolOK, PlacementTypeOK
<1> QED
  BY <1>1, InitPInv, NextPInv, PTL DEF Spec

\* What the page shows of a component is what reading its four numbers back from
\* the file gives, after any number of moves, turns and mirrorings, of any parts:
\* the editor never drifts away from the file it saves (geda_complex_object.c:695-846
\* against o_complex_new at 441), unless a script has only set the numbers.
THEOREM WhatIsShownIsSaved == Spec => []ShownIsSaved
<1>1. PInv => ShownIsSaved
  <2> SUFFICES ASSUME PInv, ~onlySet, NEW i \in Parts
               PROVE  Alike(comp.parts[i],
                            o_complex_new(comp.at, comp.angle, comp.mirror).parts[i])
    BY DEF ShownIsSaved
  <2>1. SymbolOK /\ comp \in Complexes /\ Faithful(comp)
    BY DEF PInv
  <2>2. comp.at \in Points /\ comp.angle \in Quarters /\ comp.mirror \in BOOLEAN
    BY <2>1, ComplexParts
  <2>3. o_complex_new(comp.at, comp.angle, comp.mirror)
          = Complex(comp.at, comp.angle, comp.mirror,
                    [j \in Parts |-> Placed(j, comp.at, comp.angle, comp.mirror)])
    BY <2>1, <2>2, NewIsPlaced
  <2>4. o_complex_new(comp.at, comp.angle, comp.mirror).parts[i]
          = Placed(i, comp.at, comp.angle, comp.mirror)
    BY <2>3, ComplexParts
  <2> QED
    BY <2>1, <2>4 DEF Faithful
<1> QED
  BY <1>1, InitPInv, NextPInv, PTL DEF Spec
=============================================================================
