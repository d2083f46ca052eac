----------------------------- MODULE ConnProofs -----------------------------
(***************************************************************************)
(* Theorems about the connection system of module Conn: connections are    *)
(* recorded on both sides, none is missing, and without consolidation none *)
(* is left over; and merging nets keeps what is connected.                 *)
(*                                                                         *)
(* For the last, Meeting says that what is recorded stays true of the      *)
(* lines, Composed what line a merge makes of two that abut, and TakenOver *)
(* why it is enough that the merged net touches what both have touched.    *)
(***************************************************************************)
EXTENDS Conn, FiniteSetTheorems, TLAPS

-----------------------------------------------------------------------------
(* Lemmas about the geometry. *)

\* The connections found between two lines are CONN structures.
LEMMA JointsType ==
  ASSUME NEW ln, NEW pb, NEW a \in Objects, NEW b \in Objects,
         ln[a] \in Lines, ln[b] \in Lines
  PROVE  Joints(ln, pb, a, b) \subseteq {c \in Conns : c.other = b}
<1>1. Ends(ln, a) \subseteq Points /\ Ends(ln, b) \subseteq Points
  <2>1. /\ ln[a][1] \in Points /\ ln[a][2] \in Points
        /\ ln[b][1] \in Points /\ ln[b][2] \in Points
    BY DEF Lines
  <2>2. WhichEnd[a] \in {1, 2} /\ WhichEnd[b] \in {1, 2}
    BY ConnAssumption
  <2> QED
    BY <2>1, <2>2 DEF Ends
<1>2. /\ EndsMeet(ln, pb, a, b) \subseteq Points
      /\ EndsInside(ln, pb, a, b) \cup EndsInside(ln, pb, b, a) \subseteq Points
  BY <1>1 DEF EndsMeet, EndsInside
<1> HIDE DEF EndsMeet, EndsInside
<1> QED
  BY <1>2 DEF Joints, Conns

\* The three loops treat both objects alike: what connects a to b connects b to a.
LEMMA JointsSymmetric ==
  ASSUME NEW ln, NEW pb, NEW a, NEW b, NEW c \in Joints(ln, pb, a, b)
  PROVE  [c EXCEPT !.other = a] \in Joints(ln, pb, b, a)
<1>1. EndsMeet(ln, pb, a, b) = EndsMeet(ln, pb, b, a)
  BY DEF EndsMeet, check_direct_compat
<1>2. Reachable(a, b) = Reachable(b, a)
  BY DEF Reachable
<1>3. PICK t, q : /\ c = [other |-> b, type |-> t, at |-> q]
                  /\ \/ t = "endpoint" /\ q \in EndsMeet(ln, pb, a, b)
                     \/ /\ t = "midpoint"
                        /\ q \in EndsInside(ln, pb, a, b) \cup EndsInside(ln, pb, b, a)
  BY DEF Joints
<1>4. [c EXCEPT !.other = a] = [other |-> a, type |-> t, at |-> q]
  BY <1>3
<1>5. a # b /\ Reachable(a, b)
  BY DEF Joints
<1> QED
  BY <1>1, <1>2, <1>3, <1>4, <1>5 DEF Joints

\* They depend on nothing but the two objects.
LEMMA JointsLocal ==
  ASSUME NEW ln, NEW pb, NEW ln2, NEW pb2, NEW a, NEW b,
         ln[a] = ln2[a], ln[b] = ln2[b], pb[a] = pb2[a], pb[b] = pb2[b]
  PROVE  Joints(ln, pb, a, b) = Joints(ln2, pb2, a, b)
<1>1. check_direct_compat(pb, a, b) = check_direct_compat(pb2, a, b)
      /\ check_direct_compat(pb, b, a) = check_direct_compat(pb2, b, a)
  BY DEF check_direct_compat, is_bus_related
<1>2. Ends(ln, a) = Ends(ln2, a) /\ Ends(ln, b) = Ends(ln2, b)
  BY DEF Ends
<1> QED
  BY <1>1, <1>2 DEF Joints, EndsMeet, EndsInside

-----------------------------------------------------------------------------
(* What removing and updating do to connection lists. *)

\* Connection lists are between objects of cset, and recorded on both sides.
Mutual(cn, cset) ==
  \A a \in Objects : \A c \in cn[a] :
    /\ a \in cset /\ c.other \in cset
    /\ [c EXCEPT !.other = a] \in cn[c.other]

ConnInv == ConnTypeOK /\ ConnectionsMutual

\* The connection lists when the objects of S are out of the connection system.
Forgotten(S) ==
  [o \in Objects |-> IF o \in S THEN {} ELSE {c \in conn[o] : c.other \notin S}]

\* As every connection is recorded on both sides, every reference to a removed
\* object is found.
LEMMA RemoveForgets ==
  ASSUME ConnInv, NEW S \in SUBSET Objects
  PROVE  s_conn_remove_object_connections(S) = Forgotten(S)
<1>1. ASSUME NEW o \in Objects, NEW c \in conn[o], c.other \in S
      PROVE  \E d \in conn[c.other] : d.other = o
  <2>1. [c EXCEPT !.other = o] \in conn[c.other]
    BY DEF ConnInv, ConnectionsMutual
  <2>2. c \in Conns
    BY DEF ConnInv, ConnTypeOK
  <2>3. [c EXCEPT !.other = o].other = o
    BY <2>2 DEF Conns
  <2> QED
    BY <2>1, <2>3
<1> QED
  BY <1>1 DEF s_conn_remove_object_connections, Forgotten

\* Connections stay mutual when objects are taken out ...
LEMMA ForgottenMutual ==
  ASSUME ConnInv, NEW S \in SUBSET Objects
  PROVE  /\ Forgotten(S) \in [Objects -> SUBSET Conns]
         /\ Mutual(Forgotten(S), connectible \ S)
<1>1. Forgotten(S) \in [Objects -> SUBSET Conns]
  BY DEF Forgotten, ConnInv, ConnTypeOK
<1>2. ASSUME NEW a \in Objects, NEW c \in Forgotten(S)[a]
      PROVE  /\ a \in connectible \ S /\ c.other \in connectible \ S
             /\ [c EXCEPT !.other = a] \in Forgotten(S)[c.other]
  <2>1. a \notin S /\ c \in conn[a] /\ c.other \notin S
    BY DEF Forgotten
  <2>2. /\ a \in connectible /\ c.other \in connectible
        /\ [c EXCEPT !.other = a] \in conn[c.other]
    BY <2>1 DEF ConnInv, ConnectionsMutual
  <2>3. c \in Conns /\ c.other \in Objects
    BY <2>1 DEF ConnInv, ConnTypeOK, Conns
  <2>4. [c EXCEPT !.other = a].other = a
    BY <2>3 DEF Conns
  <2> QED
    BY <2>1, <2>2, <2>3, <2>4 DEF Forgotten
<1> QED
  BY <1>1, <1>2 DEF Mutual

\* ... and when others are put in.
LEMMA UpdateMutual ==
  ASSUME NEW cn \in [Objects -> SUBSET Conns], NEW old, NEW cset \in SUBSET Objects,
         old \subseteq cset, Mutual(cn, old),
         NEW S \in SUBSET cset, NEW ln, NEW pb, \A o \in cset : ln[o] \in Lines
  PROVE  /\ s_conn_update_object(cn, S, cset, ln, pb) \in [Objects -> SUBSET Conns]
         /\ Mutual(s_conn_update_object(cn, S, cset, ln, pb), cset)
<1> DEFINE new == s_conn_update_object(cn, S, cset, ln, pb)
\* A connection of the new lists is an old one or a joint with an object of S.
<1>1. \A a \in Objects : \A c : c \in new[a] <=>
        \/ c \in cn[a]
        \/ /\ a \in cset
           /\ \E b \in cset : (a \in S \/ b \in S) /\ c \in Joints(ln, pb, a, b)
  BY DEF s_conn_update_object
<1>2. new = [o \in Objects |-> new[o]]
  BY DEF s_conn_update_object
<1> HIDE DEF new
<1>3. \A a, b \in cset : Joints(ln, pb, a, b) \subseteq {c \in Conns : c.other = b}
  BY JointsType
<1>4. new \in [Objects -> SUBSET Conns]
  BY <1>1, <1>2, <1>3
<1>5. ASSUME NEW a \in Objects, NEW c \in new[a]
      PROVE  /\ a \in cset /\ c.other \in cset
             /\ [c EXCEPT !.other = a] \in new[c.other]
  <2>1. CASE c \in cn[a]
    BY <2>1, <1>1 DEF Mutual
  <2>2. CASE c \notin cn[a]
    <3>1. PICK b \in cset : /\ a \in cset /\ (a \in S \/ b \in S)
                            /\ c \in Joints(ln, pb, a, b)
      BY <2>2, <1>1
    <3>2. c.other = b
      BY <3>1, <1>3
    <3>3. [c EXCEPT !.other = a] \in Joints(ln, pb, b, a)
      BY <3>1, JointsSymmetric
    <3> QED
      BY <3>1, <3>2, <3>3, <1>1
  <2> QED
    BY <2>1, <2>2
<1> QED
  BY <1>4, <1>5 DEF new, Mutual

-----------------------------------------------------------------------------
(* Lines that come from merging two others. *)

\* The least and the greatest of four numbers are numbers.
LEMMA FourInts ==
  ASSUME NEW i \in Int, NEW j \in Int, NEW k \in Int, NEW l \in Int
  PROVE  Least({i, j, k, l}) \in Int /\ Greatest({i, j, k, l}) \in Int
<1> DEFINE S == {i, j, k, l}
<1>1. \E m \in S : \A n \in S : m <= n
  OBVIOUS
<1>2. \E m \in S : \A n \in S : m >= n
  OBVIOUS
<1>3. Least(S) \in S /\ Greatest(S) \in S
  BY <1>1, <1>2 DEF Least, Greatest
<1> QED
  BY <1>3

\* Two lines are merged into a line.
LEMMA MergedType ==
  ASSUME NEW k \in Lines, NEW l \in Lines
  PROVE  Merged(k, l) \in Lines
<1>1. /\ k[1][1] \in Int /\ k[1][2] \in Int /\ k[2][1] \in Int /\ k[2][2] \in Int
      /\ l[1][1] \in Int /\ l[1][2] \in Int /\ l[2][1] \in Int /\ l[2][2] \in Int
  BY DEF Lines, Points
<1>2. \A S : S = {k[1][1], k[2][1], l[1][1], l[2][1]} =>
               Least(S) \in Int /\ Greatest(S) \in Int
  BY <1>1, FourInts
<1>3. \A S : S = {k[1][2], k[2][2], l[1][2], l[2][2]} =>
               Least(S) \in Int /\ Greatest(S) \in Int
  BY <1>1, FourInts
<1> QED
  BY <1>1, <1>2, <1>3 DEF Merged, Lines, Points

-----------------------------------------------------------------------------
(* The two kinds of step that change connections. *)

\* s_page_remove and the like keep the invariant.
LEMMA LeftStep ==
  ASSUME ConnInv, NEW S \in SUBSET Objects, Left(S), UNCHANGED consolidating
  PROVE  ConnInv'
<1>1. conn' = Forgotten(S)
  BY RemoveForgets DEF Left
<1>2. conn' \in [Objects -> SUBSET Conns] /\ Mutual(conn', connectible')
  BY <1>1, ForgottenMutual DEF Left
<1>3. ConnTypeOK'
  BY <1>2 DEF Left, ConnInv, ConnTypeOK
<1> QED
  BY <1>2, <1>3 DEF ConnInv, ConnectionsMutual, Mutual

\* So do the operations that take the objects of T out and put those of S in.
LEMMA JoinedStep ==
  ASSUME ConnInv, NEW T \in SUBSET Objects, NEW S \in SUBSET Objects,
         NEW cset \in SUBSET Objects, connectible \ T \subseteq cset, S \subseteq cset,
         NEW ln \in [Objects -> Lines \cup {NoLine}], \A o \in cset : ln[o] \in Lines,
         NEW pb \in [Objects -> BOOLEAN],
         Joined(s_conn_remove_object_connections(T), S, cset, ln, pb),
         consolidating' \in BOOLEAN
  PROVE  ConnInv'
<1>1. s_conn_remove_object_connections(T) = Forgotten(T)
  BY RemoveForgets
<1>2. /\ Forgotten(T) \in [Objects -> SUBSET Conns]
      /\ Mutual(Forgotten(T), connectible \ T)
  BY ForgottenMutual
<1>3. /\ s_conn_update_object(Forgotten(T), S, cset, ln, pb) \in [Objects -> SUBSET Conns]
      /\ Mutual(s_conn_update_object(Forgotten(T), S, cset, ln, pb), cset)
  BY <1>2, UpdateMutual
<1>4. /\ connectible' = cset /\ line' = ln /\ pin_bus' = pb
      /\ conn' = s_conn_update_object(Forgotten(T), S, cset, ln, pb)
      /\ moved' \subseteq cset
  BY <1>1 DEF Joined
<1>5. ConnTypeOK'
  BY <1>3, <1>4 DEF ConnTypeOK
<1> QED
  BY <1>3, <1>4, <1>5 DEF ConnInv, ConnectionsMutual, Mutual

\* Taking nothing out changes nothing.
LEMMA RemoveNothing ==
  ASSUME ConnInv
  PROVE  s_conn_remove_object_connections({}) = conn
BY DEF s_conn_remove_object_connections, ConnInv, ConnTypeOK

\* An operation that only brings the objects of S onto the page.
LEMMA AppendStep ==
  ASSUME ConnInv, NEW S \in SUBSET Objects,
         NEW ln \in [Objects -> Lines \cup {NoLine}],
         \A o \in connectible \cup S : ln[o] \in Lines,
         Joined(conn, S, connectible \cup S, ln, pin_bus), UNCHANGED consolidating
  PROVE  ConnInv'
<1>1. Joined(s_conn_remove_object_connections({}), S, connectible \cup S, ln, pin_bus)
  BY RemoveNothing
<1>2. /\ connectible \cup S \in SUBSET Objects /\ pin_bus \in [Objects -> BOOLEAN]
      /\ consolidating' \in BOOLEAN
  BY DEF ConnInv, ConnTypeOK
<1>3. connectible \ {} \subseteq connectible \cup S /\ S \subseteq connectible \cup S
  OBVIOUS
<1> QED
  BY <1>1, <1>2, <1>3, JoinedStep, Zenon

\* An operation that changes the objects of S where they are.
LEMMA ChangeStep ==
  ASSUME ConnInv, NEW S \in SUBSET connectible,
         NEW ln \in [Objects -> Lines \cup {NoLine}],
         \A o \in connectible : ln[o] \in Lines,
         NEW pb \in [Objects -> BOOLEAN],
         Joined(s_conn_remove_object_connections(S), S, connectible, ln, pb),
         UNCHANGED consolidating
  PROVE  ConnInv'
<1>1. /\ connectible \in SUBSET Objects /\ S \in SUBSET Objects
      /\ consolidating' \in BOOLEAN
  BY DEF ConnInv, ConnTypeOK
<1>2. connectible \ S \subseteq connectible /\ S \subseteq connectible
  OBVIOUS
<1> QED
  BY <1>1, <1>2, JoinedStep, Zenon

\* Objects come onto a page with coordinates.
LEMMA PlacedType ==
  ASSUME ConnTypeOK, NEW f \in Placements
  PROVE  /\ Placed(f) \in [Objects -> Lines \cup {NoLine}]
         /\ DOMAIN f \subseteq Objects
         /\ \A o \in connectible \cup DOMAIN f : Placed(f)[o] \in Lines
BY ConnAssumption DEF ConnTypeOK, Placed

\* Every step.
LEMMA NextConnInv ==
  ASSUME ConnInv, [Next]_vars
  PROVE  ConnInv'
<1> USE DEF ConnInv
<1>1. ASSUME NEW f \in Placements, Append(f) PROVE ConnInv'
  <2>1. /\ Placed(f) \in [Objects -> Lines \cup {NoLine}]
        /\ DOMAIN f \in SUBSET Objects
        /\ \A o \in connectible \cup DOMAIN f : Placed(f)[o] \in Lines
    BY PlacedType
  <2> QED
    BY <1>1, <2>1, AppendStep DEF Append
<1>2. ASSUME NEW o \in Objects, Remove(o) PROVE ConnInv'
  <2>1. Unit(o) \in SUBSET Objects
    BY DEF Unit
  <2> QED
    BY <1>2, <2>1, LeftStep DEF Remove
<1>3. ASSUME NEW o \in Objects, NEW f \in Placements, Replace(o, f) PROVE ConnInv'
  <2> DEFINE cset == (connectible \ Unit(o)) \cup DOMAIN f
             ln == [q \in Objects |-> IF q \in Unit(o) THEN NoLine ELSE Placed(f)[q]]
             pb == [q \in Objects |-> q \notin Unit(o) /\ pin_bus[q]]
  <2>1. Unit(o) \in SUBSET Objects
    BY DEF Unit
  <2>2. /\ Placed(f) \in [Objects -> Lines \cup {NoLine}]
        /\ DOMAIN f \in SUBSET Objects
        /\ \A q \in connectible \cup DOMAIN f : Placed(f)[q] \in Lines
    BY PlacedType
  <2>3. DOMAIN f \cap Unit(o) = {}
    BY <1>3 DEF Replace
  <2> QED
    <3>1. /\ cset \in SUBSET Objects /\ connectible \ Unit(o) \subseteq cset
          /\ DOMAIN f \subseteq cset /\ pb \in [Objects -> BOOLEAN]
      BY <2>2 DEF ConnTypeOK
    <3>2. ln \in [Objects -> Lines \cup {NoLine}]
      BY <2>2
    <3>3. \A q \in cset : ln[q] \in Lines
      BY <2>2, <2>3, <3>1
    <3>4. /\ Joined(s_conn_remove_object_connections(Unit(o)), DOMAIN f, cset, ln, pb)
          /\ consolidating' \in BOOLEAN
      BY <1>3 DEF Replace, ConnTypeOK
    <3> QED
      BY <2>1, <2>2, <3>1, <3>2, <3>3, <3>4, JoinedStep
<1>4. CASE Clear
  BY <1>4, LeftStep DEF Clear, ConnTypeOK
<1>5. ASSUME NEW o \in Objects, NEW l \in Shapes, Reshape(o, l) PROVE ConnInv'
  <2>1. l \in Lines
    BY ConnAssumption
  <2>2. /\ [line EXCEPT ![o] = l] \in [Objects -> Lines \cup {NoLine}]
        /\ \A q \in connectible : [line EXCEPT ![o] = l][q] \in Lines
        /\ pin_bus \in [Objects -> BOOLEAN]
    BY <2>1 DEF ConnTypeOK
  <2>3. {o} \in SUBSET connectible
    BY <1>5 DEF Reshape
  <2> QED
    BY <1>5, <2>2, <2>3, ChangeStep DEF Reshape
<1>6. ASSUME NEW S \in SUBSET connectible, NEW m \in Moves, Transform(S, m) PROVE ConnInv'
  <2> DEFINE ln == [o \in Objects |-> IF o \in S THEN m[line[o]] ELSE line[o]]
  <2>1. m \in [DOMAIN m -> Lines]
    BY ConnAssumption
  <2>2. \A o \in S : m[line[o]] \in Lines
    BY <1>6, <2>1 DEF Transform
  <2>3. /\ ln \in [Objects -> Lines \cup {NoLine}]
        /\ \A q \in connectible : ln[q] \in Lines
        /\ pin_bus \in [Objects -> BOOLEAN]
    BY <2>2 DEF ConnTypeOK
  <2> QED
    BY <1>6, <2>3, ChangeStep DEF Transform
<1>7. ASSUME NEW o \in Objects, SetPinType(o) PROVE ConnInv'
  <2>1. /\ {o} \in SUBSET connectible
        /\ line \in [Objects -> Lines \cup {NoLine}]
        /\ \A q \in connectible : line[q] \in Lines
        /\ [pin_bus EXCEPT ![o] = ~@] \in [Objects -> BOOLEAN]
    BY <1>7 DEF SetPinType, ConnTypeOK
  <2> QED
    BY <1>7, <2>1, ChangeStep DEF SetPinType
<1>8. ASSUME NEW o \in Objects, ComplexRemove(o) PROVE ConnInv'
  BY <1>8, LeftStep DEF ComplexRemove
<1>9. ASSUME NEW o \in Objects, NEW l \in Shapes, ComplexAppend(o, l) PROVE ConnInv'
  <2>1. l \in Lines
    BY ConnAssumption
  <2>2. /\ [line EXCEPT ![o] = l] \in [Objects -> Lines \cup {NoLine}]
        /\ \A q \in connectible \cup {o} : [line EXCEPT ![o] = l][q] \in Lines
    BY <2>1 DEF ConnTypeOK
  <2> QED
    <3>1. /\ {o} \in SUBSET Objects
          /\ Joined(conn, {o}, connectible \cup {o}, [line EXCEPT ![o] = l], pin_bus)
          /\ UNCHANGED consolidating
      BY <1>9 DEF ComplexAppend
    <3> QED
      BY <2>2, <3>1, AppendStep, Zenon
<1>10. ASSUME NEW o \in Objects, NEW m \in Moves, ScriptTransform(o, m) PROVE ConnInv'
  <2>1. m \in [DOMAIN m -> Lines]
    BY ConnAssumption
  <2>2. \A q \in Unit(o) \cap connectible : m[line[q]] \in Lines
    BY <1>10, <2>1 DEF ScriptTransform
  <2>3. /\ line' \in [Objects -> Lines \cup {NoLine}]
        /\ \A q \in connectible : line'[q] \in Lines
    BY <1>10, <2>2 DEF ScriptTransform, ConnTypeOK
  <2> QED
    BY <1>10, <2>3 DEF ScriptTransform, ConnTypeOK, ConnectionsMutual
<1>11. CASE SaveState
  BY <1>11 DEF SaveState, ConnTypeOK, ConnectionsMutual
<1>12. ASSUME NEW a \in Objects, NEW b \in Objects, Merge(a, b) PROVE ConnInv'
  <2> DEFINE ln == [line EXCEPT ![a] = Merged(line[a], line[b]), ![b] = NoLine]
  <2>1. PICK c \in conn[a] : c.other = b
    BY <1>12 DEF Merge, Mergeable
  <2>2. a \in connectible /\ b \in connectible
    BY <1>12, <2>1 DEF Merge, ConnectionsMutual
  <2>3. Merged(line[a], line[b]) \in Lines
    BY <2>2, MergedType DEF ConnTypeOK
  <2>4. a # b
    BY <1>12 DEF Merge, Mergeable
  <2>5. /\ ln \in [Objects -> Lines \cup {NoLine}]
        /\ \A q \in connectible \ {b} : ln[q] \in Lines
        /\ pin_bus \in [Objects -> BOOLEAN]
    BY <2>2, <2>3, <2>4 DEF ConnTypeOK
  <2> QED
    BY <1>12, <2>2, <2>4, <2>5, JoinedStep DEF Merge, ConnTypeOK
<1>13. CASE ConsolidationEnds
  BY <1>13 DEF ConsolidationEnds, ConnTypeOK, ConnectionsMutual
<1>14. CASE UNCHANGED vars
  BY <1>14 DEF vars, ConnTypeOK, ConnectionsMutual
<1> HIDE DEF ConnInv
<1> QED
  BY <1>1, <1>2, <1>3, <1>4, <1>5, <1>6, <1>7, <1>8, <1>9, <1>10, <1>11, <1>12,
     <1>13, <1>14 DEF Next

-----------------------------------------------------------------------------
(* What the steps have in common. *)

\* Objects of T go out of the connection system, those of S come in, and the
\* others stay as they are.
Swapped(T, S, ln, pb) ==
  /\ Joined(s_conn_remove_object_connections(T), S, (connectible \ T) \cup S, ln, pb)
  /\ S \cap (connectible \ T) = {} \/ consolidating
  /\ \A o \in connectible \ (S \cup T) : ln[o] = line[o] /\ pb[o] = pin_bus[o]
  /\ \A o \in (connectible \ T) \cup S : ln[o] \in Lines

\* No connection changes; scripts may have moved some objects, which are recorded.
Kept ==
  /\ UNCHANGED <<connectible, pin_bus, conn>>
  /\ \A o \in connectible \ moved' : line'[o] = line[o] /\ o \notin moved

\* Every step is a removal, such an exchange, or changes no connection.
LEMMA StepForm ==
  ASSUME ConnInv, [Next]_vars
  PROVE  \/ \E S \in SUBSET Objects : Left(S)
         \/ \E T, S \in SUBSET Objects : \E ln, pb : Swapped(T, S, ln, pb)
         \/ Kept
<1> DEFINE Swap == \E T, S \in SUBSET Objects : \E ln, pb : Swapped(T, S, ln, pb)
<1>0. ConnTypeOK /\ connectible \in SUBSET Objects
  BY DEF ConnInv, ConnTypeOK
<1>1. ASSUME NEW f \in Placements, Append(f) PROVE Swap
  <2>1. /\ DOMAIN f \in SUBSET Objects
        /\ \A o \in connectible \cup DOMAIN f : Placed(f)[o] \in Lines
    BY <1>0, PlacedType
  <2>2. \A o \in connectible : Placed(f)[o] = line[o]
    BY <1>0, <1>1 DEF Append, Placed
  <2>3. Joined(s_conn_remove_object_connections({}), DOMAIN f,
               (connectible \ {}) \cup DOMAIN f, Placed(f), pin_bus)
    BY <1>1, RemoveNothing DEF Append
  <2>4. Swapped({}, DOMAIN f, Placed(f), pin_bus)
    BY <1>1, <2>1, <2>2, <2>3 DEF Swapped, Append
  <2> QED
    BY <2>1, <2>4
<1>2. ASSUME NEW o \in Objects, Remove(o) PROVE \E S \in SUBSET Objects : Left(S)
  BY <1>2 DEF Remove, Unit
<1>3. ASSUME NEW o \in Objects, NEW f \in Placements, Replace(o, f) PROVE Swap
  <2> DEFINE ln == [q \in Objects |-> IF q \in Unit(o) THEN NoLine ELSE Placed(f)[q]]
             pb == [q \in Objects |-> q \notin Unit(o) /\ pin_bus[q]]
  <2>1. /\ DOMAIN f \in SUBSET Objects
        /\ \A q \in connectible \cup DOMAIN f : Placed(f)[q] \in Lines
    BY <1>0, PlacedType
  <2>2. /\ DOMAIN f \cap (connectible \cup Unit(o)) = {}
        /\ Joined(s_conn_remove_object_connections(Unit(o)), DOMAIN f,
                  (connectible \ Unit(o)) \cup DOMAIN f, ln, pb)
    BY <1>3 DEF Replace
  <2>3. \A q \in connectible \ Unit(o) : ln[q] = line[q] /\ pb[q] = pin_bus[q]
    BY <1>0, <2>2 DEF Placed, ConnTypeOK
  <2>4. \A q \in (connectible \ Unit(o)) \cup DOMAIN f : ln[q] \in Lines
    BY <1>0, <2>1, <2>2
  <2>5. Swapped(Unit(o), DOMAIN f, ln, pb)
    BY <2>2, <2>3, <2>4 DEF Swapped
  <2>6. Unit(o) \in SUBSET Objects
    BY DEF Unit
  <2> QED
    BY <2>1, <2>5, <2>6
<1>4. CASE Clear
  BY <1>0, <1>4 DEF Clear
<1>5. ASSUME NEW S \in SUBSET connectible, NEW ln, NEW pb,
             Joined(s_conn_remove_object_connections(S), S, connectible, ln, pb),
             \A o \in connectible : ln[o] \in Lines,
             \A o \in connectible \ S : ln[o] = line[o] /\ pb[o] = pin_bus[o]
      PROVE  Swap
  <2>1. (connectible \ S) \cup S = connectible
    OBVIOUS
  <2>2. Swapped(S, S, ln, pb)
    BY <1>5, <2>1 DEF Swapped
  <2> QED
    BY <1>0, <2>2
<1>6. ASSUME NEW o \in Objects, NEW l \in Shapes, Reshape(o, l) PROVE Swap
  <2>1. \A q \in connectible : [line EXCEPT ![o] = l][q] \in Lines
    BY <1>0, ConnAssumption DEF ConnTypeOK
  <2>2. \A q \in connectible \ {o} : [line EXCEPT ![o] = l][q] = line[q]
    BY <1>0 DEF ConnTypeOK
  <2> QED
    <3>1. /\ {o} \in SUBSET connectible
          /\ Joined(s_conn_remove_object_connections({o}), {o}, connectible,
                    [line EXCEPT ![o] = l], pin_bus)
      BY <1>6 DEF Reshape
    <3> HIDE DEF Swap
    <3> QED
      BY <1>5, <2>1, <2>2, <3>1
<1>7. ASSUME NEW S \in SUBSET connectible, NEW m \in Moves, Transform(S, m) PROVE Swap
  <2> DEFINE ln == [o \in Objects |-> IF o \in S THEN m[line[o]] ELSE line[o]]
  <2>1. m \in [DOMAIN m -> Lines]
    BY ConnAssumption
  <2>2. \A o \in S : m[line[o]] \in Lines
    BY <1>7, <2>1 DEF Transform
  <2>3. \A q \in connectible : ln[q] \in Lines
    BY <1>0, <2>2 DEF ConnTypeOK
  <2>4. \A q \in connectible \ S : ln[q] = line[q]
    BY <1>0
  <2>5. Joined(s_conn_remove_object_connections(S), S, connectible, ln, pin_bus)
    BY <1>7 DEF Transform
  <2> QED
    BY <1>5, <2>3, <2>4, <2>5
<1>8. ASSUME NEW o \in Objects, SetPinType(o) PROVE Swap
  <2> DEFINE pb == [pin_bus EXCEPT ![o] = ~@]
  <2>1. \A q \in connectible \ {o} : line[q] = line[q] /\ pb[q] = pin_bus[q]
    BY <1>0 DEF ConnTypeOK
  <2>2. \A q \in connectible : line[q] \in Lines
    BY <1>0 DEF ConnTypeOK
  <2>3. /\ {o} \in SUBSET connectible
        /\ Joined(s_conn_remove_object_connections({o}), {o}, connectible, line, pb)
    BY <1>8 DEF SetPinType
  <2> HIDE DEF Swap, pb
  <2> QED
    BY <1>5, <2>1, <2>2, <2>3
<1>9. ASSUME NEW o \in Objects, ComplexRemove(o) PROVE \E S \in SUBSET Objects : Left(S)
  BY <1>9 DEF ComplexRemove
<1>10. ASSUME NEW o \in Objects, NEW l \in Shapes, ComplexAppend(o, l) PROVE Swap
  <2> DEFINE ln == [line EXCEPT ![o] = l]
  <2>1. \A q \in (connectible \ {}) \cup {o} : ln[q] \in Lines
    BY <1>0, ConnAssumption DEF ConnTypeOK
  <2>2. \A q \in connectible \ {o} : ln[q] = line[q]
    BY <1>0 DEF ConnTypeOK
  <2>3. Joined(s_conn_remove_object_connections({}), {o}, (connectible \ {}) \cup {o},
               ln, pin_bus)
    BY <1>10, RemoveNothing DEF ComplexAppend
  <2>4. Swapped({}, {o}, ln, pin_bus)
    <3>1. {o} \cap (connectible \ {}) = {}
      BY <1>10 DEF ComplexAppend
    <3>2. \A q \in connectible \ ({o} \cup {}) : ln[q] = line[q] /\ pin_bus[q] = pin_bus[q]
      BY <2>2
    <3> HIDE DEF ln
    <3> QED
      BY <2>1, <2>3, <3>1, <3>2, Zenon DEF Swapped
  <2> QED
    BY <2>4
<1>11. ASSUME NEW a \in Objects, NEW b \in Objects, Merge(a, b) PROVE Swap
  <2> DEFINE ln == [line EXCEPT ![a] = Merged(line[a], line[b]), ![b] = NoLine]
  <2>1. PICK c \in conn[a] : c.other = b
    BY <1>11 DEF Merge, Mergeable
  <2>2. a \in connectible /\ b \in connectible /\ a # b
    BY <1>11, <2>1 DEF Merge, Mergeable, ConnInv, ConnectionsMutual
  <2>3. Merged(line[a], line[b]) \in Lines
    BY <1>0, <2>2, MergedType DEF ConnTypeOK
  <2>4. /\ \A q \in connectible \ {b} : ln[q] \in Lines
        /\ \A q \in connectible \ {a, b} : ln[q] = line[q]
    BY <1>0, <2>2, <2>3 DEF ConnTypeOK
  <2>5. (connectible \ {b}) \cup {a} = connectible \ {b}
    BY <2>2
  <2>6. Joined(s_conn_remove_object_connections({b}), {a}, connectible \ {b}, ln, pin_bus)
        /\ consolidating
    BY <1>11 DEF Merge
  <2>7. Swapped({b}, {a}, ln, pin_bus)
    BY <2>4, <2>5, <2>6 DEF Swapped
  <2> QED
    BY <2>7
<1>12. ASSUME SaveState \/ ConsolidationEnds \/ UNCHANGED vars PROVE Kept
  BY <1>12 DEF SaveState, ConsolidationEnds, vars, Kept
<1>13. ASSUME NEW o \in Objects, NEW m \in Moves, ScriptTransform(o, m) PROVE Kept
  BY <1>0, <1>13 DEF ScriptTransform, Kept
<1> QED
  BY <1>1, <1>2, <1>3, <1>4, <1>6, <1>7, <1>8, <1>9, <1>10, <1>11, <1>12, <1>13 DEF Next

-----------------------------------------------------------------------------
(* The connections a fresh load would find. *)

\* No connection of objects that no script has moved is missing after a step ...
LEMMA CompleteStep ==
  ASSUME ConnInv, ConnectionsComplete, [Next]_vars
  PROVE  ConnectionsComplete'
<1>1. ASSUME NEW S \in SUBSET Objects, Left(S) PROVE ConnectionsComplete'
  <2> SUFFICES ASSUME NEW o \in connectible \ S, o \notin moved,
                      NEW b \in connectible \ S, b \notin moved,
                      NEW c \in Joints(line', pin_bus', o, b)
               PROVE  c \in conn'[o]
    BY <1>1 DEF ConnectionsComplete, Expected, Left
  <2>1. o \in Objects /\ b \in Objects /\ line[o] \in Lines /\ line[b] \in Lines
    BY DEF ConnInv, ConnTypeOK
  <2>2. Joints(line', pin_bus', o, b) = Joints(line, pin_bus, o, b)
    <3>1. /\ line'[o] = line[o] /\ line'[b] = line[b]
          /\ pin_bus'[o] = pin_bus[o] /\ pin_bus'[b] = pin_bus[b]
      BY <1>1, <2>1 DEF Left, ConnInv, ConnTypeOK
    <3> QED
      BY <3>1, JointsLocal
  <2>3. c \in conn[o] /\ c.other = b
    BY <2>1, <2>2, JointsType DEF ConnectionsComplete, Expected
  <2>4. conn' = Forgotten(S)
    BY <1>1, RemoveForgets DEF Left
  <2> QED
    BY <2>1, <2>3, <2>4 DEF Forgotten
<1>2. ASSUME NEW T \in SUBSET Objects, NEW S \in SUBSET Objects, NEW ln, NEW pb,
             Swapped(T, S, ln, pb)
      PROVE  ConnectionsComplete'
  <2> DEFINE cset == (connectible \ T) \cup S
  <2>1. /\ connectible' = cset /\ line' = ln /\ pin_bus' = pb
        /\ conn' = s_conn_update_object(Forgotten(T), S, cset, ln, pb)
        /\ moved' = (moved \cap cset) \ S
    BY <1>2, RemoveForgets DEF Swapped, Joined
  <2> SUFFICES ASSUME NEW o \in cset, o \notin moved \/ o \in S,
                      NEW b \in cset, b \notin moved \/ b \in S,
                      NEW c \in Joints(ln, pb, o, b)
               PROVE  c \in conn'[o]
    BY <2>1 DEF ConnectionsComplete, Expected
  <2>2. o \in Objects /\ b \in Objects /\ ln[o] \in Lines /\ ln[b] \in Lines
    BY <1>2 DEF Swapped, ConnInv, ConnTypeOK
  <2>3. CASE o \in S \/ b \in S
    BY <2>1, <2>2, <2>3 DEF s_conn_update_object
  <2>4. CASE o \notin S /\ b \notin S
    <3>1. o \in connectible \ (S \cup T) /\ b \in connectible \ (S \cup T)
      BY <2>4
    <3>2. Joints(ln, pb, o, b) = Joints(line, pin_bus, o, b)
      BY <1>2, <3>1, JointsLocal DEF Swapped
    <3>3. c.other = b
      BY <2>2, JointsType
    <3>4. c \in conn[o]
      BY <2>2, <3>1, <3>2 DEF ConnectionsComplete, Expected
    <3>5. c \in Forgotten(T)[o]
      BY <2>2, <3>1, <3>3, <3>4 DEF Forgotten
    <3> QED
      BY <2>1, <2>2, <3>5 DEF s_conn_update_object
  <2> QED
    BY <2>3, <2>4
<1>3. ASSUME Kept PROVE ConnectionsComplete'
  <2> SUFFICES ASSUME NEW o \in connectible \ moved', NEW b \in connectible \ moved'
               PROVE  Joints(line', pin_bus', o, b) \subseteq conn'[o]
    BY <1>3 DEF ConnectionsComplete, Expected, Kept
  <2>1. Joints(line', pin_bus', o, b) = Joints(line, pin_bus, o, b)
    BY <1>3, JointsLocal DEF Kept
  <2> QED
    BY <1>3, <2>1 DEF ConnectionsComplete, Expected, Kept, ConnInv, ConnTypeOK
<1> QED
  BY <1>1, <1>2, <1>3, StepForm

\* ... and without consolidation none is recorded that should not be.
ConnectionsSound ==
  \A a, b \in Objects \ moved : {c \in conn[a] : c.other = b} \subseteq Expected(a, b)

\* ... as no step but a merge leaves old end points behind.
LEMMA SoundStep ==
  ASSUME ConnInv, ConnectionsSound, ~consolidating, [Next]_vars
  PROVE  ConnectionsSound'
<1>1. ASSUME NEW S \in SUBSET Objects, Left(S) PROVE ConnectionsSound'
  <2> SUFFICES ASSUME NEW o \in Objects \ moved', NEW b \in Objects \ moved',
                      NEW c \in conn'[o], c.other = b
               PROVE  c \in Expected(o, b)'
    BY DEF ConnectionsSound
  <2>1. o \notin S /\ c \in conn[o] /\ b \notin S
    BY <1>1, RemoveForgets DEF Left, Forgotten
  <2>2. o \notin moved /\ b \notin moved
    BY <1>1, <2>1 DEF Left
  <2>3. o \in connectible /\ b \in connectible /\ c \in Joints(line, pin_bus, o, b)
    BY <2>1, <2>2 DEF ConnectionsSound, Expected
  <2>4. Joints(line', pin_bus', o, b) = Joints(line, pin_bus, o, b)
    <3>1. /\ line'[o] = line[o] /\ line'[b] = line[b]
          /\ pin_bus'[o] = pin_bus[o] /\ pin_bus'[b] = pin_bus[b]
      BY <1>1, <2>1 DEF Left, ConnInv, ConnTypeOK
    <3> QED
      BY <3>1, JointsLocal
  <2> QED
    BY <1>1, <2>1, <2>3, <2>4 DEF Expected, Left
<1>2. ASSUME NEW T \in SUBSET Objects, NEW S \in SUBSET Objects, NEW ln, NEW pb,
             Swapped(T, S, ln, pb)
      PROVE  ConnectionsSound'
  <2> DEFINE cset == (connectible \ T) \cup S
  <2>1. /\ connectible' = cset /\ line' = ln /\ pin_bus' = pb
        /\ conn' = s_conn_update_object(Forgotten(T), S, cset, ln, pb)
        /\ moved' = (moved \cap cset) \ S
    BY <1>2, RemoveForgets DEF Swapped, Joined
  <2> SUFFICES ASSUME NEW o \in Objects \ moved', NEW b \in Objects \ moved',
                      NEW c \in conn'[o], c.other = b
               PROVE  o \in cset /\ b \in cset /\ c \in Joints(ln, pb, o, b)
    BY <2>1 DEF ConnectionsSound, Expected
  <2>2. CASE c \in Forgotten(T)[o]
    <3>1. o \notin T /\ c \in conn[o] /\ b \notin T
      BY <2>2 DEF Forgotten
    <3>2. o \in connectible /\ b \in connectible
      BY <3>1 DEF ConnInv, ConnectionsMutual
    <3>3. o \notin S /\ b \notin S
      BY <1>2, <3>1, <3>2 DEF Swapped
    <3>4. o \notin moved /\ b \notin moved
      BY <2>1, <3>1, <3>2, <3>3
    <3>5. c \in Joints(line, pin_bus, o, b)
      BY <3>1, <3>4 DEF ConnectionsSound, Expected
    <3>6. Joints(ln, pb, o, b) = Joints(line, pin_bus, o, b)
      BY <1>2, <3>1, <3>2, <3>3, JointsLocal DEF Swapped
    <3> QED
      BY <3>1, <3>2, <3>5, <3>6
  <2>3. CASE c \notin Forgotten(T)[o]
    <3>1. PICK d \in cset : o \in cset /\ c \in Joints(ln, pb, o, d)
      BY <2>1, <2>3 DEF s_conn_update_object
    <3>2. ln[o] \in Lines /\ ln[d] \in Lines /\ d \in Objects
      BY <1>2, <3>1 DEF Swapped, ConnInv, ConnTypeOK
    <3>3. c.other = d
      BY <3>1, <3>2, JointsType
    <3> QED
      BY <3>1, <3>3
  <2> QED
    BY <2>2, <2>3
<1>3. ASSUME Kept PROVE ConnectionsSound'
  <2> SUFFICES ASSUME NEW o \in Objects \ moved', NEW b \in Objects \ moved',
                      NEW c \in conn[o], c.other = b
               PROVE  c \in Expected(o, b)'
    BY <1>3 DEF ConnectionsSound, Kept
  <2>1. o \in connectible /\ b \in connectible
    BY DEF ConnInv, ConnectionsMutual
  <2>2. o \notin moved /\ b \notin moved
    BY <1>3, <2>1 DEF Kept
  <2>3. c \in Joints(line, pin_bus, o, b)
    BY <2>2 DEF ConnectionsSound, Expected
  <2>4. Joints(line', pin_bus', o, b) = Joints(line, pin_bus, o, b)
    BY <1>3, <2>1, JointsLocal DEF Kept
  <2> QED
    BY <1>3, <2>1, <2>3, <2>4 DEF Expected, Kept
<1> QED
  BY <1>1, <1>2, <1>3, StepForm

-----------------------------------------------------------------------------
\* An empty page.
LEMMA InitConnInv ==
  ASSUME Init
  PROVE  ConnInv /\ ConnectionsComplete /\ ConnectionsSound
BY DEF Init, ConnInv, ConnTypeOK, ConnectionsMutual, ConnectionsComplete,
       ConnectionsSound, Expected

\* The lists s_conn.c keeps are lists of CONN structures about objects.
THEOREM ConnTypeCorrect == Spec => []ConnTypeOK
<1>1. Init => ConnInv
  BY InitConnInv
<1>2. ConnInv /\ [Next]_vars => ConnInv'
  BY NextConnInv
<1>3. ConnInv => ConnTypeOK
  BY DEF ConnInv
<1> QED
  BY <1>1, <1>2, <1>3, PTL DEF Spec

\* s_conn_remove_object_connections leaves no reference to an object that is
\* freed: whatever the geometry, component structure, scripts and
\* consolidation, every connection is recorded on both sides and is between
\* objects of the page.
THEOREM ConnectionsStayMutual == Spec => []ConnectionsMutual
<1>1. Init => ConnInv
  BY InitConnInv
<1>2. ConnInv /\ [Next]_vars => ConnInv'
  BY NextConnInv
<1>3. ConnInv => ConnectionsMutual
  BY DEF ConnInv
<1> QED
  BY <1>1, <1>2, <1>3, PTL DEF Spec

\* s_conn_update_object misses nothing: whatever scripts have done to other
\* objects, no connection a fresh load of the page would find is ever missing,
\* consolidation or not.
THEOREM NoConnectionIsMissing == Spec => []ConnectionsComplete
<1> DEFINE Inv == ConnInv /\ ConnectionsComplete
<1>1. Init => Inv
  BY InitConnInv
<1>2. Inv /\ [Next]_vars => Inv'
  BY NextConnInv, CompleteStep
<1> QED
  BY <1>1, <1>2, PTL DEF Spec

\* Every editing operation takes out of the connection system what it changes
\* and puts it back: without consolidation the connection lists are always
\* exactly those of a fresh load, but for what scripts have moved.
THEOREM ConnectionsStayExact ==
  ASSUME ~Consolidate
  PROVE  Spec => []ConnectionsExact
<1> DEFINE Inv == ConnInv /\ ConnectionsComplete /\ ConnectionsSound /\ ~consolidating
<1>1. Init => Inv
  BY InitConnInv DEF Init
<1>2. Inv /\ [Next]_vars => Inv'
  <2> SUFFICES ASSUME Inv, [Next]_vars
               PROVE  Inv'
    OBVIOUS
  <2>1. ConnInv' /\ ConnectionsComplete' /\ ConnectionsSound'
    BY NextConnInv, CompleteStep, SoundStep
  <2>2. ~consolidating'
    BY DEF Next, vars, Append, Remove, Replace, Clear, Reshape, Transform, SetPinType,
           ComplexRemove, ComplexAppend, ScriptTransform, SaveState, Merge, ConsolidationEnds
  <2> QED
    BY <2>1, <2>2
<1>3. Inv => ConnectionsExact
  <2> SUFFICES ASSUME Inv, NEW a \in Objects \ moved, NEW b \in Objects \ moved
               PROVE  {c \in conn[a] : c.other = b} = Expected(a, b)
    BY DEF ConnectionsExact
  <2>1. {c \in conn[a] : c.other = b} \subseteq Expected(a, b)
    BY DEF ConnectionsSound
  <2>2. Expected(a, b) \subseteq conn[a]
    BY DEF ConnectionsComplete
  <2>3. \A c \in Expected(a, b) : c.other = b
    BY JointsType DEF Expected, ConnInv, ConnTypeOK
  <2> QED
    BY <2>1, <2>2, <2>3
<1> QED
  BY <1>1, <1>2, <1>3, PTL DEF Spec

-----------------------------------------------------------------------------
(* Merging two segments that abut. *)

\* Two stretches of numbers that share one end and nothing else, and the stretch from
\* the least to the greatest of their ends.
LEMMA Stretches ==
  ASSUME NEW i \in Int, NEW j \in Int, NEW k \in Int, NEW l \in Int,
         NEW lo \in {i, j, k, l}, lo <= i, lo <= j, lo <= k, lo <= l,
         NEW hi \in {i, j, k, l}, hi >= i, hi >= j, hi >= k, hi >= l,
         NEW p \in Int, {i, j} \cap {k, l} = {p},
         ~Between(i, k, l), ~Between(j, k, l), ~Between(k, i, j), ~Between(l, i, j)
  PROVE  /\ \A q \in Int : Between(q, lo, hi) <=>
              Between(q, i, j) \/ Between(q, k, l) \/ (q = p /\ p # lo /\ p # hi)
         /\ \A q \in {i, j, k, l} : q \in {lo, hi} \/ q = p
<1>1. lo \in Int /\ hi \in Int
  OBVIOUS
<1>2. /\ (p = i \/ p = j) /\ (p = k \/ p = l)
      /\ i = k => i = p
      /\ i = l => i = p
      /\ j = k => j = p
      /\ j = l => j = p
  OBVIOUS
<1>3. CASE p = i /\ p = k
  BY <1>1, <1>2, <1>3 DEF Between
<1>4. CASE p = i /\ p = l
  BY <1>1, <1>2, <1>4 DEF Between
<1>5. CASE p = j /\ p = k
  BY <1>1, <1>2, <1>5 DEF Between
<1>6. CASE p = j /\ p = l
  BY <1>1, <1>2, <1>6 DEF Between
<1> QED
  BY <1>2, <1>3, <1>4, <1>5, <1>6

\* Two lines share nothing but the end p.
ShareEnd(k, l, p) ==
  /\ EndSet(k) \cap EndSet(l) = {p}
  /\ \A q \in EndSet(k) : ~s_conn_check_midpoint(l, q)
  /\ \A q \in EndSet(l) : ~s_conn_check_midpoint(k, q)

\* Line m is k and l together: p may have become an inner point, and nothing else
\* is different.
Composed(m, k, l, p) ==
  /\ EndSet(m) \subseteq EndSet(k) \cup EndSet(l)
  /\ \A q \in EndSet(k) \cup EndSet(l) : q \in EndSet(m) \/ q = p
  /\ On(m, p)
  /\ \A q \in Points : s_conn_check_midpoint(m, q) =>
       s_conn_check_midpoint(k, q) \/ s_conn_check_midpoint(l, q) \/ q = p
  /\ \A q \in Points : s_conn_check_midpoint(k, q) \/ s_conn_check_midpoint(l, q) =>
       s_conn_check_midpoint(m, q)

\* Both horizontal, or both vertical.
Aligned(k, l) == (horizontal(k) /\ horizontal(l)) \/ (vertical(k) /\ vertical(l))

\* The least and the greatest of four numbers.
LEMMA Extremes ==
  ASSUME NEW i \in Int, NEW j \in Int, NEW k \in Int, NEW l \in Int, NEW S, S = {i, j, k, l}
  PROVE  /\ Least(S) \in S /\ Least(S) <= i /\ Least(S) <= j /\ Least(S) <= k /\ Least(S) <= l
         /\ Greatest(S) \in S
         /\ Greatest(S) >= i /\ Greatest(S) >= j /\ Greatest(S) >= k /\ Greatest(S) >= l
<1>1. \E m \in S : \A n \in S : m <= n
  OBVIOUS
<1>2. \E m \in S : \A n \in S : m >= n
  OBVIOUS
<1>3. Least(S) \in S /\ \A n \in S : Least(S) <= n
  BY <1>1 DEF Least
<1>4. Greatest(S) \in S /\ \A n \in S : Greatest(S) >= n
  BY <1>2 DEF Greatest
<1> QED
  BY <1>3, <1>4

\* o_net_consolidate_lowlevel on horizontal lines ...
LEMMA ComposedHorizontally ==
  ASSUME NEW k \in Lines, NEW l \in Lines, horizontal(k), horizontal(l),
         NEW p, ShareEnd(k, l, p)
  PROVE  Composed(Merged(k, l), k, l, p)
<1>1. PICK x1 \in Int, y1 \in Int, x2 \in Int, y2 \in Int : k = <<<<x1, y1>>, <<x2, y2>>>>
  BY DEF Lines, Points
<1>2. PICK x3 \in Int, y3 \in Int, x4 \in Int, y4 \in Int : l = <<<<x3, y3>>, <<x4, y4>>>>
  BY DEF Lines, Points
<1>3. y2 = y1 /\ y4 = y3
  BY <1>1, <1>2 DEF horizontal
<1>4. PICK x \in Int, y \in Int : p = <<x, y>>
  BY <1>1, <1>2 DEF ShareEnd, EndSet
<1>5. y = y1 /\ y3 = y1
  BY <1>1, <1>2, <1>3, <1>4 DEF ShareEnd, EndSet
<1>6. {x1, x2} \cap {x3, x4} = {x}
  <2>1. {<<x1, y1>>, <<x2, y1>>} \cap {<<x3, y1>>, <<x4, y1>>} = {<<x, y1>>}
    <3>1. EndSet(k) = {<<x1, y1>>, <<x2, y1>>} /\ EndSet(l) = {<<x3, y1>>, <<x4, y1>>}
      BY <1>1, <1>2, <1>3, <1>5 DEF EndSet
    <3>2. EndSet(k) \cap EndSet(l) = {p} /\ p = <<x, y1>>
      BY <1>4, <1>5 DEF ShareEnd
    <3> QED
      BY <3>1, <3>2
  <2>2. \A u, v \in Int : <<u, y1>> = <<v, y1>> => u = v
    OBVIOUS
  <2>3. \A u \in Int : u \in {x1, x2} <=> <<u, y1>> \in {<<x1, y1>>, <<x2, y1>>}
    BY <2>2
  <2>4. \A u \in Int : u \in {x3, x4} <=> <<u, y1>> \in {<<x3, y1>>, <<x4, y1>>}
    BY <2>2
  <2>5. \A u \in Int : u \in {x1, x2} \cap {x3, x4} <=> u = x
    BY <2>1, <2>2, <2>3, <2>4
  <2> QED
    BY <2>5
<1>7. \A u, v, q1, q2 \in Int : s_conn_check_midpoint(<<<<u, y1>>, <<v, y1>>>>, <<q1, q2>>)
                                  <=> q2 = y1 /\ Between(q1, u, v)
  BY DEF s_conn_check_midpoint, Between
<1>8. ~Between(x1, x3, x4) /\ ~Between(x2, x3, x4) /\ ~Between(x3, x1, x2) /\ ~Between(x4, x1, x2)
  BY <1>1, <1>2, <1>3, <1>5, <1>7 DEF ShareEnd, EndSet
<1> DEFINE S == {x1, x2, x3, x4}
           lo == Least(S)
           hi == Greatest(S)
<1>9. Merged(k, l) = <<<<lo, y1>>, <<hi, y1>>>>
  BY <1>1, <1>2, <1>3 DEF Merged, horizontal
<1>10. /\ lo \in S /\ lo <= x1 /\ lo <= x2 /\ lo <= x3 /\ lo <= x4
       /\ hi \in S /\ hi >= x1 /\ hi >= x2 /\ hi >= x3 /\ hi >= x4
  BY Extremes
<1> HIDE DEF lo, hi
<1>11. /\ \A q \in Int : Between(q, lo, hi) <=>
            Between(q, x1, x2) \/ Between(q, x3, x4) \/ (q = x /\ x # lo /\ x # hi)
       /\ \A q \in S : q \in {lo, hi} \/ q = x
  BY <1>6, <1>8, <1>10, Stretches
<1>12. lo \in Int /\ hi \in Int
  BY <1>10
<1>13. /\ EndSet(Merged(k, l)) = {<<lo, y1>>, <<hi, y1>>}
       /\ EndSet(k) = {<<x1, y1>>, <<x2, y1>>}
       /\ EndSet(l) = {<<x3, y1>>, <<x4, y1>>}
  BY <1>1, <1>2, <1>3, <1>5, <1>9 DEF EndSet
<1>14. \A q1, q2 \in Int :
         /\ s_conn_check_midpoint(Merged(k, l), <<q1, q2>>) <=> q2 = y1 /\ Between(q1, lo, hi)
         /\ s_conn_check_midpoint(k, <<q1, q2>>) <=> q2 = y1 /\ Between(q1, x1, x2)
         /\ s_conn_check_midpoint(l, <<q1, q2>>) <=> q2 = y1 /\ Between(q1, x3, x4)
  <2>1. k = <<<<x1, y1>>, <<x2, y1>>>> /\ l = <<<<x3, y1>>, <<x4, y1>>>>
    BY <1>1, <1>2, <1>3, <1>5
  <2>2. ASSUME NEW u \in Int, NEW v \in Int, NEW m, m = <<<<u, y1>>, <<v, y1>>>>
        PROVE  \A q1, q2 \in Int :
                 s_conn_check_midpoint(m, <<q1, q2>>) <=> q2 = y1 /\ Between(q1, u, v)
    BY <1>7, <2>2
  <2>3. \A q1, q2 \in Int :
          s_conn_check_midpoint(Merged(k, l), <<q1, q2>>) <=> q2 = y1 /\ Between(q1, lo, hi)
    BY <1>9, <1>12, <2>2
  <2>4. \A q1, q2 \in Int : s_conn_check_midpoint(k, <<q1, q2>>) <=> q2 = y1 /\ Between(q1, x1, x2)
    BY <2>1, <2>2
  <2>5. \A q1, q2 \in Int : s_conn_check_midpoint(l, <<q1, q2>>) <=> q2 = y1 /\ Between(q1, x3, x4)
    BY <2>1, <2>2
  <2> QED
    BY <2>3, <2>4, <2>5
<1>15. /\ EndSet(Merged(k, l)) \subseteq EndSet(k) \cup EndSet(l)
       /\ \A q \in EndSet(k) \cup EndSet(l) : q \in EndSet(Merged(k, l)) \/ q = p
  BY <1>4, <1>5, <1>10, <1>11, <1>13
<1>16. On(Merged(k, l), p)
  BY <1>4, <1>5, <1>11, <1>13, <1>14 DEF On
<1>17. ASSUME NEW q \in Points
       PROVE  /\ s_conn_check_midpoint(Merged(k, l), q) =>
                   s_conn_check_midpoint(k, q) \/ s_conn_check_midpoint(l, q) \/ q = p
              /\ s_conn_check_midpoint(k, q) \/ s_conn_check_midpoint(l, q) =>
                   s_conn_check_midpoint(Merged(k, l), q)
  <2>1. PICK q1 \in Int, q2 \in Int : q = <<q1, q2>>
    BY DEF Points
  <2> QED
    BY <1>4, <1>5, <1>11, <1>14, <2>1
<1> QED
  BY <1>15, <1>16, <1>17 DEF Composed

\* ... and on vertical ones.
LEMMA ComposedVertically ==
  ASSUME NEW k \in Lines, NEW l \in Lines, vertical(k), vertical(l),
         NEW p, ShareEnd(k, l, p)
  PROVE  Composed(Merged(k, l), k, l, p)
<1>1. PICK x1 \in Int, y1 \in Int, x2 \in Int, y2 \in Int : k = <<<<x1, y1>>, <<x2, y2>>>>
  BY DEF Lines, Points
<1>2. PICK x3 \in Int, y3 \in Int, x4 \in Int, y4 \in Int : l = <<<<x3, y3>>, <<x4, y4>>>>
  BY DEF Lines, Points
<1>3. x2 = x1 /\ x4 = x3 /\ ~horizontal(k)
  BY <1>1, <1>2 DEF vertical
<1>4. PICK x \in Int, y \in Int : p = <<x, y>>
  BY <1>1, <1>2 DEF ShareEnd, EndSet
<1>5. x = x1 /\ x3 = x1
  BY <1>1, <1>2, <1>3, <1>4 DEF ShareEnd, EndSet
<1>6. {y1, y2} \cap {y3, y4} = {y}
  <2>1. {<<x1, y1>>, <<x1, y2>>} \cap {<<x1, y3>>, <<x1, y4>>} = {<<x1, y>>}
    <3>1. EndSet(k) = {<<x1, y1>>, <<x1, y2>>} /\ EndSet(l) = {<<x1, y3>>, <<x1, y4>>}
      BY <1>1, <1>2, <1>3, <1>5 DEF EndSet
    <3>2. EndSet(k) \cap EndSet(l) = {p} /\ p = <<x1, y>>
      BY <1>4, <1>5 DEF ShareEnd
    <3> QED
      BY <3>1, <3>2
  <2>2. \A u, v \in Int : <<x1, u>> = <<x1, v>> => u = v
    OBVIOUS
  <2>3. \A u \in Int : u \in {y1, y2} <=> <<x1, u>> \in {<<x1, y1>>, <<x1, y2>>}
    BY <2>2
  <2>4. \A u \in Int : u \in {y3, y4} <=> <<x1, u>> \in {<<x1, y3>>, <<x1, y4>>}
    BY <2>2
  <2>5. \A u \in Int : u \in {y1, y2} \cap {y3, y4} <=> u = y
    BY <2>1, <2>2, <2>3, <2>4
  <2> QED
    BY <2>5
<1>7. \A u, v, q1, q2 \in Int : s_conn_check_midpoint(<<<<x1, u>>, <<x1, v>>>>, <<q1, q2>>)
                                  <=> q1 = x1 /\ Between(q2, u, v)
  BY DEF s_conn_check_midpoint, Between
<1>8. ~Between(y1, y3, y4) /\ ~Between(y2, y3, y4) /\ ~Between(y3, y1, y2) /\ ~Between(y4, y1, y2)
  BY <1>1, <1>2, <1>3, <1>5, <1>7 DEF ShareEnd, EndSet
<1> DEFINE S == {y1, y2, y3, y4}
           lo == Least(S)
           hi == Greatest(S)
<1>9. Merged(k, l) = <<<<x1, lo>>, <<x1, hi>>>>
  BY <1>1, <1>2, <1>3 DEF Merged
<1>10. /\ lo \in S /\ lo <= y1 /\ lo <= y2 /\ lo <= y3 /\ lo <= y4
       /\ hi \in S /\ hi >= y1 /\ hi >= y2 /\ hi >= y3 /\ hi >= y4
  BY Extremes
<1> HIDE DEF lo, hi
<1>11. /\ \A q \in Int : Between(q, lo, hi) <=>
            Between(q, y1, y2) \/ Between(q, y3, y4) \/ (q = y /\ y # lo /\ y # hi)
       /\ \A q \in S : q \in {lo, hi} \/ q = y
  BY <1>6, <1>8, <1>10, Stretches
<1>12. lo \in Int /\ hi \in Int
  BY <1>10
<1>13. /\ EndSet(Merged(k, l)) = {<<x1, lo>>, <<x1, hi>>}
       /\ EndSet(k) = {<<x1, y1>>, <<x1, y2>>}
       /\ EndSet(l) = {<<x1, y3>>, <<x1, y4>>}
  BY <1>1, <1>2, <1>3, <1>5, <1>9 DEF EndSet
<1>14. \A q1, q2 \in Int :
         /\ s_conn_check_midpoint(Merged(k, l), <<q1, q2>>) <=> q1 = x1 /\ Between(q2, lo, hi)
         /\ s_conn_check_midpoint(k, <<q1, q2>>) <=> q1 = x1 /\ Between(q2, y1, y2)
         /\ s_conn_check_midpoint(l, <<q1, q2>>) <=> q1 = x1 /\ Between(q2, y3, y4)
  <2>1. k = <<<<x1, y1>>, <<x1, y2>>>> /\ l = <<<<x1, y3>>, <<x1, y4>>>>
    BY <1>1, <1>2, <1>3, <1>5
  <2>2. ASSUME NEW u \in Int, NEW v \in Int, NEW m, m = <<<<x1, u>>, <<x1, v>>>>
        PROVE  \A q1, q2 \in Int :
                 s_conn_check_midpoint(m, <<q1, q2>>) <=> q1 = x1 /\ Between(q2, u, v)
    BY <1>7, <2>2
  <2>3. \A q1, q2 \in Int :
          s_conn_check_midpoint(Merged(k, l), <<q1, q2>>) <=> q1 = x1 /\ Between(q2, lo, hi)
    BY <1>9, <1>12, <2>2
  <2>4. \A q1, q2 \in Int : s_conn_check_midpoint(k, <<q1, q2>>) <=> q1 = x1 /\ Between(q2, y1, y2)
    <3>1. \A q1, q2 \in Int : s_conn_check_midpoint(<<<<x1, y1>>, <<x1, y2>>>>, <<q1, q2>>)
                               <=> q1 = x1 /\ Between(q2, y1, y2)
      BY <1>7
    <3> QED
      BY <2>1, <3>1
  <2>5. \A q1, q2 \in Int : s_conn_check_midpoint(l, <<q1, q2>>) <=> q1 = x1 /\ Between(q2, y3, y4)
    <3>1. \A q1, q2 \in Int : s_conn_check_midpoint(<<<<x1, y3>>, <<x1, y4>>>>, <<q1, q2>>)
                               <=> q1 = x1 /\ Between(q2, y3, y4)
      BY <1>7
    <3> QED
      BY <2>1, <3>1
  <2> QED
    BY <2>3, <2>4, <2>5
<1>15. /\ EndSet(Merged(k, l)) \subseteq EndSet(k) \cup EndSet(l)
       /\ \A q \in EndSet(k) \cup EndSet(l) : q \in EndSet(Merged(k, l)) \/ q = p
  BY <1>4, <1>5, <1>10, <1>11, <1>13
<1>16. On(Merged(k, l), p)
  BY <1>4, <1>5, <1>11, <1>13, <1>14 DEF On
<1>17. ASSUME NEW q \in Points
       PROVE  /\ s_conn_check_midpoint(Merged(k, l), q) =>
                   s_conn_check_midpoint(k, q) \/ s_conn_check_midpoint(l, q) \/ q = p
              /\ s_conn_check_midpoint(k, q) \/ s_conn_check_midpoint(l, q) =>
                   s_conn_check_midpoint(Merged(k, l), q)
  <2>1. PICK q1 \in Int, q2 \in Int : q = <<q1, q2>>
    BY DEF Points
  <2> QED
    BY <1>4, <1>5, <1>11, <1>14, <2>1
<1> QED
  BY <1>15, <1>16, <1>17 DEF Composed

\* A line that takes over another one still reaches where it did.
LEMMA MergedReaches ==
  ASSUME NEW k \in Lines, NEW l \in Lines, horizontal(k) \/ vertical(k),
         NEW q \in Points, On(k, q)
  PROVE  On(Merged(k, l), q)
<1>1. PICK x1 \in Int, y1 \in Int, x2 \in Int, y2 \in Int : k = <<<<x1, y1>>, <<x2, y2>>>>
  BY DEF Lines, Points
<1>2. PICK x3 \in Int, y3 \in Int, x4 \in Int, y4 \in Int : l = <<<<x3, y3>>, <<x4, y4>>>>
  BY DEF Lines, Points
<1>3. PICK q1 \in Int, q2 \in Int : q = <<q1, q2>>
  BY DEF Points
<1> DEFINE X == {x1, x2, x3, x4}
           Y == {y1, y2, y3, y4}
           x == Least(X)
           xx == Greatest(X)
           y == Least(Y)
           yy == Greatest(Y)
<1>4. Merged(k, l) = IF horizontal(k) THEN <<<<x, y1>>, <<xx, y2>>>> ELSE <<<<x1, y>>, <<x2, yy>>>>
  BY <1>1, <1>2 DEF Merged
<1>5. /\ x \in X /\ x <= x1 /\ x <= x2
      /\ xx \in X /\ xx >= x1 /\ xx >= x2
  BY Extremes
<1>6. /\ y \in Y /\ y <= y1 /\ y <= y2
      /\ yy \in Y /\ yy >= y1 /\ yy >= y2
  BY Extremes
<1> HIDE DEF x, y, xx, yy
<1>7. x \in Int /\ y \in Int /\ xx \in Int /\ yy \in Int
  BY <1>5, <1>6
<1>8. ASSUME NEW a \in Int, NEW b \in Int, NEW c \in Int, NEW d \in Int, NEW m,
             m = <<<<a, b>>, <<c, d>>>>
      PROVE  On(m, q) <=> \/ q1 = a /\ q2 = b
                          \/ q1 = c /\ q2 = d
                          \/ a = c /\ q1 = a /\ Between(q2, b, d)
                          \/ b = d /\ q2 = b /\ Between(q1, a, c)
  BY <1>3, <1>8 DEF On, EndSet, s_conn_check_midpoint
<1>9. \/ q1 = x1 /\ q2 = y1
      \/ q1 = x2 /\ q2 = y2
      \/ x1 = x2 /\ q1 = x1 /\ Between(q2, y1, y2)
      \/ y1 = y2 /\ q2 = y1 /\ Between(q1, x1, x2)
  BY <1>1, <1>8
<1>10. CASE horizontal(k)
  <2>1. y1 = y2
    BY <1>1, <1>10 DEF horizontal
  <2>2. Merged(k, l) = <<<<x, y1>>, <<xx, y2>>>>
    BY <1>4, <1>10
  <2>3. \/ q1 = x /\ q2 = y1
        \/ q1 = xx /\ q2 = y2
        \/ y1 = y2 /\ q2 = y1 /\ Between(q1, x, xx)
    BY <1>5, <1>7, <1>9, <2>1 DEF Between
  <2> QED
    BY <1>7, <1>8, <2>2, <2>3
<1>11. CASE ~horizontal(k)
  <2>1. x1 = x2 /\ y1 # y2
    BY <1>1, <1>11 DEF vertical, horizontal
  <2>2. Merged(k, l) = <<<<x1, y>>, <<x2, yy>>>>
    BY <1>4, <1>11
  <2>3. \/ q1 = x1 /\ q2 = y
        \/ q1 = x2 /\ q2 = yy
        \/ x1 = x2 /\ q1 = x1 /\ Between(q2, y, yy)
    BY <1>6, <1>7, <1>9, <2>1 DEF Between
  <2> QED
    BY <1>7, <1>8, <2>2, <2>3
<1> QED
  BY <1>10, <1>11

\* Two lines of one direction that share nothing but an end have no other point in
\* common.
LEMMA OneCommonPoint ==
  ASSUME NEW k \in Lines, NEW l \in Lines, Aligned(k, l), NEW p, ShareEnd(k, l, p),
         NEW q \in Points, On(k, q), On(l, q)
  PROVE  q = p
<1>1. PICK x1 \in Int, y1 \in Int, x2 \in Int, y2 \in Int : k = <<<<x1, y1>>, <<x2, y2>>>>
  BY DEF Lines, Points
<1>2. PICK x3 \in Int, y3 \in Int, x4 \in Int, y4 \in Int : l = <<<<x3, y3>>, <<x4, y4>>>>
  BY DEF Lines, Points
<1>3. PICK q1 \in Int, q2 \in Int : q = <<q1, q2>>
  BY DEF Points
<1>4. CASE q \in EndSet(k) \/ q \in EndSet(l)
  <2>1. q \in EndSet(k) /\ q \in EndSet(l)
    BY <1>4 DEF On, ShareEnd
  <2> QED
    BY <2>1 DEF ShareEnd
<1>5. CASE s_conn_check_midpoint(k, q) /\ s_conn_check_midpoint(l, q)
  <2>1. \/ x1 = x2 /\ q1 = x1 /\ Between(q2, y1, y2)
        \/ y1 = y2 /\ q2 = y1 /\ Between(q1, x1, x2)
    BY <1>1, <1>3, <1>5 DEF s_conn_check_midpoint
  <2>2. \/ x3 = x4 /\ q1 = x3 /\ Between(q2, y3, y4)
        \/ y3 = y4 /\ q2 = y3 /\ Between(q1, x3, x4)
    BY <1>2, <1>3, <1>5 DEF s_conn_check_midpoint
  <2>3. \/ y1 = y2 /\ y3 = y4
        \/ y1 # y2 /\ y3 # y4 /\ x1 = x2 /\ x3 = x4
    BY <1>1, <1>2 DEF Aligned, horizontal, vertical
  <2>4. /\ EndSet(k) = {<<x1, y1>>, <<x2, y2>>}
        /\ EndSet(l) = {<<x3, y3>>, <<x4, y4>>}
    BY <1>1, <1>2 DEF EndSet
  <2>5. \A a, b \in Int :
          /\ <<a, b>> \in EndSet(k) =>
               ~(x3 = x4 /\ a = x3 /\ Between(b, y3, y4)) /\ ~(y3 = y4 /\ b = y3 /\ Between(a, x3, x4))
          /\ <<a, b>> \in EndSet(l) =>
               ~(x1 = x2 /\ a = x1 /\ Between(b, y1, y2)) /\ ~(y1 = y2 /\ b = y1 /\ Between(a, x1, x2))
    BY <1>1, <1>2 DEF ShareEnd, s_conn_check_midpoint
  <2>6. /\ ~(x3 = x4 /\ x1 = x3 /\ Between(y1, y3, y4)) /\ ~(y3 = y4 /\ y1 = y3 /\ Between(x1, x3, x4))
        /\ ~(x3 = x4 /\ x2 = x3 /\ Between(y2, y3, y4)) /\ ~(y3 = y4 /\ y2 = y3 /\ Between(x2, x3, x4))
        /\ ~(x1 = x2 /\ x3 = x1 /\ Between(y3, y1, y2)) /\ ~(y1 = y2 /\ y3 = y1 /\ Between(x3, x1, x2))
        /\ ~(x1 = x2 /\ x4 = x1 /\ Between(y4, y1, y2)) /\ ~(y1 = y2 /\ y4 = y1 /\ Between(x4, x1, x2))
    BY <2>4, <2>5
  <2>7. \A a, b, c, d \in Int : <<a, b>> \in EndSet(k) \cap EndSet(l) /\ <<c, d>> \in EndSet(k) \cap EndSet(l)
                                  => a = c /\ b = d
    BY DEF ShareEnd
  <2>8. CASE y1 = y2 /\ y3 = y4
    <3>1. y1 = y3 /\ Between(q1, x1, x2) /\ Between(q1, x3, x4)
      BY <2>1, <2>2, <2>8 DEF Between
    <3>2. x1 # x2 /\ ((x1 = x3 /\ x2 = x4) \/ (x1 = x4 /\ x2 = x3))
      BY <2>6, <2>8, <3>1 DEF Between
    <3>3. <<x1, y1>> \in EndSet(k) \cap EndSet(l) /\ <<x2, y1>> \in EndSet(k) \cap EndSet(l)
      BY <2>4, <2>8, <3>1, <3>2
    <3> QED
      BY <2>7, <3>2, <3>3
  <2>9. CASE y1 # y2 /\ y3 # y4 /\ x1 = x2 /\ x3 = x4
    <3>1. x1 = x3 /\ Between(q2, y1, y2) /\ Between(q2, y3, y4)
      BY <2>1, <2>2, <2>9
    <3>2. (y1 = y3 /\ y2 = y4) \/ (y1 = y4 /\ y2 = y3)
      BY <2>6, <2>9, <3>1 DEF Between
    <3>3. <<x1, y1>> \in EndSet(k) \cap EndSet(l) /\ <<x1, y2>> \in EndSet(k) \cap EndSet(l)
      BY <2>4, <2>9, <3>1, <3>2
    <3> QED
      BY <2>7, <2>9, <3>3
  <2> QED
    BY <2>3, <2>8, <2>9
<1> QED
  BY <1>4, <1>5 DEF On

\* A net along line l touches object v.
Meets(l, ln, pb, v) ==
  \/ ~is_bus_related(pb, v) /\ \E q \in EndSet(l) : q \in Ends(ln, v)
  \/ Type[v] # "pin" /\ \E q \in EndSet(l) : s_conn_check_midpoint(ln[v], q)
  \/ ~is_bus_related(pb, v) /\ \E q \in Ends(ln, v) : s_conn_check_midpoint(l, q)

\* What touches a net: only nets have both middles and ends that connect to anything.
LEMMA TouchesNet ==
  ASSUME NEW ln, NEW pb, NEW a, NEW v \in Objects, Type[a] = "net"
  PROVE  Touch(ln, pb, a, v) <=> a # v /\ Reachable(a, v) /\ Meets(ln[a], ln, pb, v)
<1>1. ~is_bus_related(pb, a)
  BY DEF is_bus_related
<1>2. check_direct_compat(pb, a, v) = ~is_bus_related(pb, v) /\ check_direct_compat(pb, v, a) = ~is_bus_related(pb, v)
  BY <1>1 DEF check_direct_compat, is_bus_related
<1>3. Ends(ln, a) = EndSet(ln[a])
  BY DEF Ends, EndSet
<1>4. Type[v] \in {"net", "bus", "pin"}
  BY ConnAssumption
<1>5. EndsMeet(ln, pb, a, v) # {} <=> ~is_bus_related(pb, v) /\ \E q \in EndSet(ln[a]) : q \in Ends(ln, v)
  BY <1>2, <1>3 DEF EndsMeet
<1>6. EndsInside(ln, pb, a, v) # {} <=>
        Type[v] # "pin" /\ \E q \in EndSet(ln[a]) : s_conn_check_midpoint(ln[v], q)
  <2>1. Type[v] = "net" => ~is_bus_related(pb, v)
    BY DEF is_bus_related
  <2>2. Type[v] # "pin" /\ ((Type[a] = "net" /\ Type[v] = "bus") \/ check_direct_compat(pb, a, v))
          <=> Type[v] # "pin"
    BY <1>2, <1>4, <2>1
  <2> QED
    BY <1>3, <2>2 DEF EndsInside
<1>7. EndsInside(ln, pb, v, a) # {} <=>
        ~is_bus_related(pb, v) /\ \E q \in Ends(ln, v) : s_conn_check_midpoint(ln[a], q)
  BY <1>2 DEF EndsInside
<1>8. \A S : [other : {v}, type : {"endpoint"}, at : S] # {} <=> S # {}
  <2> SUFFICES ASSUME NEW S
               PROVE  [other : {v}, type : {"endpoint"}, at : S] # {} <=> S # {}
    OBVIOUS
  <2>1. \A q \in S : [other |-> v, type |-> "endpoint", at |-> q] \in [other : {v}, type : {"endpoint"}, at : S]
    OBVIOUS
  <2>2. \A c \in [other : {v}, type : {"endpoint"}, at : S] : c.at \in S
    OBVIOUS
  <2> QED
    BY <2>1, <2>2
<1>9. \A S : [other : {v}, type : {"midpoint"}, at : S] # {} <=> S # {}
  <2> SUFFICES ASSUME NEW S
               PROVE  [other : {v}, type : {"midpoint"}, at : S] # {} <=> S # {}
    OBVIOUS
  <2>1. \A q \in S : [other |-> v, type |-> "midpoint", at |-> q] \in [other : {v}, type : {"midpoint"}, at : S]
    OBVIOUS
  <2>2. \A c \in [other : {v}, type : {"midpoint"}, at : S] : c.at \in S
    OBVIOUS
  <2> QED
    BY <2>1, <2>2
<1>10. Touch(ln, pb, a, v) <=>
         /\ a # v /\ Reachable(a, v)
         /\ \/ EndsMeet(ln, pb, a, v) # {}
            \/ EndsInside(ln, pb, a, v) # {}
            \/ EndsInside(ln, pb, v, a) # {}
  BY <1>8, <1>9 DEF Touch, Joints
<1> QED
  BY <1>5, <1>6, <1>7, <1>10 DEF Meets

\* Two segments that abut touch together what the merged one touches, if nothing else
\* has its middle where they meet.
LEMMA MeetsComposed ==
  ASSUME NEW m, NEW k, NEW l, NEW p, Composed(m, k, l, p), ShareEnd(k, l, p),
         NEW ln, NEW pb, NEW v, Ends(ln, v) \subseteq Points,
         Type[v] # "pin" => ~s_conn_check_midpoint(ln[v], p)
  PROVE  Meets(m, ln, pb, v) <=> Meets(k, ln, pb, v) \/ Meets(l, ln, pb, v)
<1>1. p \in EndSet(k) /\ p \in EndSet(l)
  BY DEF ShareEnd
<1>2. ASSUME Meets(m, ln, pb, v) PROVE Meets(k, ln, pb, v) \/ Meets(l, ln, pb, v)
  <2>1. CASE ~is_bus_related(pb, v) /\ \E q \in EndSet(m) : q \in Ends(ln, v)
    BY <2>1 DEF Composed, Meets
  <2>2. CASE Type[v] # "pin" /\ \E q \in EndSet(m) : s_conn_check_midpoint(ln[v], q)
    BY <2>2 DEF Composed, Meets
  <2>3. CASE ~is_bus_related(pb, v) /\ \E q \in Ends(ln, v) : s_conn_check_midpoint(m, q)
    <3>1. PICK q \in Ends(ln, v) : s_conn_check_midpoint(m, q)
      BY <2>3
    <3>2. s_conn_check_midpoint(k, q) \/ s_conn_check_midpoint(l, q) \/ q = p
      BY <3>1 DEF Composed
    <3> QED
      BY <1>1, <2>3, <3>2 DEF Meets
  <2> QED
    BY <1>2, <2>1, <2>2, <2>3 DEF Meets
<1>3. ASSUME NEW n \in {k, l}, Meets(n, ln, pb, v) PROVE Meets(m, ln, pb, v)
  <2>1. CASE ~is_bus_related(pb, v) /\ \E q \in EndSet(n) : q \in Ends(ln, v)
    <3>1. PICK q \in EndSet(n) : q \in Ends(ln, v)
      BY <2>1
    <3>2. q \in EndSet(m) \/ q = p
      BY <3>1 DEF Composed
    <3>3. q \in EndSet(m) \/ s_conn_check_midpoint(m, q)
      BY <3>2 DEF Composed, On
    <3> QED
      BY <2>1, <3>1, <3>3 DEF Meets
  <2>2. CASE Type[v] # "pin" /\ \E q \in EndSet(n) : s_conn_check_midpoint(ln[v], q)
    <3>1. PICK q \in EndSet(n) : s_conn_check_midpoint(ln[v], q)
      BY <2>2
    <3>2. q # p
      BY <2>2, <3>1
    <3>3. q \in EndSet(m)
      BY <3>1, <3>2 DEF Composed
    <3> QED
      BY <2>2, <3>1, <3>3 DEF Meets
  <2>3. CASE ~is_bus_related(pb, v) /\ \E q \in Ends(ln, v) : s_conn_check_midpoint(n, q)
    <3>1. PICK q \in Ends(ln, v) : s_conn_check_midpoint(n, q)
      BY <2>3
    <3>2. s_conn_check_midpoint(m, q)
      BY <3>1 DEF Composed
    <3> QED
      BY <2>3, <3>1, <3>2 DEF Meets
  <2> QED
    BY <1>3, <2>1, <2>2, <2>3 DEF Meets
<1> QED
  BY <1>2, <1>3

\* Linked, for any relation R of what touches what.
LinkedBy(C, R, x, y) ==
  \A S \in SUBSET C : (x \in S /\ \A u \in S, v \in C \ S : <<u, v>> \notin R) => y \in S

\* When a takes over b and all that b touches, the others are linked as before.
LEMMA TakenOver ==
  ASSUME NEW C, NEW R, NEW R2, NEW a \in C, NEW b \in C, a # b, <<a, b>> \in R,
         \A u, v \in C : <<u, v>> \in R => <<v, u>> \in R,
         \A u, v \in C \ {b} : <<u, v>> \in R2 => <<v, u>> \in R2,
         \A u, v \in C \ {a, b} : <<u, v>> \in R2 <=> <<u, v>> \in R,
         \A v \in C \ {a, b} : <<a, v>> \in R2 <=> <<a, v>> \in R \/ <<b, v>> \in R,
         NEW x \in C \ {b}, NEW y \in C \ {b}
  PROVE  LinkedBy(C, R, x, y) <=> LinkedBy(C \ {b}, R2, x, y)
<1>1. ASSUME LinkedBy(C, R, x, y), NEW T \in SUBSET (C \ {b}), x \in T,
             \A u \in T, v \in (C \ {b}) \ T : <<u, v>> \notin R2
      PROVE  y \in T
  <2> DEFINE S == IF a \in T THEN T \cup {b} ELSE T
  <2>1. S \in SUBSET C /\ x \in S
    BY <1>1
  <2>2. ASSUME NEW u \in S, NEW v \in C \ S, <<u, v>> \in R PROVE FALSE
    <3>1. CASE u = b
      <4>1. a \in T /\ v \in (C \ {b}) \ T /\ v # a
        BY <2>2, <3>1
      <4> QED
        BY <1>1, <2>2, <3>1, <4>1
    <3>2. CASE u = a
      <4>1. a \in T /\ v \in (C \ {b}) \ T /\ v # a
        BY <2>2, <3>2
      <4> QED
        BY <1>1, <2>2, <3>2, <4>1
    <3>3. CASE u \notin {a, b}
      <4>1. u \in T /\ u \in C \ {a, b}
        BY <2>1, <2>2, <3>3
      <4>2. CASE v = b
        <5>1. a \notin T /\ a \in (C \ {b}) \ T
          BY <2>2, <4>2
        <5>2. <<b, u>> \in R
          BY <2>2, <4>1, <4>2
        <5>3. <<u, a>> \in R2
          BY <4>1, <5>2
        <5> QED
          BY <1>1, <4>1, <5>1, <5>3
      <4>3. CASE v = a
        <5>1. a \in (C \ {b}) \ T
          BY <2>2, <4>3
        <5>2. <<a, u>> \in R
          BY <2>2, <4>1, <4>3
        <5>3. <<u, a>> \in R2
          BY <4>1, <5>2
        <5> QED
          BY <1>1, <4>1, <5>1, <5>3
      <4>4. CASE v \notin {a, b}
        <5>1. v \in (C \ {b}) \ T
          BY <2>2, <4>4
        <5> QED
          BY <1>1, <2>2, <4>1, <4>4, <5>1
      <4> QED
        BY <4>2, <4>3, <4>4
    <3> QED
      BY <3>1, <3>2, <3>3
  <2>3. y \in S
    BY <1>1, <2>1, <2>2 DEF LinkedBy
  <2> QED
    BY <2>3
<1>2. ASSUME LinkedBy(C \ {b}, R2, x, y), NEW S \in SUBSET C, x \in S,
             \A u \in S, v \in C \ S : <<u, v>> \notin R
      PROVE  y \in S
  <2> DEFINE T == S \ {b}
  <2>1. T \in SUBSET (C \ {b}) /\ x \in T
    BY <1>2
  <2>2. a \in S <=> b \in S
    BY <1>2
  <2>3. ASSUME NEW u \in T, NEW v \in (C \ {b}) \ T, <<u, v>> \in R2 PROVE FALSE
    <3>1. u \in S /\ v \in C \ S
      BY <2>3
    <3>2. CASE u = a
      BY <1>2, <2>2, <2>3, <3>1, <3>2
    <3>3. CASE v = a
      <4>1. <<a, u>> \in R2 /\ u \in C \ {a, b}
        BY <2>3, <3>1, <3>3
      <4>2. <<a, u>> \in R \/ <<b, u>> \in R
        BY <4>1
      <4>3. <<u, a>> \in R \/ <<u, b>> \in R
        BY <4>1, <4>2
      <4>4. b \in C \ S
        BY <2>2, <3>1, <3>3
      <4> QED
        BY <1>2, <3>1, <3>3, <4>3, <4>4
    <3>4. CASE u # a /\ v # a
      BY <1>2, <2>3, <3>1, <3>4
    <3> QED
      BY <3>2, <3>3, <3>4
  <2>4. y \in T
    BY <1>2, <2>1, <2>3 DEF LinkedBy
  <2> QED
    BY <2>4
<1> QED
  BY <1>1, <1>2 DEF LinkedBy

-----------------------------------------------------------------------------
(* Where connections are recorded. *)

\* A connection is recorded at a point of both objects: while scripts keep off, also
\* when nets have been merged since.
Meeting ==
  \A a \in Objects : \A c \in conn[a] :
    Reachable(a, c.other) /\ On(line[a], c.at) /\ On(line[c.other], c.at)

\* It is when it is found ...
LEMMA JointsMeet ==
  ASSUME NEW ln, NEW pb, NEW a \in Objects, NEW b \in Objects, NEW c \in Joints(ln, pb, a, b)
  PROVE  Reachable(a, b) /\ On(ln[a], c.at) /\ On(ln[b], c.at)
<1>1. \A o \in Objects : Ends(ln, o) \subseteq EndSet(ln[o])
  BY ConnAssumption DEF Ends, EndSet
<1>2. Reachable(a, b)
  BY DEF Joints
<1>3. c.at \in EndsMeet(ln, pb, a, b) \cup EndsInside(ln, pb, a, b) \cup EndsInside(ln, pb, b, a)
  BY DEF Joints
<1>4. CASE c.at \in EndsMeet(ln, pb, a, b)
  BY <1>1, <1>2, <1>4 DEF EndsMeet, On
<1>5. CASE c.at \in EndsInside(ln, pb, a, b)
  BY <1>1, <1>2, <1>5 DEF EndsInside, On
<1>6. CASE c.at \in EndsInside(ln, pb, b, a)
  BY <1>1, <1>2, <1>6 DEF EndsInside, On
<1> QED
  BY <1>3, <1>4, <1>5, <1>6

\* ... and stays so when the objects that change without being taken out only grow.
LEMMA SwappedMeet ==
  ASSUME ConnInv, Meeting, NEW T \in SUBSET Objects, NEW S \in SUBSET Objects,
         NEW ln, NEW pb, Swapped(T, S, ln, pb),
         \A o \in S \cap (connectible \ T) : \A q \in Points : On(line[o], q) => On(ln[o], q)
  PROVE  Meeting'
<1> DEFINE cset == (connectible \ T) \cup S
<1>1. /\ line' = ln
      /\ conn' = s_conn_update_object(Forgotten(T), S, cset, ln, pb)
  BY RemoveForgets DEF Swapped, Joined
<1> SUFFICES ASSUME NEW o \in Objects, NEW c \in conn'[o]
             PROVE  Reachable(o, c.other) /\ On(ln[o], c.at) /\ On(ln[c.other], c.at)
  BY <1>1 DEF Meeting
<1>2. CASE c \in Forgotten(T)[o]
  <2>1. o \notin T /\ c \in conn[o] /\ c.other \notin T
    BY <1>2 DEF Forgotten
  <2>2. o \in connectible \ T /\ c.other \in connectible \ T
    BY <2>1 DEF ConnInv, ConnectionsMutual
  <2>3. c.at \in Points
    BY <2>1 DEF ConnInv, ConnTypeOK, Conns
  <2>4. \A d \in connectible \ T : On(line[d], c.at) => On(ln[d], c.at)
    BY <2>3 DEF Swapped
  <2> QED
    BY <2>1, <2>2, <2>4 DEF Meeting
<1>3. CASE c \notin Forgotten(T)[o]
  <2>1. PICK d \in cset : o \in cset /\ c \in Joints(ln, pb, o, d)
    BY <1>1, <1>3 DEF s_conn_update_object
  <2>2. ln[o] \in Lines /\ ln[d] \in Lines /\ d \in Objects
    BY <2>1 DEF Swapped, ConnInv, ConnTypeOK
  <2>3. c.other = d
    BY <2>1, <2>2, JointsType
  <2> QED
    BY <2>1, <2>2, <2>3, JointsMeet
<1> QED
  BY <1>2, <1>3

\* What a merge does.
LEMMA MergeForm ==
  ASSUME ConnInv, NEW a \in Objects, NEW b \in Objects, Merge(a, b)
  PROVE  /\ a \in connectible /\ b \in connectible /\ a # b
         /\ connectible' = connectible \ {b}
         /\ line'[a] = Merged(line[a], line[b])
         /\ \A q \in connectible \ {a, b} : line'[q] = line[q]
         /\ pin_bus' = pin_bus
         /\ Swapped({b}, {a}, line', pin_bus)
<1>1. PICK c \in conn[a] : c.other = b
  BY DEF Merge, Mergeable
<1>2. a \in connectible /\ b \in connectible /\ a # b
  BY <1>1 DEF Merge, Mergeable, ConnInv, ConnectionsMutual
<1>3. line' = [line EXCEPT ![a] = Merged(line[a], line[b]), ![b] = NoLine] /\ pin_bus' = pin_bus
      /\ connectible' = connectible \ {b}
  BY DEF Merge, Joined
<1>4. Merged(line[a], line[b]) \in Lines
  BY <1>2, MergedType DEF ConnInv, ConnTypeOK
<1>5. /\ line'[a] = Merged(line[a], line[b])
      /\ \A q \in connectible \ {a, b} : line'[q] = line[q]
      /\ \A q \in connectible \ {b} : line'[q] \in Lines
  BY <1>2, <1>3, <1>4 DEF ConnInv, ConnTypeOK
<1>6. (connectible \ {b}) \cup {a} = connectible \ {b}
  BY <1>2
<1>7. Joined(s_conn_remove_object_connections({b}), {a}, connectible \ {b}, line', pin_bus)
      /\ consolidating
  BY <1>3 DEF Merge
<1> QED
  BY <1>2, <1>3, <1>5, <1>6, <1>7 DEF Swapped

\* Without scripts nothing is marked as moved.
LEMMA NothingMoved ==
  ASSUME ~Scripts, moved = {}, [Next]_vars
  PROVE  moved' = {}
BY DEF Next, vars, Append, Remove, Replace, Clear, Reshape, Transform, SetPinType,
       ComplexRemove, ComplexAppend, ScriptTransform, SaveState, Merge, ConsolidationEnds,
       Left, Joined

\* Every step: merging is the only one that changes an object in place.
LEMMA MeetingStep ==
  ASSUME ConnInv, Meeting, ~Scripts, moved = {}, [Next]_vars
  PROVE  Meeting'
<1>1. CASE \E a, b \in Objects : Merge(a, b)
  <2>1. PICK a \in Objects, b \in Objects : Merge(a, b)
    BY <1>1
  <2>2. /\ a \in connectible /\ b \in connectible
        /\ line'[a] = Merged(line[a], line[b])
        /\ Swapped({b}, {a}, line', pin_bus)
    BY <2>1, MergeForm
  <2>3. horizontal(line[a]) \/ vertical(line[a])
    BY <2>1 DEF Merge, Mergeable, SameOrientation
  <2>4. \A q \in Points : On(line[a], q) => On(line'[a], q)
    BY <2>2, <2>3, MergedReaches DEF ConnInv, ConnTypeOK
  <2> QED
    BY <2>2, <2>4, SwappedMeet
<1>2. CASE ~\E a, b \in Objects : Merge(a, b)
  <2>1. ASSUME NEW S \in SUBSET Objects, Left(S) PROVE Meeting'
    <3>1. conn' = Forgotten(S)
      BY <2>1, RemoveForgets DEF Left
    <3> SUFFICES ASSUME NEW o \in Objects, NEW c \in Forgotten(S)[o]
                 PROVE  Reachable(o, c.other) /\ On(line'[o], c.at) /\ On(line'[c.other], c.at)
      BY <3>1 DEF Meeting
    <3>2. o \notin S /\ c \in conn[o] /\ c.other \notin S
      BY DEF Forgotten
    <3>3. c.other \in Objects
      BY <3>2 DEF ConnInv, ConnTypeOK, Conns
    <3>4. line'[o] = line[o] /\ line'[c.other] = line[c.other]
      BY <2>1, <3>2, <3>3 DEF Left
    <3> QED
      BY <3>2, <3>4 DEF Meeting
  <2>2. CASE Kept
    <3>1. \A o \in connectible : line'[o] = line[o]
      BY <2>2, NothingMoved DEF Kept
    <3>2. ASSUME NEW o \in Objects, NEW c \in conn'[o]
          PROVE  Reachable(o, c.other) /\ On(line'[o], c.at) /\ On(line'[c.other], c.at)
      <4>1. c \in conn[o] /\ o \in connectible /\ c.other \in connectible
        BY <2>2, <3>2 DEF Kept, ConnInv, ConnectionsMutual
      <4> QED
        BY <3>1, <4>1 DEF Meeting
    <3> QED
      BY <3>2 DEF Meeting
  <2>3. CASE consolidating
    <3>1. ConsolidationEnds \/ UNCHANGED vars
      BY <1>2, <2>3 DEF Next, Append, Remove, Replace, Clear, Reshape, Transform, SetPinType,
         ComplexRemove, ComplexAppend, ScriptTransform, SaveState
    <3>2. conn' = conn /\ line' = line
      BY <3>1 DEF ConsolidationEnds, vars
    <3> QED
      BY <3>2 DEF Meeting
  <2>4. ASSUME ~consolidating, NEW T \in SUBSET Objects, NEW S \in SUBSET Objects,
               NEW ln, NEW pb, Swapped(T, S, ln, pb)
        PROVE  Meeting'
    <3>1. S \cap (connectible \ T) = {}
      BY <2>4 DEF Swapped
    <3> QED
      BY <2>4, <3>1, SwappedMeet
  <2> QED
    BY <2>1, <2>2, <2>3, <2>4, StepForm
<1> QED
  BY <1>1, <1>2

-----------------------------------------------------------------------------
(* Consolidation keeps nets as they are. *)

\* A pair is finite.
LEMMA PairIsFinite == \A i, j : IsFiniteSet({i, j})
<1> SUFFICES ASSUME NEW i, NEW j PROVE IsFiniteSet({i, j})
  OBVIOUS
<1>1. IsFiniteSet({i}) /\ IsFiniteSet({i} \cup {j})
  BY FS_Singleton, FS_AddElement
<1>2. {i} \cup {j} = {i, j}
  OBVIOUS
<1> QED
  BY <1>1, <1>2

\* What touches what is mutual.
LEMMA TouchSymmetric ==
  ASSUME NEW ln, NEW pb, NEW a, NEW b
  PROVE  Touch(ln, pb, a, b) => Touch(ln, pb, b, a)
BY JointsSymmetric DEF Touch

\* Linked and LinkedBy are the same.
LEMMA LinkedIsLinkedBy ==
  ASSUME NEW C, NEW ln, NEW pb, NEW x, NEW y
  PROVE  Linked(C, ln, pb, x, y) <=>
           LinkedBy(C, {w \in C \X C : Touch(ln, pb, w[1], w[2])}, x, y)
<1> DEFINE R == {w \in C \X C : Touch(ln, pb, w[1], w[2])}
<1>1. \A u, v \in C : <<u, v>> \in R <=> Touch(ln, pb, u, v)
  OBVIOUS
<1> HIDE DEF R
<1>2. \A S \in SUBSET C :
        (\A u \in S, v \in C \ S : ~Touch(ln, pb, u, v)) <=> (\A u \in S, v \in C \ S : <<u, v>> \notin R)
  BY <1>1
<1>3. Linked(C, ln, pb, x, y) <=> LinkedBy(C, R, x, y)
  BY <1>2 DEF Linked, LinkedBy
<1> QED
  BY <1>3 DEF R

\* The two nets that are merged meet in one point, where no other object has its middle,
\* and the merged one touches what they touched.
LEMMA MergeTouches ==
  ASSUME ConnInv, ConnectionsComplete, Meeting, moved = {},
         NEW a \in Objects, NEW b \in Objects, Merge(a, b), Abutting(a, b)
  PROVE  /\ Touch(line, pin_bus, a, b)
         /\ \A v \in connectible \ {a, b} :
              Touch(line', pin_bus', a, v) <=>
                Touch(line, pin_bus, a, v) \/ Touch(line, pin_bus, b, v)
<1>1. /\ a \in connectible /\ b \in connectible /\ a # b
      /\ line'[a] = Merged(line[a], line[b])
      /\ \A q \in connectible \ {a, b} : line'[q] = line[q]
      /\ pin_bus' = pin_bus
  BY MergeForm
<1>2. /\ Type[a] = "net" /\ Type[b] = "net" /\ Parent[a] = NoParent
      /\ Aligned(line[a], line[b])
  BY DEF Merge, Mergeable, SameOrientation, Aligned
<1>3. PICK c \in conn[a] : c.other = b /\ c.type = "endpoint" /\ o_net_consolidate_nomidpoint(a, c.at)
  BY DEF Merge, Mergeable
<1>4. /\ Reachable(a, b) /\ On(line[a], c.at) /\ On(line[b], c.at) /\ c.at \in Points
  BY <1>3 DEF Meeting, ConnInv, ConnTypeOK, Conns
<1>5. Parent[b] = NoParent
  BY <1>2, <1>4 DEF Reachable
<1>6. /\ line[a] \in Lines /\ line[b] \in Lines
      /\ Ends(line, a) = EndSet(line[a]) /\ Ends(line, b) = EndSet(line[b])
  BY <1>1, <1>2 DEF ConnInv, ConnTypeOK, Ends, EndSet
<1>7. PICK p : EndSet(line[a]) \cap EndSet(line[b]) = {p}
  <2> DEFINE both == EndSet(line[a]) \cap EndSet(line[b])
  <2>1. both \subseteq {line[a][1], line[a][2]}
    BY DEF EndSet
  <2>2. Cardinality(both) = 1
    <3>1. Cardinality(Ends(line, a) \cap Ends(line, b)) = 1
      BY DEF Abutting
    <3> QED
      BY <1>6, <3>1, Zenon
  <2> HIDE DEF both
  <2>3. IsFiniteSet({line[a][1], line[a][2]})
    BY PairIsFinite
  <2>4. IsFiniteSet(both)
    BY <2>1, <2>3, FS_Subset
  <2>5. \E p : both = {p}
    BY <2>2, <2>4, FS_Singleton
  <2> QED
    BY <2>5 DEF both
<1>8. ShareEnd(line[a], line[b], p)
  BY <1>6, <1>7 DEF Abutting, ShareEnd
<1>9. c.at = p
  BY <1>2, <1>4, <1>6, <1>8, OneCommonPoint
<1>10. Composed(line'[a], line[a], line[b], p)
  BY <1>1, <1>2, <1>6, <1>8, ComposedHorizontally, ComposedVertically DEF Aligned
<1>11. Touch(line, pin_bus, a, b)
  <2>1. ~is_bus_related(pin_bus, b)
    BY <1>2 DEF is_bus_related
  <2>2. p \in EndSet(line[a]) /\ p \in Ends(line, b)
    BY <1>6, <1>7
  <2>3. Meets(line[a], line, pin_bus, b)
    BY <2>1, <2>2 DEF Meets
  <2> QED
    BY <1>1, <1>2, <1>4, <2>3, TouchesNet
<1>12. ASSUME NEW v \in connectible \ {a, b}
       PROVE  Touch(line', pin_bus', a, v) <=>
                Touch(line, pin_bus, a, v) \/ Touch(line, pin_bus, b, v)
  <2>1. v \in Objects /\ line[v] \in Lines /\ line'[v] = line[v]
    BY <1>1 DEF ConnInv, ConnTypeOK
  <2>2. Ends(line', v) = Ends(line, v) /\ Ends(line, v) \subseteq Points
    <3>1. line[v][1] \in Points /\ line[v][2] \in Points
      BY <2>1 DEF Lines
    <3> QED
      BY <2>1, <3>1, ConnAssumption DEF Ends
  <2>3. Reachable(b, v) <=> Reachable(a, v)
    BY <1>2, <1>5 DEF Reachable
  <2>4. ASSUME Reachable(a, v), Type[v] # "pin", s_conn_check_midpoint(line[v], p) PROVE FALSE
    <3>1. p \in EndsInside(line, pin_bus, a, v)
      <4>1. p \in Ends(line, a)
        BY <1>6, <1>7
      <4>2. Type[v] \in {"net", "bus"}
        BY <2>1, <2>4, ConnAssumption
      <4>3. (Type[a] = "net" /\ Type[v] = "bus") \/ check_direct_compat(pin_bus, a, v)
        BY <1>2, <4>2 DEF check_direct_compat, is_bus_related
      <4> QED
        BY <2>4, <4>1, <4>3 DEF EndsInside
    <3> DEFINE d == [other |-> v, type |-> "midpoint", at |-> p]
    <3>2. d \in Joints(line, pin_bus, a, v)
      BY <2>4, <3>1 DEF Joints
    <3>3. d \in conn[a]
      BY <1>1, <2>1, <3>2 DEF ConnectionsComplete, Expected
    <3> QED
      BY <1>3, <1>9, <3>3 DEF o_net_consolidate_nomidpoint
  <2>5. CASE ~Reachable(a, v)
    <3>1. ~Touch(line', pin_bus', a, v) /\ ~Touch(line, pin_bus, a, v) /\ ~Touch(line, pin_bus, b, v)
      BY <1>2, <2>1, <2>3, <2>5, TouchesNet
    <3> QED
      BY <3>1
  <2>6. CASE Reachable(a, v)
    <3>1. Meets(line'[a], line, pin_bus, v) <=>
            Meets(line[a], line, pin_bus, v) \/ Meets(line[b], line, pin_bus, v)
      BY <1>8, <1>10, <2>2, <2>4, <2>6, MeetsComposed
    <3>2. Meets(line'[a], line', pin_bus', v) <=> Meets(line'[a], line, pin_bus, v)
      BY <1>1, <2>1, <2>2 DEF Meets
    <3>3. Touch(line', pin_bus', a, v) <=> Meets(line'[a], line', pin_bus', v)
      BY <1>2, <2>1, <2>6, TouchesNet
    <3>4. Touch(line, pin_bus, a, v) <=> Meets(line[a], line, pin_bus, v)
      BY <1>2, <2>1, <2>6, TouchesNet
    <3>5. Touch(line, pin_bus, b, v) <=> Meets(line[b], line, pin_bus, v)
      BY <1>2, <2>1, <2>3, <2>6, TouchesNet
    <3> QED
      BY <3>1, <3>2, <3>3, <3>4, <3>5
  <2> QED
    BY <2>5, <2>6
<1> QED
  BY <1>11, <1>12

\* Merging two nets that abut links what was linked before.
LEMMA MergeLinks ==
  ASSUME ConnInv, ConnectionsComplete, Meeting, moved = {},
         NEW a \in Objects, NEW b \in Objects, Merge(a, b), Abutting(a, b),
         NEW x \in connectible \cap connectible', NEW y \in connectible \cap connectible'
  PROVE  Linked(connectible, line, pin_bus, x, y)
           <=> Linked(connectible', line', pin_bus', x, y)
<1> DEFINE C == connectible
           D == connectible \ {b}
           R == {w \in C \X C : Touch(line, pin_bus, w[1], w[2])}
           Q == {w \in D \X D : Touch(line', pin_bus', w[1], w[2])}
<1>1. /\ a \in C /\ b \in C /\ a # b
      /\ connectible' = D
      /\ \A q \in C \ {a, b} : line'[q] = line[q]
      /\ pin_bus' = pin_bus
  BY MergeForm
<1>2. \A u, v \in C : <<u, v>> \in R <=> Touch(line, pin_bus, u, v)
  OBVIOUS
<1>3. \A u, v \in D : <<u, v>> \in Q <=> Touch(line', pin_bus', u, v)
  OBVIOUS
<1>4. /\ Linked(connectible, line, pin_bus, x, y) <=> LinkedBy(C, R, x, y)
      /\ Linked(D, line', pin_bus', x, y) <=> LinkedBy(D, Q, x, y)
  BY LinkedIsLinkedBy
<1> HIDE DEF R, Q
<1>5. <<a, b>> \in R
  BY <1>1, <1>2, MergeTouches
<1>6. \A u, v \in C : <<u, v>> \in R => <<v, u>> \in R
  BY <1>2, TouchSymmetric
<1>7. \A u, v \in C \ {b} : <<u, v>> \in Q => <<v, u>> \in Q
  BY <1>3, TouchSymmetric
<1>8. \A u, v \in C \ {a, b} : <<u, v>> \in Q <=> <<u, v>> \in R
  <2> TAKE u, v \in C \ {a, b}
  <2>1. Joints(line', pin_bus', u, v) = Joints(line, pin_bus, u, v)
    BY <1>1, JointsLocal
  <2> QED
    BY <1>2, <1>3, <2>1 DEF Touch
<1>9. \A v \in C \ {a, b} : <<a, v>> \in Q <=> <<a, v>> \in R \/ <<b, v>> \in R
  BY <1>1, <1>2, <1>3, MergeTouches
<1>10. x \in C \ {b} /\ y \in C \ {b}
  BY <1>1
<1>11. LinkedBy(C, R, x, y) <=> LinkedBy(C \ {b}, Q, x, y)
  BY <1>1, <1>5, <1>6, <1>7, <1>8, <1>9, <1>10, TakenOver
<1> QED
  BY <1>1, <1>4, <1>11

\* o_net_consolidate_nomidpoint, "Net segment's only can be merged if there is no midpoint
\* connection": while scripts keep off, merging segments that share nothing but the point
\* where they meet never changes which of the other objects are connected, for any nets,
\* buses, pins and components and any order of merging.
THEOREM MergingKeepsNets ==
  ASSUME ~Scripts
  PROVE  Spec => ConsolidationKeepsAbuttingNets
<1> DEFINE Inv == ConnInv /\ ConnectionsComplete /\ Meeting /\ moved = {}
<1>1. Init => Inv
  BY InitConnInv DEF Init, Meeting
<1>2. Inv /\ [Next]_vars => Inv'
  BY NextConnInv, CompleteStep, MeetingStep, NothingMoved
<1>3. Inv /\ [Next]_vars => [KeepsNetsAbutting]_vars
  <2> SUFFICES ASSUME Inv, Next, \A a, b \in connectible : Mergeable(a, b) => Abutting(a, b),
                      consolidating, consolidating',
                      NEW x \in connectible \cap connectible', NEW y \in connectible \cap connectible'
               PROVE  Linked(connectible, line, pin_bus, x, y)
                        <=> Linked(connectible', line', pin_bus', x, y)
    BY DEF KeepsNetsAbutting, KeepsNets
  <2>1. PICK a \in Objects, b \in Objects : Merge(a, b)
    BY DEF Next, Append, Remove, Replace, Clear, Reshape, Transform, SetPinType,
       ComplexRemove, ComplexAppend, ScriptTransform, SaveState, ConsolidationEnds
  <2>2. a \in connectible /\ b \in connectible
    BY <2>1, MergeForm
  <2>3. Abutting(a, b)
    BY <2>1, <2>2 DEF Merge
  <2> QED
    BY <2>1, <2>3, MergeLinks
<1> QED
  BY <1>1, <1>2, <1>3, PTL DEF Spec, ConsolidationKeepsAbuttingNets

\* geda_net_object_consolidate: while scripts keep off, every recorded connection is at a
\* point that is on both objects, for any nets, buses, pins and components, any editing
\* and any order of merging, though merging keeps connections of ends that are gone.
THEOREM ConnectionsStayWhereLinesMeet ==
  ASSUME ~Scripts
  PROVE  Spec => []ConnectionsMeet
<1> DEFINE Inv == ConnInv /\ ConnectionsComplete /\ Meeting /\ moved = {}
<1>1. Init => Inv
  BY InitConnInv DEF Init, Meeting
<1>2. Inv /\ [Next]_vars => Inv'
  BY NextConnInv, CompleteStep, MeetingStep, NothingMoved
<1>3. Inv => ConnectionsMeet
  BY DEF Meeting, ConnectionsMeet
<1> QED
  BY <1>1, <1>2, <1>3, PTL DEF Spec
=============================================================================
