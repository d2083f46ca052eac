------------------------------- MODULE MCConn -------------------------------
(* Instances of Conn for TLC. *)
EXTENDS Conn, TLC

CONSTANTS n1, n2, n3, b1, px, nx, py, X, Y

Grid       == (0 .. 2) \X (0 .. 2)
MCType     == [o \in Objects |-> CASE o \in {n1, n2, n3, nx} -> "net"
                                   [] o = b1 -> "bus"
                                   [] OTHER -> "pin"]
MCParent   == [o \in Objects |-> CASE o \in {px, nx} -> X
                                   [] o = py -> Y
                                   [] OTHER -> NoParent]
MCWhichEnd == [o \in Objects |-> IF o = py THEN 2 ELSE 1]

\* A horizontal and a vertical line through the middle of the grid, and halves
\* of the horizontal one.
H  == <<<<0, 1>>, <<2, 1>>>>
V  == <<<<1, 0>>, <<1, 2>>>>
HL == <<<<0, 1>>, <<1, 1>>>>
HR == <<<<1, 1>>, <<2, 1>>>>
VT == <<<<1, 1>>, <<1, 2>>>>

\* A component X of a net and a pin, a component Y of a pin, nets and buses.
MCPlacements == {f \in {(px :> HL @@ nx :> V), (py :> HR), (n1 :> H), (n1 :> VT), (b1 :> V)} :
                   DOMAIN f \subseteq Objects}
MCShapes == {H, VT}
NoShapes == {}

\* A quarter turn about the middle of the grid.
Rotated(q) == <<2 - q[2], q[1]>>
Quarter == [l \in Grid \X Grid |-> <<Rotated(l[1]), Rotated(l[2])>>]
Half    == [l \in Grid \X Grid |-> Quarter[Quarter[l]]]
HalfTurn == {Half}

\* Segments of a horizontal net, nets or a bus that cross it, and a pin; no two
\* segments run on top of each other.
AbutPlacements == {f \in {(n1 :> HL), (n2 :> HR), (n3 :> VT), (n3 :> V),
                          (b1 :> V), (b1 :> VT), (py :> HR), (py :> <<<<0, 0>>, <<0, 1>>>>)} :
                    DOMAIN f \subseteq Objects}
=============================================================================
