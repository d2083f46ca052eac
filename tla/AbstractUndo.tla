---------------------------- MODULE AbstractUndo ----------------------------
(***************************************************************************)
(* What undo promises its user: every page has a linear history of the     *)
(* schematics it showed and a position in it.  Recording an edit forgets   *)
(* the future, undo and redo move by one entry and show exactly that       *)
(* entry, and the oldest entries may be forgotten when something is        *)
(* recorded, never the newest.  An entry whose backup was trimmed while a  *)
(* viewport change on top of it survived is Lost: stepping onto it leaves  *)
(* the schematic as it is.                                                 *)
(***************************************************************************)
EXTENDS Integers, Sequences

CONSTANTS Pages, Contents, EmptyPage, Lost

VARIABLES doc, hist, pos

vars == <<doc, hist, pos>>

\* Histories left when the oldest k entries of h are dropped and the next m
\* entries can no longer be shown.
Forgotten(h) ==
  {[i \in 1 .. Len(h) - k |-> IF i <= m THEN Lost ELSE h[i + k]] :
     k \in 0 .. Len(h) - 1, m \in 0 .. Len(h) - 1}

Recorded(p, entry) == Append(SubSeq(hist[p], 1, pos[p]), entry)

Record(p, c, entry) ==
  \E h \in Forgotten(Recorded(p, entry)) :
    /\ h[Len(h)] = entry
    /\ doc' = [doc EXCEPT ![p] = c]
    /\ hist' = [hist EXCEPT ![p] = h]
    /\ pos' = [pos EXCEPT ![p] = Len(h)]

Edit(p) == \E c \in Contents : Record(p, c, c)

\* A viewport change is an entry that shows what the entry below it shows.
View(p) ==
  Record(p, doc[p], IF pos[p] = 0 THEN Lost ELSE hist[p][pos[p]])

Step(p, i) ==
  /\ i \in 1 .. Len(hist[p])
  /\ pos' = [pos EXCEPT ![p] = i]
  /\ doc' = [doc EXCEPT ![p] = IF hist[p][i] = Lost THEN doc[p] ELSE hist[p][i]]
  /\ UNCHANGED hist

Undo(p) == Step(p, pos[p] - 1)
Redo(p) == pos[p] # 0 /\ Step(p, pos[p] + 1)

\* A page may be loaded before anything is recorded about it.
Load(p) ==
  /\ pos[p] = 0
  /\ \E c \in Contents : doc' = [doc EXCEPT ![p] = c]
  /\ UNCHANGED <<hist, pos>>

Close(p) ==
  /\ doc' = [doc EXCEPT ![p] = EmptyPage]
  /\ hist' = [hist EXCEPT ![p] = <<>>]
  /\ pos' = [pos EXCEPT ![p] = 0]

\* The program ends.
Exit ==
  /\ doc' = [p \in Pages |-> EmptyPage]
  /\ hist' = [p \in Pages |-> <<>>]
  /\ pos' = [p \in Pages |-> 0]

Init ==
  /\ doc = [p \in Pages |-> EmptyPage]
  /\ hist = [p \in Pages |-> <<>>]
  /\ pos = [p \in Pages |-> 0]

Next ==
  \/ \E p \in Pages : Load(p) \/ Edit(p) \/ View(p) \/ Undo(p) \/ Redo(p) \/ Close(p)
  \/ Exit

Spec == Init /\ [][Next]_vars
=============================================================================
