-------------------------- MODULE HierarchyProofs ---------------------------
(***************************************************************************)
(* Proofs about module Hierarchy and the module Undo that it extends.      *)
(*                                                                         *)
(* First the undo lists by themselves (Spec): type correctness; undo files *)
(* are neither shared, overwritten nor left behind at exit; a page shows   *)
(* what it showed when its current node was saved; trimming keeps the      *)
(* levels it promises; the lists implement the histories of AbstractUndo.  *)
(*                                                                         *)
(* Then the hierarchy (HSpec): the list of pages, where page->up leads,    *)
(* and that no walk up goes round in a circle.                             *)
(*                                                                         *)
(* Its inductive invariant is HierInv.  Undo and redo restore the place a  *)
(* page had, so where page->up may lead has to be said of every node of    *)
(* every undo list too (PlacesAreGood), and of pages by what was loaded    *)
(* and not by what is open: the page above may be closed by now.           *)
(*                                                                         *)
(* The lemmas named ...Inv take it through each action.  Without undo a    *)
(* step moves at most one page (PlaceStep), and NoCircle holds: it speaks  *)
(* of sets of pages closed under page->up; that a walk which does not      *)
(* leave the design runs into such a set is by counting (WalkRepeats,      *)
(* WalksEnd).                                                              *)
(*                                                                         *)
(* That pages of equal page_control belong to one source= list needs the   *)
(* same of every node of every undo list, and of what is left of a descent *)
(* (ControlsAreGood, DescentIsOneList).                                    *)
(***************************************************************************)
EXTENDS Hierarchy, SequenceTheorems, FiniteSetTheorems, WellFoundedInduction, TLAPS

-----------------------------------------------------------------------------
(* Lemmas about lists of nodes. *)

\* The levels of a list are at most its nodes.
LEMMA LevelsBound ==
  ASSUME NEW s \in Seq(Node)
  PROVE  Levels(s) \in 0 .. Len(s)
<1>0. Len(s) \in Nat /\ DOMAIN s = 1 .. Len(s)
  OBVIOUS
<1>1. IsFiniteSet(1 .. Len(s)) /\ Cardinality(1 .. Len(s)) = Len(s)
  BY <1>0, FS_Interval
<1>2. {i \in DOMAIN s : HasData(s[i])} \in SUBSET (1 .. Len(s))
  BY <1>0
<1>3. /\ IsFiniteSet({i \in DOMAIN s : HasData(s[i])})
      /\ Cardinality({i \in DOMAIN s : HasData(s[i])}) <= Len(s)
  BY <1>1, <1>2, FS_Subset
<1> QED
  BY <1>0, <1>3, FS_CardinalityType DEF Levels

\* Trimming never frees the newest node of a list.
LEMMA TrimCountBound ==
  ASSUME NEW s \in Seq(Node), s # <<>>, NEW index \in Nat
  PROVE  TrimCount(s, index) \in 0 .. Len(s) - 1
<1>1. Len(s) \in Nat \ {0}
  OBVIOUS
<1> QED
  BY <1>1, LevelsBound, ConstantsAssumption DEF TrimCount

\* What clearing the redo nodes and adding a node n makes of a list.
LEMMA PushedProperties ==
  ASSUME TypeOK, NEW p \in Pages, NEW n \in Node
  PROVE  /\ Pushed(p, n) \in Seq(Node)
         /\ Len(Pushed(p, n)) = undo_current[p] + 1
         /\ \A i \in 1 .. undo_current[p] : Pushed(p, n)[i] = undo[p][i]
         /\ Pushed(p, n)[undo_current[p] + 1] = n
<1>1. undo[p] \in Seq(Node) /\ undo_current[p] \in 0 .. Len(undo[p])
  BY DEF TypeOK
<1>2. /\ SubSeq(undo[p], 1, undo_current[p]) \in Seq(Node)
      /\ Len(SubSeq(undo[p], 1, undo_current[p])) = undo_current[p]
      /\ \A i \in 1 .. undo_current[p] :
           SubSeq(undo[p], 1, undo_current[p])[i] = undo[p][i]
  BY <1>1
<1> QED
  BY <1>2, AppendProperties DEF Pushed

\* What dropping the oldest k nodes makes of a list.
LEMMA Tail2Properties ==
  ASSUME NEW s \in Seq(Node), NEW k \in 0 .. Len(s)
  PROVE  /\ Tail2(s, k) \in Seq(Node)
         /\ Len(Tail2(s, k)) = Len(s) - k
         /\ \A i \in 1 .. Len(s) - k : Tail2(s, k)[i] = s[i + k]
  BY DEF Tail2

\* A nonempty set of positions in a list has a greatest one.
LEMMA Greatest ==
  ASSUME NEW n \in Nat, NEW S \in SUBSET (1 .. n), S # {}
  PROVE  \E j \in S : \A k \in S : k <= j
<1> DEFINE R == {ss \in Nat \X Nat : ss[1] < ss[2]}
           T == {n - j : j \in S}
<1>1. IsWellFoundedOn(R, Nat)
  <2>1. IsWellFoundedOn(OpToRel(<, Nat), Nat)
    BY NatLessThanWellFounded
  <2> QED
    BY <2>1 DEF OpToRel
<1>2. T \subseteq Nat /\ T # {}
  <2>1. \A j \in S : j \in 1 .. n /\ n - j \in Nat
    OBVIOUS
  <2> QED
    BY <2>1
<1> HIDE DEF R, T
<1>3. \E x \in T : \A y \in T : ~ (<<y, x>> \in R)
  BY <1>1, <1>2, WFMin
<1>4. PICK x \in T : \A y \in T : ~(y < x)
  BY <1>2, <1>3 DEF R
<1>5. PICK j \in S : x = n - j
  BY <1>4 DEF T
<1>6. \A k \in S : k <= j
  <2> TAKE k \in S
  <2>1. n - k \in T
    BY DEF T
  <2>2. ~(n - k < n - j)
    BY <2>1, <1>4, <1>5
  <2>3. k \in 1 .. n /\ j \in 1 .. n
    OBVIOUS
  <2> QED
    BY <2>2, <2>3
<1> QED
  BY <1>6

\* The search for the data of an older node ends at a node of the list.
LEMMA PrevProperties ==
  ASSUME NEW s \in Seq(Node), NEW i \in 1 .. Len(s)
  PROVE  /\ \/ o_undo_find_prev_filename(s, i) = NoFile
            \/ \E j \in 1 .. i - 1 :
                 s[j].filename # NoFile /\ o_undo_find_prev_filename(s, i) = s[j].filename
         /\ \/ o_undo_find_prev_object_head(s, i) = NoObjects
            \/ \E j \in 1 .. i - 1 :
                 o_undo_find_prev_object_head(s, i) = s[j].object_list
<1> DEFINE F == {j \in 1 .. i - 1 : s[j].filename # NoFile}
           O == {j \in 1 .. i - 1 : s[j].object_list # NoObjects}
<1>1. i - 1 \in Nat
  OBVIOUS
<1>2. F # {} => \E j \in F : \A k \in F : k <= j
  BY <1>1, Greatest
<1>3. O # {} => \E j \in O : \A k \in O : k <= j
  BY <1>1, Greatest
<1>4. o_undo_find_prev_filename(s, i) =
        LET j == IF F = {} THEN 0 ELSE CHOOSE j \in F : \A k \in F : k <= j
        IN  IF j = 0 THEN NoFile ELSE s[j].filename
  BY DEF o_undo_find_prev_filename, PrevWith
<1>5. o_undo_find_prev_object_head(s, i) =
        LET j == IF O = {} THEN 0 ELSE CHOOSE j \in O : \A k \in O : k <= j
        IN  IF j = 0 THEN NoObjects ELSE s[j].object_list
  BY DEF o_undo_find_prev_object_head, PrevWith
<1>6. \/ o_undo_find_prev_filename(s, i) = NoFile
      \/ \E j \in F : o_undo_find_prev_filename(s, i) = s[j].filename
  BY <1>2, <1>4
<1>7. \/ o_undo_find_prev_object_head(s, i) = NoObjects
      \/ \E j \in O : o_undo_find_prev_object_head(s, i) = s[j].object_list
  BY <1>3, <1>5
<1> QED
  BY <1>6, <1>7

-----------------------------------------------------------------------------
(* What o_undo_savestate does to the lists, in terms of nodes. *)

\* The node that is added, and the list that is left, when page p is saved.
Saved(flag, c, l) == NewNode(flag, IF flag = "UNDO_ALL" THEN Consolidate[c] ELSE c, l)
IndexAfter(n)     == IF n.filename = NoFile THEN undo_file_index ELSE undo_file_index + 1
Dropped(p, n)     == TrimCount(Pushed(p, n), IndexAfter(n))

\* A state that o_undo_savestate may be asked to save.
Saveable(flag, c, l, w) ==
  /\ flag \in NodeType
  /\ c \in Contents \cup {EmptyPage}
  /\ flag = "UNDO_ALL" => c \in Contents
  /\ l \in Links
  /\ w \in Written

\* The added node is a node, if there is a file name left for it.
LEMMA SavedIsNode ==
  ASSUME TypeOK, NEW flag, NEW c, NEW l, NEW w, Saveable(flag, c, l, w),
         Saved(flag, c, l).filename # NoFile => undo_file_index < MaxFiles
  PROVE  /\ Saved(flag, c, l) \in Node
         /\ Saved(flag, c, l).filename \in {NoFile, undo_file_index}
         /\ Saved(flag, c, l).filename # NoFile => Saved(flag, c, l).shown \in Contents
         /\ Saved(flag, c, l).shown \in Contents \cup {EmptyPage}
<1> DEFINE cc == IF flag = "UNDO_ALL" THEN Consolidate[c] ELSE c
<1>1. cc \in Contents \cup {EmptyPage} /\ (flag = "UNDO_ALL" => cc \in Contents)
  BY ConstantsAssumption DEF Saveable
<1>2. Saved(flag, c, l) = NewNode(flag, cc, l)
  BY DEF Saved
<1> HIDE DEF cc
<1>3. undo_file_index \in 0 .. MaxFiles /\ MaxFiles \in Nat
  BY ConstantsAssumption DEF TypeOK
<1> QED
  BY <1>1, <1>2, <1>3 DEF NewNode, Node, Saveable, NoFile, Indices, NodeType

\* The list a save leaves: a suffix of the old nodes, and the new one on top.
LEMMA SaveList ==
  ASSUME TypeOK, NEW p \in Pages, NEW n \in Node
  PROVE  LET k    == Dropped(p, n)
             kept == Tail2(Pushed(p, n), k)
         IN  /\ k \in 0 .. undo_current[p]
             /\ kept \in Seq(Node)
             /\ Len(kept) = undo_current[p] + 1 - k
             /\ \A i \in 1 .. undo_current[p] - k : kept[i] = undo[p][i + k]
             /\ kept[undo_current[p] + 1 - k] = n
<1> DEFINE s == Pushed(p, n)
           k == Dropped(p, n)
           cur == undo_current[p]
<1>1. cur \in Nat
  BY DEF TypeOK
<1>2. IndexAfter(n) \in Nat
  BY ConstantsAssumption DEF TypeOK, IndexAfter
<1>3. /\ s \in Seq(Node)
      /\ Len(s) = cur + 1
      /\ \A i \in 1 .. cur : s[i] = undo[p][i]
      /\ s[cur + 1] = n
  BY PushedProperties
<1>4. k = TrimCount(s, IndexAfter(n))
  BY DEF Dropped
<1> HIDE DEF s, k, cur
<1>5. s # <<>>
  BY <1>1, <1>3
<1>6. k \in 0 .. Len(s) - 1
  BY <1>2, <1>3, <1>4, <1>5, TrimCountBound
<1>7. k \in 0 .. Len(s)
  BY <1>1, <1>3, <1>6
<1>8. /\ Tail2(s, k) \in Seq(Node)
      /\ Len(Tail2(s, k)) = Len(s) - k
      /\ \A i \in 1 .. Len(s) - k : Tail2(s, k)[i] = s[i + k]
  BY <1>3, <1>7, Tail2Properties
<1>9. /\ k \in 0 .. cur
      /\ Tail2(s, k) \in Seq(Node)
      /\ Len(Tail2(s, k)) = cur + 1 - k
  BY <1>1, <1>3, <1>6, <1>8
<1>10. \A i \in 1 .. cur - k : Tail2(s, k)[i] = undo[p][i + k]
  <2> TAKE i \in 1 .. cur - k
  <2>1. i \in 1 .. Len(s) - k /\ i + k \in 1 .. cur
    BY <1>1, <1>3, <1>9
  <2> QED
    BY <2>1, <1>3, <1>8
<1>11. Tail2(s, k)[cur + 1 - k] = n
  <2>1. cur + 1 - k \in 1 .. Len(s) - k /\ (cur + 1 - k) + k = cur + 1
    BY <1>1, <1>3, <1>9
  <2> QED
    BY <2>1, <1>3, <1>8
<1> QED
  BY <1>9, <1>10, <1>11 DEF s, k, cur

\* The effect of saving node n of page p, with undo enabled.
SaveEffect(p, n, w) ==
  LET kept == Tail2(Pushed(p, n), Dropped(p, n))
  IN  /\ n.filename # NoFile => undo_file_index < MaxFiles
      /\ content' = [content EXCEPT ![p] = n.shown]
      /\ undo' = [undo EXCEPT ![p] = kept]
      /\ undo_current' = [undo_current EXCEPT ![p] = Len(kept)]
      /\ undo_file_index' = IndexAfter(n)
      /\ files' = UnlinkFiles(WriteUndoFile(n, w), Owned(undo[p]) \ Owned(kept))

LEMMA SaveStep ==
  ASSUME UndoControl, NEW p \in Pages, NEW flag, NEW c, NEW l, NEW w,
         o_undo_savestate(p, flag, c, l, w)
  PROVE  SaveEffect(p, Saved(flag, c, l), w)
  BY DEF o_undo_savestate, SaveEffect, Saved, Dropped, IndexAfter, NewNode

-----------------------------------------------------------------------------
(* Type correctness. *)

\* Saving a state keeps the types of what it changes.
LEMMA SaveTypeOK ==
  ASSUME TypeOK, NEW p \in Pages, NEW flag, NEW c, NEW l, NEW w,
         Saveable(flag, c, l, w), o_undo_savestate(p, flag, c, l, w),
         phase' \in [Pages -> {"new", "open", "closed"}], running' \in BOOLEAN
  PROVE  TypeOK'
<1>1. link' \in [Pages -> Links]
  BY DEF TypeOK, o_undo_savestate, Saveable
<1>2. CASE ~UndoControl
  <2>1. /\ content' = [content EXCEPT ![p] = c]
        /\ UNCHANGED <<undo, undo_current, undo_file_index, files>>
    BY <1>2 DEF o_undo_savestate
  <2> QED
    BY <1>1, <2>1 DEF TypeOK, Saveable
<1>3. CASE UndoControl
  <2> DEFINE n    == Saved(flag, c, l)
             kept == Tail2(Pushed(p, n), Dropped(p, n))
  <2>0. SaveEffect(p, n, w)
    BY <1>3, SaveStep
  <2> HIDE DEF n
  <2>1. /\ n.filename # NoFile => undo_file_index < MaxFiles
        /\ content' = [content EXCEPT ![p] = n.shown]
        /\ undo' = [undo EXCEPT ![p] = kept]
        /\ undo_current' = [undo_current EXCEPT ![p] = Len(kept)]
        /\ undo_file_index' = IndexAfter(n)
        /\ files' = UnlinkFiles(WriteUndoFile(n, w), Owned(undo[p]) \ Owned(kept))
    BY <2>0 DEF SaveEffect
  <2>2. /\ n \in Node
        /\ n.filename \in {NoFile, undo_file_index}
        /\ n.filename # NoFile => n.shown \in Contents
        /\ n.shown \in Contents \cup {EmptyPage}
    BY <2>1, SavedIsNode DEF n
  <2>3. kept \in Seq(Node)
    BY <2>2, SaveList
  <2> HIDE DEF kept
  <2>4. content' \in [Pages -> Contents \cup {EmptyPage}]
    BY <2>1, <2>2 DEF TypeOK
  <2>5. /\ undo' \in [Pages -> Seq(Node)]
        /\ undo_current' \in [Pages -> Nat]
        /\ \A q \in Pages : undo_current'[q] \in 0 .. Len(undo'[q])
    <3>1. Len(kept) \in Nat
      BY <2>3
    <3> QED
      BY <2>1, <2>3, <3>1 DEF TypeOK
  <2>6. undo_file_index' \in 0 .. MaxFiles
    BY <2>1, ConstantsAssumption DEF TypeOK, IndexAfter
  <2>7. files' \in [Indices -> Contents \cup {Unlinked}]
    <3>1. WriteUndoFile(n, w) \in [Indices -> Contents \cup {Unlinked}]
      BY <2>2 DEF WriteUndoFile, TypeOK
    <3> QED
      BY <2>1, <3>1 DEF UnlinkFiles
  <2> QED
    BY <1>1, <2>4, <2>5, <2>6, <2>7 DEF TypeOK
<1> QED
  BY <1>2, <1>3

\* Undo and redo move within the list and show something that was saved.
LEMMA CallbackTypeOK ==
  ASSUME TypeOK, NEW p \in Pages, undo_current[p] # 0,
         NEW t \in DOMAIN undo[p], o_undo_callback(p, t)
  PROVE  TypeOK'
<1> DEFINE s    == undo[p]
           prev == s[undo_current[p]].type = "UNDO_ALL" /\ s[t].type = "UNDO_VIEWPORT_ONLY"
           file == IF prev /\ UndoType = "disk"
                   THEN o_undo_find_prev_filename(s, t) ELSE s[t].filename
           list == IF prev /\ UndoType = "memory"
                   THEN o_undo_find_prev_object_head(s, t) ELSE s[t].object_list
<1>1. s \in Seq(Node) /\ Len(s) \in Nat /\ DOMAIN s = 1 .. Len(s) /\ t \in 1 .. Len(s)
  BY DEF TypeOK
<1>2. \A i \in 1 .. Len(s) : /\ s[i].filename \in Indices \cup {NoFile}
                             /\ s[i].object_list \in Contents \cup {NoObjects}
                             /\ s[i].link \in Links
  <2> TAKE i \in 1 .. Len(s)
  <2>1. s[i] \in Node
    BY <1>1
  <2> QED
    BY <2>1 DEF Node
<1>3. file \in Indices \cup {NoFile} /\ list \in Contents \cup {NoObjects}
  BY <1>1, <1>2, PrevProperties
<1>4. /\ content' = [content EXCEPT ![p] =
                       IF UndoType = "disk" /\ file # NoFile
                       THEN IF files[file] = Unlinked THEN EmptyPage ELSE files[file]
                       ELSE IF UndoType = "memory" /\ list # NoObjects
                            THEN list ELSE content[p]]
      /\ link' = [link EXCEPT ![p] = s[t].link]
      /\ undo_current' = [undo_current EXCEPT ![p] = t]
      /\ UNCHANGED <<phase, undo, undo_file_index, files, running>>
  BY DEF o_undo_callback
<1> HIDE DEF file, list
<1>5. content' \in [Pages -> Contents \cup {EmptyPage}]
  <2>1. file # NoFile => files[file] \in Contents \cup {Unlinked}
    BY <1>3 DEF TypeOK
  <2> QED
    BY <2>1, <1>3, <1>4 DEF TypeOK
<1> QED
  BY <1>1, <1>2, <1>4, <1>5 DEF TypeOK

\* Every step keeps the types.
LEMMA NextTypeOK == TypeOK /\ [Next]_vars => TypeOK'
<1> SUFFICES ASSUME TypeOK, [Next]_vars
             PROVE  TypeOK'
  OBVIOUS
<1>1. ASSUME NEW p \in Pages, OpenPage(p)
      PROVE  TypeOK'
  <2>1. PICK c \in Contents, w \in Written : o_undo_savestate(p, "UNDO_ALL", c, NoLink, w)
    BY <1>1 DEF OpenPage
  <2>2. Saveable("UNDO_ALL", c, NoLink, w)
    BY ConstantsAssumption DEF Saveable, NodeType
  <2>3. phase' \in [Pages -> {"new", "open", "closed"}] /\ running' \in BOOLEAN
    BY <1>1 DEF OpenPage, TypeOK
  <2> QED
    BY <2>1, <2>2, <2>3, SaveTypeOK
<1>2. ASSUME NEW p \in Pages, LoadSubpage(p)
      PROVE  TypeOK'
  BY <1>2 DEF LoadSubpage, TypeOK
<1>3. ASSUME NEW p \in Pages, Relink(p)
      PROVE  TypeOK'
  BY <1>3 DEF Relink, TypeOK
<1>4. ASSUME NEW p \in Pages, EditPage(p)
      PROVE  TypeOK'
  <2>1. PICK c \in Contents, w \in Written : o_undo_savestate(p, "UNDO_ALL", c, link[p], w)
    BY <1>4 DEF EditPage
  <2>2. Saveable("UNDO_ALL", c, link[p], w)
    BY DEF Saveable, NodeType, TypeOK
  <2>3. phase' \in [Pages -> {"new", "open", "closed"}] /\ running' \in BOOLEAN
    BY <1>4 DEF EditPage, TypeOK
  <2> QED
    BY <2>1, <2>2, <2>3, SaveTypeOK
<1>5. ASSUME NEW p \in Pages, PanZoom(p)
      PROVE  TypeOK'
  <2>1. o_undo_savestate(p, "UNDO_VIEWPORT_ONLY", content[p], link[p], TRUE)
    BY <1>5 DEF PanZoom
  <2>2. Saveable("UNDO_VIEWPORT_ONLY", content[p], link[p], TRUE)
    BY DEF Saveable, NodeType, TypeOK, Written
  <2>3. phase' \in [Pages -> {"new", "open", "closed"}] /\ running' \in BOOLEAN
    BY <1>5 DEF PanZoom, TypeOK
  <2> QED
    BY <2>1, <2>2, <2>3, SaveTypeOK
<1>6. ASSUME NEW p \in Pages, EditUndo(p)
      PROVE  TypeOK'
  <2>1. undo_current[p] # 0
    BY <1>6 DEF EditUndo, TypeOK
  <2> QED
    BY <2>1, <1>6, CallbackTypeOK DEF EditUndo
<1>7. ASSUME NEW p \in Pages, EditRedo(p)
      PROVE  TypeOK'
  BY <1>7, CallbackTypeOK DEF EditRedo
<1>8. ASSUME NEW p \in Pages, ClosePage(p)
      PROVE  TypeOK'
  BY <1>8, ConstantsAssumption DEF ClosePage, TypeOK
<1>9. ASSUME Quit
      PROVE  TypeOK'
  <2>1. /\ files' \in [Indices -> Contents \cup {Unlinked}]
        /\ running' \in BOOLEAN
        /\ undo_file_index' \in 0 .. MaxFiles
    BY <1>9 DEF Quit, TypeOK, UnlinkFiles
  <2>2. /\ phase' \in [Pages -> {"new", "open", "closed"}]
        /\ content' \in [Pages -> Contents \cup {EmptyPage}]
        /\ link' \in [Pages -> Links]
    BY <1>9, ConstantsAssumption DEF Quit
  <2>3. /\ undo' \in [Pages -> Seq(Node)]
        /\ undo_current' \in [Pages -> Nat]
        /\ \A p \in Pages : undo_current'[p] \in 0 .. Len(undo'[p])
    BY <1>9, EmptySeq DEF Quit
  <2> QED
    BY <2>1, <2>2, <2>3 DEF TypeOK
<1>10. CASE UNCHANGED vars
  BY <1>10 DEF vars, TypeOK
<1> QED
  BY <1>1, <1>2, <1>3, <1>4, <1>5, <1>6, <1>7, <1>8, <1>9, <1>10 DEF Next

\* Type correctness of the undo lists: whatever is edited, panned, undone and
\* trimmed, undo_current stays an index into its list (or 0), nodes name only
\* files the counter has handed out, and pages show only what was drawn.
THEOREM UndoTypeCorrect == Spec => []TypeOK
<1>1. Init => TypeOK
  BY ConstantsAssumption DEF Init, TypeOK, Unlinked
<1> QED
  BY <1>1, NextTypeOK, PTL DEF Spec

-----------------------------------------------------------------------------
(* Undo files. *)

\* A file name the counter has not handed out yet names no file, so that a
\* failed write of a new undo file leaves nothing behind.
UnusedFilesAbsent == \A i \in Indices : i >= undo_file_index => files[i] = Unlinked

\* The inductive invariant about undo files.
FilesInv == TypeOK /\ UndoFilesIntact /\ UnusedFilesAbsent /\ QuitLeavesNoFiles

\* The step a save makes, seen from the files: which node a node was before the
\* step, and what the step does to a file.
LEMMA SaveFiles ==
  ASSUME FilesInv, running, running' = running, NEW p \in Pages, NEW n \in Node,
         NEW w \in Written, SaveEffect(p, n, w),
         n.filename \in {NoFile, undo_file_index},
         n.filename # NoFile => n.shown \in Contents
  PROVE  /\ UndoFilesIntact' /\ UnusedFilesAbsent' /\ QuitLeavesNoFiles'
         /\ \A i \in Indices :
              /\ (files[i] # Unlinked /\ files'[i] = Unlinked)
                   => \A q \in Pages : i \notin Owned(undo'[q])
              /\ \A q \in Pages : (i \in Owned(undo[q]) /\ i \notin Owned(undo'[q]))
                   => files'[i] = Unlinked
<1> DEFINE k    == Dropped(p, n)
           kept == Tail2(Pushed(p, n), k)
           cur  == undo_current[p]
           gone == Owned(undo[p]) \ Owned(kept)
           Unwritten == IF WritesMayFail THEN {Unlinked} ELSE {}
<1>1. /\ n.filename # NoFile => undo_file_index < MaxFiles
      /\ undo' = [undo EXCEPT ![p] = kept]
      /\ undo_file_index' = IndexAfter(n)
      /\ files' = UnlinkFiles(WriteUndoFile(n, w), gone)
  BY DEF SaveEffect
<1>2. /\ k \in 0 .. cur
      /\ kept \in Seq(Node)
      /\ Len(kept) = cur + 1 - k
      /\ \A i \in 1 .. cur - k : kept[i] = undo[p][i + k]
      /\ kept[cur + 1 - k] = n
  BY SaveList DEF FilesInv
<1>3. /\ undo \in [Pages -> Seq(Node)]
      /\ cur \in 0 .. Len(undo[p])
      /\ undo_file_index \in Nat /\ MaxFiles \in Nat
      /\ files \in [Indices -> Contents \cup {Unlinked}]
  BY ConstantsAssumption DEF FilesInv, TypeOK
<1> HIDE DEF kept, k, cur, gone
<1>4. /\ \A q \in Pages : \A i \in DOMAIN undo[q] :
           undo[q][i].filename # NoFile =>
             /\ undo[q][i].filename < undo_file_index
             /\ undo[q][i].filename \in Indices
             /\ files[undo[q][i].filename] \in {undo[q][i].shown} \cup Unwritten
      /\ \A q, r \in Pages : \A i \in DOMAIN undo[q], j \in DOMAIN undo[r] :
           (undo[q][i].filename = undo[r][j].filename /\ undo[q][i].filename # NoFile)
             => q = r /\ i = j
  <2>1. \A q \in Pages : \A i \in DOMAIN undo[q] : undo[q][i] \in Node
    BY <1>3
  <2> QED
    BY <2>1 DEF FilesInv, UndoFilesIntact, Node
\* Where a node of the new lists comes from.
<1>5. ASSUME NEW q \in Pages, NEW i \in DOMAIN undo'[q]
      PROVE  \/ /\ q = p /\ i = cur + 1 - k
                /\ undo'[q][i] = n
             \/ /\ q = p /\ i + k \in DOMAIN undo[p]
                /\ undo'[q][i] = undo[p][i + k]
                /\ undo[p][i + k].filename # NoFile
                     => undo[p][i + k].filename \in Owned(kept)
             \/ /\ q # p /\ i \in DOMAIN undo[q]
                /\ undo'[q][i] = undo[q][i]
  <2>1. CASE q = p
    <3>1. undo'[q] = kept /\ i \in 1 .. cur + 1 - k
      BY <2>1, <1>1, <1>2, <1>3, <1>5
    <3>2. CASE i = cur + 1 - k
      BY <2>1, <3>1, <3>2, <1>2
    <3>3. CASE i # cur + 1 - k
      <4>1. i \in 1 .. cur - k /\ i + k \in 1 .. cur /\ cur \in Nat
        BY <3>1, <3>3, <1>2, <1>3
      <4>2. kept[i] = undo[p][i + k] /\ i + k \in DOMAIN undo[p] /\ i \in DOMAIN kept
        BY <4>1, <3>1, <1>2, <1>3
      <4> QED
        BY <2>1, <3>1, <4>2 DEF Owned
    <3> QED
      BY <3>2, <3>3
  <2>2. CASE q # p
    BY <2>2, <1>1, <1>3, <1>5
  <2> QED
    BY <2>1, <2>2
\* What happens to a file.
<1>6. \A f \in Indices :
        files'[f] = IF f \in gone THEN Unlinked
                    ELSE IF f = n.filename /\ n.filename # NoFile /\ w THEN n.shown
                    ELSE files[f]
  BY <1>1, <1>3 DEF UnlinkFiles, WriteUndoFile
\* Only nodes of page p own the files that are unlinked.
<1>7. \A f \in gone : \E j \in DOMAIN undo[p] : f = undo[p][j].filename /\ f # NoFile
  BY DEF gone, Owned
<1>8. n.filename \notin gone
  <2> SUFFICES ASSUME n.filename \in gone
               PROVE  FALSE
    OBVIOUS
  <2>1. PICK j \in DOMAIN undo[p] : n.filename = undo[p][j].filename /\ n.filename # NoFile
    BY <1>7
  <2>2. n.filename < undo_file_index
    BY <2>1, <1>4
  <2> QED
    BY <2>1, <2>2, <1>3
<1>9. /\ undo_file_index' \in Nat /\ undo_file_index <= undo_file_index'
      /\ n.filename # NoFile => /\ n.filename = undo_file_index
                                /\ undo_file_index < undo_file_index'
                                /\ n.filename \in Indices
  BY <1>1, <1>3 DEF IndexAfter, Indices
<1>10. w \in BOOLEAN /\ (~w => WritesMayFail)
  BY DEF Written
<1>11. \A q \in Pages : \A i \in DOMAIN undo'[q] :
         undo'[q][i].filename # NoFile =>
           /\ undo'[q][i].filename < undo_file_index'
           /\ files'[undo'[q][i].filename] \in {undo'[q][i].shown} \cup Unwritten
  <2> SUFFICES ASSUME NEW q \in Pages, NEW i \in DOMAIN undo'[q],
                      undo'[q][i].filename # NoFile
               PROVE  /\ undo'[q][i].filename < undo_file_index'
                      /\ files'[undo'[q][i].filename] \in {undo'[q][i].shown} \cup Unwritten
    OBVIOUS
  <2>1. CASE undo'[q][i] = n
    <3>1. n.filename < undo_file_index' /\ n.filename \in Indices
      BY <2>1, <1>3, <1>9
    <3>2. files[n.filename] = Unlinked
      BY <2>1, <3>1, <1>3, <1>9 DEF FilesInv, UnusedFilesAbsent
    <3>3. files'[n.filename] = IF w THEN n.shown ELSE Unlinked
      BY <2>1, <3>1, <3>2, <1>6, <1>8
    <3> QED
      BY <2>1, <3>1, <3>3, <1>10
  <2>2. CASE q = p /\ undo'[q][i] # n
    <3>1. /\ i + k \in DOMAIN undo[p]
          /\ undo'[q][i] = undo[p][i + k]
          /\ undo[p][i + k].filename \in Owned(kept)
      BY <2>2, <1>5
    <3>2. undo[p][i + k].filename \notin gone
      BY <3>1 DEF gone
    <3>3. /\ undo[p][i + k].filename < undo_file_index
          /\ undo[p][i + k].filename \in Indices
          /\ files[undo[p][i + k].filename] \in {undo[p][i + k].shown} \cup Unwritten
      BY <3>1, <1>4
    <3>4. files'[undo[p][i + k].filename] = files[undo[p][i + k].filename]
      BY <3>2, <3>3, <1>3, <1>6, <1>9
    <3>5. undo[p][i + k].filename < undo_file_index'
      BY <3>3, <1>3, <1>9 DEF Indices
    <3> QED
      BY <3>1, <3>3, <3>4, <3>5
  <2>3. CASE q # p
    <3>1. i \in DOMAIN undo[q] /\ undo'[q][i] = undo[q][i]
      BY <2>3, <1>5
    <3>2. /\ undo[q][i].filename < undo_file_index
          /\ undo[q][i].filename \in Indices
          /\ files[undo[q][i].filename] \in {undo[q][i].shown} \cup Unwritten
      BY <3>1, <1>4
    <3>3. undo[q][i].filename \notin gone
      BY <2>3, <3>1, <1>4, <1>7
    <3>4. files'[undo[q][i].filename] = files[undo[q][i].filename]
      BY <3>2, <3>3, <1>3, <1>6, <1>9
    <3>5. undo[q][i].filename < undo_file_index'
      BY <3>2, <1>3, <1>9 DEF Indices
    <3> QED
      BY <3>1, <3>2, <3>4, <3>5
  <2> QED
    BY <2>1, <2>2, <2>3
<1>12. \A q, r \in Pages : \A i \in DOMAIN undo'[q], j \in DOMAIN undo'[r] :
         (undo'[q][i].filename = undo'[r][j].filename /\ undo'[q][i].filename # NoFile)
           => q = r /\ i = j
  <2> SUFFICES ASSUME NEW q \in Pages, NEW r \in Pages,
                      NEW i \in DOMAIN undo'[q], NEW j \in DOMAIN undo'[r],
                      undo'[q][i].filename = undo'[r][j].filename,
                      undo'[q][i].filename # NoFile
               PROVE  q = r /\ i = j
    OBVIOUS
  <2>1. \A x \in Pages : \A m \in DOMAIN undo[x] :
          undo[x][m].filename # NoFile => undo[x][m].filename # n.filename
    BY <1>3, <1>4, <1>9 DEF Indices
  <2>2. undo'[p] = kept /\ DOMAIN kept = 1 .. cur + 1 - k
    BY <1>1, <1>2, <1>3
  <2>3. k \in Int /\ (q = p => i \in Int) /\ (r = p => j \in Int)
    BY <2>2, <1>2, <1>3
  <2>4. CASE q = p /\ i = cur + 1 - k /\ undo'[q][i] = n
    BY <2>1, <2>4, <1>5
  <2>5. CASE r = p /\ j = cur + 1 - k /\ undo'[r][j] = n
    BY <2>1, <2>5, <1>5
  <2>6. CASE /\ ~(q = p /\ i = cur + 1 - k /\ undo'[q][i] = n)
             /\ ~(r = p /\ j = cur + 1 - k /\ undo'[r][j] = n)
    <3>1. \/ q = p /\ i + k \in DOMAIN undo[p] /\ undo'[q][i] = undo[p][i + k]
          \/ q # p /\ i \in DOMAIN undo[q] /\ undo'[q][i] = undo[q][i]
      BY <2>6, <1>5
    <3>2. \/ r = p /\ j + k \in DOMAIN undo[p] /\ undo'[r][j] = undo[p][j + k]
          \/ r # p /\ j \in DOMAIN undo[r] /\ undo'[r][j] = undo[r][j]
      BY <2>6, <1>5
    <3>3. CASE q = p /\ r = p
      <4>1. i + k = j + k
        BY <3>1, <3>2, <3>3, <1>4
      <4>2. i \in Int /\ j \in Int /\ k \in Int
        BY <2>3, <3>3
      <4>3. i = j
        BY <4>1, <4>2
      <4> QED
        BY <3>3, <4>3
    <3>4. CASE q # p \/ r # p
      BY <3>1, <3>2, <3>4, <1>4
    <3> QED
      BY <3>3, <3>4
  <2> QED
    BY <2>4, <2>5, <2>6
<1>13. UndoFilesIntact'
  BY <1>11, <1>12 DEF UndoFilesIntact
<1>14. UnusedFilesAbsent'
  <2> SUFFICES ASSUME NEW f \in Indices, f >= undo_file_index'
               PROVE  files'[f] = Unlinked
    BY DEF UnusedFilesAbsent
  <2>1. f # n.filename \/ n.filename = NoFile
    BY <1>3, <1>9 DEF Indices
  <2>2. files[f] = Unlinked
    BY <1>3, <1>9 DEF Indices, FilesInv, UnusedFilesAbsent
  <2> QED
    BY <2>1, <2>2, <1>6
<1>15. QuitLeavesNoFiles'
  BY DEF QuitLeavesNoFiles
<1>16. ASSUME NEW f \in Indices, files[f] # Unlinked, files'[f] = Unlinked,
              NEW q \in Pages
       PROVE  f \notin Owned(undo'[q])
  <2>1. f \in gone
    BY <1>16, <1>6, ConstantsAssumption DEF Unlinked
  <2>2. CASE q = p
    BY <2>1, <2>2, <1>1, <1>3 DEF gone
  <2>3. CASE q # p
    <3>1. undo'[q] = undo[q]
      BY <2>3, <1>1, <1>3
    <3>2. \A i \in DOMAIN undo[q] : undo[q][i].filename # f
      BY <2>1, <2>3, <1>4, <1>7
    <3> QED
      BY <3>1, <3>2 DEF Owned
  <2> QED
    BY <2>2, <2>3
<1>17. ASSUME NEW f \in Indices, NEW q \in Pages,
              f \in Owned(undo[q]), f \notin Owned(undo'[q])
       PROVE  files'[f] = Unlinked
  BY <1>17, <1>1, <1>3, <1>6 DEF gone
<1> QED
  BY <1>13, <1>14, <1>15, <1>16, <1>17

\* Steps that touch neither files nor the counter, and keep every list or clear it.
LEMMA QuietStep ==
  ASSUME FilesInv, running, running' = running,
         UNCHANGED <<undo_file_index, files>>,
         \A p \in Pages : \/ undo'[p] = undo[p]
                          \/ undo'[p] = <<>> /\ phase'[p] # "open"
  PROVE  UndoFilesIntact' /\ UnusedFilesAbsent' /\ QuitLeavesNoFiles' /\ FilesFollow
<1>1. \A p \in Pages : \A i \in DOMAIN undo'[p] : undo'[p] = undo[p]
  BY EmptySeq
<1>2. UndoFilesIntact'
  BY <1>1 DEF FilesInv, UndoFilesIntact
<1>3. UnusedFilesAbsent' /\ QuitLeavesNoFiles'
  BY DEF FilesInv, UnusedFilesAbsent, QuitLeavesNoFiles
<1>4. FilesFollow
  BY DEF FilesFollow
<1> QED
  BY <1>2, <1>3, <1>4

\* A save, with undo enabled or not.
LEMMA SaveFilesInv ==
  ASSUME FilesInv, running, running' = running, NEW p \in Pages,
         NEW flag, NEW c, NEW l, NEW w,
         Saveable(flag, c, l, w), o_undo_savestate(p, flag, c, l, w)
  PROVE  UndoFilesIntact' /\ UnusedFilesAbsent' /\ QuitLeavesNoFiles' /\ FilesFollow
<1>1. CASE ~UndoControl
  <2>1. UNCHANGED <<undo, undo_file_index, files>>
    BY <1>1 DEF o_undo_savestate
  <2> QED
    BY <2>1, QuietStep
<1>2. CASE UndoControl
  <2> DEFINE n == Saved(flag, c, l)
  <2>1. SaveEffect(p, n, w)
    BY <1>2, SaveStep
  <2> HIDE DEF n
  <2>2. n.filename # NoFile => undo_file_index < MaxFiles
    BY <2>1 DEF SaveEffect
  <2>3. /\ n \in Node
        /\ n.filename \in {NoFile, undo_file_index}
        /\ n.filename # NoFile => n.shown \in Contents
    BY <2>2, SavedIsNode DEF n, FilesInv
  <2>4. w \in Written
    BY DEF Saveable
  <2> QED
    BY <2>1, <2>3, <2>4, SaveFiles DEF FilesFollow
<1> QED
  BY <1>1, <1>2

\* Every step keeps the invariant about undo files.
LEMMA NextFilesInv == FilesInv /\ [Next]_vars => FilesInv' /\ [FilesFollow]_vars
<1> SUFFICES ASSUME FilesInv, [Next]_vars
             PROVE  FilesInv' /\ [FilesFollow]_vars
  OBVIOUS
<1> DEFINE Goal == UndoFilesIntact' /\ UnusedFilesAbsent' /\ QuitLeavesNoFiles' /\ FilesFollow
<1>1. TypeOK'
  BY NextTypeOK DEF FilesInv
<1>2. ASSUME NEW p \in Pages, OpenPage(p)
      PROVE  Goal
  <2>1. PICK c \in Contents, w \in Written : o_undo_savestate(p, "UNDO_ALL", c, NoLink, w)
    BY <1>2 DEF OpenPage
  <2>2. Saveable("UNDO_ALL", c, NoLink, w)
    BY ConstantsAssumption DEF Saveable, NodeType
  <2> QED
    BY <1>2, <2>1, <2>2, SaveFilesInv DEF OpenPage
<1>3. ASSUME NEW p \in Pages, LoadSubpage(p)
      PROVE  Goal
  BY <1>3, QuietStep DEF LoadSubpage
<1>4. ASSUME NEW p \in Pages, Relink(p)
      PROVE  Goal
  BY <1>4, QuietStep DEF Relink
<1>5. ASSUME NEW p \in Pages, EditPage(p)
      PROVE  Goal
  <2>1. PICK c \in Contents, w \in Written : o_undo_savestate(p, "UNDO_ALL", c, link[p], w)
    BY <1>5 DEF EditPage
  <2>2. Saveable("UNDO_ALL", c, link[p], w)
    BY DEF Saveable, NodeType, TypeOK, FilesInv
  <2> QED
    BY <1>5, <2>1, <2>2, SaveFilesInv DEF EditPage
<1>6. ASSUME NEW p \in Pages, PanZoom(p)
      PROVE  Goal
  <2>1. Saveable("UNDO_VIEWPORT_ONLY", content[p], link[p], TRUE)
    BY DEF Saveable, NodeType, TypeOK, Written, FilesInv
  <2> QED
    BY <1>6, <2>1, SaveFilesInv DEF PanZoom
<1>7. ASSUME NEW p \in Pages, EditUndo(p)
      PROVE  Goal
  BY <1>7, QuietStep DEF EditUndo, o_undo_callback
<1>8. ASSUME NEW p \in Pages, EditRedo(p)
      PROVE  Goal
  BY <1>8, QuietStep DEF EditRedo, o_undo_callback
<1>9. ASSUME NEW p \in Pages, ClosePage(p)
      PROVE  Goal
  <2>1. \A q \in Pages : \/ undo'[q] = undo[q]
                         \/ undo'[q] = <<>> /\ phase'[q] # "open"
    BY <1>9 DEF ClosePage, FilesInv, TypeOK
  <2> QED
    BY <1>9, <2>1, QuietStep DEF ClosePage
<1>10. ASSUME Quit
       PROVE  Goal
  <2>1. \A f \in Indices : files'[f] = Unlinked
    BY <1>10, ConstantsAssumption DEF Quit, UnlinkFiles, FilesInv, UnusedFilesAbsent, TypeOK, Indices
  <2>2. \A p \in Pages : \A i \in DOMAIN undo'[p] : FALSE
    BY <1>10, EmptySeq DEF Quit
  <2>3. UndoFilesIntact'
    BY <2>2 DEF UndoFilesIntact
  <2>4. UnusedFilesAbsent' /\ QuitLeavesNoFiles'
    BY <2>1 DEF UnusedFilesAbsent, QuitLeavesNoFiles
  <2>5. FilesFollow
    BY <1>10 DEF Quit, FilesFollow
  <2> QED
    BY <2>3, <2>4, <2>5
<1>11. CASE UNCHANGED vars
  <2>1. UndoFilesIntact' /\ UnusedFilesAbsent' /\ QuitLeavesNoFiles'
    BY <1>11 DEF vars, FilesInv, UndoFilesIntact, UnusedFilesAbsent, QuitLeavesNoFiles
  <2> QED
    BY <1>1, <1>11, <2>1 DEF FilesInv
<1>12. CASE Next
  <2>1. Goal
    BY <1>2, <1>3, <1>4, <1>5, <1>6, <1>7, <1>8, <1>9, <1>10, <1>12 DEF Next
  <2> QED
    BY <1>1, <2>1 DEF FilesInv
<1> QED
  BY <1>11, <1>12

\* No file has been handed out when the program starts.
LEMMA InitFilesInv == Init => FilesInv
<1> SUFFICES ASSUME Init
             PROVE  FilesInv
  OBVIOUS
<1>1. TypeOK
  BY ConstantsAssumption DEF Init, TypeOK, Unlinked
<1>2. \A p \in Pages : \A i \in DOMAIN undo[p] : FALSE
  BY EmptySeq DEF Init
<1>3. UndoFilesIntact
  BY <1>2 DEF UndoFilesIntact
<1>4. UnusedFilesAbsent /\ QuitLeavesNoFiles
  BY DEF Init, UnusedFilesAbsent, QuitLeavesNoFiles
<1> QED
  BY <1>1, <1>3, <1>4 DEF FilesInv

\* The undo file of a node in any page's list belongs to that node alone and
\* still holds the schematic that was saved in it (or nothing, where writing it
\* failed): o_undo_savestate and s_undo_remove_rest share one counter and unlink
\* files one by one, and neither takes away a file some list needs.
THEOREM UndoFilesAreIntact == Spec => []UndoFilesIntact
<1>1. FilesInv => UndoFilesIntact
  BY DEF FilesInv
<1> QED
  BY <1>1, InitFilesInv, NextFilesInv, PTL DEF Spec

\* After an orderly exit no undo file is left: o_undo_cleanup removes every name
\* the counter has handed out, and nothing was ever written under another one.
THEOREM QuitCleansUp == Spec => []QuitLeavesNoFiles
<1>1. FilesInv => QuitLeavesNoFiles
  BY DEF FilesInv
<1> QED
  BY <1>1, InitFilesInv, NextFilesInv, PTL DEF Spec

\* While the program runs, an undo file is removed exactly when the node that
\* owns it leaves the list of an open page.
THEOREM FilesLeaveWithNodes == Spec => FilesFollowNodes
  BY InitFilesInv, NextFilesInv, PTL DEF Spec, FilesFollowNodes

-----------------------------------------------------------------------------
(* Lemmas about the data of a node and where it is stored. *)

\* The data shown at a node is that of the nearest node with data at or below it.
LEMMA DataAtProperties ==
  ASSUME NEW s \in Seq(Node), NEW i \in 0 .. Len(s)
  PROVE  /\ DataAt(s, i) \in 0 .. i
         /\ DataAt(s, i) # 0 => HasData(s[DataAt(s, i)])
         /\ \A j \in 1 .. i : j > DataAt(s, i) => ~HasData(s[j])
<1> DEFINE D == {j \in 1 .. i : HasData(s[j])}
<1>1. i \in Nat /\ (i + 1) - 1 = i
  OBVIOUS
<1>2. DataAt(s, i) = IF D = {} THEN 0 ELSE CHOOSE j \in D : \A k \in D : k <= j
  BY <1>1 DEF DataAt, PrevWith
<1>3. D # {} => \E j \in D : \A k \in D : k <= j
  BY <1>1, Greatest
<1>4. \/ D = {} /\ DataAt(s, i) = 0
      \/ DataAt(s, i) \in D /\ \A k \in D : k <= DataAt(s, i)
  BY <1>2, <1>3
<1> HIDE DEF D
<1>5. \A j \in 1 .. i : j > DataAt(s, i) => ~HasData(s[j])
  <2> SUFFICES ASSUME NEW j \in 1 .. i, j > DataAt(s, i), HasData(s[j])
               PROVE  FALSE
    OBVIOUS
  <2>1. j \in D
    BY DEF D
  <2>2. j <= DataAt(s, i) /\ DataAt(s, i) \in 1 .. i
    BY <2>1, <1>4 DEF D
  <2> QED
    BY <2>2
<1>6. DataAt(s, i) \in 0 .. i /\ (DataAt(s, i) # 0 => HasData(s[DataAt(s, i)]))
  BY <1>1, <1>4 DEF D
<1> QED
  BY <1>5, <1>6

\* ... and that node is the only one of this kind.
LEMMA DataAtIs ==
  ASSUME NEW s \in Seq(Node), NEW i \in 0 .. Len(s), NEW j \in 0 .. i,
         j # 0 => HasData(s[j]),
         \A k \in 1 .. i : k > j => ~HasData(s[k])
  PROVE  DataAt(s, i) = j
<1>1. /\ DataAt(s, i) \in 0 .. i
      /\ DataAt(s, i) # 0 => HasData(s[DataAt(s, i)])
      /\ \A k \in 1 .. i : k > DataAt(s, i) => ~HasData(s[k])
  BY DataAtProperties
<1> QED
  BY <1>1

\* What is stored for node i of list s when the undo files are f.
StoredIn(f, s, i) ==
  LET j == DataAt(s, i)
  IN  IF j = 0 THEN NoObjects
      ELSE IF s[j].filename # NoFile THEN f[s[j].filename]
      ELSE s[j].object_list

\* What is stored before and after a step.
LEMMA StoredNow ==
  /\ \A s, i : StoredAt(s, i) = StoredIn(files, s, i)
  /\ \A p \in Pages : \A i : StoredAt(undo[p], i)' = StoredIn(files', undo'[p], i)
<1>1. \A s, i : StoredAt(s, i) = StoredIn(files, s, i)
  BY DEF StoredAt, StoredIn
<1>2. \A p \in Pages : \A i : StoredAt(undo[p], i)' = StoredIn(files', undo'[p], i)
  BY DEF StoredAt, StoredIn
<1> QED
  BY <1>1, <1>2

\* A node with data shows its own; any other shows what the node below it shows.
LEMMA StoredStep ==
  ASSUME NEW s \in Seq(Node), NEW i \in 1 .. Len(s), NEW f
  PROVE  StoredIn(f, s, i) =
           IF ~HasData(s[i]) THEN StoredIn(f, s, i - 1)
           ELSE IF s[i].filename # NoFile THEN f[s[i].filename]
           ELSE s[i].object_list
<1>1. CASE HasData(s[i])
  <2>1. DataAt(s, i) = i
    BY <1>1, DataAtIs
  <2> QED
    BY <1>1, <2>1 DEF StoredIn
<1>2. CASE ~HasData(s[i])
  <2>0. i - 1 \in 0 .. Len(s)
    OBVIOUS
  <2>1. /\ DataAt(s, i - 1) \in 0 .. i - 1
        /\ DataAt(s, i - 1) # 0 => HasData(s[DataAt(s, i - 1)])
        /\ \A j \in 1 .. i - 1 : j > DataAt(s, i - 1) => ~HasData(s[j])
    BY <2>0, DataAtProperties
  <2>2. DataAt(s, i) = DataAt(s, i - 1)
    <3>1. DataAt(s, i - 1) \in 0 .. i
      BY <2>1
    <3>2. \A j \in 1 .. i : j > DataAt(s, i - 1) => ~HasData(s[j])
      BY <1>2, <2>1
    <3> QED
      BY <3>1, <3>2, <2>1, DataAtIs
  <2> QED
    BY <1>2, <2>2 DEF StoredIn
<1> QED
  BY <1>1, <1>2

\* Nothing is stored for the bottom of a list.
LEMMA StoredBottom ==
  ASSUME NEW s \in Seq(Node), NEW f
  PROVE  StoredIn(f, s, 0) = NoObjects
<1>1. DataAt(s, 0) = 0
  BY DataAtProperties
<1> QED
  BY <1>1 DEF StoredIn

\* When lists agree but for the oldest k nodes and the files of the nodes that
\* are kept are the same, a node shows the same as before or nothing.
EndsAlike(t, i, s, m) == \A j \in 1 .. i : t[j] = s[j + (m - i)]
KeepsFiles(f, g, t, i) ==
  \A j \in 1 .. i : t[j].filename # NoFile => g[t[j].filename] = f[t[j].filename]

\* Of a list that lost its oldest nodes, what is left shows the same or nothing.
LEMMA StoredTail ==
  ASSUME NEW s \in Seq(Node), NEW t \in Seq(Node),
         NEW i \in 0 .. Len(t), NEW m \in i .. Len(s), NEW f, NEW g,
         EndsAlike(t, i, s, m), KeepsFiles(f, g, t, i)
  PROVE  /\ StoredIn(g, t, i) = IF DataAt(t, i) = 0 THEN NoObjects ELSE StoredIn(f, s, m)
         /\ m = i => DataAt(s, m) = DataAt(t, i)
<1> DEFINE d == DataAt(t, i)
           k == m - i
<1>1. /\ d \in 0 .. i
      /\ d # 0 => HasData(t[d])
      /\ \A j \in 1 .. i : j > d => ~HasData(t[j])
  BY DataAtProperties
<1>k. k \in Nat /\ m = i + k /\ m \in 0 .. Len(s) /\ \A j \in 1 .. i : t[j] = s[j + k]
  BY DEF EndsAlike
<1> HIDE DEF d, k
<1>2. \A j \in 1 .. m : j > d + k => ~HasData(s[j])
  <2> TAKE j \in 1 .. m
  <2> HAVE j > d + k
  <2>1. j - k \in 1 .. i /\ j - k > d /\ (j - k) + k = j
    BY <1>1, <1>k
  <2>2. t[j - k] = s[j] /\ ~HasData(t[j - k])
    BY <2>1, <1>1, <1>k
  <2> QED
    BY <2>2
<1>3. d + k \in 0 .. m
  BY <1>1, <1>k
<1>4. ASSUME d # 0 \/ k = 0
      PROVE  DataAt(s, m) = d + k
  <2>1. d + k # 0 => HasData(s[d + k])
    BY <1>1, <1>4, <1>k
  <2> QED
    BY <1>2, <1>3, <1>k, <2>1, DataAtIs
<1>5. CASE d = 0
  <2>1. StoredIn(g, t, i) = NoObjects
    BY <1>5 DEF StoredIn, d
  <2>2. m = i => DataAt(s, m) = d
    BY <1>4, <1>5, <1>k
  <2> QED
    BY <2>1, <2>2, <1>5 DEF d
<1>6. CASE d # 0
  <2>1. d \in 1 .. i /\ t[d] = s[d + k] /\ d + k # 0
    BY <1>1, <1>6, <1>k
  <2>2. DataAt(s, m) = d + k
    BY <1>4, <1>6
  <2>3. StoredIn(g, t, i) = StoredIn(f, s, m)
    BY <2>1, <2>2, <1>6 DEF StoredIn, KeepsFiles, d
  <2>4. m = i => d + k = d
    BY <1>1, <1>k
  <2> QED
    BY <2>2, <2>3, <2>4, <1>6 DEF d
<1> QED
  BY <1>5, <1>6

-----------------------------------------------------------------------------
(* Trimming counts levels and frees nodes. *)

\* The levels of a list are counted, and a list that starts like another has no
\* more of them.
LEMMA LevelsOfPrefix ==
  ASSUME NEW s \in Seq(Node), NEW t \in Seq(Node), Len(s) <= Len(t),
         \A i \in 1 .. Len(s) : s[i] = t[i]
  PROVE  Levels(s) <= Levels(t)
<1> DEFINE D == {i \in DOMAIN s : HasData(s[i])}
           E == {i \in DOMAIN t : HasData(t[i])}
<1>1. /\ Len(t) \in Nat /\ Len(s) \in Nat
      /\ DOMAIN s = 1 .. Len(s) /\ DOMAIN t = 1 .. Len(t)
  OBVIOUS
<1>2. IsFiniteSet(1 .. Len(t))
  BY <1>1, FS_Interval
<1>3. E \in SUBSET (1 .. Len(t)) /\ D \in SUBSET E
  BY <1>1
<1>4. IsFiniteSet(E)
  BY <1>2, <1>3, FS_Subset
<1>5. Cardinality(D) <= Cardinality(E)
  BY <1>3, <1>4, FS_Subset
<1> QED
  BY <1>5 DEF Levels

\* Dropping k nodes drops at most k levels.
LEMMA LevelsOfTail ==
  ASSUME NEW s \in Seq(Node), NEW k \in 0 .. Len(s)
  PROVE  Levels(Tail2(s, k)) >= Levels(s) - k
<1> DEFINE t == Tail2(s, k)
           D == {i \in DOMAIN s : HasData(s[i])}
           E == {i \in DOMAIN t : HasData(t[i])}
           U == D \ (1 .. k)
           f == [i \in U |-> i - k]
<1>1. /\ t \in Seq(Node) /\ Len(t) = Len(s) - k
      /\ \A i \in 1 .. Len(s) - k : t[i] = s[i + k]
  BY Tail2Properties
<1>2. /\ Len(s) \in Nat /\ DOMAIN s = 1 .. Len(s) /\ DOMAIN t = 1 .. Len(s) - k
      /\ k \in Nat
  BY <1>1
<1>3. D \subseteq 1 .. Len(s) /\ E \subseteq 1 .. Len(s) - k
  BY <1>2
<1>4. IsFiniteSet(1 .. k) /\ Cardinality(1 .. k) = k
  BY <1>2, FS_Interval
<1>5. IsFiniteSet(D) /\ IsFiniteSet(E)
  <2>1. IsFiniteSet(1 .. Len(s)) /\ IsFiniteSet(1 .. Len(s) - k)
    BY <1>2, FS_Interval
  <2> QED
    BY <2>1, <1>3, FS_Subset
<1>6. f \in Injection(U, E)
  <2>1. \A i \in U : i - k \in E
    <3> TAKE i \in U
    <3>1. i \in 1 .. Len(s) /\ i > k /\ HasData(s[i])
      BY <1>2, <1>3
    <3>2. i - k \in 1 .. Len(s) - k /\ (i - k) + k = i
      BY <3>1, <1>2
    <3>3. t[i - k] = s[i]
      BY <3>2, <1>1
    <3> QED
      BY <3>1, <3>2, <3>3, <1>2
  <2>2. \A i, j \in U : f[i] = f[j] => i = j
    <3> TAKE i, j \in U
    <3>1. i \in Int /\ j \in Int
      BY <1>3, <1>2
    <3> QED
      BY <3>1, <1>2
  <2>3. f \in [U -> E]
    BY <2>1
  <2> HIDE DEF f
  <2> QED
    BY <2>2, <2>3 DEF Injection, IsInjective
<1> HIDE DEF f
<1>7. IsFiniteSet(U) /\ Cardinality(U) <= Cardinality(E)
  BY <1>5, <1>6, FS_Injection
<1>8. Cardinality(U \cup (1 .. k)) <= Cardinality(U) + k
  <2>1. /\ Cardinality(U \cup (1 .. k)) =
               Cardinality(U) + Cardinality(1 .. k) - Cardinality(U \cap (1 .. k))
        /\ IsFiniteSet(U \cap (1 .. k))
    BY <1>4, <1>7, FS_Union, FS_Intersection
  <2>2. Cardinality(U \cap (1 .. k)) \in Nat /\ Cardinality(U) \in Nat
    BY <2>1, <1>7, FS_CardinalityType
  <2> QED
    BY <2>1, <2>2, <1>2, <1>4
<1>9. Cardinality(D) <= Cardinality(U \cup (1 .. k))
  <2>1. IsFiniteSet(U \cup (1 .. k))
    BY <1>4, <1>7, FS_Union
  <2>2. D \in SUBSET (U \cup (1 .. k))
    OBVIOUS
  <2> QED
    BY <2>1, <2>2, FS_Subset
<1>10. /\ Cardinality(D) \in Nat /\ Cardinality(E) \in Nat /\ Cardinality(U) \in Nat
       /\ Cardinality(U \cup (1 .. k)) \in Nat
  BY <1>4, <1>5, <1>7, FS_Union, FS_CardinalityType
<1>11. Cardinality(E) >= Cardinality(D) - k
  BY <1>2, <1>7, <1>8, <1>9, <1>10
<1> QED
  BY <1>11 DEF Levels

\* A list with levels shows data on top.
LEMMA LevelsAreData ==
  ASSUME NEW s \in Seq(Node), Levels(s) > 0
  PROVE  DataAt(s, Len(s)) # 0
<1> SUFFICES ASSUME DataAt(s, Len(s)) = 0
             PROVE  FALSE
  OBVIOUS
<1>1. Len(s) \in Nat /\ Len(s) \in 0 .. Len(s) /\ DOMAIN s = 1 .. Len(s)
  OBVIOUS
<1>2. \A j \in 1 .. Len(s) : j > 0 => ~HasData(s[j])
  BY <1>1, DataAtProperties
<1>3. {i \in DOMAIN s : HasData(s[i])} = {}
  BY <1>1, <1>2
<1>4. Levels(s) = Cardinality({})
  BY <1>3 DEF Levels
<1> QED
  BY <1>4, FS_EmptySet

\* What a save leaves of the levels: those that were there with the new node, or
\* the ones that are to be kept.
LEMMA SaveLevels ==
  ASSUME TypeOK, NEW p \in Pages, NEW n \in Node
  PROVE  LET kept == Tail2(Pushed(p, n), Dropped(p, n))
         IN  \/ Dropped(p, n) = 0 /\ kept = Pushed(p, n)
             \/ Levels(kept) >= UndoLevels
<1> DEFINE s == Pushed(p, n)
           k == Dropped(p, n)
<1>1. /\ s \in Seq(Node)
      /\ Len(s) = undo_current[p] + 1
  BY PushedProperties
<1>2. k \in 0 .. undo_current[p] /\ undo_current[p] \in Nat
  BY SaveList DEF TypeOK
<1>3. k = TrimCount(s, IndexAfter(n))
  BY DEF Dropped
<1> HIDE DEF s, k
<1>4. Levels(s) \in 0 .. Len(s)
  BY <1>1, LevelsBound
<1>5. k = 0 \/ k = Levels(s) - UndoLevels
  BY <1>3 DEF TrimCount
<1>6. CASE k = 0
  <2>1. Tail2(s, k) = s
    BY <1>1, <1>6 DEF Tail2
  <2> QED
    BY <2>1, <1>6 DEF s, k
<1>7. CASE k = Levels(s) - UndoLevels
  <2>1. k \in 0 .. Len(s)
    BY <1>1, <1>2
  <2>2. Levels(Tail2(s, k)) >= Levels(s) - k
    BY <2>1, <1>1, LevelsOfTail
  <2>3. Levels(Tail2(s, k)) >= UndoLevels
    BY <2>2, <1>1, <1>2, <1>4, <1>7, ConstantsAssumption
  <2> QED
    BY <2>3 DEF s, k
<1> QED
  BY <1>5, <1>6, <1>7

\* What a save leaves stored for page p: the files of the nodes it keeps, and the
\* new node's own.
LEMMA SaveKeepsFiles ==
  ASSUME FilesInv, NEW p \in Pages, NEW n \in Node,
         NEW w \in Written, SaveEffect(p, n, w),
         n.filename \in {NoFile, undo_file_index}
  PROVE  LET k    == Dropped(p, n)
             kept == Tail2(Pushed(p, n), k)
         IN  /\ \A i \in 1 .. undo_current[p] - k :
                  kept[i].filename # NoFile => files'[kept[i].filename] = files[kept[i].filename]
             /\ n.filename # NoFile => files'[n.filename] = IF w THEN n.shown ELSE Unlinked
             /\ \A q \in Pages \ {p} : \A i \in DOMAIN undo[q] :
                  undo[q][i].filename # NoFile
                    => files'[undo[q][i].filename] = files[undo[q][i].filename]
<1> DEFINE k    == Dropped(p, n)
           kept == Tail2(Pushed(p, n), k)
           cur  == undo_current[p]
           gone == Owned(undo[p]) \ Owned(kept)
<1>1. /\ n.filename # NoFile => undo_file_index < MaxFiles
      /\ undo' = [undo EXCEPT ![p] = kept]
      /\ undo_file_index' = IndexAfter(n)
      /\ files' = UnlinkFiles(WriteUndoFile(n, w), gone)
  BY DEF SaveEffect
<1>2. /\ k \in 0 .. cur
      /\ kept \in Seq(Node)
      /\ Len(kept) = cur + 1 - k
      /\ \A i \in 1 .. cur - k : kept[i] = undo[p][i + k]
      /\ kept[cur + 1 - k] = n
  BY SaveList DEF FilesInv
<1>3. /\ undo \in [Pages -> Seq(Node)]
      /\ cur \in 0 .. Len(undo[p])
      /\ undo_file_index \in Nat /\ MaxFiles \in Nat
      /\ files \in [Indices -> Contents \cup {Unlinked}]
  BY ConstantsAssumption DEF FilesInv, TypeOK
<1> HIDE DEF kept, k, cur, gone
<1>4. /\ \A q \in Pages : \A i \in DOMAIN undo[q] :
           undo[q][i].filename # NoFile =>
             /\ undo[q][i].filename < undo_file_index
             /\ undo[q][i].filename \in Indices
      /\ \A q, r \in Pages : \A i \in DOMAIN undo[q], j \in DOMAIN undo[r] :
           (undo[q][i].filename = undo[r][j].filename /\ undo[q][i].filename # NoFile)
             => q = r /\ i = j
  <2>1. \A q \in Pages : \A i \in DOMAIN undo[q] : undo[q][i] \in Node
    BY <1>3
  <2> QED
    BY <2>1 DEF FilesInv, UndoFilesIntact, Node
<1>5. n.filename # NoFile => n.filename = undo_file_index /\ n.filename \in Indices
  BY <1>1, <1>3 DEF Indices
<1>6. \A f \in Indices :
        files'[f] = IF f \in gone THEN Unlinked
                    ELSE IF f = n.filename /\ n.filename # NoFile /\ w THEN n.shown
                    ELSE files[f]
  BY <1>1, <1>3 DEF UnlinkFiles, WriteUndoFile
<1>7. \A f \in gone : \E j \in DOMAIN undo[p] : f = undo[p][j].filename /\ f # NoFile
  BY DEF gone, Owned
<1>8. ASSUME NEW i \in 1 .. cur - k, kept[i].filename # NoFile
      PROVE  files'[kept[i].filename] = files[kept[i].filename]
  <2>1. i + k \in DOMAIN undo[p] /\ i \in DOMAIN kept /\ kept[i] = undo[p][i + k]
    BY <1>2, <1>3
  <2>2. /\ kept[i].filename < undo_file_index
        /\ kept[i].filename \in Indices
    BY <2>1, <1>4, <1>8
  <2>3. kept[i].filename \notin gone
    BY <2>1, <1>8 DEF gone, Owned
  <2>4. kept[i].filename # n.filename \/ n.filename = NoFile
    BY <2>2, <1>3, <1>5 DEF Indices
  <2> QED
    BY <2>2, <2>3, <2>4, <1>6
<1>9. ASSUME n.filename # NoFile
      PROVE  files'[n.filename] = IF w THEN n.shown ELSE Unlinked
  <2>1. n.filename = undo_file_index /\ n.filename \in Indices
    BY <1>5, <1>9
  <2>2. files[n.filename] = Unlinked
    BY <2>1, <1>3 DEF FilesInv, UnusedFilesAbsent
  <2>3. n.filename \notin gone
    BY <2>1, <1>3, <1>4, <1>7 DEF Indices
  <2>4. w \in BOOLEAN
    BY DEF Written
  <2> QED
    BY <2>1, <2>2, <2>3, <2>4, <1>6, <1>9
<1>10. ASSUME NEW q \in Pages \ {p}, NEW i \in DOMAIN undo[q],
              undo[q][i].filename # NoFile
       PROVE  files'[undo[q][i].filename] = files[undo[q][i].filename]
  <2>1. /\ undo[q][i].filename < undo_file_index
        /\ undo[q][i].filename \in Indices
    BY <1>4, <1>10
  <2>2. undo[q][i].filename \notin gone
    BY <1>4, <1>7, <1>10
  <2>3. undo[q][i].filename # n.filename \/ n.filename = NoFile
    BY <2>1, <1>3, <1>5 DEF Indices
  <2> QED
    BY <2>1, <2>2, <2>3, <1>6
<1> QED
  BY <1>8, <1>9, <1>10 DEF kept, k, cur

\* What a save leaves stored at the nodes of all lists.
LEMMA SaveStored ==
  ASSUME FilesInv, NEW p \in Pages, NEW n \in Node,
         NEW w \in Written, SaveEffect(p, n, w),
         n.filename \in {NoFile, undo_file_index}
  PROVE  LET k    == Dropped(p, n)
             cur  == undo_current[p]
             kept == Tail2(Pushed(p, n), k)
         IN  /\ \A i \in 0 .. cur - k :
                  StoredIn(files', kept, i) =
                    IF DataAt(kept, i) = 0 THEN NoObjects
                    ELSE StoredIn(files, undo[p], i + k)
             /\ StoredIn(files', kept, cur + 1 - k) =
                  IF n.filename # NoFile THEN IF w THEN n.shown ELSE Unlinked
                  ELSE IF n.object_list # NoObjects THEN n.object_list
                  ELSE StoredIn(files', kept, cur - k)
             /\ \A q \in Pages \ {p} : \A i \in 0 .. Len(undo[q]) :
                  StoredIn(files', undo[q], i) = StoredIn(files, undo[q], i)
<1> DEFINE k    == Dropped(p, n)
           kept == Tail2(Pushed(p, n), k)
           cur  == undo_current[p]
<1>1. /\ k \in 0 .. cur
      /\ kept \in Seq(Node)
      /\ Len(kept) = cur + 1 - k
      /\ \A i \in 1 .. cur - k : kept[i] = undo[p][i + k]
      /\ kept[cur + 1 - k] = n
  BY SaveList DEF FilesInv
<1>2. /\ \A i \in 1 .. cur - k :
           kept[i].filename # NoFile => files'[kept[i].filename] = files[kept[i].filename]
      /\ n.filename # NoFile => files'[n.filename] = IF w THEN n.shown ELSE Unlinked
      /\ \A q \in Pages \ {p} : \A i \in DOMAIN undo[q] :
           undo[q][i].filename # NoFile
             => files'[undo[q][i].filename] = files[undo[q][i].filename]
  BY SaveKeepsFiles
<1>3. undo \in [Pages -> Seq(Node)] /\ cur \in 0 .. Len(undo[p])
  BY DEF FilesInv, TypeOK
<1> HIDE DEF kept, k, cur
<1>4. ASSUME NEW i \in 0 .. cur - k
      PROVE  StoredIn(files', kept, i) =
               IF DataAt(kept, i) = 0 THEN NoObjects
               ELSE StoredIn(files, undo[p], i + k)
  <2> DEFINE m == i + k
  <2>1. i \in 0 .. Len(kept) /\ m \in i .. Len(undo[p]) /\ m - i = k
    BY <1>1, <1>3
  <2>2. EndsAlike(kept, i, undo[p], m) /\ KeepsFiles(files, files', kept, i)
    BY <2>1, <1>1, <1>2, <1>3 DEF EndsAlike, KeepsFiles
  <2>3. undo[p] \in Seq(Node)
    BY <1>3
  <2> HIDE DEF m
  <2>4. StoredIn(files', kept, i) =
          IF DataAt(kept, i) = 0 THEN NoObjects ELSE StoredIn(files, undo[p], m)
    BY <2>1, <2>2, <2>3, <1>1, StoredTail
  <2> QED
    BY <2>4 DEF m
<1>5. StoredIn(files', kept, cur + 1 - k) =
        IF n.filename # NoFile THEN IF w THEN n.shown ELSE Unlinked
        ELSE IF n.object_list # NoObjects THEN n.object_list
        ELSE StoredIn(files', kept, cur - k)
  <2>1. cur + 1 - k \in 1 .. Len(kept) /\ (cur + 1 - k) - 1 = cur - k
    BY <1>1, <1>3
  <2>2. StoredIn(files', kept, cur + 1 - k) =
          IF ~HasData(n) THEN StoredIn(files', kept, (cur + 1 - k) - 1)
          ELSE IF n.filename # NoFile THEN files'[n.filename]
          ELSE n.object_list
    BY <2>1, <1>1, StoredStep
  <2> QED
    BY <2>1, <2>2, <1>2 DEF HasData
<1>6. ASSUME NEW q \in Pages \ {p}, NEW i \in 0 .. Len(undo[q])
      PROVE  StoredIn(files', undo[q], i) = StoredIn(files, undo[q], i)
  <2>1. undo[q] \in Seq(Node) /\ i \in i .. Len(undo[q])
    BY <1>3
  <2>2. \A j \in 1 .. i : j \in DOMAIN undo[q] /\ j + (i - i) = j
    BY <1>3
  <2>3. EndsAlike(undo[q], i, undo[q], i)
    BY <2>2 DEF EndsAlike
  <2>4. KeepsFiles(files, files', undo[q], i)
    BY <2>2, <1>2 DEF KeepsFiles
  <2>5. StoredIn(files', undo[q], i) =
          IF DataAt(undo[q], i) = 0 THEN NoObjects ELSE StoredIn(files, undo[q], i)
    BY <2>1, <2>3, <2>4, StoredTail
  <2> QED
    BY <2>1, <2>5 DEF StoredIn
<1> QED
  BY <1>4, <1>5, <1>6 DEF kept, k, cur

-----------------------------------------------------------------------------
(* What undo shows. *)

\* Undo can show every schematic that is saved: in memory, the copy of an empty
\* page is NULL, and o_undo_callback takes that for a node without data.
Recoverable == UndoType = "memory" => EmptyPage \notin Contents

\* Nodes that save the schematic have data of one kind, others have none.
NodeShape(n) ==
  /\ n.type \in NodeType
  /\ n.type = "UNDO_ALL" => n.shown \in Contents
  /\ IF UndoType = "disk"
     THEN n.object_list = NoObjects /\ (n.type = "UNDO_ALL" <=> n.filename # NoFile)
     ELSE /\ n.filename = NoFile
          /\ n.object_list = IF n.type = "UNDO_ALL" THEN n.shown ELSE NoObjects

\* A node that o_undo_savestate makes has the shape.
LEMMA SavedShape ==
  ASSUME TypeOK, Recoverable, NEW flag, NEW c, NEW l, NEW w, Saveable(flag, c, l, w)
  PROVE  /\ NodeShape(Saved(flag, c, l))
         /\ Saved(flag, c, l).type = flag
         /\ flag # "UNDO_ALL" => Saved(flag, c, l).shown = c
<1> DEFINE cc == IF flag = "UNDO_ALL" THEN Consolidate[c] ELSE c
<1>1. flag = "UNDO_ALL" => cc \in Contents
  BY ConstantsAssumption DEF Saveable
<1>2. Saved(flag, c, l) = NewNode(flag, cc, l) /\ (flag # "UNDO_ALL" => cc = c)
  BY DEF Saved
<1> HIDE DEF cc
<1>3. undo_file_index \in Nat
  BY ConstantsAssumption DEF TypeOK
<1>4. flag \in NodeType
  BY DEF Saveable
<1>5. flag = "UNDO_ALL" => cc # NoObjects
  BY <1>1, ConstantsAssumption
<1> QED
  BY <1>1, <1>2, <1>3, <1>4, ConstantsAssumption
     DEF NewNode, NodeShape, NoFile, NodeType, Recoverable

\* Which nodes have data.
LEMMA DataShape ==
  ASSUME NEW n, NodeShape(n)
  PROVE  /\ HasData(n) <=> n.type = "UNDO_ALL"
         /\ UndoType = "disk" => (HasData(n) <=> n.filename # NoFile)
         /\ UndoType # "disk" => (HasData(n) <=> n.object_list # NoObjects)
BY ConstantsAssumption DEF NodeShape, HasData

\* o_undo_find_prev_filename and o_undo_find_prev_object_head find the data shown
\* at the node below.
LEMMA FindPrevData ==
  ASSUME NEW s \in Seq(Node), NEW i \in 1 .. Len(s),
         \A j \in 1 .. Len(s) : NodeShape(s[j])
  PROVE  LET d == DataAt(s, i - 1)
         IN  /\ UndoType = "disk" => o_undo_find_prev_filename(s, i) =
                                       IF d = 0 THEN NoFile ELSE s[d].filename
             /\ UndoType # "disk" => o_undo_find_prev_object_head(s, i) =
                                       IF d = 0 THEN NoObjects ELSE s[d].object_list
<1> DEFINE F == {j \in 1 .. i - 1 : s[j].filename # NoFile}
           O == {j \in 1 .. i - 1 : s[j].object_list # NoObjects}
           D == {j \in 1 .. i - 1 : HasData(s[j])}
<1>1. i \in Int /\ (i - 1) + 1 = i /\ \A j \in 1 .. i - 1 : j \in 1 .. Len(s)
  OBVIOUS
<1>2. \A j \in 1 .. i - 1 : /\ UndoType = "disk" => (HasData(s[j]) <=> s[j].filename # NoFile)
                            /\ UndoType # "disk" => (HasData(s[j]) <=> s[j].object_list # NoObjects)
  BY <1>1, DataShape
<1>3. (UndoType = "disk" => F = D) /\ (UndoType # "disk" => O = D)
  BY <1>2
<1>4. DataAt(s, i - 1) = IF D = {} THEN 0 ELSE CHOOSE j \in D : \A k \in D : k <= j
  BY <1>1 DEF DataAt, PrevWith
<1>5. o_undo_find_prev_filename(s, i) =
        LET j == IF F = {} THEN 0 ELSE CHOOSE j \in F : \A k \in F : k <= j
        IN  IF j = 0 THEN NoFile ELSE s[j].filename
  BY DEF o_undo_find_prev_filename, PrevWith
<1>6. o_undo_find_prev_object_head(s, i) =
        LET j == IF O = {} THEN 0 ELSE CHOOSE j \in O : \A k \in O : k <= j
        IN  IF j = 0 THEN NoObjects ELSE s[j].object_list
  BY DEF o_undo_find_prev_object_head, PrevWith
<1> DEFINE d == DataAt(s, i - 1)
<1> HIDE DEF F, O, D
<1>7. ASSUME UndoType = "disk"
      PROVE  o_undo_find_prev_filename(s, i) = IF d = 0 THEN NoFile ELSE s[d].filename
  BY <1>3, <1>4, <1>5, <1>7
<1>8. ASSUME UndoType # "disk"
      PROVE  o_undo_find_prev_object_head(s, i) = IF d = 0 THEN NoObjects ELSE s[d].object_list
  BY <1>3, <1>4, <1>6, <1>8
<1> QED
  BY <1>7, <1>8

-----------------------------------------------------------------------------
\* The inductive invariant about what undo shows: the data stored for a node, if
\* there is any, is what the page showed when the node was saved.
ListsInv ==
  /\ \A p \in Pages : \A i \in DOMAIN undo[p] : NodeShape(undo[p][i])
  /\ \A p \in Pages : ~UndoControl \/ phase[p] # "open" => undo[p] = <<>>
StoredIsShown ==
  \A p \in Pages : \A i \in DOMAIN undo[p] :
    StoredAt(undo[p], i) \in {NoObjects, undo[p][i].shown}
ContentInv == FilesInv /\ ListsInv /\ StoredIsShown /\ ContentMatchesNode

\* Undo and redo show what is stored for the node they move to; if there is no
\* node with data they leave the schematic as it is.
LEMMA CallbackShows ==
  ASSUME FilesInv, ListsInv, StoredIsShown, ContentMatchesNode,
         NEW p \in Pages, undo_current[p] # 0,
         NEW t \in DOMAIN undo[p],
         t = undo_current[p] - 1 \/ t = undo_current[p] + 1,
         o_undo_callback(p, t)
  PROVE  \E c : /\ content' = [content EXCEPT ![p] = c]
                /\ StoredAt(undo[p], t) # NoObjects => c = StoredAt(undo[p], t)
                /\ DataAt(undo[p], t) = 0 => c = content[p]
<1> DEFINE s   == undo[p]
           cur == undo_current[p]
           prev == s[cur].type = "UNDO_ALL" /\ s[t].type = "UNDO_VIEWPORT_ONLY"
           file == IF prev /\ UndoType = "disk"
                   THEN o_undo_find_prev_filename(s, t) ELSE s[t].filename
           list == IF prev /\ UndoType = "memory"
                   THEN o_undo_find_prev_object_head(s, t) ELSE s[t].object_list
           c    == IF UndoType = "disk" /\ file # NoFile
                   THEN IF files[file] = Unlinked THEN EmptyPage ELSE files[file]
                   ELSE IF UndoType = "memory" /\ list # NoObjects
                        THEN list ELSE content[p]
           d    == DataAt(s, t)
           stored == StoredIn(files, s, t)
<1>1. content' = [content EXCEPT ![p] = c]
  BY DEF o_undo_callback
<1>2. /\ s \in Seq(Node) /\ Len(s) \in Nat /\ DOMAIN s = 1 .. Len(s)
      /\ t \in 1 .. Len(s) /\ cur \in 1 .. Len(s)
  BY DEF FilesInv, TypeOK
<1>3. \A j \in 1 .. Len(s) : NodeShape(s[j])
  BY <1>2 DEF ListsInv
<1>4. t - 1 \in 0 .. Len(s) /\ t \in 0 .. Len(s)
  BY <1>2
<1>5. /\ stored = StoredAt(undo[p], t)
      /\ content[p] = StoredIn(files, s, cur) \/ StoredIn(files, s, cur) = NoObjects
  <2>0. StoredAt(s, cur) = StoredIn(files, s, cur)
    BY StoredNow
  <2>1. cur # 0 /\ cur \in DOMAIN s
    BY <1>2
  <2>2. StoredAt(s, cur) \in {NoObjects, s[cur].shown}
    BY <2>1 DEF StoredIsShown
  <2>3. StoredAt(s, cur) # NoObjects => content[p] = s[cur].shown
    BY <2>1 DEF ContentMatchesNode
  <2> HIDE DEF s, cur
  <2> QED
    BY <2>0, <2>2, <2>3, StoredNow DEF s
<1>6. UndoType = "disk" => \A j \in 1 .. Len(s) : s[j].object_list = NoObjects
  BY <1>3 DEF NodeShape
<1>7. UndoType # "disk" => UndoType = "memory"
  BY ConstantsAssumption
\* The node moved to has data of its own.
<1>8. ASSUME s[t].type = "UNDO_ALL"
      PROVE  /\ stored # NoObjects => c = stored
             /\ d = 0 => c = content[p]
  <2>1. HasData(s[t]) /\ ~prev /\ file = s[t].filename /\ list = s[t].object_list
    BY <1>2, <1>3, <1>8, DataShape
  <2>2. d = t /\ t # 0
    BY <1>2, <1>4, <2>1, DataAtIs
  <2>3. stored = IF s[t].filename # NoFile THEN files[s[t].filename] ELSE s[t].object_list
    BY <2>1, <1>2, StoredStep
  <2>4. /\ UndoType = "disk" => s[t].filename # NoFile
        /\ UndoType # "disk" => s[t].filename = NoFile /\ s[t].object_list # NoObjects
    BY <2>1, <1>2, <1>3, DataShape DEF NodeShape
  <2> HIDE DEF file, list, d, stored, prev
  <2> QED
    BY <2>1, <2>2, <2>3, <2>4, <1>7 DEF Unlinked
\* It has none, and the node left has: its data is searched below.
<1>9. ASSUME s[t].type # "UNDO_ALL" /\ s[cur].type = "UNDO_ALL"
      PROVE  /\ stored # NoObjects => c = stored
             /\ d = 0 => c = content[p]
  <2>1. prev /\ ~HasData(s[t])
    BY <1>2, <1>3, <1>9, DataShape DEF NodeShape, NodeType
  <2> DEFINE e == DataAt(s, t - 1)
  <2>2. d = e
    <3>1. /\ e \in 0 .. t - 1 /\ (e # 0 => HasData(s[e]))
          /\ \A j \in 1 .. t - 1 : j > e => ~HasData(s[j])
      BY <1>2, <1>4, DataAtProperties
    <3> HIDE DEF e
    <3>2. e \in 0 .. t /\ \A j \in 1 .. t : j > e => ~HasData(s[j])
      BY <3>1, <2>1, <1>2
    <3> QED
      BY <3>1, <3>2, <1>2, <1>4, DataAtIs
  <2>3. /\ UndoType = "disk" => file = IF e = 0 THEN NoFile ELSE s[e].filename
        /\ UndoType # "disk" => list = IF e = 0 THEN NoObjects ELSE s[e].object_list
    BY <2>1, <1>2, <1>3, <1>7, FindPrevData
  <2>4. e \in 0 .. t - 1 /\ (e # 0 => HasData(s[e]))
    BY <1>2, <1>4, DataAtProperties
  <2>5. e # 0 => /\ UndoType = "disk" => s[e].filename # NoFile
                 /\ UndoType # "disk" => s[e].filename = NoFile /\ s[e].object_list # NoObjects
    <3>1. e # 0 => e \in 1 .. Len(s)
      BY <2>4, <1>2
    <3> QED
      BY <3>1, <2>4, <1>3, DataShape DEF NodeShape
  <2>6. stored = IF e = 0 THEN NoObjects
                 ELSE IF s[e].filename # NoFile THEN files[s[e].filename]
                 ELSE s[e].object_list
    BY <2>2 DEF StoredIn
  <2> HIDE DEF file, list, d, stored, prev, e
  <2> QED
    BY <2>2, <2>3, <2>5, <2>6, <1>7 DEF Unlinked
\* Neither has data: both show what is below the lower one of them.
<1>10. ASSUME s[t].type # "UNDO_ALL" /\ s[cur].type # "UNDO_ALL"
      PROVE  /\ stored # NoObjects => c = stored
             /\ d = 0 => c = content[p]
  <2>1. ~prev /\ ~HasData(s[t]) /\ ~HasData(s[cur])
    BY <1>2, <1>3, <1>10, DataShape
  <2>2. stored = StoredIn(files, s, cur)
    <3>1. CASE t = cur - 1
      BY <3>1, <2>1, <1>2, StoredStep
    <3>2. CASE t = cur + 1
      <4>1. t - 1 = cur
        BY <3>2, <1>2
      <4> QED
        BY <4>1, <2>1, <1>2, StoredStep
    <3> QED
      BY <3>1, <3>2
  <2>3. c = content[p]
    <3>1. UndoType = "disk" => s[t].filename = NoFile
      BY <2>1, <1>2, <1>3, DataShape
    <3>2. UndoType # "disk" => s[t].object_list = NoObjects
      BY <2>1, <1>2, <1>3, DataShape
    <3> QED
      BY <2>1, <3>1, <3>2, <1>7
  <2> HIDE DEF c, stored
  <2> QED
    BY <2>2, <2>3, <1>5
<1>11. /\ stored # NoObjects => c = stored
       /\ d = 0 => c = content[p]
  BY <1>8, <1>9, <1>10
<1> HIDE DEF c, stored
<1> QED
  BY <1>1, <1>5, <1>11

\* What is stored for the node a save adds.
LEMMA SavedStored ==
  ASSUME ContentInv, NEW p \in Pages, NEW n \in Node,
         NEW w \in Written, SaveEffect(p, n, w),
         n.filename \in {NoFile, undo_file_index},
         NodeShape(n), n.type # "UNDO_ALL" => n.shown = content[p]
  PROVE  LET k    == Dropped(p, n)
             cur  == undo_current[p]
             kept == Tail2(Pushed(p, n), k)
             top  == StoredIn(files', kept, cur + 1 - k)
         IN  /\ top \in {NoObjects, n.shown}
             /\ n.type = "UNDO_ALL" /\ (w \/ UndoType # "disk") => top = n.shown
             /\ n.type # "UNDO_ALL" => top = StoredIn(files', kept, cur - k)
<1> DEFINE k    == Dropped(p, n)
           kept == Tail2(Pushed(p, n), k)
           cur  == undo_current[p]
           top  == StoredIn(files', kept, cur + 1 - k)
           next == StoredIn(files', kept, cur - k)
<1>0. FilesInv /\ cur \in 0 .. Len(undo[p]) /\ undo[p] \in Seq(Node)
  BY DEF ContentInv, FilesInv, TypeOK
<1>1. k \in 0 .. cur /\ cur - k \in 0 .. cur - k /\ (cur - k) + k = cur
  BY <1>0, SaveList DEF FilesInv
<1>2. /\ \A i \in 0 .. cur - k :
           StoredIn(files', kept, i) =
             IF DataAt(kept, i) = 0 THEN NoObjects ELSE StoredIn(files, undo[p], i + k)
      /\ top = IF n.filename # NoFile THEN IF w THEN n.shown ELSE Unlinked
               ELSE IF n.object_list # NoObjects THEN n.object_list ELSE next
  BY <1>0, SaveStored
<1>3. next \in {NoObjects, StoredIn(files, undo[p], cur)}
  BY <1>1, <1>2
<1>4. StoredIn(files, undo[p], cur) \in {NoObjects, content[p]}
  <2>1. CASE cur = 0
    BY <2>1, <1>0, StoredBottom
  <2>2. CASE cur # 0
    <3>1. StoredAt(undo[p], cur) # NoObjects => content[p] = undo[p][cur].shown
      BY <2>2 DEF ContentInv, ContentMatchesNode
    <3>2. StoredAt(undo[p], cur) \in {NoObjects, undo[p][cur].shown}
      BY <2>2, <1>0 DEF ContentInv, StoredIsShown
    <3> HIDE DEF cur
    <3> QED
      BY <3>1, <3>2, StoredNow
  <2> QED
    BY <2>1, <2>2
<1>5. /\ n.type = "UNDO_ALL" => n.shown \in Contents /\ n.shown # NoObjects
      /\ UndoType = "disk" => n.object_list = NoObjects
      /\ UndoType = "disk" => (n.type = "UNDO_ALL" <=> n.filename # NoFile)
      /\ UndoType # "disk" => n.filename = NoFile
      /\ UndoType # "disk" => n.object_list = IF n.type = "UNDO_ALL" THEN n.shown ELSE NoObjects
  BY ConstantsAssumption DEF NodeShape
<1>6. w \in BOOLEAN
  BY DEF Written
<1> HIDE DEF top, next, k, kept, cur
<1>7. ASSUME n.type # "UNDO_ALL"
      PROVE  top = next
  BY <1>2, <1>5, <1>7
<1>8. ASSUME n.type = "UNDO_ALL"
      PROVE  top = IF w \/ UndoType # "disk" THEN n.shown ELSE NoObjects
  BY <1>2, <1>5, <1>6, <1>8 DEF Unlinked
<1>9. top \in {NoObjects, n.shown}
  BY <1>3, <1>4, <1>7, <1>8
<1> QED
  BY <1>7, <1>8, <1>9 DEF top, next, k, kept, cur

\* A save keeps the invariant.
LEMMA SaveContent ==
  ASSUME ContentInv, Recoverable, UndoControl, NEW p \in Pages,
         NEW flag, NEW c, NEW l, NEW w,
         Saveable(flag, c, l, w), o_undo_savestate(p, flag, c, l, w),
         flag # "UNDO_ALL" => c = content[p],
         phase'[p] = "open", \A q \in Pages \ {p} : phase'[q] = phase[q]
  PROVE  ListsInv' /\ StoredIsShown' /\ ContentMatchesNode'
<1> DEFINE n    == Saved(flag, c, l)
           k    == Dropped(p, n)
           kept == Tail2(Pushed(p, n), k)
           cur  == undo_current[p]
           top  == StoredIn(files', kept, cur + 1 - k)
<1>0. FilesInv /\ TypeOK /\ cur \in 0 .. Len(undo[p]) /\ undo \in [Pages -> Seq(Node)]
      /\ undo_current \in [Pages -> Nat] /\ content \in [Pages -> Contents \cup {EmptyPage}]
      /\ \A q \in Pages : undo_current[q] \in 0 .. Len(undo[q])
  BY DEF ContentInv, FilesInv, TypeOK
<1>1. SaveEffect(p, n, w)
  BY SaveStep
<1>2. /\ n.filename # NoFile => undo_file_index < MaxFiles
      /\ content' = [content EXCEPT ![p] = n.shown]
      /\ undo' = [undo EXCEPT ![p] = kept]
      /\ undo_current' = [undo_current EXCEPT ![p] = Len(kept)]
  BY <1>1 DEF SaveEffect
<1>3. /\ n \in Node
      /\ n.filename \in {NoFile, undo_file_index}
  BY <1>0, <1>2, SavedIsNode
<1>4. NodeShape(n) /\ n.type = flag /\ (flag # "UNDO_ALL" => n.shown = content[p])
  BY <1>0, SavedShape
<1>5. w \in Written
  BY DEF Saveable
<1> HIDE DEF n
<1>6. /\ k \in 0 .. cur
      /\ kept \in Seq(Node)
      /\ Len(kept) = cur + 1 - k
      /\ \A i \in 1 .. cur - k : kept[i] = undo[p][i + k]
      /\ kept[cur + 1 - k] = n
  BY <1>0, <1>3, SaveList
<1>7. /\ \A i \in 0 .. cur - k :
           StoredIn(files', kept, i) =
             IF DataAt(kept, i) = 0 THEN NoObjects ELSE StoredIn(files, undo[p], i + k)
      /\ \A q \in Pages \ {p} : \A i \in 0 .. Len(undo[q]) :
           StoredIn(files', undo[q], i) = StoredIn(files, undo[q], i)
  BY <1>0, <1>1, <1>3, <1>5, SaveStored
<1>8. top \in {NoObjects, n.shown}
  BY <1>1, <1>3, <1>4, <1>5, SavedStored
<1> HIDE DEF k, kept, cur, top
<1>9. /\ undo'[p] = kept /\ undo_current'[p] = cur + 1 - k /\ content'[p] = n.shown
      /\ \A q \in Pages \ {p} : /\ undo'[q] = undo[q]
                                /\ undo_current'[q] = undo_current[q]
                                /\ content'[q] = content[q]
  BY <1>0, <1>2, <1>6
<1>10. \A i \in DOMAIN kept : i = cur + 1 - k \/ (i \in 1 .. cur - k /\ i + k \in DOMAIN undo[p])
  BY <1>0, <1>6
<1>11. ListsInv'
  <2>1. ASSUME NEW q \in Pages, NEW i \in DOMAIN undo'[q]
        PROVE  NodeShape(undo'[q][i])
    <3>1. CASE q = p
      <4>1. \/ undo'[q][i] = n
            \/ i + k \in DOMAIN undo[p] /\ undo'[q][i] = undo[p][i + k]
        BY <3>1, <1>6, <1>9, <1>10, <2>1
      <4> QED
        BY <4>1, <1>4 DEF ContentInv, ListsInv
    <3>2. CASE q # p
      BY <3>2, <1>9, <2>1 DEF ContentInv, ListsInv
    <3> QED
      BY <3>1, <3>2
  <2>2. \A q \in Pages : ~UndoControl \/ phase'[q] # "open" => undo'[q] = <<>>
    BY <1>9 DEF ContentInv, ListsInv
  <2> QED
    BY <2>1, <2>2 DEF ListsInv
<1>12. ASSUME NEW q \in Pages, NEW i \in DOMAIN undo'[q]
       PROVE  StoredIn(files', undo'[q], i) \in {NoObjects, undo'[q][i].shown}
  <2>1. CASE q = p /\ i = cur + 1 - k
    BY <2>1, <1>6, <1>8, <1>9 DEF top
  <2>2. CASE q = p /\ i # cur + 1 - k
    <3>1. /\ i \in 1 .. cur - k /\ i + k \in DOMAIN undo[p] /\ undo'[q] = kept
          /\ i \in 0 .. cur - k
      BY <2>2, <1>9, <1>10, <1>12
    <3>2. StoredIn(files', kept, i) \in {NoObjects, StoredIn(files, undo[p], i + k)}
      BY <3>1, <1>7
    <3>3. StoredAt(undo[p], i + k) \in {NoObjects, undo[p][i + k].shown}
      BY <3>1 DEF ContentInv, StoredIsShown
    <3>4. StoredAt(undo[p], i + k) = StoredIn(files, undo[p], i + k)
      BY StoredNow
    <3> QED
      BY <3>1, <3>2, <3>3, <3>4, <1>6
  <2>3. CASE q # p
    <3>1. undo'[q] = undo[q] /\ i \in DOMAIN undo[q] /\ i \in 0 .. Len(undo[q])
      BY <2>3, <1>0, <1>9, <1>12
    <3>2. StoredAt(undo[q], i) \in {NoObjects, undo[q][i].shown}
      BY <3>1 DEF ContentInv, StoredIsShown
    <3>3. StoredIn(files', undo[q], i) = StoredIn(files, undo[q], i)
      BY <2>3, <3>1, <1>7
    <3> QED
      BY <3>1, <3>2, <3>3, StoredNow
  <2> QED
    BY <2>1, <2>2, <2>3
<1>13. StoredIsShown'
  BY <1>12, StoredNow DEF StoredIsShown
<1>14. ContentMatchesNode'
  <2>1. ASSUME NEW q \in Pages, undo_current'[q] # 0,
               StoredIn(files', undo'[q], undo_current'[q]) # NoObjects
        PROVE  content'[q] = undo'[q][undo_current'[q]].shown
    <3>1. CASE q = p
      BY <3>1, <1>6, <1>9
    <3>2. CASE q # p
      <4>1. /\ undo'[q] = undo[q] /\ undo_current'[q] = undo_current[q]
            /\ content'[q] = content[q] /\ undo_current[q] \in 0 .. Len(undo[q])
        BY <3>2, <1>0, <1>9
      <4>2. StoredIn(files', undo[q], undo_current[q]) = StoredAt(undo[q], undo_current[q])
        BY <3>2, <4>1, <1>7, StoredNow
      <4> QED
        BY <2>1, <4>1, <4>2 DEF ContentInv, ContentMatchesNode
    <3> QED
      BY <3>1, <3>2
  <2>2. \A q \in Pages : StoredAt(undo[q], undo_current[q])'
                           = StoredIn(files', undo'[q], undo_current'[q])
    BY DEF StoredAt, StoredIn
  <2> QED
    BY <2>1, <2>2 DEF ContentMatchesNode
<1> QED
  BY <1>11, <1>13, <1>14

\* Undo and redo keep the invariant.
LEMMA CallbackContent ==
  ASSUME ContentInv, NEW p \in Pages, undo_current[p] # 0,
         NEW t \in DOMAIN undo[p],
         t = undo_current[p] - 1 \/ t = undo_current[p] + 1,
         o_undo_callback(p, t)
  PROVE  ListsInv' /\ StoredIsShown' /\ ContentMatchesNode'
<1>0. /\ FilesInv /\ ListsInv /\ StoredIsShown /\ ContentMatchesNode
      /\ undo_current \in [Pages -> Nat] /\ content \in [Pages -> Contents \cup {EmptyPage}]
  BY DEF ContentInv, FilesInv, TypeOK
<1>1. UNCHANGED <<phase, undo, files>> /\ undo_current' = [undo_current EXCEPT ![p] = t]
  BY DEF o_undo_callback
<1>2. PICK c : /\ content' = [content EXCEPT ![p] = c]
               /\ StoredAt(undo[p], t) # NoObjects => c = StoredAt(undo[p], t)
  BY <1>0, CallbackShows
<1>3. ListsInv'
  BY <1>0, <1>1 DEF ListsInv
<1>4. \A q \in Pages : \A i : StoredAt(undo[q], i)' = StoredAt(undo[q], i)
  BY <1>1, StoredNow
<1>5. StoredIsShown'
  BY <1>0, <1>1, <1>4 DEF StoredIsShown
<1>6. ASSUME NEW q \in Pages, undo_current'[q] # 0,
             StoredAt(undo[q], undo_current'[q]) # NoObjects
      PROVE  content'[q] = undo[q][undo_current'[q]].shown
  <2>1. CASE q = p
    <3>1. undo_current'[q] = t /\ content'[q] = c
      BY <2>1, <1>0, <1>1, <1>2
    <3>2. StoredAt(undo[p], t) \in {NoObjects, undo[p][t].shown}
      BY <1>0 DEF StoredIsShown
    <3> QED
      BY <2>1, <3>1, <3>2, <1>2, <1>6
  <2>2. CASE q # p
    <3>1. undo_current'[q] = undo_current[q] /\ content'[q] = content[q]
      BY <2>2, <1>0, <1>1, <1>2
    <3> QED
      BY <3>1, <1>0, <1>6 DEF ContentMatchesNode
  <2> QED
    BY <2>1, <2>2
<1>7. ContentMatchesNode'
  <2>1. \A q \in Pages : StoredAt(undo[q], undo_current[q])' = StoredAt(undo[q], undo_current'[q])
    BY <1>1 DEF StoredAt
  <2> QED
    BY <2>1, <1>1, <1>6 DEF ContentMatchesNode
<1> QED
  BY <1>3, <1>5, <1>7

\* Steps that leave the files alone, and each page's list and what the page shows
\* unless the list is empty.
LEMMA QuietContent ==
  ASSUME ContentInv, UNCHANGED files,
         \A q \in Pages :
           \/ undo'[q] = <<>> /\ undo_current'[q] = 0
           \/ /\ undo'[q] = undo[q] /\ undo_current'[q] = undo_current[q]
              /\ content'[q] = content[q] /\ phase'[q] = phase[q]
  PROVE  ListsInv' /\ StoredIsShown' /\ ContentMatchesNode'
<1>1. \A q \in Pages : \A i \in DOMAIN undo'[q] :
        /\ undo'[q] = undo[q] /\ undo_current'[q] = undo_current[q]
        /\ content'[q] = content[q] /\ phase'[q] = phase[q]
  BY EmptySeq
<1>2. ListsInv'
  BY <1>1 DEF ContentInv, ListsInv
<1>3. StoredIsShown'
  <2> SUFFICES ASSUME NEW q \in Pages, NEW i \in DOMAIN undo'[q]
               PROVE  StoredAt(undo[q], i)' \in {NoObjects, undo'[q][i].shown}
    BY DEF StoredIsShown
  <2>1. undo'[q] = undo[q] /\ i \in DOMAIN undo[q]
    BY <1>1
  <2>2. StoredAt(undo[q], i)' = StoredAt(undo[q], i)
    BY <2>1, StoredNow
  <2> QED
    BY <2>1, <2>2 DEF ContentInv, StoredIsShown
<1>4. ContentMatchesNode'
  <2> SUFFICES ASSUME NEW q \in Pages, undo_current'[q] # 0,
                      StoredAt(undo[q], undo_current[q])' # NoObjects
               PROVE  content'[q] = undo'[q][undo_current'[q]].shown
    BY DEF ContentMatchesNode
  <2>1. /\ undo'[q] = undo[q] /\ undo_current'[q] = undo_current[q]
        /\ content'[q] = content[q]
    OBVIOUS
  <2>2. StoredAt(undo[q], undo_current[q])' = StoredAt(undo[q], undo_current[q])
    BY <2>1 DEF StoredAt
  <2> QED
    BY <2>1, <2>2 DEF ContentInv, ContentMatchesNode
<1> QED
  BY <1>2, <1>3, <1>4

\* A save keeps the invariant, with undo enabled or not.
LEMMA SaveOrNotContent ==
  ASSUME ContentInv, Recoverable, NEW p \in Pages,
         NEW flag, NEW c, NEW l, NEW w,
         Saveable(flag, c, l, w), o_undo_savestate(p, flag, c, l, w),
         flag # "UNDO_ALL" => c = content[p],
         phase'[p] = "open", \A q \in Pages \ {p} : phase'[q] = phase[q]
  PROVE  ListsInv' /\ StoredIsShown' /\ ContentMatchesNode'
<1>1. CASE UndoControl
  BY <1>1, SaveContent
<1>2. CASE ~UndoControl
  <2>1. \A q \in Pages : undo[q] = <<>> /\ undo_current[q] = 0
    <3>1. \A q \in Pages : undo[q] = <<>> /\ undo_current[q] \in 0 .. Len(undo[q])
      BY <1>2 DEF ContentInv, ListsInv, FilesInv, TypeOK
    <3> QED
      BY <3>1, EmptySeq
  <2>2. UNCHANGED <<undo, undo_current, files>>
    BY <1>2 DEF o_undo_savestate
  <2> QED
    BY <2>1, <2>2, QuietContent
<1> QED
  BY <1>1, <1>2

\* Every step keeps the invariant.
LEMMA NextContent ==
  Recoverable /\ ContentInv /\ [Next]_vars => ContentInv'
<1> SUFFICES ASSUME Recoverable, ContentInv, [Next]_vars
             PROVE  ContentInv'
  OBVIOUS
<1> DEFINE Goal == ListsInv' /\ StoredIsShown' /\ ContentMatchesNode'
<1>0. /\ TypeOK /\ \A q \in Pages : undo_current[q] \in 0 .. Len(undo[q])
      /\ phase \in [Pages -> {"new", "open", "closed"}]
      /\ content \in [Pages -> Contents \cup {EmptyPage}] /\ link \in [Pages -> Links]
      /\ undo \in [Pages -> Seq(Node)] /\ undo_current \in [Pages -> Nat]
  BY DEF ContentInv, FilesInv, TypeOK
<1>1. ASSUME NEW p \in Pages, OpenPage(p)
      PROVE  Goal
  <2>1. PICK c \in Contents, w \in Written : o_undo_savestate(p, "UNDO_ALL", c, NoLink, w)
    BY <1>1 DEF OpenPage
  <2>2. Saveable("UNDO_ALL", c, NoLink, w)
    BY ConstantsAssumption DEF Saveable, NodeType
  <2>3. phase'[p] = "open" /\ \A q \in Pages \ {p} : phase'[q] = phase[q]
    BY <1>0, <1>1 DEF OpenPage
  <2> QED
    BY <2>1, <2>2, <2>3, SaveOrNotContent
\* A page whose list is empty.
<1>2. ASSUME NEW p \in Pages, phase[p] # "open"
      PROVE  undo[p] = <<>> /\ undo_current[p] = 0
  <2>1. undo[p] = <<>>
    BY <1>2 DEF ContentInv, ListsInv
  <2> QED
    BY <2>1, <1>0, EmptySeq
<1>3. ASSUME NEW p \in Pages, LoadSubpage(p)
      PROVE  Goal
  <2>1. UNCHANGED <<undo, undo_current, files>> /\ phase[p] = "new"
    BY <1>3 DEF LoadSubpage
  <2>2. \A q \in Pages \ {p} : content'[q] = content[q] /\ phase'[q] = phase[q]
    BY <1>0, <1>3 DEF LoadSubpage
  <2> QED
    BY <2>1, <2>2, <1>2, QuietContent
<1>4. ASSUME NEW p \in Pages, Relink(p)
      PROVE  Goal
  BY <1>4, QuietContent DEF Relink
<1>5. ASSUME NEW p \in Pages, EditPage(p)
      PROVE  Goal
  <2>1. PICK c \in Contents, w \in Written : o_undo_savestate(p, "UNDO_ALL", c, link[p], w)
    BY <1>5 DEF EditPage
  <2>2. Saveable("UNDO_ALL", c, link[p], w)
    BY <1>0 DEF Saveable, NodeType
  <2>3. phase'[p] = "open" /\ \A q \in Pages \ {p} : phase'[q] = phase[q]
    BY <1>5 DEF EditPage
  <2> QED
    BY <2>1, <2>2, <2>3, SaveOrNotContent
<1>6. ASSUME NEW p \in Pages, PanZoom(p)
      PROVE  Goal
  <2>1. Saveable("UNDO_VIEWPORT_ONLY", content[p], link[p], TRUE)
    BY <1>0 DEF Saveable, NodeType, Written
  <2>2. phase'[p] = "open" /\ \A q \in Pages \ {p} : phase'[q] = phase[q]
    BY <1>6 DEF PanZoom
  <2> QED
    BY <1>6, <2>1, <2>2, SaveOrNotContent DEF PanZoom
<1>7. ASSUME NEW p \in Pages, EditUndo(p)
      PROVE  Goal
  <2>1. undo_current[p] # 0
    BY <1>0, <1>7 DEF EditUndo
  <2> QED
    BY <1>7, <2>1, CallbackContent DEF EditUndo
<1>8. ASSUME NEW p \in Pages, EditRedo(p)
      PROVE  Goal
  BY <1>8, CallbackContent DEF EditRedo
<1>9. ASSUME NEW p \in Pages, ClosePage(p)
      PROVE  Goal
  <2>1. /\ files' = files
        /\ undo'[p] = <<>> /\ undo_current'[p] = 0
        /\ \A q \in Pages \ {p} :
             /\ undo'[q] = undo[q] /\ undo_current'[q] = undo_current[q]
             /\ content'[q] = content[q] /\ phase'[q] = phase[q]
    BY <1>0, <1>9 DEF ClosePage
  <2> QED
    BY <2>1, QuietContent
<1>10. ASSUME Quit
       PROVE  Goal
  <2>1. \A q \in Pages : undo'[q] = <<>> /\ undo_current'[q] = 0
    BY <1>10 DEF Quit
  <2>2. \A q \in Pages : \A i \in DOMAIN undo'[q] : FALSE
    BY <2>1, EmptySeq
  <2> QED
    BY <2>1, <2>2 DEF ListsInv, StoredIsShown, ContentMatchesNode
<1>11. ASSUME UNCHANGED vars
       PROVE  Goal
  BY <1>11, QuietContent DEF vars
<1> HIDE DEF Goal
<1>12. Goal
  BY <1>1, <1>3, <1>4, <1>5, <1>6, <1>7, <1>8, <1>9, <1>10, <1>11 DEF Next
<1>13. FilesInv'
  <2>1. FilesInv
    BY DEF ContentInv
  <2> QED
    BY <2>1, NextFilesInv
<1> QED
  BY <1>12, <1>13 DEF ContentInv, Goal

\* The first state has it.
LEMMA InitContent == Init => ContentInv
<1> SUFFICES ASSUME Init
             PROVE  ContentInv
  OBVIOUS
<1>1. \A p \in Pages : undo[p] = <<>> /\ undo_current[p] = 0
  BY DEF Init
<1>2. \A p \in Pages : \A i \in DOMAIN undo[p] : FALSE
  BY <1>1, EmptySeq
<1> QED
  BY <1>1, <1>2, InitFilesInv DEF ContentInv, ListsInv, StoredIsShown, ContentMatchesNode

\* o_undo_callback: as long as the data a position depends on is still stored, a
\* page shows what it showed when its current UNDO node was saved, although that
\* data may be in a node further down: whatever was edited, panned, undone, redone
\* and trimmed, with failing writes too.  In memory this needs that no page is ever
\* empty when it is saved.
THEOREM UndoShowsWhatWasSaved == Recoverable => (Spec => []ContentMatchesNode)
<1> SUFFICES ASSUME Recoverable
             PROVE  Spec => []ContentMatchesNode
  OBVIOUS
<1>1. ContentInv => ContentMatchesNode
  BY DEF ContentInv
<1>2. ContentInv /\ [Next]_vars => ContentInv'
  BY NextContent
<1> QED
  BY <1>1, <1>2, InitContent, PTL DEF Spec

-----------------------------------------------------------------------------
(* Trimming. *)

\* What TrimKeepsUndoLevels asks of one page.
TrimKeeps(q) ==
  LET before == SubSeq(undo[q], 1, undo_current[q])
  IN  (phase[q] = "open" /\ phase'[q] = "open" /\ undo'[q] # undo[q]) =>
        /\ undo'[q] # <<>>
        /\ \/ Levels(undo'[q]) >= UndoLevels
           \/ Levels(undo'[q]) >= Levels(before)

\* A save keeps that of every page.
LEMMA SaveTrims ==
  ASSUME TypeOK, NEW p \in Pages, NEW flag, NEW c, NEW l, NEW w,
         Saveable(flag, c, l, w), o_undo_savestate(p, flag, c, l, w)
  PROVE  \A q \in Pages : TrimKeeps(q)
<1>1. CASE ~UndoControl
  BY <1>1 DEF o_undo_savestate, TrimKeeps
<1>2. CASE UndoControl
  <2> DEFINE n    == Saved(flag, c, l)
             kept == Tail2(Pushed(p, n), Dropped(p, n))
             cur  == undo_current[p]
  <2>0. SaveEffect(p, n, w)
    BY <1>2, SaveStep
  <2> HIDE DEF n
  <2>1. /\ n.filename # NoFile => undo_file_index < MaxFiles
        /\ undo' = [undo EXCEPT ![p] = kept]
    BY <2>0 DEF SaveEffect
  <2>2. n \in Node
    BY <2>1, SavedIsNode DEF n
  <2>3. /\ Dropped(p, n) \in 0 .. cur
        /\ kept \in Seq(Node) /\ Len(kept) = cur + 1 - Dropped(p, n)
    BY <2>2, SaveList
  <2>4. undo \in [Pages -> Seq(Node)] /\ cur \in 0 .. Len(undo[p])
    BY DEF TypeOK
  <2>5. kept # <<>>
    BY <2>3, <2>4
  <2>6. \/ Dropped(p, n) = 0 /\ kept = Pushed(p, n)
        \/ Levels(kept) >= UndoLevels
    BY <2>2, SaveLevels
  <2>7. ASSUME kept = Pushed(p, n)
        PROVE  Levels(kept) >= Levels(SubSeq(undo[p], 1, cur))
    <3> DEFINE before == SubSeq(undo[p], 1, cur)
    <3>1. /\ before \in Seq(Node) /\ Len(before) = cur
          /\ \A i \in 1 .. cur : before[i] = undo[p][i]
      BY <2>4
    <3>2. /\ Len(kept) = cur + 1
          /\ \A i \in 1 .. cur : kept[i] = undo[p][i]
      BY <2>2, <2>7, PushedProperties
    <3> HIDE DEF before, kept, cur
    <3>3. Levels(before) <= Levels(kept)
      <4>1. Len(before) <= Len(kept) /\ \A i \in 1 .. Len(before) : before[i] = kept[i]
        BY <2>4, <3>1, <3>2
      <4> QED
        BY <2>3, <3>1, <4>1, LevelsOfPrefix
    <3>4. Levels(before) \in Int /\ Levels(kept) \in Int
      BY <2>3, <3>1, LevelsBound
    <3> QED
      BY <3>3, <3>4 DEF before
  <2> HIDE DEF kept
  <2>8. \A q \in Pages : undo'[q] = IF q = p THEN kept ELSE undo[q]
    BY <2>1, <2>4
  <2> QED
    BY <2>5, <2>6, <2>7, <2>8 DEF TrimKeeps
<1> QED
  BY <1>1, <1>2

\* And so does every step.
LEMMA NextTrims == TypeOK /\ [Next]_vars => [\A q \in Pages : TrimKeeps(q)]_vars
<1> SUFFICES ASSUME TypeOK, Next
             PROVE  \A q \in Pages : TrimKeeps(q)
  OBVIOUS
<1>1. ASSUME NEW p \in Pages, OpenPage(p)
      PROVE  \A q \in Pages : TrimKeeps(q)
  <2>1. PICK c \in Contents, w \in Written : o_undo_savestate(p, "UNDO_ALL", c, NoLink, w)
    BY <1>1 DEF OpenPage
  <2>2. Saveable("UNDO_ALL", c, NoLink, w)
    BY ConstantsAssumption DEF Saveable, NodeType
  <2> QED
    BY <2>1, <2>2, SaveTrims
<1>2. ASSUME NEW p \in Pages, EditPage(p)
      PROVE  \A q \in Pages : TrimKeeps(q)
  <2>1. PICK c \in Contents, w \in Written : o_undo_savestate(p, "UNDO_ALL", c, link[p], w)
    BY <1>2 DEF EditPage
  <2>2. Saveable("UNDO_ALL", c, link[p], w)
    BY DEF Saveable, NodeType, TypeOK
  <2> QED
    BY <2>1, <2>2, SaveTrims
<1>3. ASSUME NEW p \in Pages, PanZoom(p)
      PROVE  \A q \in Pages : TrimKeeps(q)
  <2>1. Saveable("UNDO_VIEWPORT_ONLY", content[p], link[p], TRUE)
    BY DEF Saveable, NodeType, TypeOK, Written
  <2> QED
    BY <1>3, <2>1, SaveTrims DEF PanZoom
\* The other steps keep the lists of pages that stay open.
<1>4. ASSUME \A q \in Pages : undo'[q] = undo[q] \/ phase'[q] # "open"
      PROVE  \A q \in Pages : TrimKeeps(q)
  BY <1>4 DEF TrimKeeps
<1>5. ASSUME NEW p \in Pages, ClosePage(p)
      PROVE  \A q \in Pages : undo'[q] = undo[q] \/ phase'[q] # "open"
  BY <1>5 DEF ClosePage, TypeOK
<1>6. ASSUME Quit
      PROVE  \A q \in Pages : undo'[q] = undo[q] \/ phase'[q] # "open"
  BY <1>6 DEF Quit
<1>7. ASSUME NEW p \in Pages, LoadSubpage(p) \/ Relink(p) \/ EditUndo(p) \/ EditRedo(p)
      PROVE  \A q \in Pages : undo'[q] = undo[q] \/ phase'[q] # "open"
  BY <1>7 DEF LoadSubpage, Relink, EditUndo, EditRedo, o_undo_callback
<1> QED
  BY <1>1, <1>2, <1>3, <1>4, <1>5, <1>6, <1>7 DEF Next

\* The trimming loop: levels are counted and nodes are freed, but since a list has
\* at least as many nodes as levels, undo-levels levels remain, and the node
\* that was just added is never freed.
THEOREM TrimmingKeepsLevels == Spec => TrimKeepsUndoLevels
<1>1. Init => TypeOK
  BY ConstantsAssumption DEF Init, TypeOK, Unlinked
<1>2. TypeOK /\ [Next]_vars =>
        [\A p \in Pages :
           LET before == SubSeq(undo[p], 1, undo_current[p])
           IN  (phase[p] = "open" /\ phase'[p] = "open" /\ undo'[p] # undo[p]) =>
                 /\ undo'[p] # <<>>
                 /\ \/ Levels(undo'[p]) >= UndoLevels
                    \/ Levels(undo'[p]) >= Levels(before)]_vars
  BY NextTrims DEF TrimKeeps
<1> QED
  BY <1>1, <1>2, NextTypeOK, PTL DEF Spec, TrimKeepsUndoLevels

-----------------------------------------------------------------------------
(* The undo lists are the history AbstractUndo promises. *)

\* Every schematic that is saved can be shown again: undo files are written, and
\* in memory no page is empty when it is saved.
Reliable == (UndoType = "disk" => ~WritesMayFail) /\ Recoverable

\* The history of the refinement mapping.
Hist == [p \in Pages |-> [i \in 1 .. Len(undo[p]) |-> StoredAt(undo[p], i)]]

\* The entries of a list whose data is gone come first.
LEMMA LostFirst ==
  ASSUME NEW s \in Seq(Node), NEW n \in 0 .. Len(s)
  PROVE  \E m \in 0 .. n : /\ \A i \in 1 .. m : DataAt(s, i) = 0
                           /\ \A i \in 1 .. n : i > m => DataAt(s, i) # 0
<1> DEFINE S == {i \in 1 .. n : DataAt(s, i) = 0}
<1>0. n \in Nat /\ n <= Len(s) /\ Len(s) \in Nat
  OBVIOUS
<1>1. CASE S = {}
  BY <1>0, <1>1
<1>2. CASE S # {}
  <2>1. PICK m \in S : \A i \in S : i <= m
    BY <1>0, <1>2, Greatest
  <2>2. m \in 1 .. n /\ DataAt(s, m) = 0 /\ m \in 0 .. Len(s) /\ m \in 0 .. n
    BY <1>0
  <2>3. \A j \in 1 .. m : ~HasData(s[j])
    BY <2>2, DataAtProperties
  <2>4. \A i \in 1 .. m : DataAt(s, i) = 0
    <3> TAKE i \in 1 .. m
    <3>1. i \in 0 .. Len(s) /\ 0 \in 0 .. i /\ \A j \in 1 .. i : ~HasData(s[j])
      BY <1>0, <2>2, <2>3
    <3> QED
      BY <3>1, DataAtIs
  <2>5. \A i \in 1 .. n : i > m => DataAt(s, i) # 0
    BY <2>1, <2>2
  <2> QED
    BY <2>2, <2>4, <2>5
<1> QED
  BY <1>1, <1>2

\* What the mapping makes of the new node: the schematic that was saved, or what
\* the node below it showed. Trimming does not take that away.
LEMMA SavedEntry ==
  ASSUME ContentInv, Reliable, NEW p \in Pages, NEW n \in Node,
         NEW w \in Written, SaveEffect(p, n, w),
         n.filename \in {NoFile, undo_file_index},
         NodeShape(n), n.type # "UNDO_ALL" => n.shown = content[p]
  PROVE  LET k    == Dropped(p, n)
             cur  == undo_current[p]
             kept == Tail2(Pushed(p, n), k)
         IN  StoredIn(files', kept, cur + 1 - k) =
               IF n.type = "UNDO_ALL" THEN n.shown
               ELSE IF cur = 0 THEN NoObjects ELSE StoredAt(undo[p], cur)
<1> DEFINE k    == Dropped(p, n)
           kept == Tail2(Pushed(p, n), k)
           cur  == undo_current[p]
           top  == StoredIn(files', kept, cur + 1 - k)
           next == StoredIn(files', kept, cur - k)
<1>0. FilesInv /\ TypeOK /\ cur \in 0 .. Len(undo[p]) /\ undo[p] \in Seq(Node)
  BY DEF ContentInv, FilesInv, TypeOK
<1>1. /\ k \in 0 .. cur
      /\ kept \in Seq(Node)
      /\ Len(kept) = cur + 1 - k
      /\ \A i \in 1 .. cur - k : kept[i] = undo[p][i + k]
      /\ kept[cur + 1 - k] = n
  BY <1>0, SaveList
<1>2. /\ n.type = "UNDO_ALL" /\ (w \/ UndoType # "disk") => top = n.shown
      /\ n.type # "UNDO_ALL" => top = next
  BY SavedStored
<1>3. next = IF DataAt(kept, cur - k) = 0 THEN NoObjects ELSE StoredAt(undo[p], cur)
  <2>1. cur - k \in 0 .. cur - k /\ (cur - k) + k = cur
    BY <1>0, <1>1
  <2>2. next = IF DataAt(kept, cur - k) = 0 THEN NoObjects
               ELSE StoredIn(files, undo[p], (cur - k) + k)
    BY <1>0, <2>1, SaveStored
  <2> QED
    BY <2>1, <2>2, StoredNow
<1>4. UndoType = "disk" => w
  BY DEF Reliable, Written
<1>5. cur = 0 => DataAt(kept, cur - k) = 0
  <2>1. cur = 0 => cur - k = 0 /\ 0 \in 0 .. Len(kept)
    BY <1>0, <1>1
  <2>2. 0 \in 0 .. Len(kept) => DataAt(kept, 0) \in 0 .. 0
    BY <1>1, DataAtProperties
  <2> HIDE DEF cur, k, kept
  <2> QED
    BY <2>1, <2>2
<1>6. ASSUME n.type # "UNDO_ALL", DataAt(kept, cur - k) = 0
      PROVE  StoredAt(undo[p], cur) = NoObjects
  <2>1. ~HasData(n)
    BY <1>6, DataShape
  <2>2. cur - k \in 0 .. Len(kept) /\ cur + 1 - k \in 0 .. Len(kept)
    BY <1>0, <1>1
  <2>3. \A j \in 1 .. cur - k : ~HasData(kept[j])
    <3>1. \A j \in 1 .. cur - k : j > DataAt(kept, cur - k) => ~HasData(kept[j])
      BY <1>1, <2>2, DataAtProperties
    <3>2. \A j \in 1 .. cur - k : j > 0
      OBVIOUS
    <3> HIDE DEF k, kept, cur
    <3> QED
      BY <1>6, <3>1, <3>2
  <2>4. DataAt(kept, Len(kept)) = 0
    <3>1. \A j \in 1 .. Len(kept) : ~HasData(kept[j])
      <4> TAKE j \in 1 .. Len(kept)
      <4>1. j \in 1 .. cur - k \/ j = cur + 1 - k
        BY <1>0, <1>1
      <4> QED
        BY <4>1, <1>1, <2>1, <2>3
    <3>2. Len(kept) \in 0 .. Len(kept) /\ 0 \in 0 .. Len(kept)
      BY <1>1
    <3> HIDE DEF kept
    <3> QED
      BY <3>1, <3>2, <1>1, DataAtIs
  <2>5. ~(Levels(kept) > 0)
    BY <1>1, <2>4, LevelsAreData
  <2>6. k = 0
    <3>1. \/ k = 0
          \/ Levels(kept) >= UndoLevels
      BY <1>0, SaveLevels
    <3>2. Levels(kept) \in 0 .. Len(kept) /\ UndoLevels \in Nat /\ UndoLevels > 0
      BY <1>1, LevelsBound, ConstantsAssumption
    <3> HIDE DEF kept, k
    <3> QED
      BY <3>1, <3>2, <2>5
  <2>7. \A j \in 1 .. cur : ~HasData(undo[p][j])
    BY <2>3, <2>6, <1>0, <1>1
  <2>8. DataAt(undo[p], cur) = 0
    <3>1. 0 \in 0 .. cur
      BY <1>0
    <3> HIDE DEF cur
    <3> QED
      BY <3>1, <2>7, <1>0, DataAtIs
  <2> QED
    BY <2>8 DEF StoredAt
<1> HIDE DEF top, next, kept, k, cur
<1> QED
  BY <1>2, <1>3, <1>4, <1>5, <1>6 DEF top, next, kept, k, cur

\* The mapped histories after a save.
LEMMA SavedHist ==
  ASSUME ContentInv, NEW p \in Pages, NEW n \in Node,
         NEW w \in Written, SaveEffect(p, n, w),
         n.filename \in {NoFile, undo_file_index}
  PROVE  LET kept == Tail2(Pushed(p, n), Dropped(p, n))
         IN  Hist' = [Hist EXCEPT ![p] = [i \in 1 .. Len(kept) |-> StoredIn(files', kept, i)]]
<1> DEFINE kept == Tail2(Pushed(p, n), Dropped(p, n))
           h    == [i \in 1 .. Len(kept) |-> StoredIn(files', kept, i)]
<1>0. FilesInv /\ undo \in [Pages -> Seq(Node)]
  BY DEF ContentInv, FilesInv, TypeOK
<1>1. undo' = [undo EXCEPT ![p] = kept]
  BY DEF SaveEffect
<1>2. \A q \in Pages \ {p} : \A i \in 0 .. Len(undo[q]) :
        StoredIn(files', undo[q], i) = StoredIn(files, undo[q], i)
  BY <1>0, SaveStored
<1>3. Hist' = [q \in Pages |-> [i \in 1 .. Len(undo'[q]) |-> StoredIn(files', undo'[q], i)]]
  <2>1. Hist' = [q \in Pages |-> [i \in 1 .. Len(undo'[q]) |-> StoredAt(undo[q], i)']]
    BY DEF Hist
  <2> QED
    BY <2>1, StoredNow
<1> HIDE DEF kept
<1>4. \A q \in Pages : undo'[q] = IF q = p THEN kept ELSE undo[q]
  BY <1>0, <1>1
<1>5. \A q \in Pages \ {p} :
        [i \in 1 .. Len(undo'[q]) |-> StoredIn(files', undo'[q], i)]
          = [i \in 1 .. Len(undo[q]) |-> StoredAt(undo[q], i)]
  <2> TAKE q \in Pages \ {p}
  <2>1. undo'[q] = undo[q] /\ \A i \in 1 .. Len(undo[q]) : i \in 0 .. Len(undo[q])
    BY <1>0, <1>4
  <2> QED
    BY <2>1, <1>2, StoredNow
<1>6. [i \in 1 .. Len(undo'[p]) |-> StoredIn(files', undo'[p], i)] = h
  BY <1>4
<1>7. Hist' = [q \in Pages |-> IF q = p THEN h
                                ELSE [i \in 1 .. Len(undo[q]) |-> StoredAt(undo[q], i)]]
  BY <1>3, <1>5, <1>6
<1>8. [Hist EXCEPT ![p] = h] =
        [q \in Pages |-> IF q = p THEN h
                         ELSE [i \in 1 .. Len(undo[q]) |-> StoredAt(undo[q], i)]]
  <2> HIDE DEF h
  <2> QED
    BY DEF Hist
<1> QED
  BY <1>7, <1>8 DEF h, kept

\* What AbstractUndo records, steps to and forgets, under the mapping.
LEMMA RecordedIs ==
  ASSUME NEW p \in Pages, NEW entry
  PROVE  Promise!Recorded(p, entry) = Append(SubSeq(Hist[p], 1, undo_current[p]), entry)
BY DEF Promise!Recorded, Hist

LEMMA StepIs ==
  ASSUME NEW p \in Pages, NEW i \in 1 .. Len(Hist[p]),
         undo_current' = [undo_current EXCEPT ![p] = i],
         content' = [content EXCEPT ![p] = IF Hist[p][i] = NoObjects THEN content[p]
                                           ELSE Hist[p][i]],
         UNCHANGED Hist
  PROVE  Promise!Step(p, i)
BY DEF Promise!Step, Hist

\* One way of forgetting.
LEMMA ForgottenIs ==
  ASSUME NEW r, NEW k \in 0 .. Len(r) - 1, NEW m \in 0 .. Len(r) - 1
  PROVE  [i \in 1 .. Len(r) - k |-> IF i <= m THEN NoObjects ELSE r[i + k]]
           \in Promise!Forgotten(r)
BY DEF Promise!Forgotten

\* A save is a record of AbstractUndo: it forgets the future, adds an entry, and
\* forgets as many of the oldest entries as trimming freed nodes.
LEMMA SaveRecords ==
  ASSUME ContentInv, Reliable, NEW p \in Pages, NEW n \in Node,
         NEW w \in Written, SaveEffect(p, n, w),
         n.filename \in {NoFile, undo_file_index},
         NodeShape(n), n.type # "UNDO_ALL" => n.shown = content[p]
  PROVE  Promise!Record(p, n.shown,
                        IF n.type = "UNDO_ALL" THEN n.shown
                        ELSE IF undo_current[p] = 0 THEN NoObjects
                        ELSE Hist[p][undo_current[p]])
<1> DEFINE k     == Dropped(p, n)
           kept  == Tail2(Pushed(p, n), k)
           cur   == undo_current[p]
           entry == IF n.type = "UNDO_ALL" THEN n.shown
                    ELSE IF cur = 0 THEN NoObjects ELSE Hist[p][cur]
           r     == Append(SubSeq(Hist[p], 1, cur), entry)
           h     == [i \in 1 .. Len(kept) |-> StoredIn(files', kept, i)]
<1>0. FilesInv /\ TypeOK /\ cur \in 0 .. Len(undo[p]) /\ undo[p] \in Seq(Node)
  BY DEF ContentInv, FilesInv, TypeOK
<1>1. /\ k \in 0 .. cur
      /\ kept \in Seq(Node)
      /\ Len(kept) = cur + 1 - k
  BY <1>0, SaveList
<1>2. /\ Len(Hist[p]) = Len(undo[p])
      /\ \A i \in 1 .. Len(undo[p]) : Hist[p][i] = StoredIn(files, undo[p], i)
      /\ Hist[p] \in Seq({Hist[p][i] : i \in 1 .. Len(undo[p])})
  <2> DEFINE g == [i \in 1 .. Len(undo[p]) |-> StoredAt(undo[p], i)]
  <2>1. Hist[p] = g
    BY DEF Hist
  <2>2. Len(undo[p]) \in Nat /\ Len(g) = Len(undo[p])
    BY <1>0
  <2>3. \A i \in 1 .. Len(undo[p]) : g[i] = StoredIn(files, undo[p], i)
    BY StoredNow
  <2>4. g \in Seq({g[i] : i \in 1 .. Len(undo[p])})
    BY <2>2
  <2> HIDE DEF g
  <2> QED
    BY <2>1, <2>2, <2>3, <2>4
<1>3. /\ Len(r) = cur + 1
      /\ \A i \in 1 .. cur : r[i] = Hist[p][i]
      /\ r[cur + 1] = entry
  <2> DEFINE b == SubSeq(Hist[p], 1, cur)
             V == {Hist[p][i] : i \in 1 .. Len(undo[p])}
  <2>1. /\ b \in Seq(V) /\ Len(b) = cur
        /\ \A i \in 1 .. cur : b[i] = Hist[p][i]
    <3>1. Hist[p] \in Seq(V) /\ cur \in 0 .. Len(Hist[p])
      BY <1>0, <1>2
    <3> HIDE DEF V, cur
    <3> QED
      BY <3>1
  <2> HIDE DEF b, entry, cur
  <2>2. b \in Seq(V \cup {entry})
    BY <2>1
  <2> HIDE DEF V
  <2> QED
    BY <1>0, <2>1, <2>2 DEF b
<1>4. h[cur + 1 - k] = entry
  <2>1. StoredIn(files', kept, cur + 1 - k) = entry
    <3>1. StoredIn(files', kept, cur + 1 - k) =
            IF n.type = "UNDO_ALL" THEN n.shown
            ELSE IF cur = 0 THEN NoObjects ELSE StoredAt(undo[p], cur)
      BY SavedEntry
    <3>2. cur # 0 => StoredAt(undo[p], cur) = Hist[p][cur]
      BY <1>0, <1>2, StoredNow
    <3> HIDE DEF cur, kept, k
    <3> QED
      BY <3>1, <3>2
  <2>2. cur + 1 - k \in 1 .. Len(kept)
    BY <1>0, <1>1
  <2> QED
    BY <2>1, <2>2
<1>5. PICK m \in 0 .. cur - k :
        /\ \A i \in 1 .. m : DataAt(kept, i) = 0
        /\ \A i \in 1 .. cur - k : i > m => DataAt(kept, i) # 0
  <2>1. cur - k \in 0 .. Len(kept)
    BY <1>0, <1>1
  <2> HIDE DEF cur, kept, k
  <2> QED
    BY <1>1, <2>1, LostFirst
<1>6. ASSUME NEW i \in 1 .. cur + 1 - k
      PROVE  StoredIn(files', kept, i) = IF i <= m THEN NoObjects ELSE r[i + k]
  <2>1. CASE i \in 1 .. cur - k
    <3>1. i \in 0 .. cur - k
      BY <2>1
    <3>2. StoredIn(files', kept, i) = IF DataAt(kept, i) = 0 THEN NoObjects
                                      ELSE StoredIn(files, undo[p], i + k)
      BY <1>0, <3>1, SaveStored
    <3>3. i + k \in 1 .. cur /\ i + k \in 1 .. Len(undo[p])
      BY <1>0, <1>1, <2>1
    <3>4. r[i + k] = StoredIn(files, undo[p], i + k)
      <4> HIDE DEF r, k, cur
      <4> QED
        BY <1>2, <1>3, <3>3
    <3>5. i <= m => DataAt(kept, i) = 0
      <4>1. m \in Int /\ (i <= m => i \in 1 .. m)
        BY <1>1
      <4> HIDE DEF kept, k, cur
      <4> QED
        BY <4>1, <1>5
    <3>6. ~(i <= m) => DataAt(kept, i) # 0
      <4>1. ~(i <= m) => i > m
        BY <1>1
      <4> HIDE DEF kept, k, cur
      <4> QED
        BY <4>1, <1>5, <2>1
    <3> HIDE DEF kept, r, k, cur
    <3> QED
      BY <3>2, <3>4, <3>5, <3>6
  <2>2. CASE i = cur + 1 - k
    <3>1. i + k = cur + 1 /\ ~(i <= m)
      BY <1>0, <1>1, <2>2
    <3>2. StoredIn(files', kept, i) = entry
      <4>1. i \in 1 .. Len(kept)
        BY <1>1
      <4> QED
        BY <1>4, <2>2, <4>1
    <3> HIDE DEF kept, r, k, cur, entry
    <3> QED
      BY <1>3, <3>1, <3>2
  <2>3. i \in 1 .. cur - k \/ i = cur + 1 - k
    BY <1>0, <1>1
  <2> QED
    BY <2>1, <2>2, <2>3
<1>7. h = [i \in 1 .. Len(r) - k |-> IF i <= m THEN NoObjects ELSE r[i + k]]
  <2> HIDE DEF r, kept, k, cur
  <2>1. Len(r) - k = cur + 1 - k
    BY <1>0, <1>1, <1>3
  <2>2. 1 .. Len(r) - k = 1 .. cur + 1 - k /\ 1 .. Len(kept) = 1 .. cur + 1 - k
    BY <2>1, <1>1
  <2>3. h = [i \in 1 .. cur + 1 - k |-> StoredIn(files', kept, i)]
    BY <2>2
  <2> HIDE DEF h
  <2>4. h = [i \in 1 .. cur + 1 - k |-> IF i <= m THEN NoObjects ELSE r[i + k]]
    BY <2>3, <1>6
  <2> QED
    BY <2>2, <2>4
<1>8. h \in Promise!Forgotten(r)
  <2>1. k \in 0 .. Len(r) - 1 /\ m \in 0 .. Len(r) - 1
    BY <1>0, <1>1, <1>3
  <2> HIDE DEF r, k, h
  <2> QED
    BY <1>7, <2>1, ForgottenIs
<1>9. Len(h) = Len(kept) /\ Len(kept) = cur + 1 - k
  <2>1. Len(kept) \in Nat /\ DOMAIN h = 1 .. Len(kept)
    BY <1>1
  <2> HIDE DEF kept
  <2> QED
    BY <2>1, <1>1
<1>10. Hist' = [Hist EXCEPT ![p] = h]
  BY SavedHist
<1>11. /\ content' = [content EXCEPT ![p] = n.shown]
       /\ undo_current' = [undo_current EXCEPT ![p] = Len(kept)]
  BY DEF SaveEffect
<1>12. h \in Promise!Forgotten(Promise!Recorded(p, entry))
  BY <1>8, RecordedIs
<1> HIDE DEF h, kept, k, entry, r
<1>13. h[Len(h)] = entry /\ undo_current' = [undo_current EXCEPT ![p] = Len(h)]
  BY <1>4, <1>9, <1>11
<1>14. Promise!Record(p, n.shown, entry)
  <2> DEFINE c == n.shown
  <2>1. content' = [content EXCEPT ![p] = c]
    BY <1>11
  <2> HIDE DEF c
  <2>2. Promise!Record(p, c, entry)
    BY <1>10, <1>12, <1>13, <2>1 DEF Promise!Record, Hist
  <2> QED
    BY <2>2 DEF c
<1> QED
  BY <1>14 DEF entry

\* What the mapping makes of a list.
HistOf(f, s) == [i \in 1 .. Len(s) |-> StoredIn(f, s, i)]

\* The history before and after a step.
LEMMA HistIs ==
  /\ Hist  = [p \in Pages |-> HistOf(files, undo[p])]
  /\ Hist' = [p \in Pages |-> HistOf(files', undo'[p])]
<1>1. Hist = [p \in Pages |-> HistOf(files, undo[p])]
  BY StoredNow DEF Hist, HistOf
<1>2. Hist' = [p \in Pages |-> [i \in 1 .. Len(undo'[p]) |-> StoredAt(undo[p], i)']]
  BY DEF Hist
<1>3. Hist' = [p \in Pages |-> HistOf(files', undo'[p])]
  BY <1>2, StoredNow DEF HistOf
<1> QED
  BY <1>1, <1>3

\* An empty list is an empty history.
LEMMA HistOfEmpty == \A f : HistOf(f, <<>>) = <<>>
<1> SUFFICES ASSUME NEW f
             PROVE  HistOf(f, <<>>) = <<>>
  OBVIOUS
<1>1. Len(<<>>) = 0 /\ 1 .. 0 = {}
  OBVIOUS
<1>2. HistOf(f, <<>>) = [i \in {} |-> StoredIn(f, <<>>, i)]
  BY <1>1 DEF HistOf
<1>3. HistOf(f, <<>>) \in Seq({}) /\ Len(HistOf(f, <<>>)) = 0
  <2>1. HistOf(f, <<>>) \in [1 .. 0 -> {}]
    BY <1>1, <1>2
  <2> QED
    BY <2>1
<1> QED
  BY <1>3

\* When every save can be shown again, only nodes with nothing below them show
\* nothing.
LEMMA StoredIsThere ==
  ASSUME ContentInv, Reliable, NEW p \in Pages, NEW i \in 0 .. Len(undo[p])
  PROVE  StoredAt(undo[p], i) = NoObjects => DataAt(undo[p], i) = 0
<1> DEFINE d == DataAt(undo[p], i)
           n == undo[p][d]
<1> SUFFICES ASSUME d # 0
             PROVE  StoredAt(undo[p], i) # NoObjects
  OBVIOUS
<1>1. undo[p] \in Seq(Node) /\ UndoFilesIntact /\ ListsInv
  BY DEF ContentInv, FilesInv, TypeOK
<1>2. d \in 1 .. Len(undo[p]) /\ HasData(n)
  BY <1>1, DataAtProperties
<1>3. StoredAt(undo[p], i) = IF n.filename # NoFile THEN files[n.filename] ELSE n.object_list
  BY DEF StoredAt
<1> HIDE DEF d
<1>4. NodeShape(n) /\ n.type = "UNDO_ALL"
  BY <1>1, <1>2, DataShape DEF ListsInv
<1>5. n.shown \in Contents /\ n.shown # NoObjects
  BY <1>4, ConstantsAssumption DEF NodeShape
<1>6. CASE UndoType = "disk"
  <2>1. n.filename # NoFile
    BY <1>4, <1>6 DEF NodeShape
  <2>2. files[n.filename] \in {n.shown} \cup (IF WritesMayFail THEN {Unlinked} ELSE {})
    <3>1. d \in DOMAIN undo[p]
      BY <1>1, <1>2
    <3> QED
      BY <2>1, <3>1, <1>1 DEF UndoFilesIntact
  <2>3. files[n.filename] = n.shown
    BY <2>2, <1>6 DEF Reliable
  <2> HIDE DEF n
  <2> QED
    BY <2>1, <2>3, <1>3, <1>5
<1>7. CASE UndoType # "disk"
  <2>1. n.filename = NoFile /\ n.object_list = n.shown
    BY <1>4, <1>7 DEF NodeShape
  <2> QED
    BY <2>1, <1>3, <1>5
<1> QED
  BY <1>6, <1>7

\* The variables of AbstractUndo that a step leaves alone.
SamePromise == UNCHANGED <<content, Hist, undo_current>>

\* Such a step stutters.
LEMMA SamePromiseIs == SamePromise => UNCHANGED Promise!vars
BY DEF SamePromise, Hist, Promise!vars

\* A save is an edit or a viewport change; with undo disabled, it is a load or
\* nothing.
LEMMA SavePromise ==
  ASSUME ContentInv, Reliable, NEW p \in Pages,
         NEW flag, NEW c, NEW l, NEW w,
         Saveable(flag, c, l, w), o_undo_savestate(p, flag, c, l, w),
         flag # "UNDO_ALL" => c = content[p]
  PROVE  Promise!Edit(p) \/ Promise!View(p) \/ Promise!Load(p) \/ SamePromise
<1>0. /\ TypeOK /\ FilesInv /\ ListsInv /\ Recoverable /\ flag \in NodeType
      /\ content \in [Pages -> Contents \cup {EmptyPage}]
      /\ flag = "UNDO_ALL" => c \in Contents
  BY DEF ContentInv, FilesInv, TypeOK, Reliable, Saveable
<1>1. CASE UndoControl
  <2> DEFINE n == Saved(flag, c, l)
             cur == undo_current[p]
             e == IF n.type = "UNDO_ALL" THEN n.shown
                  ELSE IF cur = 0 THEN NoObjects ELSE Hist[p][cur]
  <2>1. SaveEffect(p, n, w)
    BY <1>1, SaveStep
  <2>2. n \in Node /\ n.filename \in {NoFile, undo_file_index}
    <3>1. n.filename # NoFile => undo_file_index < MaxFiles
      BY <2>1 DEF SaveEffect
    <3> QED
      BY <3>1, <1>0, SavedIsNode
  <2>3. NodeShape(n) /\ n.type = flag /\ (n.type # "UNDO_ALL" => n.shown = content[p])
    BY <1>0, SavedShape
  <2>4. w \in Written
    BY DEF Saveable
  <2> HIDE DEF n
  <2>5. Promise!Record(p, n.shown, e)
    BY <2>1, <2>2, <2>3, <2>4, SaveRecords
  <2>6. CASE flag = "UNDO_ALL"
    <3>1. n.shown \in Contents /\ e = n.shown
      BY <2>3, <2>6 DEF NodeShape
    <3> HIDE DEF e
    <3>2. Promise!Record(p, n.shown, n.shown)
      BY <2>5, <3>1 DEF Promise!Record
    <3> QED
      BY <3>1, <3>2 DEF Promise!Edit, Promise!Record
  <2>7. CASE flag # "UNDO_ALL"
    <3>1. n.shown = content[p]
      BY <2>3, <2>7
    <3>2. e = IF undo_current[p] = 0 THEN NoObjects ELSE Hist[p][undo_current[p]]
      BY <2>3, <2>7
    <3> HIDE DEF e
    <3>3. Promise!Record(p, content[p], e)
      BY <2>5, <3>1 DEF Promise!Record
    <3> QED
      BY <3>2, <3>3 DEF Promise!View, Promise!Record, Hist
  <2> QED
    BY <2>6, <2>7
<1>2. CASE ~UndoControl
  <2>1. undo_current[p] = 0
    <3>1. undo[p] = <<>> /\ undo_current[p] \in 0 .. Len(undo[p])
      BY <1>0, <1>2 DEF ListsInv, TypeOK
    <3> QED
      BY <3>1, EmptySeq
  <2>2. UNCHANGED <<undo, undo_current, files>> /\ content' = [content EXCEPT ![p] = c]
    BY <1>2 DEF o_undo_savestate
  <2>3. UNCHANGED Hist
    BY <2>2, HistIs
  <2>4. CASE flag = "UNDO_ALL"
    BY <1>0, <2>1, <2>2, <2>3, <2>4 DEF Promise!Load, Hist
  <2>5. CASE flag # "UNDO_ALL"
    BY <1>0, <2>2, <2>3, <2>5 DEF SamePromise
  <2> QED
    BY <2>4, <2>5
<1> QED
  BY <1>1, <1>2

\* Undo and redo are steps in the history.
LEMMA CallbackPromise ==
  ASSUME ContentInv, Reliable, NEW p \in Pages, undo_current[p] # 0,
         NEW t \in DOMAIN undo[p],
         t = undo_current[p] - 1 \/ t = undo_current[p] + 1,
         o_undo_callback(p, t)
  PROVE  Promise!Step(p, t)
<1>0. /\ FilesInv /\ ListsInv /\ StoredIsShown /\ ContentMatchesNode
      /\ undo[p] \in Seq(Node) /\ t \in 1 .. Len(undo[p]) /\ t \in 0 .. Len(undo[p])
  BY DEF ContentInv, FilesInv, TypeOK
<1>1. PICK c : /\ content' = [content EXCEPT ![p] = c]
               /\ StoredAt(undo[p], t) # NoObjects => c = StoredAt(undo[p], t)
               /\ DataAt(undo[p], t) = 0 => c = content[p]
  BY <1>0, CallbackShows
<1>2. StoredAt(undo[p], t) = NoObjects => c = content[p]
  BY <1>0, <1>1, StoredIsThere
<1>3. Hist[p][t] = StoredAt(undo[p], t) /\ Len(Hist[p]) = Len(undo[p])
  <2>1. Hist[p] = [i \in 1 .. Len(undo[p]) |-> StoredAt(undo[p], i)]
    BY DEF Hist
  <2>2. Len(undo[p]) \in Nat
    BY <1>0
  <2> QED
    BY <2>1, <2>2, <1>0
<1>4. c = IF Hist[p][t] = NoObjects THEN content[p] ELSE Hist[p][t]
  BY <1>1, <1>2, <1>3
<1>5. UNCHANGED <<undo, files>> /\ undo_current' = [undo_current EXCEPT ![p] = t]
  BY DEF o_undo_callback
<1>6. UNCHANGED Hist
  BY <1>5, HistIs
<1>7. t \in 1 .. Len(Hist[p])
  BY <1>0, <1>3
<1> QED
  BY <1>1, <1>4, <1>5, <1>6, <1>7, StepIs

\* Every step is a step of AbstractUndo or stutters.
LEMMA NextPromise ==
  Reliable /\ ContentInv /\ [Next]_vars => [Promise!Next]_(Promise!vars)
<1> SUFFICES ASSUME Reliable, ContentInv, [Next]_vars
             PROVE  Promise!Next \/ SamePromise
  BY SamePromiseIs
<1> DEFINE Goal == Promise!Next \/ SamePromise
<1>0. /\ FilesInv /\ TypeOK /\ ListsInv
      /\ \A q \in Pages : undo_current[q] \in 0 .. Len(undo[q])
      /\ content \in [Pages -> Contents \cup {EmptyPage}] /\ link \in [Pages -> Links]
      /\ undo \in [Pages -> Seq(Node)] /\ undo_current \in [Pages -> Nat]
  BY DEF ContentInv, FilesInv, TypeOK
<1>1. ASSUME NEW p \in Pages,
             Promise!Edit(p) \/ Promise!View(p) \/ Promise!Load(p) \/ SamePromise
      PROVE  Goal
  BY <1>1 DEF Promise!Next
<1>2. ASSUME NEW p \in Pages, OpenPage(p)
      PROVE  Goal
  <2>1. PICK c \in Contents, w \in Written : o_undo_savestate(p, "UNDO_ALL", c, NoLink, w)
    BY <1>2 DEF OpenPage
  <2>2. Saveable("UNDO_ALL", c, NoLink, w)
    BY ConstantsAssumption DEF Saveable, NodeType
  <2>3. Promise!Edit(p) \/ Promise!View(p) \/ Promise!Load(p) \/ SamePromise
    BY <2>1, <2>2, SavePromise
  <2> QED
    BY <2>3, <1>1
<1>3. ASSUME NEW p \in Pages, EditPage(p)
      PROVE  Goal
  <2>1. PICK c \in Contents, w \in Written : o_undo_savestate(p, "UNDO_ALL", c, link[p], w)
    BY <1>3 DEF EditPage
  <2>2. Saveable("UNDO_ALL", c, link[p], w)
    BY <1>0 DEF Saveable, NodeType
  <2>3. Promise!Edit(p) \/ Promise!View(p) \/ Promise!Load(p) \/ SamePromise
    BY <2>1, <2>2, SavePromise
  <2> QED
    BY <2>3, <1>1
<1>4. ASSUME NEW p \in Pages, PanZoom(p)
      PROVE  Goal
  <2>1. Saveable("UNDO_VIEWPORT_ONLY", content[p], link[p], TRUE)
    BY <1>0 DEF Saveable, NodeType, Written
  <2>2. Promise!Edit(p) \/ Promise!View(p) \/ Promise!Load(p) \/ SamePromise
    BY <1>4, <2>1, SavePromise DEF PanZoom
  <2> QED
    BY <2>2, <1>1
\* s_hierarchy_load_subpage: the page's list is still empty.
<1>5. ASSUME NEW p \in Pages, LoadSubpage(p)
      PROVE  Goal
  <2>1. undo[p] = <<>> /\ undo_current[p] \in 0 .. Len(undo[p])
    BY <1>0, <1>5 DEF LoadSubpage, ListsInv
  <2>2. undo_current[p] = 0
    BY <2>1, EmptySeq
  <2>3. UNCHANGED <<undo, undo_current, files>>
    BY <1>5 DEF LoadSubpage
  <2>4. UNCHANGED Hist
    BY <2>3, HistIs
  <2>5. PICK c \in Contents : content' = [content EXCEPT ![p] = c]
    BY <1>5 DEF LoadSubpage
  <2>6. Promise!Load(p)
    BY <2>2, <2>3, <2>4, <2>5 DEF Promise!Load, Hist
  <2> QED
    BY <2>6, <1>1
<1>6. ASSUME NEW p \in Pages, Relink(p)
      PROVE  Goal
  <2>1. UNCHANGED <<content, undo, undo_current, files>>
    BY <1>6 DEF Relink
  <2> QED
    BY <2>1, HistIs DEF SamePromise
<1>7. ASSUME NEW p \in Pages, EditUndo(p)
      PROVE  Goal
  <2>1. /\ undo_current[p] - 1 \in DOMAIN undo[p]
        /\ o_undo_callback(p, undo_current[p] - 1)
    BY <1>7 DEF EditUndo
  <2>2. undo_current[p] # 0
    BY <2>1, <1>0
  <2>3. Promise!Step(p, undo_current[p] - 1)
    BY <2>1, <2>2, CallbackPromise
  <2>4. Promise!Undo(p)
    BY <2>3 DEF Promise!Undo
  <2> QED
    BY <2>4 DEF Promise!Next
<1>8. ASSUME NEW p \in Pages, EditRedo(p)
      PROVE  Goal
  <2>1. /\ undo_current[p] # 0 /\ undo_current[p] + 1 \in DOMAIN undo[p]
        /\ o_undo_callback(p, undo_current[p] + 1)
    BY <1>8 DEF EditRedo
  <2>2. Promise!Step(p, undo_current[p] + 1)
    BY <2>1, CallbackPromise
  <2>3. Promise!Redo(p)
    BY <2>1, <2>2 DEF Promise!Redo
  <2> QED
    BY <2>3 DEF Promise!Next
<1>9. ASSUME NEW p \in Pages, ClosePage(p)
      PROVE  Goal
  <2>1. /\ UNCHANGED files
        /\ undo' = [undo EXCEPT ![p] = <<>>]
        /\ undo_current' = [undo_current EXCEPT ![p] = 0]
        /\ content' = [content EXCEPT ![p] = EmptyPage]
    BY <1>9 DEF ClosePage
  <2>2. \A q \in Pages : HistOf(files', undo'[q]) =
                           IF q = p THEN <<>> ELSE HistOf(files, undo[q])
    BY <2>1, <1>0, HistOfEmpty
  <2>3. Hist' = [Hist EXCEPT ![p] = <<>>]
    BY <2>2, HistIs
  <2>4. Promise!Close(p)
    BY <2>1, <2>3 DEF Promise!Close, Hist
  <2> QED
    BY <2>4 DEF Promise!Next
<1>10. ASSUME Quit
       PROVE  Goal
  <2>1. /\ undo' = [q \in Pages |-> <<>>]
        /\ undo_current' = [q \in Pages |-> 0]
        /\ content' = [q \in Pages |-> EmptyPage]
    BY <1>10 DEF Quit
  <2>2. \A q \in Pages : HistOf(files', undo'[q]) = <<>>
    BY <2>1, HistOfEmpty
  <2>3. Hist' = [q \in Pages |-> <<>>]
    BY <2>2, HistIs
  <2>4. Promise!Exit
    BY <2>1, <2>3 DEF Promise!Exit, Hist
  <2> QED
    BY <2>4 DEF Promise!Next
<1>11. ASSUME UNCHANGED vars
       PROVE  Goal
  BY <1>11, HistIs DEF vars, SamePromise
<1> QED
  BY <1>2, <1>3, <1>4, <1>5, <1>6, <1>7, <1>8, <1>9, <1>10, <1>11 DEF Next

\* No history yet.
LEMMA InitPromise == Init => Promise!Init
<1> SUFFICES ASSUME Init
             PROVE  Promise!Init
  OBVIOUS
<1>1. \A q \in Pages : HistOf(files, undo[q]) = <<>>
  BY HistOfEmpty DEF Init
<1>2. Hist = [q \in Pages |-> <<>>]
  BY <1>1, HistIs
<1> QED
  BY <1>2 DEF Init, Promise!Init, Hist

\* Every list of nodes, undo files and copies is a linear history of what the page
\* showed: saving is an edit or a viewport change that forgets the redo entries and
\* perhaps the oldest ones, and undo and redo move by one entry and show exactly
\* that one, whatever the levels, the trimming and the backing (files or memory).
\* Undo files have to be written, and in memory no page may be empty when saved.
THEOREM UndoImplementsHistory == Reliable => (Spec => ImplementsAbstractUndo)
<1> SUFFICES ASSUME Reliable
             PROVE  Spec => ImplementsAbstractUndo
  OBVIOUS
<1>1. ContentInv /\ [Next]_vars => ContentInv'
  BY NextContent DEF Reliable
<1>2. ContentInv /\ [Next]_vars => [Promise!Next]_(Promise!vars)
  BY NextPromise
<1> QED
  BY <1>1, <1>2, InitContent, InitPromise, PTL DEF Spec, ImplementsAbstractUndo, Promise!Spec

-----------------------------------------------------------------------------
(* Hierarchy. *)

-----------------------------------------------------------------------------
(* The inductive invariant. *)

\* File f is named by a component of file g.
UsedBy(f, g) ==
  \/ f \in SymbolsIn[g]
  \/ \E fs \in SourcesIn[g] : \E i \in DOMAIN fs : fs[i] = f

\* The files named in some source= list.
SourceNames == UNION {{fs[i] : i \in DOMAIN fs} : fs \in UNION {SourcesIn[g] : g \in Files}}

DescentType ==
  [files : Seq(SourceNames), parent : Pages \cup {NoPage},
   page_control : 0 .. MaxControl, first : Pages \cup {NoPage}]

\* toplevel->pages has every page that is open, once.
Lists(s, ph) ==
  /\ s \in Seq(Pages)
  /\ \A i, j \in DOMAIN s : s[i] = s[j] => i = j
  /\ \A p \in Pages : (\E i \in DOMAIN s : s[i] = p) <=> ph[p] = "open"

PagesListed == Lists(pages, phase)

\* What is left of a Down Schematic command is from its parent's source= lists.
DescentOK ==
  /\ descent \in DescentType
  /\ descent.files # <<>> => descent.parent \in OpenPages
  /\ descent.parent \in OpenPages \cup {NoPage}
  /\ descent.first \in OpenPages \cup {NoPage}
  /\ \A i \in DOMAIN descent.files : UsedBy(descent.files[i], FileOf[descent.parent])

\* An open page shows a schematic.
PagesHaveContents == \A p \in Pages : phase[p] = "open" => content[p] \in Contents

NavType ==
  /\ page_current \in OpenPages \cup {NoPage}
  /\ page_control_counter \in 0 .. MaxControl

\* A place below another page that was loaded before and uses this one, or at the top.
GoodPlace(p, l) ==
  \A q \in Pages : l.up = q =>
    q # p /\ phase[q] # "new" /\ UsedBy(FileOf[p], FileOf[q])

\* Every page is at a good place, and so it is in every node of its undo list.
PlacesAreGood ==
  \A p \in Pages :
    /\ GoodPlace(p, link[p])
    /\ \A i \in DOMAIN undo[p] : GoodPlace(p, undo[p][i].link)

\* What the undo lists and the places of pages keep, and what navigation keeps.
PagesAreGood == TypeOK /\ PagesHaveContents /\ PlacesAreGood

HierInv == PagesAreGood /\ PagesListed /\ DescentOK /\ NavType

\* No set of pages is closed under page->up.
NoCircle ==
  \A S \in SUBSET Pages :
    (\A p \in S : phase[p] = "open" /\ link[p].up \in S) => S = {}

-----------------------------------------------------------------------------
(* The page list. *)

\* A loaded page goes to the end of the list.
LEMMA AppendLists ==
  ASSUME NEW s, NEW ph, NEW ph2, Lists(s, ph), NEW p \in Pages, ph[p] # "open",
         ph2[p] = "open", \A q \in Pages \ {p} : ph2[q] = ph[q]
  PROVE  Lists(Append(s, p), ph2)
<1> DEFINE t == Append(s, p)
<1>1. s \in Seq(Pages) /\ Len(s) \in Nat /\ DOMAIN s = 1 .. Len(s)
  BY DEF Lists
<1>2. /\ t \in Seq(Pages) /\ DOMAIN t = 1 .. Len(s) + 1
      /\ \A i \in 1 .. Len(s) : t[i] = s[i]
      /\ t[Len(s) + 1] = p
  BY <1>1
<1> HIDE DEF t
<1>3. \A i \in DOMAIN s : s[i] # p
  BY DEF Lists
<1>4. \A i, j \in DOMAIN t : t[i] = t[j] => i = j
  <2> TAKE i, j \in DOMAIN t
  <2>1. (i \in DOMAIN s \/ i = Len(s) + 1) /\ (j \in DOMAIN s \/ j = Len(s) + 1)
    BY <1>1, <1>2
  <2>2. \A a, b \in DOMAIN s : s[a] = s[b] => a = b
    BY DEF Lists
  <2> QED
    BY <1>1, <1>2, <1>3, <2>1, <2>2
<1>5. \A q \in Pages : (\E i \in DOMAIN t : t[i] = q) <=> ph2[q] = "open"
  <2> TAKE q \in Pages
  <2>1. (\E i \in DOMAIN s : s[i] = q) <=> ph[q] = "open"
    BY DEF Lists
  <2>2. (\E i \in DOMAIN t : t[i] = q) <=> (q = p \/ \E i \in DOMAIN s : s[i] = q)
    <3>1. \A i \in DOMAIN t : i \in DOMAIN s \/ i = Len(s) + 1
      BY <1>1, <1>2
    <3>2. \A i \in DOMAIN s : i \in DOMAIN t
      BY <1>1, <1>2
    <3>3. Len(s) + 1 \in DOMAIN t
      BY <1>1, <1>2
    <3>4. ASSUME NEW i \in DOMAIN s
          PROVE  t[i] = s[i]
      BY <1>1, <1>2
    <3> QED
      BY <1>2, <3>1, <3>2, <3>3, <3>4
  <2> QED
    BY <2>1, <2>2
<1> QED
  BY <1>2, <1>4, <1>5 DEF Lists, t

\* A closed page leaves the list, and the others keep their order.
LEMMA WithoutLists ==
  ASSUME NEW s, NEW ph, NEW ph2, Lists(s, ph), NEW p \in Pages, ph[p] = "open",
         ph2[p] # "open", \A q \in Pages \ {p} : ph2[q] = ph[q]
  PROVE  Lists(Without(s, p), ph2)
<1> DEFINE k == CHOOSE j \in DOMAIN s : s[j] = p
           t == Without(s, p)
<1>1. s \in Seq(Pages) /\ Len(s) \in Nat /\ DOMAIN s = 1 .. Len(s)
  BY DEF Lists
<1>2. k \in DOMAIN s /\ s[k] = p
  BY DEF Lists
<1>3. t = SubSeq(s, 1, k - 1) \o SubSeq(s, k + 1, Len(s))
  BY DEF Without
<1> HIDE DEF k, t
<1>4. /\ t \in Seq(Pages) /\ DOMAIN t = 1 .. Len(s) - 1
      /\ \A i \in 1 .. k - 1 : t[i] = s[i]
      /\ \A i \in k .. Len(s) - 1 : t[i] = s[i + 1]
  <2> DEFINE a == SubSeq(s, 1, k - 1)
             b == SubSeq(s, k + 1, Len(s))
  <2>1. /\ a \in Seq(Pages) /\ Len(a) = k - 1
        /\ \A i \in 1 .. k - 1 : a[i] = s[i]
    BY <1>1, <1>2
  <2>2. /\ b \in Seq(Pages) /\ Len(b) = Len(s) - k
        /\ \A i \in 1 .. Len(s) - k : b[i] = s[k + i]
    BY <1>1, <1>2
  <2> HIDE DEF a, b
  <2>3. t = a \o b
    BY <1>3 DEF a, b
  <2>4. /\ t \in Seq(Pages) /\ DOMAIN t = 1 .. Len(s) - 1
        /\ \A i \in 1 .. k - 1 : t[i] = a[i]
        /\ \A i \in k .. Len(s) - 1 : t[i] = b[i - (k - 1)]
    <3>1. /\ t \in Seq(Pages) /\ Len(t) = Len(a) + Len(b)
          /\ \A i \in 1 .. Len(a) + Len(b) :
               t[i] = IF i <= Len(a) THEN a[i] ELSE b[i - Len(a)]
      BY <2>1, <2>2, <2>3, ConcatProperties
    <3>2. Len(a) + Len(b) = Len(s) - 1 /\ DOMAIN t = 1 .. Len(t)
      BY <1>1, <1>2, <2>1, <2>2, <3>1
    <3>3. ASSUME NEW i \in 1 .. k - 1
          PROVE  t[i] = a[i]
      BY <1>1, <1>2, <2>1, <3>1, <3>2
    <3>4. ASSUME NEW i \in k .. Len(s) - 1
          PROVE  t[i] = b[i - (k - 1)]
      BY <1>1, <1>2, <2>1, <3>1, <3>2
    <3> QED
      BY <3>1, <3>2, <3>3, <3>4
  <2>5. ASSUME NEW i \in k .. Len(s) - 1
        PROVE  b[i - (k - 1)] = s[i + 1]
    <3>1. i - (k - 1) \in 1 .. Len(s) - k /\ k + (i - (k - 1)) = i + 1
      BY <1>1, <1>2
    <3> QED
      BY <3>1, <2>2
  <2> QED
    BY <2>1, <2>4, <2>5
<1>5. \A i, j \in DOMAIN s : s[i] = s[j] => i = j
  BY DEF Lists
<1> DEFINE old(i) == IF i < k THEN i ELSE i + 1
<1>6. \A i \in DOMAIN t : old(i) \in DOMAIN s \ {k} /\ t[i] = s[old(i)]
  <2> TAKE i \in DOMAIN t
  <2>1. CASE i < k
    <3>1. i \in 1 .. k - 1 /\ i \in DOMAIN s
      BY <1>1, <1>2, <1>4, <2>1
    <3> QED
      BY <2>1, <3>1, <1>4
  <2>2. CASE ~(i < k)
    <3>1. i \in k .. Len(s) - 1 /\ i + 1 \in DOMAIN s /\ i + 1 # k
      BY <1>1, <1>2, <1>4, <2>2
    <3> QED
      BY <2>2, <3>1, <1>4
  <2> QED
    BY <2>1, <2>2
<1>7. \A i, j \in DOMAIN t : old(i) = old(j) => i = j
  BY <1>1, <1>2, <1>4
<1>8. \A j \in DOMAIN s \ {k} : \E i \in DOMAIN t : old(i) = j
  <2> TAKE j \in DOMAIN s \ {k}
  <2> DEFINE i == IF j < k THEN j ELSE j - 1
  <2>1. i \in DOMAIN t /\ old(i) = j
    BY <1>1, <1>2, <1>4
  <2> QED
    BY <2>1
<1> HIDE DEF old
<1>9. \A i, j \in DOMAIN t : t[i] = t[j] => i = j
  BY <1>5, <1>6, <1>7
<1>10. \A q \in Pages : (\E i \in DOMAIN t : t[i] = q) <=> ph2[q] = "open"
  <2> TAKE q \in Pages
  <2>1. (\E i \in DOMAIN s : s[i] = q) <=> ph[q] = "open"
    BY DEF Lists
  <2>2. (\E i \in DOMAIN t : t[i] = q) <=> (\E j \in DOMAIN s \ {k} : s[j] = q)
    BY <1>6, <1>8
  <2>3. (\E j \in DOMAIN s \ {k} : s[j] = q) <=> (q # p /\ \E i \in DOMAIN s : s[i] = q)
    BY <1>2, <1>5
  <2> QED
    BY <2>1, <2>2, <2>3
<1> QED
  BY <1>4, <1>9, <1>10 DEF Lists, t

\* A list of the open pages is as long as there are open pages.
LEMMA ListsCounts ==
  ASSUME NEW s, NEW ph, Lists(s, ph)
  PROVE  /\ IsFiniteSet({p \in Pages : ph[p] = "open"})
         /\ Cardinality({p \in Pages : ph[p] = "open"}) = Len(s)
<1> DEFINE O == {p \in Pages : ph[p] = "open"}
<1>1. s \in Seq(Pages) /\ Len(s) \in Nat /\ DOMAIN s = 1 .. Len(s)
  BY DEF Lists
<1>2. s \in [1 .. Len(s) -> O]
  <2>1. \A i \in 1 .. Len(s) : s[i] \in O
    BY <1>1 DEF Lists
  <2>2. s \in [1 .. Len(s) -> Pages]
    BY <1>1
  <2> QED
    BY <2>1, <2>2
<1>3. \A i, j \in 1 .. Len(s) : s[i] = s[j] => i = j
  BY <1>1 DEF Lists
<1>4. \A p \in O : \E i \in 1 .. Len(s) : s[i] = p
  BY <1>1 DEF Lists
<1> HIDE DEF O
<1>5. s \in Bijection(1 .. Len(s), O)
  BY <1>2, <1>3, <1>4 DEF Bijection, Injection, Surjection, IsInjective
<1>6. ExistsBijection(1 .. Len(s), O)
  BY <1>5 DEF ExistsBijection
<1>7. IsFiniteSet(1 .. Len(s)) /\ Cardinality(1 .. Len(s)) = Len(s)
  BY <1>1, FS_Interval
<1> QED
  BY <1>6, <1>7, FS_Bijection DEF O

-----------------------------------------------------------------------------
(* The walk up the hierarchy. *)

\* A nonempty set of numbers has a least one.
LEMMA Least ==
  ASSUME NEW S \in SUBSET Nat, S # {}
  PROVE  \E j \in S : \A k \in S : j <= k
<1> DEFINE R == {ss \in Nat \X Nat : ss[1] < ss[2]}
<1>1. IsWellFoundedOn(R, Nat)
  <2>1. IsWellFoundedOn(OpToRel(<, Nat), Nat)
    BY NatLessThanWellFounded
  <2> QED
    BY <2>1 DEF OpToRel
<1> HIDE DEF R
<1>2. \E x \in S : \A y \in S : ~ (<<y, x>> \in R)
  BY <1>1, WFMin
<1>3. PICK x \in S : \A y \in S : ~(y < x)
  BY <1>2 DEF R
<1> QED
  BY <1>3

\* The page above x, or none.
UpOf(x) == IF x = NoPage THEN NoPage ELSE s_page_search_by_page_id(link[x].up)

\* The first n steps of a walk from p.
IsWalk(w, p, n) == w = [k \in 0 .. n |-> IF k = 0 THEN p ELSE UpOf(w[k - 1])]

\* Walks can be as long as one likes.
LEMMA WalkExists ==
  ASSUME NEW p, NEW n \in Nat
  PROVE  \E w : IsWalk(w, p, n)
<1> DEFINE Short == {m \in Nat : ~\E w : IsWalk(w, p, m)}
<1> SUFFICES ASSUME Short # {}
             PROVE  FALSE
  OBVIOUS
<1>1. PICK m \in Short : \A k \in Short : m <= k
  BY Least
<1>2. m \in Nat /\ ~\E w : IsWalk(w, p, m)
  BY <1>1
<1>3. CASE m = 0
  <2> DEFINE w == [k \in 0 .. 0 |-> p]
  <2>1. \A k \in 0 .. 0 : k = 0
    OBVIOUS
  <2>2. IsWalk(w, p, 0)
    BY <2>1 DEF IsWalk
  <2> QED
    BY <1>2, <1>3, <2>2
<1>4. CASE m # 0
  <2>1. m - 1 \in Nat /\ m - 1 \notin Short
    BY <1>1, <1>2, <1>4
  <2>2. PICK w : IsWalk(w, p, m - 1)
    BY <2>1
  <2> DEFINE v == [k \in 0 .. m |-> IF k = m THEN UpOf(w[m - 1]) ELSE w[k]]
  <2>3. ASSUME NEW k \in 0 .. m
        PROVE  v[k] = IF k = 0 THEN p ELSE UpOf(v[k - 1])
    <3>1. \A i \in 0 .. m - 1 : w[i] = IF i = 0 THEN p ELSE UpOf(w[i - 1])
      BY <2>2 DEF IsWalk
    <3>2. CASE k = 0
      <4>1. 0 \in 0 .. m - 1 /\ 0 \in 0 .. m
        BY <1>2, <1>4
      <4> QED
        BY <1>4, <3>1, <3>2, <4>1
    <3>3. CASE k = m
      <4>1. v[k] = UpOf(w[m - 1])
        BY <3>3
      <4>2. m - 1 \in 0 .. m /\ m - 1 # m
        BY <1>2, <1>4
      <4>3. v[m - 1] = w[m - 1]
        BY <4>2
      <4> QED
        BY <1>4, <3>3, <4>1, <4>3
    <3>4. CASE k # 0 /\ k # m
      <4>1. k \in 0 .. m - 1 /\ k - 1 \in 0 .. m /\ k - 1 # m
        BY <1>2, <3>4
      <4>2. v[k] = w[k] /\ v[k - 1] = w[k - 1]
        BY <3>4, <4>1
      <4> QED
        BY <3>1, <3>4, <4>1, <4>2
    <3> QED
      BY <3>2, <3>3, <3>4
  <2>4. v = [k \in 0 .. m |-> v[k]]
    OBVIOUS
  <2> HIDE DEF v
  <2>5. IsWalk(v, p, m)
    BY <2>3, <2>4 DEF IsWalk
  <2> QED
    BY <1>2, <2>5
<1> QED
  BY <1>3, <1>4

\* Above(p) is the walk from p.
LEMMA AboveIsWalk ==
  ASSUME NEW p
  PROVE  IsWalk(Above(p), p, Cardinality(Pages))
<1> DEFINE N == Cardinality(Pages)
<1>1. N \in Nat
  BY HierarchyAssumption, FS_CardinalityType
<1> HIDE DEF N
<1>2. \E w : IsWalk(w, p, N)
  BY <1>1, WalkExists
<1>3. Above(p) = CHOOSE w : w = [n \in 0 .. N |->
        IF n = 0 THEN p
        ELSE IF w[n - 1] = NoPage THEN NoPage
        ELSE s_page_search_by_page_id(link[w[n - 1]].up)]
  BY DEF Above, N
<1>4. Above(p) = CHOOSE w : IsWalk(w, p, N)
  BY <1>3 DEF IsWalk, UpOf
<1> QED
  BY <1>2, <1>4 DEF N

\* The walk goes from each page to the one above it, if that one is open.
LEMMA AboveIs ==
  ASSUME NEW p
  PROVE  /\ Cardinality(Pages) \in Nat
         /\ DOMAIN Above(p) = 0 .. Cardinality(Pages)
         /\ Above(p)[0] = p
         /\ \A n \in 1 .. Cardinality(Pages) : Above(p)[n] = UpOf(Above(p)[n - 1])
<1> DEFINE N == Cardinality(Pages)
           w == Above(p)
<1>1. N \in Nat
  BY HierarchyAssumption, FS_CardinalityType
<1>2. w = [k \in 0 .. N |-> IF k = 0 THEN p ELSE UpOf(w[k - 1])]
  BY AboveIsWalk DEF IsWalk
<1> HIDE DEF N, w
<1>3. DOMAIN w = 0 .. N
  BY <1>2
<1>4. \A k \in 0 .. N : w[k] = IF k = 0 THEN p ELSE UpOf(w[k - 1])
  BY <1>2
<1>5. 0 \in 0 .. N /\ \A n \in 1 .. N : n \in 0 .. N /\ n # 0
  BY <1>1
<1>6. w[0] = p /\ \A n \in 1 .. N : w[n] = UpOf(w[n - 1])
  BY <1>4, <1>5
<1> QED
  BY <1>1, <1>3, <1>6 DEF N, w

\* A page is in the list of its own parents.
LEMMA NotInParents ==
  ASSUME NEW found, NEW parent, ~InParentsList(found, parent)
  PROVE  found # parent
<1>1. 0 \in DOMAIN Above(parent) /\ Above(parent)[0] = parent
  BY AboveIs
<1> QED
  BY <1>1 DEF InParentsList

\* What is above a page is open, or nothing.
LEMMA UpOfIs ==
  ASSUME PagesListed, NEW x
  PROVE  /\ UpOf(x) \in Pages \cup {NoPage}
         /\ UpOf(x) \in Pages =>
              x # NoPage /\ UpOf(x) = link[x].up /\ phase[UpOf(x)] = "open"
         /\ x # NoPage /\ link[x].up \in Pages /\ phase[link[x].up] = "open"
              => UpOf(x) = link[x].up
<1>1. \A i \in DOMAIN pages : pages[i] \in Pages
  BY DEF PagesListed, Lists
<1>2. \A p \in Pages : IsOpen(p) <=> phase[p] = "open"
  BY DEF PagesListed, Lists, IsOpen
<1>3. \A y : IsOpen(y) => y \in Pages
  BY <1>1 DEF IsOpen
<1> QED
  BY <1>2, <1>3, HierarchyAssumption DEF UpOf, s_page_search_by_page_id

\* Once it has left the design, a walk has.
LEMMA WalkStaysOut ==
  ASSUME NEW p, NEW n \in 0 .. Cardinality(Pages), Above(p)[n] = NoPage,
         NEW m \in n .. Cardinality(Pages)
  PROVE  Above(p)[m] = NoPage
<1> DEFINE N == Cardinality(Pages)
           w == Above(p)
           Back == {k \in n .. N : w[k] # NoPage}
<1>1. N \in Nat /\ \A k \in 1 .. N : w[k] = UpOf(w[k - 1])
  BY AboveIs
<1> HIDE DEF N, w
<1> SUFFICES ASSUME Back # {}
             PROVE  FALSE
  BY DEF N, w
<1>2. Back \in SUBSET Nat
  BY <1>1 DEF N
<1>3. PICK k \in Back : \A j \in Back : k <= j
  BY <1>2, Least
<1>4. k \in n .. N /\ w[k] # NoPage /\ n \in 0 .. N
  BY <1>3 DEF N
<1>5. k # n
  BY <1>4 DEF w
<1>6. k - 1 \in n .. N /\ k \in 1 .. N
  BY <1>1, <1>4, <1>5
<1>7. w[k - 1] = NoPage
  <2>1. ~(k <= k - 1)
    BY <1>1, <1>4
  <2>2. k - 1 \notin Back
    BY <1>3, <2>1
  <2> QED
    BY <1>6, <2>2
<1> QED
  BY <1>1, <1>4, <1>6, <1>7 DEF UpOf

-----------------------------------------------------------------------------
(* What the undo lists do to the places of pages. *)

\* Page p is at place l, and the nodes have no place that is not old or l.
PlaceIs(p, l) ==
  /\ link'[p] = l
  /\ \A q \in Pages \ {p} : link'[q] = link[q]
  /\ \A q \in Pages : \A i \in DOMAIN undo'[q] :
       \/ q = p /\ undo'[q][i].link = l
       \/ \E j \in DOMAIN undo[q] : undo'[q][i].link = undo[q][j].link

\* Pages but p show what they showed, and p a schematic.
ShowsContents(p) ==
  /\ content'[p] \in Contents
  /\ \A q \in Pages \ {p} : content'[q] = content[q]

\* A saved page is where its handler left it.
LEMMA SavePlaces ==
  ASSUME TypeOK, NEW p \in Pages, NEW flag, NEW c, NEW l, NEW w,
         Saveable(flag, c, l, w), o_undo_savestate(p, flag, c, l, w)
  PROVE  PlaceIs(p, l)
<1>1. link'[p] = l /\ \A q \in Pages \ {p} : link'[q] = link[q]
  BY DEF TypeOK, o_undo_savestate
<1>2. CASE ~UndoControl
  <2>1. undo' = undo
    BY <1>2 DEF o_undo_savestate
  <2> QED
    BY <1>1, <2>1 DEF PlaceIs
<1>3. CASE UndoControl
  <2> DEFINE n    == Saved(flag, c, l)
             k    == Dropped(p, n)
             kept == Tail2(Pushed(p, n), k)
             cur  == undo_current[p]
  <2>1. SaveEffect(p, n, w)
    BY <1>3, SaveStep
  <2>2. n.link = l
    BY DEF Saved, NewNode
  <2> HIDE DEF n
  <2>3. n \in Node
    BY <2>1, SavedIsNode DEF n, SaveEffect
  <2>4. undo' = [undo EXCEPT ![p] = kept]
    BY <2>1 DEF SaveEffect
  <2>5. /\ k \in 0 .. cur /\ kept \in Seq(Node)
        /\ Len(kept) = cur + 1 - k
        /\ \A i \in 1 .. cur - k : kept[i] = undo[p][i + k]
        /\ kept[cur + 1 - k] = n
    BY <2>3, SaveList
  <2>6. cur \in 0 .. Len(undo[p]) /\ undo[p] \in Seq(Node) /\ Len(undo[p]) \in Nat
    BY DEF TypeOK
  <2> HIDE DEF k, kept, cur
  <2>7. DOMAIN undo[p] = 1 .. Len(undo[p]) /\ DOMAIN kept = 1 .. cur + 1 - k
    BY <2>5, <2>6
  <2>8. ASSUME NEW i \in DOMAIN kept
        PROVE  kept[i].link = l \/ \E j \in DOMAIN undo[p] : kept[i].link = undo[p][j].link
    <3>1. CASE i = cur + 1 - k
      BY <3>1, <2>2, <2>5
    <3>2. CASE i # cur + 1 - k
      <4>1. i \in 1 .. cur - k /\ i + k \in DOMAIN undo[p]
        BY <3>2, <2>5, <2>6, <2>7
      <4> QED
        BY <4>1, <2>5
    <3> QED
      BY <3>1, <3>2
  <2>9. undo'[p] = kept /\ \A q \in Pages \ {p} : undo'[q] = undo[q]
    BY <2>4 DEF TypeOK
  <2>10. ASSUME NEW q \in Pages, NEW i \in DOMAIN undo'[q]
         PROVE  \/ q = p /\ undo'[q][i].link = l
                \/ \E j \in DOMAIN undo[q] : undo'[q][i].link = undo[q][j].link
    BY <2>8, <2>9
  <2> QED
    BY <1>1, <2>10 DEF PlaceIs
<1> QED
  BY <1>2, <1>3

\* A saved page shows what its handler left there, consolidated.
LEMMA SaveContents ==
  ASSUME TypeOK, NEW p \in Pages, NEW flag, NEW c \in Contents, NEW l, NEW w,
         o_undo_savestate(p, flag, c, l, w)
  PROVE  ShowsContents(p)
<1> DEFINE cc == IF UndoControl /\ flag = "UNDO_ALL" THEN Consolidate[c] ELSE c
<1>1. content' = [content EXCEPT ![p] = cc]
  BY DEF o_undo_savestate
<1>2. cc \in Contents
  BY ConstantsAssumption
<1> HIDE DEF cc
<1> QED
  BY <1>1, <1>2 DEF ShowsContents, TypeOK

\* Undo and redo bring back a place, and show a schematic.
LEMMA CallbackPlaces ==
  ASSUME TypeOK, NEW p \in Pages, undo_current[p] # 0, content[p] \in Contents,
         NEW t \in DOMAIN undo[p], o_undo_callback(p, t)
  PROVE  PlaceIs(p, undo[p][t].link) /\ ShowsContents(p)
<1> DEFINE s    == undo[p]
           prev == s[undo_current[p]].type = "UNDO_ALL" /\ s[t].type = "UNDO_VIEWPORT_ONLY"
           file == IF prev /\ UndoType = "disk"
                   THEN o_undo_find_prev_filename(s, t) ELSE s[t].filename
           list == IF prev /\ UndoType = "memory"
                   THEN o_undo_find_prev_object_head(s, t) ELSE s[t].object_list
<1>1. s \in Seq(Node) /\ Len(s) \in Nat /\ DOMAIN s = 1 .. Len(s) /\ t \in 1 .. Len(s)
  BY DEF TypeOK
<1>2. \A i \in 1 .. Len(s) : s[i].object_list \in Contents \cup {NoObjects}
  <2> TAKE i \in 1 .. Len(s)
  <2>1. s[i] \in Node
    BY <1>1
  <2> QED
    BY <2>1 DEF Node
<1>3. list \in Contents \cup {NoObjects}
  BY <1>1, <1>2, PrevProperties
<1>4. /\ content' = [content EXCEPT ![p] =
                       IF UndoType = "disk" /\ file # NoFile
                       THEN IF files[file] = Unlinked THEN EmptyPage ELSE files[file]
                       ELSE IF UndoType = "memory" /\ list # NoObjects
                            THEN list ELSE content[p]]
      /\ link' = [link EXCEPT ![p] = s[t].link]
      /\ undo' = undo
  BY DEF o_undo_callback
<1> HIDE DEF file, list
<1>5. content'[p] \in Contents
  <2>1. CASE UndoType = "disk"
    <3>1. TypeOK'
      BY CallbackTypeOK
    <3> QED
      BY <2>1, <3>1, HierarchyAssumption DEF TypeOK
  <2>2. CASE UndoType # "disk"
    BY <2>2, <1>3, <1>4 DEF TypeOK
  <2> QED
    BY <2>1, <2>2
<1>6. ShowsContents(p)
  BY <1>4, <1>5 DEF ShowsContents, TypeOK
<1>7. PlaceIs(p, s[t].link)
  BY <1>4 DEF PlaceIs, TypeOK
<1> QED
  BY <1>6, <1>7

\* A page that was loaded has been loaded.
PhasesAdvance == \A q \in Pages : phase[q] # "new" => phase'[q] # "new"

\* Pages that stay at good places ...
LEMMA PlacesStayGood ==
  ASSUME PlacesAreGood, NEW p \in Pages, NEW l, PlaceIs(p, l), GoodPlace(p, l),
         PhasesAdvance
  PROVE  PlacesAreGood'
<1>1. \A q \in Pages : link'[q] = link[q] \/ (q = p /\ link'[q] = l)
  BY DEF PlaceIs
<1>2. \A q \in Pages : GoodPlace(q, link'[q])
  BY <1>1 DEF PlacesAreGood
<1>3. \A q \in Pages : \A i \in DOMAIN undo'[q] : GoodPlace(q, undo'[q][i].link)
  BY DEF PlaceIs, PlacesAreGood
<1>4. \A q \in Pages : \A r \in Pages : link'[q].up = r =>
        r # q /\ phase'[r] # "new" /\ UsedBy(FileOf[q], FileOf[r])
  BY <1>2 DEF GoodPlace, PhasesAdvance
<1>5. \A q \in Pages : \A i \in DOMAIN undo'[q] : \A r \in Pages :
        undo'[q][i].link.up = r =>
          r # q /\ phase'[r] # "new" /\ UsedBy(FileOf[q], FileOf[r])
  BY <1>3 DEF GoodPlace, PhasesAdvance
<1> QED
  BY <1>4, <1>5 DEF PlacesAreGood, GoodPlace, UsedBy

\* ... and the top is one.
LEMMA TopIsGood == \A p \in Pages : GoodPlace(p, NoLink)
  BY HierarchyAssumption DEF GoodPlace

\* Pages that stay open, or are opened with a schematic, have one.
LEMMA ContentsStay ==
  ASSUME PagesHaveContents, NEW p \in Pages, ShowsContents(p),
         \A q \in Pages \ {p} : phase'[q] = phase[q]
  PROVE  PagesHaveContents'
  BY DEF PagesHaveContents, ShowsContents

-----------------------------------------------------------------------------
(* The invariant, step by step. *)

Phases == [Pages -> {"new", "open", "closed"}]

\* A handler that saves a page at a good place keeps it.
LEMMA SaveGood ==
  ASSUME PagesAreGood, NEW p \in Pages, NEW flag \in NodeType, NEW c \in Contents,
         NEW l \in Links, NEW w \in Written, o_undo_savestate(p, flag, c, l, w),
         GoodPlace(p, l), phase' \in Phases, running' \in BOOLEAN, PhasesAdvance,
         \A q \in Pages \ {p} : phase'[q] = phase[q]
  PROVE  PagesAreGood'
<1>1. Saveable(flag, c, l, w)
  BY DEF Saveable
<1>2. TypeOK'
  BY <1>1, SaveTypeOK DEF PagesAreGood, Phases
<1>3. PlacesAreGood'
  BY <1>1, SavePlaces, PlacesStayGood DEF PagesAreGood
<1>4. PagesHaveContents'
  BY SaveContents, ContentsStay DEF PagesAreGood
<1> QED
  BY <1>2, <1>3, <1>4 DEF PagesAreGood

\* Opening a page.
LEMMA OpenGood ==
  ASSUME PagesAreGood, NEW p \in Pages, OpenPage(p)
  PROVE  PagesAreGood'
<1>1. PICK c \in Contents, w \in Written : o_undo_savestate(p, "UNDO_ALL", c, NoLink, w)
  BY DEF OpenPage
<1>2. /\ phase' \in Phases /\ running' \in BOOLEAN /\ PhasesAdvance
      /\ \A q \in Pages \ {p} : phase'[q] = phase[q]
  BY DEF OpenPage, PagesAreGood, TypeOK, Phases, PhasesAdvance
<1>3. "UNDO_ALL" \in NodeType /\ NoLink \in Links
  BY ConstantsAssumption DEF NodeType
<1> QED
  BY <1>1, <1>2, <1>3, TopIsGood, SaveGood

\* Closing one.
LEMMA CloseGood ==
  ASSUME PagesAreGood, NEW p \in Pages, ClosePage(p)
  PROVE  PagesAreGood'
<1>1. TypeOK'
  BY NextTypeOK DEF Next, PagesAreGood
<1>2. PlaceIs(p, NoLink)
  BY DEF ClosePage, PlaceIs, PagesAreGood, TypeOK
<1>3. PlacesAreGood'
  <2>1. PhasesAdvance
    BY DEF ClosePage, PagesAreGood, TypeOK, PhasesAdvance
  <2> QED
    BY <1>2, <2>1, TopIsGood, PlacesStayGood DEF PagesAreGood
<1>4. PagesHaveContents'
  BY DEF ClosePage, PagesAreGood, PagesHaveContents, TypeOK
<1> QED
  BY <1>1, <1>3, <1>4 DEF PagesAreGood

\* The commands on the current page.
EditStep(p) == EditPage(p) \/ PanZoom(p) \/ EditUndo(p) \/ EditRedo(p)

\* They leave it open ...
LEMMA EditStays ==
  ASSUME NEW p, EditStep(p)
  PROVE  phase' = phase /\ phase[p] = "open"
  BY DEF EditStep, EditPage, PanZoom, EditUndo, EditRedo, o_undo_callback

\* ... at a good place.
LEMMA EditGood ==
  ASSUME PagesAreGood, NEW p \in Pages, EditStep(p)
  PROVE  PagesAreGood'
<1>1. phase' = phase /\ phase[p] = "open"
  BY EditStays
<1>2. content[p] \in Contents /\ link[p] \in Links /\ GoodPlace(p, link[p])
  BY <1>1 DEF PagesAreGood, PagesHaveContents, TypeOK, PlacesAreGood
<1>3. phase' \in Phases /\ PhasesAdvance
  BY <1>1 DEF PagesAreGood, TypeOK, Phases, PhasesAdvance
<1>4. ASSUME EditPage(p)
      PROVE  PagesAreGood'
  <2>1. PICK c \in Contents, w \in Written : o_undo_savestate(p, "UNDO_ALL", c, link[p], w)
    BY <1>4 DEF EditPage
  <2>2. running' \in BOOLEAN /\ "UNDO_ALL" \in NodeType
    BY <1>4 DEF EditPage, PagesAreGood, TypeOK, NodeType
  <2> QED
    BY <1>1, <1>2, <1>3, <2>1, <2>2, SaveGood
<1>5. ASSUME PanZoom(p)
      PROVE  PagesAreGood'
  <2>1. o_undo_savestate(p, "UNDO_VIEWPORT_ONLY", content[p], link[p], TRUE)
    BY <1>5 DEF PanZoom
  <2>2. running' \in BOOLEAN /\ "UNDO_VIEWPORT_ONLY" \in NodeType /\ TRUE \in Written
    BY <1>5 DEF PanZoom, PagesAreGood, TypeOK, NodeType, Written
  <2> QED
    BY <1>1, <1>2, <1>3, <2>1, <2>2, SaveGood
<1>6. ASSUME NEW t \in DOMAIN undo[p], undo_current[p] # 0, o_undo_callback(p, t)
      PROVE  PagesAreGood'
  <2>1. PlaceIs(p, undo[p][t].link) /\ ShowsContents(p)
    BY <1>2, <1>6, CallbackPlaces DEF PagesAreGood
  <2>2. GoodPlace(p, undo[p][t].link)
    BY <1>6 DEF PagesAreGood, PlacesAreGood
  <2>3. PlacesAreGood'
    BY <1>3, <2>1, <2>2, PlacesStayGood DEF PagesAreGood
  <2>4. PagesHaveContents'
    BY <1>1, <2>1, ContentsStay DEF PagesAreGood
  <2>5. TypeOK'
    BY <1>6, CallbackTypeOK DEF PagesAreGood
  <2> QED
    BY <2>3, <2>4, <2>5 DEF PagesAreGood
<1>7. ASSUME EditUndo(p)
      PROVE  PagesAreGood'
  <2>1. undo_current[p] # 0
    BY <1>7 DEF EditUndo, PagesAreGood, TypeOK
  <2> QED
    BY <1>6, <1>7, <2>1 DEF EditUndo
<1>8. ASSUME EditRedo(p)
      PROVE  PagesAreGood'
  BY <1>6, <1>8 DEF EditRedo
<1> QED
  BY <1>4, <1>5, <1>7, <1>8 DEF EditStep

-----------------------------------------------------------------------------
(* What navigation keeps. *)

\* The open pages, by the list and by their phase.
LEMMA OpenIs ==
  ASSUME PagesListed
  PROVE  /\ OpenPages = {p \in Pages : phase[p] = "open"}
         /\ \A x : IsOpen(x) => x \in Pages /\ phase[x] = "open"
         /\ \A p \in Pages : phase[p] = "open" => IsOpen(p)
<1>1. \A i \in DOMAIN pages : pages[i] \in Pages
  BY DEF PagesListed, Lists
<1>2. \A x : IsOpen(x) => x \in Pages
  BY <1>1 DEF IsOpen
<1>3. \A p \in Pages : IsOpen(p) <=> phase[p] = "open"
  BY DEF PagesListed, Lists, IsOpen
<1> QED
  BY <1>2, <1>3 DEF OpenPages

\* The same after a step.
LEMMA OpenWillBe ==
  ASSUME PagesListed'
  PROVE  /\ OpenPages' = {p \in Pages : phase'[p] = "open"}
         /\ \A x : IsOpen(x)' => x \in Pages /\ phase'[x] = "open"
         /\ \A p \in Pages : phase'[p] = "open" => IsOpen(p)'
<1>1. \A i \in DOMAIN pages' : pages'[i] \in Pages
  BY DEF PagesListed, Lists
<1>2. \A x : IsOpen(x)' => x \in Pages
  BY <1>1 DEF IsOpen
<1>3. \A p \in Pages : IsOpen(p)' <=> phase'[p] = "open"
  BY DEF PagesListed, Lists, IsOpen
<1> QED
  BY <1>2, <1>3 DEF OpenPages

\* A descent that does not move goes on while its pages stay open.
LEMMA DescentStays ==
  ASSUME DescentOK, descent' = descent, OpenPages \subseteq OpenPages'
  PROVE  DescentOK'
  BY DEF DescentOK

\* Between two commands none is in progress.
LEMMA IdleOK ==
  ASSUME descent' = Idle
  PROVE  DescentOK'
<1>1. Idle \in DescentType
  BY HierarchyAssumption, EmptySeq DEF Idle, DescentType
<1>2. Idle.files = <<>> /\ Idle.parent = NoPage /\ Idle.first = NoPage
  BY DEF Idle
<1>3. DOMAIN descent'.files = {}
  BY <1>2
<1> QED
  BY <1>1, <1>2, <1>3 DEF DescentOK

\* A page is opened: the list has it, the others are where they were.
LEMMA OpenedPages ==
  ASSUME PagesListed, NEW p \in Pages, phase \in Phases, phase[p] = "new",
         phase' = [phase EXCEPT ![p] = "open"], pages' = Append(pages, p)
  PROVE  PagesListed' /\ OpenPages' = OpenPages \cup {p}
<1>1. /\ phase[p] # "open" /\ phase'[p] = "open"
      /\ \A q \in Pages \ {p} : phase'[q] = phase[q]
  BY DEF Phases
<1>2. PagesListed'
  BY <1>1, AppendLists DEF PagesListed
<1> QED
  BY <1>1, <1>2, OpenIs, OpenWillBe

\* A page is closed.
LEMMA ClosedPages ==
  ASSUME PagesListed, NEW p \in Pages, phase \in Phases, phase[p] = "open",
         phase' = [phase EXCEPT ![p] = "closed"], pages' = Without(pages, p)
  PROVE  PagesListed' /\ OpenPages' = OpenPages \ {p}
<1>1. /\ phase'[p] # "open"
      /\ \A q \in Pages \ {p} : phase'[q] = phase[q]
  BY DEF Phases
<1>2. PagesListed'
  BY <1>1, WithoutLists DEF PagesListed
<1> QED
  BY <1>1, <1>2, OpenIs, OpenWillBe

\* No page is opened or closed.
LEMMA SamePages ==
  ASSUME PagesListed, phase' = phase, pages' = pages
  PROVE  PagesListed' /\ OpenPages' = OpenPages
  BY DEF PagesListed, OpenPages, IsOpen

-----------------------------------------------------------------------------
(* The commands. *)

\* Where the user is, where the pages stay as they are.
LEMMA NavStays ==
  ASSUME NavType, page_current' \in OpenPages' \cup {NoPage},
         UNCHANGED <<page_control_counter>>
  PROVE  NavType'
  BY DEF NavType

\* A step that changes no undo list and no page keeps what they keep.
LEMMA PagesAreGoodStay ==
  ASSUME PagesAreGood, UNCHANGED vars
  PROVE  PagesAreGood'
<1>1. TypeOK'
  BY NextTypeOK DEF PagesAreGood
<1>2. PlacesAreGood' /\ PagesHaveContents'
  BY DEF PagesAreGood, PlacesAreGood, GoodPlace, PagesHaveContents, vars
<1> QED
  BY <1>1, <1>2 DEF PagesAreGood

\* A command that shows another page, or none.
LEMMA ShowInv ==
  ASSUME HierInv, page_current' \in OpenPages \cup {NoPage}, DescentOK',
         UNCHANGED <<vars, pages, page_control_counter>>
  PROVE  HierInv'
<1>1. PagesListed' /\ OpenPages' = OpenPages
  BY SamePages DEF HierInv, vars
<1>2. NavType'
  BY <1>1, NavStays DEF HierInv
<1>3. PagesAreGood'
  BY PagesAreGoodStay DEF HierInv
<1> QED
  BY <1>1, <1>2, <1>3 DEF HierInv

\* Opening a file, or showing the page it is loaded in.
LEMMA OpenInv ==
  ASSUME HierInv, NEW f, Open(f)
  PROVE  HierInv'
<1>1. descent' = Idle
  BY DEF Open
<1>2. DescentOK'
  BY <1>1, IdleOK
<1>3. ASSUME NEW p \in s_page_search(f), page_current' = p,
             UNCHANGED <<vars, pages, page_control_counter, descent>>
      PROVE  HierInv'
  <2>1. page_current' \in OpenPages
    BY <1>3 DEF s_page_search
  <2> QED
    BY <1>2, <1>3, <2>1, ShowInv
<1>4. ASSUME NEW p \in Fresh(f), OpenPage(p), pages' = Append(pages, p), page_current' = p,
             UNCHANGED <<page_control_counter, descent>>
      PROVE  HierInv'
  <2>1. p \in Pages /\ phase[p] = "new" /\ phase' = [phase EXCEPT ![p] = "open"]
    BY <1>4 DEF Fresh, OpenPage
  <2>2. PagesAreGood'
    BY <1>4, <2>1, OpenGood DEF HierInv
  <2>3. phase \in Phases
    BY DEF HierInv, PagesAreGood, TypeOK, Phases
  <2>4. PagesListed' /\ OpenPages' = OpenPages \cup {p}
    BY <1>4, <2>1, <2>3, OpenedPages DEF HierInv
  <2>5. NavType'
    BY <1>4, <2>4, NavStays DEF HierInv
  <2> QED
    BY <1>2, <2>2, <2>4, <2>5 DEF HierInv
<1> QED
  BY <1>3, <1>4 DEF Open

\* Showing another page.
LEMMA GotoInv ==
  ASSUME HierInv, NEW p \in Pages, Goto(p)
  PROVE  HierInv'
<1>1. page_current' \in OpenPages
  BY DEF Goto, OpenPages
<1>2. descent' = Idle
  BY DEF Goto
<1> QED
  BY <1>1, <1>2, IdleOK, ShowInv DEF Goto

\* The commands on the current page.
LEMMA EditInv ==
  ASSUME HierInv, OnCurrentPage
  PROVE  HierInv'
<1>1. page_current \in Pages /\ EditStep(page_current) /\ UNCHANGED nav
  BY DEF HierInv, NavType, OpenPages, OnCurrentPage, EditStep
<1>2. PagesAreGood'
  BY <1>1, EditGood DEF HierInv
<1>3. phase' = phase
  BY <1>1, EditStays
<1>4. PagesListed' /\ OpenPages' = OpenPages
  BY <1>1, <1>3, SamePages DEF HierInv, nav
<1>5. DescentOK'
  BY <1>1, <1>4, DescentStays DEF HierInv, nav
<1>6. NavType'
  BY <1>1, <1>4, NavStays DEF HierInv, NavType, nav
<1> QED
  BY <1>2, <1>4, <1>5, <1>6 DEF HierInv

\* A page that is open, or shown, is one.
LEMMA CurrentIsPage ==
  ASSUME HierInv, page_current # NoPage
  PROVE  /\ page_current \in OpenPages /\ page_current \in Pages
         /\ phase[page_current] = "open" /\ IsOpen(page_current)
         /\ content[page_current] \in Contents
  BY OpenIs DEF HierInv, NavType, PagesAreGood, PagesHaveContents

\* The start of Down Schematic.
LEMMA DownInv ==
  ASSUME HierInv, DownSchematic
  PROVE  HierInv'
<1>1. page_current # NoPage
  BY DEF DownSchematic
<1>2. PICK fs \in SourcesIn[FileOf[page_current]] :
        descent' = [Idle EXCEPT !.files = fs, !.parent = page_current]
  BY DEF DownSchematic
<1>3. page_current \in OpenPages /\ page_current \in Pages
  BY <1>1, CurrentIsPage
<1>4. FileOf[page_current] \in Files
  BY <1>3 DEF Files
<1>5. fs \in Seq({fs[i] : i \in DOMAIN fs})
  BY <1>4, HierarchyAssumption
<1>6. \A i \in DOMAIN fs : fs[i] \in SourceNames
  BY <1>4 DEF SourceNames
<1>7. fs \in Seq(SourceNames)
  BY <1>5, <1>6
<1>8. descent' = [files |-> fs, parent |-> page_current, page_control |-> 0, first |-> NoPage]
  BY <1>2 DEF Idle
<1>9. OpenPages' = OpenPages /\ FileOf[descent'.parent] = FileOf[page_current]
  BY <1>8 DEF DownSchematic, OpenPages, IsOpen
<1>10. descent' \in DescentType
  BY <1>3, <1>7, <1>8, HierarchyAssumption DEF DescentType
<1>11. \A i \in DOMAIN descent'.files : UsedBy(descent'.files[i], FileOf[page_current])
  BY <1>8 DEF UsedBy
<1>12. DescentOK'
  BY <1>3, <1>8, <1>9, <1>10, <1>11 DEF DescentOK, UsedBy
<1> QED
  BY <1>3, <1>12, ShowInv DEF DownSchematic

\* What is left of a sequence of names are names from it.
LEMMA TailIs ==
  ASSUME NEW S, NEW s \in Seq(S), s # <<>>
  PROVE  /\ Head(s) \in S /\ Tail(s) \in Seq(S)
         /\ Head(s) = s[1] /\ 1 \in DOMAIN s
         /\ \A i \in DOMAIN Tail(s) : i + 1 \in DOMAIN s /\ Tail(s)[i] = s[i + 1]
<1>1. Len(s) \in Nat \ {0} /\ DOMAIN s = 1 .. Len(s)
  OBVIOUS
<1>2. /\ Tail(s) \in Seq(S) /\ DOMAIN Tail(s) = 1 .. Len(s) - 1
      /\ \A i \in 1 .. Len(s) - 1 : Tail(s)[i] = s[i + 1]
  BY <1>1
<1> QED
  BY <1>1, <1>2

\* A round of the loop of Down Schematic that reached a page.
LEMMA RoundOK ==
  ASSUME HierInv, descent.files # <<>>, NEW child \in Pages, NEW control \in 0 .. MaxControl,
         Descended(child, control), OpenPages' = OpenPages \cup {child}
  PROVE  DescentOK' /\ page_current' \in OpenPages' \cup {NoPage}
<1>1. /\ descent \in DescentType /\ descent.parent \in OpenPages
      /\ \A i \in DOMAIN descent.files : UsedBy(descent.files[i], FileOf[descent.parent])
      /\ descent.first \in OpenPages \cup {NoPage}
  BY DEF HierInv, DescentOK
<1>2. OpenPages \subseteq Pages
  BY DEF OpenPages
<1>3. descent.files \in Seq(SourceNames)
  BY <1>1 DEF DescentType
<1>4. Tail(descent.files) \in Seq(SourceNames)
  BY <1>3, TailIs
<1>5. descent' \in DescentType
  BY <1>1, <1>2, <1>4 DEF Descended, DescentType
<1>6. /\ descent'.files = Tail(descent.files) /\ descent'.parent = descent.parent
      /\ descent'.first \in {descent.first, child}
  BY <1>1 DEF Descended, DescentType
<1>7. \A i \in DOMAIN descent'.files : UsedBy(descent'.files[i], FileOf[descent.parent])
  BY <1>1, <1>3, <1>6, TailIs
<1>8. DescentOK'
  BY <1>1, <1>5, <1>6, <1>7 DEF DescentOK, UsedBy
<1>9. page_current' \in OpenPages' \cup {NoPage}
  BY DEF HierInv, NavType, Descended
<1> QED
  BY <1>8, <1>9

\* The file that is descended into is one the parent uses.
LEMMA HeadIsUsed ==
  ASSUME HierInv, descent.files # <<>>
  PROVE  /\ descent.parent \in OpenPages /\ descent.parent \in Pages
         /\ UsedBy(Head(descent.files), FileOf[descent.parent])
         /\ descent.page_control \in 0 .. MaxControl
<1>1. descent.files \in Seq(SourceNames)
  BY DEF HierInv, DescentOK, DescentType
<1>2. Head(descent.files) = descent.files[1] /\ 1 \in DOMAIN descent.files
  BY <1>1, TailIs
<1>3. descent.parent \in OpenPages
  BY DEF HierInv, DescentOK
<1> QED
  BY <1>2, <1>3 DEF HierInv, DescentOK, DescentType, OpenPages

\* Below a page that uses it a page is at a good place.
LEMMA BelowIsGood ==
  ASSUME NEW p \in Pages, NEW l, l.up \in Pages, UsedBy(FileOf[p], FileOf[l.up]),
         l.up # p, phase[l.up] # "new"
  PROVE  GoodPlace(p, l)
  BY DEF GoodPlace

\* The place Down Schematic gives a page is a good one.
LEMMA BelowParentIs ==
  ASSUME HierInv, descent.files # <<>>, NEW p \in Pages,
         FileOf[p] = Head(descent.files), p # descent.parent,
         NEW control \in 0 .. MaxControl
  PROVE  /\ BelowParent(control) \in Links /\ GoodPlace(p, BelowParent(control))
         /\ BelowParent(control).up = descent.parent
<1>1. descent.parent \in Pages /\ UsedBy(FileOf[p], FileOf[descent.parent])
  BY HeadIsUsed
<1>2. BelowParent(control) = [page_control |-> control, up |-> descent.parent]
  BY DEF BelowParent
<1>3. BelowParent(control).up = descent.parent /\ BelowParent(control) \in Links
  BY <1>1, <1>2, HierarchyAssumption
<1>4. phase[descent.parent] # "new"
  BY HeadIsUsed, OpenIs DEF HierInv
<1> QED
  BY <1>1, <1>3, <1>4, BelowIsGood

\* A round that reaches a page that is loaded.
LEMMA LoadedInv ==
  ASSUME HierInv, DescendToLoaded
  PROVE  HierInv'
<1>1. PICK found, control :
        /\ found \in s_page_search(Head(descent.files))
        /\ ~InParentsList(found, descent.parent)
        /\ control = LoadedControl(found)
        /\ o_undo_savestate(found, "UNDO_ALL", content[found], BelowParent(control), TRUE)
        /\ Descended(found, control)
  BY DEF DescendToLoaded
<1>15. found # descent.parent
  BY <1>1, NotInParents
<1>2. /\ descent.files # <<>>
      /\ UNCHANGED <<phase, running, pages, page_control_counter>>
  BY DEF DescendToLoaded
<1>3. /\ found \in OpenPages /\ found \in Pages /\ FileOf[found] = Head(descent.files)
  BY <1>1 DEF s_page_search, OpenPages
<1>4. phase[found] = "open" /\ content[found] \in Contents
  BY <1>3, OpenIs DEF HierInv, PagesAreGood, PagesHaveContents
<1>5. link[found] \in Links
  BY <1>3 DEF HierInv, PagesAreGood, TypeOK
<1>6. control \in 0 .. MaxControl
  BY <1>1, <1>2, <1>5, HeadIsUsed, HierarchyAssumption DEF LoadedControl
<1>7. BelowParent(control) \in Links /\ GoodPlace(found, BelowParent(control))
  <2>1. found # descent.parent
    BY <1>15
  <2> QED
    BY <1>2, <1>3, <1>6, <2>1, BelowParentIs
<1>8. phase' \in Phases /\ running' \in BOOLEAN /\ phase' = phase /\ PhasesAdvance
  BY <1>2 DEF HierInv, PagesAreGood, TypeOK, Phases, PhasesAdvance
<1>9. "UNDO_ALL" \in NodeType /\ TRUE \in Written
  BY DEF NodeType, Written
<1>10. PagesAreGood'
  BY <1>1, <1>3, <1>4, <1>7, <1>8, <1>9, SaveGood DEF HierInv
<1>11. PagesListed' /\ OpenPages' = OpenPages
  BY <1>2, SamePages DEF HierInv
<1>12. OpenPages' = OpenPages \cup {found}
  BY <1>3, <1>11
<1>13. DescentOK' /\ page_current' \in OpenPages' \cup {NoPage}
  BY <1>1, <1>2, <1>3, <1>6, <1>12, RoundOK
<1>14. page_control_counter' \in 0 .. MaxControl
  BY <1>1, <1>2 DEF HierInv, NavType, Descended
<1> QED
  BY <1>10, <1>11, <1>13, <1>14 DEF HierInv, NavType

\* A round that loads a page.
LEMMA NewInv ==
  ASSUME HierInv, DescendToNew
  PROVE  HierInv'
<1>1. PICK counter, control :
        /\ counter = (IF descent.page_control # 0 THEN page_control_counter
                      ELSE page_control_counter + 1)
        /\ control = (IF descent.page_control # 0 THEN descent.page_control ELSE counter)
        /\ control <= MaxControl
        /\ \E child \in Fresh(Head(descent.files)), c \in Contents :
              /\ phase' = [phase EXCEPT ![child] = "open"]
              /\ o_undo_savestate(child, "UNDO_ALL", c, BelowParent(control), TRUE)
              /\ pages' = Append(pages, child)
              /\ Descended(child, control)
        /\ page_control_counter' = counter
  BY DEF DescendToNew
<1>2. PICK child \in Fresh(Head(descent.files)), c \in Contents :
        /\ phase' = [phase EXCEPT ![child] = "open"]
        /\ o_undo_savestate(child, "UNDO_ALL", c, BelowParent(control), TRUE)
        /\ pages' = Append(pages, child)
        /\ Descended(child, control)
  BY <1>1
<1>3. descent.files # <<>> /\ running' = running
  BY DEF DescendToNew
<1>4. child \in Pages /\ FileOf[child] = Head(descent.files) /\ phase[child] = "new"
  BY DEF Fresh
<1>5. counter \in 0 .. MaxControl /\ control \in 0 .. MaxControl
  BY <1>1, <1>3, HeadIsUsed, HierarchyAssumption DEF HierInv, NavType
<1>6. BelowParent(control) \in Links /\ GoodPlace(child, BelowParent(control))
  <2>1. child # descent.parent
    BY <1>3, <1>4, HeadIsUsed, OpenIs DEF HierInv
  <2> QED
    BY <1>3, <1>4, <1>5, <2>1, BelowParentIs
<1>7. /\ phase \in Phases /\ phase' \in Phases /\ running' \in BOOLEAN /\ PhasesAdvance
      /\ \A q \in Pages \ {child} : phase'[q] = phase[q]
  BY <1>2, <1>3, <1>4 DEF HierInv, PagesAreGood, TypeOK, Phases, PhasesAdvance
<1>8. "UNDO_ALL" \in NodeType /\ TRUE \in Written
  BY DEF NodeType, Written
<1>9. PagesAreGood'
  BY <1>2, <1>4, <1>6, <1>7, <1>8, SaveGood DEF HierInv
<1>10. PagesListed' /\ OpenPages' = OpenPages \cup {child}
  BY <1>2, <1>4, <1>7, OpenedPages DEF HierInv
<1>11. DescentOK' /\ page_current' \in OpenPages' \cup {NoPage}
  BY <1>2, <1>3, <1>4, <1>5, <1>10, RoundOK
<1>12. page_control_counter' \in 0 .. MaxControl
  BY <1>1, <1>2, <1>5 DEF HierInv, NavType, Descended
<1> QED
  BY <1>9, <1>10, <1>11, <1>12 DEF HierInv, NavType

\* A round that fails.
LEMMA FailsInv ==
  ASSUME HierInv, DescendFails
  PROVE  HierInv'
<1>1. descent.files # <<>> /\ descent' = [descent EXCEPT !.files = Tail(@)]
  BY DEF DescendFails
<1>2. descent \in DescentType /\ descent.files \in Seq(SourceNames)
  BY DEF HierInv, DescentOK, DescentType
<1>3. Tail(descent.files) \in Seq(SourceNames)
  BY <1>1, <1>2, TailIs
<1>4. /\ descent' \in DescentType /\ descent'.files = Tail(descent.files)
      /\ descent'.parent = descent.parent /\ descent'.first = descent.first
  BY <1>1, <1>2, <1>3 DEF DescentType
<1>5. \A i \in DOMAIN descent'.files : UsedBy(descent'.files[i], FileOf[descent.parent])
  BY <1>1, <1>2, <1>4, TailIs DEF HierInv, DescentOK
<1>6. OpenPages' = OpenPages
  BY DEF DescendFails, OpenPages, IsOpen
<1>7. DescentOK'
  BY <1>1, <1>4, <1>5, <1>6 DEF HierInv, DescentOK, UsedBy
<1>8. page_current' \in OpenPages \cup {NoPage}
  BY DEF HierInv, NavType, DescendFails
<1> QED
  BY <1>7, <1>8, ShowInv DEF DescendFails

\* The end of Down Schematic.
LEMMA EndsInv ==
  ASSUME HierInv, DescentEnds
  PROVE  HierInv'
<1>1. page_current' \in OpenPages \cup {NoPage}
  BY DEF HierInv, NavType, DescentOK, DescentEnds
<1>2. DescentOK'
  BY IdleOK DEF DescentEnds
<1> QED
  BY <1>1, <1>2, ShowInv DEF DescentEnds

\* No symbol is part of itself.
NoneIsItsOwnSymbol == \A f \in Files : f \notin SymbolsIn[f]

\* Down Symbol, unless it makes a page its own parent.
LEMMA SymbolInv ==
  ASSUME HierInv, DownSymbol, NoneIsItsOwnSymbol
  PROVE  HierInv'
<1>1. /\ page_current # NoPage
      /\ descent' = Idle
  BY DEF DownSymbol
<1>2. page_current \in OpenPages /\ page_current \in Pages
  BY <1>1, CurrentIsPage
<1>3. PICK f \in SymbolsIn[FileOf[page_current]] :
       \/ \E page \in s_page_search(f) :
            /\ o_undo_savestate(page, "UNDO_ALL", content[page],
                                [link[page] EXCEPT !.up = page_current], TRUE)
            /\ page_current' = page
            /\ UNCHANGED <<phase, running, pages, page_control_counter>>
       \/ \E page \in Fresh(f), c \in Contents :
            /\ page_control_counter < MaxControl
            /\ page_control_counter' = page_control_counter + 1
            /\ phase' = [phase EXCEPT ![page] = "open"]
            /\ o_undo_savestate(page, "UNDO_ALL", c,
                   [page_control |-> page_control_counter', up |-> page_current], TRUE)
            /\ pages' = Append(pages, page)
            /\ page_current' = page
            /\ UNCHANGED running
  BY DEF DownSymbol
<1>4. \A p \in Pages : FileOf[p] = f =>
        UsedBy(FileOf[p], FileOf[page_current]) /\ p # page_current
  BY <1>2 DEF UsedBy, NoneIsItsOwnSymbol, Files
<1>9. phase[page_current] # "new"
  BY <1>2, OpenIs DEF HierInv
<1>5. "UNDO_ALL" \in NodeType /\ TRUE \in Written
  BY DEF NodeType, Written
<1>6. DescentOK'
  BY <1>1, IdleOK
<1>7. ASSUME NEW page \in s_page_search(f),
             o_undo_savestate(page, "UNDO_ALL", content[page],
                              [link[page] EXCEPT !.up = page_current], TRUE),
             page_current' = page,
             UNCHANGED <<phase, running, pages, page_control_counter>>
      PROVE  HierInv'
  <2> DEFINE l == [link[page] EXCEPT !.up = page_current]
  <2>1. page \in OpenPages /\ page \in Pages /\ FileOf[page] = f
    BY DEF s_page_search, OpenPages
  <2>2. phase[page] = "open" /\ content[page] \in Contents
    BY <2>1, OpenIs DEF HierInv, PagesAreGood, PagesHaveContents
  <2>3. link[page] \in Links
    BY <2>1 DEF HierInv, PagesAreGood, TypeOK
  <2>4. l \in Links /\ l.up = page_current
    BY <1>2, <2>3, HierarchyAssumption
  <2>5. GoodPlace(page, l)
    BY <1>2, <1>4, <1>9, <2>1, <2>4, BelowIsGood
  <2>6. phase' \in Phases /\ running' \in BOOLEAN /\ PhasesAdvance
    BY <1>7 DEF HierInv, PagesAreGood, TypeOK, Phases, PhasesAdvance
  <2> HIDE DEF l
  <2>7. PagesAreGood'
    BY <1>5, <1>7, <2>1, <2>2, <2>4, <2>5, <2>6, SaveGood DEF HierInv, l
  <2>8. PagesListed' /\ OpenPages' = OpenPages
    BY <1>7, SamePages DEF HierInv
  <2>9. NavType'
    BY <1>1, <1>2, <1>7, <2>1, <2>8 DEF HierInv, NavType
  <2> QED
    BY <1>6, <2>7, <2>8, <2>9 DEF HierInv
<1>8. ASSUME NEW page \in Fresh(f), NEW c \in Contents,
             page_control_counter < MaxControl,
             page_control_counter' = page_control_counter + 1,
             phase' = [phase EXCEPT ![page] = "open"],
             o_undo_savestate(page, "UNDO_ALL", c,
                   [page_control |-> page_control_counter', up |-> page_current], TRUE),
             pages' = Append(pages, page),
             page_current' = page,
             UNCHANGED running
      PROVE  HierInv'
  <2> DEFINE l == [page_control |-> page_control_counter', up |-> page_current]
  <2>1. page \in Pages /\ FileOf[page] = f /\ phase[page] = "new"
    BY DEF Fresh
  <2>2. page_control_counter' \in 0 .. MaxControl
    BY <1>8, HierarchyAssumption DEF HierInv, NavType
  <2>3. l \in Links /\ l.up = page_current
    BY <1>2, <2>2, HierarchyAssumption
  <2>4. GoodPlace(page, l)
    BY <1>2, <1>4, <1>9, <2>1, <2>3, BelowIsGood
  <2>5. /\ phase \in Phases /\ phase' \in Phases /\ running' \in BOOLEAN /\ PhasesAdvance
        /\ \A q \in Pages \ {page} : phase'[q] = phase[q]
    BY <1>8 DEF HierInv, PagesAreGood, TypeOK, Phases, PhasesAdvance
  <2> HIDE DEF l
  <2>6. PagesAreGood'
    BY <1>5, <1>8, <2>1, <2>3, <2>4, <2>5, SaveGood DEF HierInv, l
  <2>7. PagesListed' /\ OpenPages' = OpenPages \cup {page}
    BY <1>8, <2>1, <2>5, OpenedPages DEF HierInv
  <2>8. NavType'
    BY <1>1, <1>2, <1>8, <2>1, <2>2, <2>7 DEF HierInv, NavType
  <2> QED
    BY <1>6, <2>6, <2>7, <2>8 DEF HierInv
<1> QED
  BY <1>3, <1>7, <1>8

\* A command that closes a page and shows another one.
LEMMA CloseInv ==
  ASSUME HierInv, descent' = Idle, NEW p \in Pages, ClosePage(p), pages' = Without(pages, p),
         page_current' \in (OpenPages \ {p}) \cup {NoPage},
         UNCHANGED <<page_control_counter>>
  PROVE  HierInv'
<1>1. phase[p] = "open" /\ phase' = [phase EXCEPT ![p] = "closed"]
  BY DEF ClosePage
<1>2. PagesAreGood'
  BY CloseGood DEF HierInv
<1>3. phase \in Phases
  BY DEF HierInv, PagesAreGood, TypeOK, Phases
<1>4. PagesListed' /\ OpenPages' = OpenPages \ {p}
  BY <1>1, <1>3, ClosedPages DEF HierInv
<1>5. NavType'
  BY <1>4, NavStays DEF HierInv
<1> QED
  BY <1>2, <1>4, <1>5, IdleOK DEF HierInv

\* Hierarchy Up.
LEMMA UpInv ==
  ASSUME HierInv, HierarchyUp
  PROVE  HierInv'
<1>1. /\ page_current # NoPage /\ descent' = Idle /\ ClosePage(page_current)
      /\ s_page_search_by_page_id(link[page_current].up) # NoPage
      /\ page_current' = s_page_search_by_page_id(link[page_current].up)
      /\ pages' = Without(pages, page_current)
      /\ UNCHANGED <<page_control_counter>>
  BY DEF HierarchyUp
<1>2. page_current \in Pages
  BY <1>1, CurrentIsPage
<1>3. page_current' = link[page_current].up /\ IsOpen(link[page_current].up)
  BY <1>1 DEF s_page_search_by_page_id
<1>4. page_current' \in OpenPages /\ page_current' \in Pages
  BY <1>3, OpenIs DEF HierInv, OpenPages
<1>5. page_current' # page_current
  BY <1>2, <1>3, <1>4 DEF HierInv, PagesAreGood, PlacesAreGood, GoodPlace
<1> QED
  BY <1>1, <1>2, <1>4, <1>5, CloseInv

\* The page that is shown after p is closed is another one.
LEMMA NextCurrentIs ==
  ASSUME HierInv, NEW p \in Pages, IsOpen(p)
  PROVE  NextCurrent(p) \in (OpenPages \ {p}) \cup {NoPage}
<1> DEFINE i == CHOOSE j \in DOMAIN pages : pages[j] = p
<1>1. /\ pages \in Seq(Pages) /\ Len(pages) \in Nat /\ DOMAIN pages = 1 .. Len(pages)
      /\ \A a, b \in DOMAIN pages : pages[a] = pages[b] => a = b
  BY DEF HierInv, PagesListed, Lists
<1>2. i \in DOMAIN pages /\ pages[i] = p
  BY DEF IsOpen
<1>3. NextCurrent(p) = IF IsOpen(link[p].up) THEN link[p].up
                       ELSE IF i > 1 THEN pages[i - 1]
                       ELSE IF i < Len(pages) THEN pages[i + 1]
                       ELSE NoPage
  BY DEF NextCurrent
<1> HIDE DEF i
<1>4. \A j \in DOMAIN pages \ {i} : pages[j] \in OpenPages \ {p}
  BY <1>1, <1>2 DEF OpenPages, IsOpen
<1>5. IsOpen(link[p].up) => link[p].up \in OpenPages \ {p}
  BY OpenIs DEF HierInv, PagesAreGood, PlacesAreGood, GoodPlace
<1>6. i > 1 => i - 1 \in DOMAIN pages \ {i}
  BY <1>1, <1>2
<1>7. i < Len(pages) => i + 1 \in DOMAIN pages \ {i}
  BY <1>1, <1>2
<1> QED
  BY <1>3, <1>4, <1>5, <1>6, <1>7

\* Closing a page.
LEMMA PageCloseInv ==
  ASSUME HierInv, NEW p \in Pages, PageClose(p)
  PROVE  HierInv'
<1>1. page_current' \in (OpenPages \ {p}) \cup {NoPage}
  BY NextCurrentIs DEF PageClose, HierInv, NavType
<1>2. descent' = Idle
  BY DEF PageClose
<1> QED
  BY <1>1, <1>2, CloseInv DEF PageClose

\* A list of one node.
LEMMA SingletonIs ==
  ASSUME NEW n \in Node
  PROVE  /\ <<n>> \in Seq(Node) /\ Len(<<n>>) = 1
         /\ <<n>>[1] = n /\ DOMAIN <<n>> = {1}
  OBVIOUS

\* The undo list of a page that replaces a reverted one.
RevertedList(old, new, n, c) ==
  IF UndoControl
  THEN /\ n.filename # NoFile => undo_file_index < MaxFiles
       /\ undo' = [undo EXCEPT ![old] = <<>>, ![new] = <<n>>]
       /\ undo_current' = [undo_current EXCEPT ![old] = 0, ![new] = 1]
       /\ undo_file_index' = IF n.filename = NoFile THEN undo_file_index
                             ELSE undo_file_index + 1
       /\ files' = WriteUndoFile(n, TRUE)
       /\ content' = [content EXCEPT ![old] = EmptyPage,
                                     ![new] = Consolidate[c]]
  ELSE /\ UNCHANGED <<undo, undo_current, undo_file_index, files>>
       /\ content' = [content EXCEPT ![old] = EmptyPage, ![new] = c]

\* The undo lists, contents and undo files after a Revert.
LEMMA RevertedTypes ==
  ASSUME TypeOK, NEW old \in Pages, NEW new \in Pages, old # new, NEW c \in Contents,
         RevertedList(old, new, NewNode("UNDO_ALL", Consolidate[c], NoLink), c)
  PROVE  /\ content' \in [Pages -> Contents \cup {EmptyPage}]
         /\ undo' \in [Pages -> Seq(Node)]
         /\ undo_current' \in [Pages -> Nat]
         /\ \A p \in Pages : undo_current'[p] \in 0 .. Len(undo'[p])
         /\ undo_file_index' \in 0 .. MaxFiles
         /\ files' \in [Indices -> Contents \cup {Unlinked}]
         /\ content'[new] \in Contents
         /\ \A q \in Pages \ {old, new} : content'[q] = content[q]
         /\ undo'[old] = <<>> \/ undo'[old] = undo[old]
         /\ undo'[new] = undo[new] \/ (Len(undo'[new]) = 1 /\ undo'[new][1].link = NoLink)
         /\ \A q \in Pages \ {old, new} : undo'[q] = undo[q]
<1>1. Consolidate[c] \in Contents
  BY ConstantsAssumption
<1>2. CASE ~UndoControl
  BY <1>2 DEF RevertedList, TypeOK
<1>3. CASE UndoControl
  <2> DEFINE n == NewNode("UNDO_ALL", Consolidate[c], NoLink)
  <2>0. n = Saved("UNDO_ALL", c, NoLink)
    BY DEF Saved
  <2>1. n.link = NoLink /\ n.shown = Consolidate[c]
    BY DEF NewNode
  <2> HIDE DEF n
  <2>2. /\ n.filename # NoFile => undo_file_index < MaxFiles
        /\ undo' = [undo EXCEPT ![old] = <<>>, ![new] = <<n>>]
        /\ undo_current' = [undo_current EXCEPT ![old] = 0, ![new] = 1]
        /\ undo_file_index' = IF n.filename = NoFile THEN undo_file_index
                              ELSE undo_file_index + 1
        /\ files' = WriteUndoFile(n, TRUE)
        /\ content' = [content EXCEPT ![old] = EmptyPage, ![new] = Consolidate[c]]
    BY <1>3 DEF RevertedList, n
  <2>3. Saveable("UNDO_ALL", c, NoLink, TRUE)
    BY ConstantsAssumption DEF Saveable, NodeType, Written
  <2>4. n \in Node /\ n.filename \in {NoFile, undo_file_index}
    BY <2>0, <2>2, <2>3, SavedIsNode
  <2>5. <<n>> \in Seq(Node) /\ Len(<<n>>) = 1 /\ <<n>>[1] = n
    BY <2>4, SingletonIs
  <2>6. undo' \in [Pages -> Seq(Node)] /\ undo_current' \in [Pages -> Nat]
    BY <2>2, <2>5, EmptySeq DEF TypeOK
  <2>7. \A p \in Pages : undo_current'[p] \in 0 .. Len(undo'[p])
    <3>1. undo_current'[new] = 1 /\ undo'[new] = <<n>>
      BY <2>2 DEF TypeOK
    <3>2. undo_current'[old] = 0 /\ undo'[old] = <<>>
      BY <2>2 DEF TypeOK
    <3>3. \A p \in Pages \ {old, new} :
            undo_current'[p] = undo_current[p] /\ undo'[p] = undo[p]
      BY <2>2 DEF TypeOK
    <3>4. Len(<<>>) = 0
      OBVIOUS
    <3>5. \A p \in Pages \ {old, new} : undo_current'[p] \in 0 .. Len(undo'[p])
      BY <3>3 DEF TypeOK
    <3>6. undo_current'[new] \in 0 .. Len(undo'[new])
      <4>1. Len(undo'[new]) = 1
        BY <2>5, <3>1
      <4> QED
        BY <3>1, <4>1
    <3>7. undo_current'[old] \in 0 .. Len(undo'[old])
      <4>1. Len(undo'[old]) = 0
        BY <3>2, <3>4
      <4> QED
        BY <3>2, <4>1
    <3> QED
      BY <3>5, <3>6, <3>7
  <2>8. undo_file_index' \in 0 .. MaxFiles
    BY <2>2, ConstantsAssumption DEF TypeOK
  <2>9. files' \in [Indices -> Contents \cup {Unlinked}]
    BY <1>1, <2>1, <2>2 DEF WriteUndoFile, TypeOK
  <2>10. /\ content' \in [Pages -> Contents \cup {EmptyPage}]
         /\ content'[new] \in Contents
         /\ \A q \in Pages \ {old, new} : content'[q] = content[q]
    BY <1>1, <2>2 DEF TypeOK
  <2>11. /\ undo'[old] = <<>>
         /\ Len(undo'[new]) = 1 /\ undo'[new][1].link = NoLink
         /\ \A q \in Pages \ {old, new} : undo'[q] = undo[q]
    BY <2>1, <2>2, <2>5 DEF TypeOK
  <2> QED
    BY <2>6, <2>7, <2>8, <2>9, <2>10, <2>11
<1> QED
  BY <1>2, <1>3

\* What Revert does to the pages and their list.
RevertStep(old, new, c) ==
  /\ RevertedList(old, new, NewNode("UNDO_ALL", Consolidate[c], NoLink), c)
  /\ phase' = [phase EXCEPT ![old] = "closed", ![new] = "open"]
  /\ link' = PlaceKept(old, new)
  /\ pages' = Append(Without(pages, old), new)
  /\ page_current' = new
  /\ UNCHANGED <<running, page_control_counter, descent>>

\* Revert is such a step of the current page.
LEMMA RevertIs ==
  ASSUME HierInv, PageRevert
  PROVE  /\ descent' = Idle /\ page_current # NoPage
         /\ \E new \in Pages, c \in Contents :
              /\ FileOf[new] = FileOf[page_current] /\ phase[new] = "new"
              /\ RevertStep(page_current, new, c)
  BY DEF PageRevert, RevertStep, RevertedList

\* Revert.
LEMMA RevertInv ==
  ASSUME HierInv, PageRevert
  PROVE  HierInv'
<1> DEFINE old == page_current
<1>1. PICK new \in Pages, c \in Contents :
        /\ FileOf[new] = FileOf[old] /\ phase[new] = "new"
        /\ RevertStep(old, new, c)
  BY RevertIs
<1>2. descent' = Idle /\ old \in Pages /\ phase[old] = "open" /\ old # new
  BY <1>1, RevertIs, CurrentIsPage
<1> HIDE DEF old
<1>3. /\ TypeOK /\ PagesHaveContents /\ PlacesAreGood /\ PagesListed /\ NavType
      /\ phase \in Phases /\ link \in [Pages -> Links]
  BY DEF HierInv, PagesAreGood, TypeOK, Phases
<1>4. /\ content' \in [Pages -> Contents \cup {EmptyPage}]
      /\ undo' \in [Pages -> Seq(Node)]
      /\ undo_current' \in [Pages -> Nat]
      /\ \A p \in Pages : undo_current'[p] \in 0 .. Len(undo'[p])
      /\ undo_file_index' \in 0 .. MaxFiles
      /\ files' \in [Indices -> Contents \cup {Unlinked}]
      /\ content'[new] \in Contents
      /\ \A q \in Pages \ {old, new} : content'[q] = content[q]
      /\ undo'[old] = <<>> \/ undo'[old] = undo[old]
      /\ undo'[new] = undo[new] \/ (Len(undo'[new]) = 1 /\ undo'[new][1].link = NoLink)
      /\ \A q \in Pages \ {old, new} : undo'[q] = undo[q]
  BY <1>1, <1>2, <1>3, RevertedTypes DEF RevertStep
<1>5. /\ phase' \in Phases /\ phase'[old] = "closed" /\ phase'[new] = "open"
      /\ \A q \in Pages \ {old, new} : phase'[q] = phase[q]
      /\ running' = running
  BY <1>1, <1>2, <1>3 DEF RevertStep, Phases
<1>6. /\ link' \in [Pages -> Links] /\ link'[old] = NoLink /\ link'[new] = link[old]
      /\ \A q \in Pages \ {old, new} : link'[q] = link[q]
  BY <1>1, <1>2, <1>3, ConstantsAssumption DEF RevertStep, PlaceKept
<1>7. TypeOK'
  BY <1>3, <1>4, <1>5, <1>6 DEF TypeOK, Phases
<1>8. PagesHaveContents'
  BY <1>3, <1>4, <1>5 DEF PagesHaveContents
<1>9. PlacesAreGood'
  <2> DEFINE Good2(p, l) ==
        \A q \in Pages : l.up = q =>
          q # p /\ phase'[q] # "new" /\ UsedBy(FileOf[p], FileOf[q])
  <2>1. \A q \in Pages : phase[q] # "new" => phase'[q] # "new"
    BY <1>5
  <2>2. \A p \in Pages : \A l : GoodPlace(p, l) => Good2(p, l)
    BY <2>1 DEF GoodPlace
  <2>3. \A p \in Pages : Good2(p, NoLink)
    BY <2>2, TopIsGood
  <2>4. Good2(new, link[old])
    <3>1. GoodPlace(old, link[old])
      BY <1>2, <1>3 DEF PlacesAreGood
    <3> QED
      BY <1>1, <2>1, <3>1 DEF GoodPlace
  <2>5. \A p \in Pages : Good2(p, link[p])
    BY <1>3, <2>2 DEF PlacesAreGood
  <2>6. \A p \in Pages : \A i \in DOMAIN undo[p] : Good2(p, undo[p][i].link)
    BY <1>3, <2>2 DEF PlacesAreGood
  <2> HIDE DEF Good2
  <2>7. \A p \in Pages : Good2(p, link'[p])
    BY <1>6, <2>3, <2>4, <2>5
  <2>8. \A i \in DOMAIN undo'[new] : Good2(new, undo'[new][i].link)
    <3>1. Len(undo'[new]) = 1 => DOMAIN undo'[new] = {1}
      <4>1. undo'[new] \in Seq(Node)
        BY <1>4
      <4> QED
        BY <4>1
    <3> QED
      BY <1>4, <2>3, <2>6, <3>1
  <2>9. \A i \in DOMAIN undo'[old] : Good2(old, undo'[old][i].link)
    BY <1>2, <1>4, <2>6
  <2>10. \A p \in Pages : \A i \in DOMAIN undo'[p] : Good2(p, undo'[p][i].link)
    BY <1>4, <2>6, <2>8, <2>9
  <2> QED
    BY <2>7, <2>10 DEF PlacesAreGood, GoodPlace, Good2, UsedBy
<1>10. PagesListed' /\ OpenPages' = (OpenPages \ {old}) \cup {new}
  <2> DEFINE ph == [phase EXCEPT ![old] = "closed"]
  <2>1. Lists(pages, phase)
    BY <1>3 DEF PagesListed
  <2>2. ph[old] = "closed" /\ \A q \in Pages \ {old} : ph[q] = phase[q]
    BY <1>2, <1>3 DEF Phases
  <2> HIDE DEF ph
  <2>3. Lists(Without(pages, old), ph)
    <3>1. ph[old] # "open"
      BY <2>2
    <3> QED
      BY <3>1, <1>2, <2>1, <2>2, WithoutLists
  <2>4. ph[new] # "open" /\ \A q \in Pages \ {new} : phase'[q] = ph[q]
    BY <1>1, <1>2, <1>5, <2>2
  <2>5. Lists(Append(Without(pages, old), new), phase')
    BY <1>5, <2>3, <2>4, AppendLists
  <2>6. PagesListed'
    BY <1>1, <2>5 DEF PagesListed, RevertStep
  <2>7. OpenPages = {p \in Pages : phase[p] = "open"}
    BY <1>3, OpenIs
  <2>8. OpenPages' = {p \in Pages : phase'[p] = "open"}
    BY <2>6, OpenWillBe
  <2> QED
    BY <1>2, <1>5, <2>6, <2>7, <2>8
<1>11. NavType'
  BY <1>1, <1>2, <1>3, <1>10 DEF NavType, RevertStep
<1>12. DescentOK'
  BY <1>2, IdleOK
<1> QED
  BY <1>7, <1>8, <1>9, <1>10, <1>11, <1>12 DEF HierInv, PagesAreGood

\* Every step keeps the invariant.
LEMMA HierNext ==
  ASSUME NoneIsItsOwnSymbol, HierInv, [HNext]_hvars
  PROVE  HierInv'
<1>1. CASE UNCHANGED hvars
  <2>1. UNCHANGED vars /\ UNCHANGED nav
    BY <1>1 DEF hvars
  <2>2. PagesAreGood'
    BY <2>1, PagesAreGoodStay DEF HierInv
  <2>3. PagesListed' /\ OpenPages' = OpenPages
    BY <2>1, SamePages DEF HierInv, vars, nav
  <2>4. DescentOK'
    BY <2>1, <2>3, DescentStays DEF HierInv, nav
  <2>5. NavType'
    BY <2>1, <2>3 DEF HierInv, NavType, nav
  <2> QED
    BY <2>2, <2>3, <2>4, <2>5 DEF HierInv
<1>2. CASE HNext
  BY <1>2, OpenInv, GotoInv, EditInv, DownInv, LoadedInv, NewInv, FailsInv, EndsInv,
     SymbolInv, UpInv, PageCloseInv, RevertInv DEF HNext
<1> QED
  BY <1>1, <1>2

\* It holds at the start,
LEMMA HierInit == HInit => HierInv
<1> SUFFICES ASSUME HInit
             PROVE  HierInv
  OBVIOUS
<1>1. TypeOK
  BY ConstantsAssumption DEF HInit, Init, TypeOK, Unlinked
<1>2. PagesHaveContents
  BY DEF HInit, Init, PagesHaveContents
<1>3. PlacesAreGood
  <2>1. \A p \in Pages : link[p] = NoLink /\ DOMAIN undo[p] = {}
    BY DEF HInit, Init
  <2> QED
    BY <2>1, TopIsGood DEF PlacesAreGood
<1>4. PagesListed
  <2>1. pages \in Seq(Pages) /\ DOMAIN pages = {}
    BY EmptySeq DEF HInit
  <2>2. \A p \in Pages : phase[p] # "open"
    BY DEF HInit, Init
  <2> QED
    BY <2>1, <2>2 DEF PagesListed, Lists
<1>5. DescentOK
  <2>1. Idle \in DescentType
    BY HierarchyAssumption, EmptySeq DEF Idle, DescentType
  <2>2. descent = Idle /\ Idle.files = <<>> /\ Idle.parent = NoPage /\ Idle.first = NoPage
    BY DEF HInit, Idle
  <2>3. DOMAIN descent.files = {}
    BY <2>2
  <2> QED
    BY <2>1, <2>2, <2>3 DEF DescentOK
<1>6. NavType
  BY HierarchyAssumption DEF HInit, NavType
<1> QED
  BY <1>1, <1>2, <1>3, <1>4, <1>5, <1>6 DEF HierInv, PagesAreGood

\* and so always.
LEMMA HierAlways == NoneIsItsOwnSymbol => (HSpec => []HierInv)
<1> SUFFICES ASSUME NoneIsItsOwnSymbol
             PROVE  HSpec => []HierInv
  OBVIOUS
<1>1. HierInv /\ [HNext]_hvars => HierInv'
  BY HierNext
<1> QED
  BY <1>1, HierInit, PTL DEF HSpec

\* The page list has every open page once, and the page in view and the page a descent
\* began on are open, or there is none: through any opening, closing, reverting, descents
\* that fail half way, undo and redo, as long as no symbol is part of itself.
THEOREM HierarchyTypeCorrect == NoneIsItsOwnSymbol => (HSpec => []HTypeOK)
<1> SUFFICES ASSUME NoneIsItsOwnSymbol
             PROVE  HSpec => []HTypeOK
  OBVIOUS
<1>1. HierInv => HTypeOK
  <2> SUFFICES ASSUME HierInv
               PROVE  HTypeOK
    OBVIOUS
  <2>1. OpenPages = {p \in Pages : phase[p] = "open"}
    BY OpenIs DEF HierInv
  <2>2. Len(pages) = Cardinality({p \in Pages : phase[p] = "open"})
    BY ListsCounts DEF HierInv, PagesListed
  <2>3. pages \in Seq(Pages)
    BY DEF HierInv, PagesListed, Lists
  <2> QED
    BY <2>1, <2>2, <2>3 DEF HTypeOK, HierInv, PagesAreGood, NavType, DescentOK
<1> QED
  BY <1>1, HierAlways, PTL

\* Hierarchy Up leads to a page that uses the one that is left, whatever undo and redo
\* make of page->up, whatever is closed or reverted, for any design.
THEOREM UpIsToAUser == NoneIsItsOwnSymbol => (HSpec => []UpLeadsToAUser)
<1> SUFFICES ASSUME NoneIsItsOwnSymbol
             PROVE  HSpec => []UpLeadsToAUser
  OBVIOUS
<1>1. HierInv => UpLeadsToAUser
  BY DEF HierInv, PagesAreGood, PlacesAreGood, GoodPlace, UpLeadsToAUser, OpenPages, UsedBy
<1> QED
  BY <1>1, HierAlways, PTL

-----------------------------------------------------------------------------
(* Without circles every walk up the hierarchy leaves the design. *)

\* Among more steps than there are pages two are at the same page.
LEMMA WalkRepeats ==
  ASSUME NEW w, \A n \in 0 .. Cardinality(Pages) : w[n] \in Pages
  PROVE  \E i, j \in 0 .. Cardinality(Pages) : i < j /\ w[i] = w[j]
<1> DEFINE N == Cardinality(Pages)
           f == [n \in 0 .. N |-> w[n]]
<1>1. N \in Nat /\ IsFiniteSet(Pages)
  BY HierarchyAssumption, FS_CardinalityType
<1>2. f \in [0 .. N -> Pages]
  OBVIOUS
<1>3. IsFiniteSet(0 .. N) /\ Cardinality(0 .. N) = N + 1
  <2>1. 0 \in Int /\ N \in Int /\ ~(0 > N) /\ N - 0 + 1 = N + 1
    BY <1>1
  <2> HIDE DEF N
  <2> QED
    BY <2>1, FS_Interval
<1> SUFFICES ASSUME \A i, j \in 0 .. N : ~(i < j /\ w[i] = w[j])
             PROVE  FALSE
  OBVIOUS
<1>4. \A i, j \in 0 .. N : f[i] = f[j] => i = j
  <2> TAKE i, j \in 0 .. N
  <2>1. f[i] = w[i] /\ f[j] = w[j]
    OBVIOUS
  <2>2. i \in Int /\ j \in Int
    OBVIOUS
  <2>3. i < j \/ j < i \/ i = j
    BY <2>2
  <2> HIDE DEF f, N
  <2> QED
    BY <2>1, <2>3
<1>5. DOMAIN f = 0 .. N
  OBVIOUS
<1> HIDE DEF f
<1>6. f \in Injection(0 .. N, Pages)
  BY <1>2, <1>4, <1>5 DEF Injection, IsInjective
<1>7. Cardinality(0 .. N) <= Cardinality(Pages)
  BY <1>1, <1>6, FS_Injection
<1> QED
  BY <1>1, <1>3, <1>7

\* The pages of a walk that comes back are a circle.
LEMMA WalksEnd ==
  ASSUME PagesListed, NoCircle, NEW p \in OpenPages
  PROVE  Above(p)[Cardinality(Pages)] = NoPage
<1> DEFINE N == Cardinality(Pages)
           w == Above(p)
<1>1. /\ N \in Nat /\ w[0] = p
      /\ \A n \in 1 .. N : w[n] = UpOf(w[n - 1])
  BY AboveIs
<1>2. \A n \in 0 .. N : w[n] = NoPage => w[N] = NoPage
  <2> TAKE n \in 0 .. N
  <2>1. N \in n .. N
    BY <1>1
  <2> QED
    BY <2>1, WalkStaysOut
<1> SUFFICES ASSUME w[N] # NoPage
             PROVE  FALSE
  OBVIOUS
<1>3. \A n \in 0 .. N : w[n] # NoPage
  BY <1>2
<1> HIDE DEF N, w
<1>4. p \in Pages /\ phase[p] = "open"
  BY OpenIs
<1>5. ASSUME NEW n \in 1 .. N
      PROVE  /\ w[n] \in Pages /\ phase[w[n]] = "open"
             /\ w[n] = link[w[n - 1]].up
  <2>1. n \in 0 .. N
    BY <1>1
  <2>2. w[n] = UpOf(w[n - 1]) /\ w[n] # NoPage
    BY <1>1, <1>3, <2>1
  <2> QED
    BY <2>2, UpOfIs
<1>6. ASSUME NEW n \in 0 .. N
      PROVE  w[n] \in Pages /\ phase[w[n]] = "open"
  <2>1. n = 0 \/ n \in 1 .. N
    BY <1>1
  <2> QED
    BY <1>1, <1>4, <1>5, <2>1
<1>7. PICK i, j \in 0 .. N : i < j /\ w[i] = w[j]
  <2>1. \A n \in 0 .. Cardinality(Pages) : w[n] \in Pages
    BY <1>6 DEF N
  <2> QED
    BY <2>1, WalkRepeats DEF N
<1> DEFINE S == {w[n] : n \in i .. j - 1}
<1>8. \A n \in i .. j - 1 : n \in 0 .. N /\ n + 1 \in 1 .. N /\ (n + 1) - 1 = n
  BY <1>1, <1>7
<1>9. S \in SUBSET Pages
  BY <1>6, <1>8
<1>10. S # {}
  BY <1>7
<1>11. ASSUME NEW q \in S
       PROVE  phase[q] = "open" /\ link[q].up \in S
  <2>1. PICK n \in i .. j - 1 : q = w[n]
    OBVIOUS
  <2>2. phase[q] = "open" /\ w[n + 1] = link[w[n]].up
    BY <1>5, <1>6, <1>8, <2>1
  <2>3. n + 1 = j \/ n + 1 \in i .. j - 1
    BY <1>7
  <2>4. w[n + 1] \in S
    <3>1. CASE n + 1 = j
      <4>1. w[n + 1] = w[i] /\ i \in i .. j - 1
        BY <1>7, <3>1
      <4> QED
        BY <4>1
    <3>2. CASE n + 1 \in i .. j - 1
      BY <3>2
    <3> QED
      BY <2>3, <3>1, <3>2
  <2> QED
    BY <2>1, <2>2, <2>4
<1> HIDE DEF S
<1> QED
  BY <1>9, <1>10, <1>11 DEF NoCircle

\* A circle through p that p's new parent is in has p above that parent.
LEMMA CircleIsAbove ==
  ASSUME PagesListed, NoCircle, NEW q \in OpenPages, NEW p,
         ~InParentsList(p, q), NEW S \in SUBSET Pages, q \in S,
         \A r \in S : phase[r] = "open",
         \A r \in S : r # p => link[r].up \in S
  PROVE  FALSE
<1> DEFINE N == Cardinality(Pages)
           w == Above(q)
           Out == {n \in 0 .. N : w[n] \notin S}
<1>1. /\ N \in Nat /\ w[0] = q /\ DOMAIN w = 0 .. N
      /\ \A n \in 1 .. N : w[n] = UpOf(w[n - 1])
  BY AboveIs
<1>2. w[N] = NoPage
  BY WalksEnd
<1>3. \A n \in 0 .. N : w[n] # p
  BY <1>1 DEF InParentsList
<1> HIDE DEF N, w
<1>4. N \in Out
  BY <1>1, <1>2, HierarchyAssumption
<1>5. Out \in SUBSET Nat /\ Out # {}
  BY <1>1, <1>4
<1>6. PICK n \in Out : \A k \in Out : n <= k
  BY <1>5, Least
<1>7. n \in 0 .. N /\ w[n] \notin S /\ n # 0
  BY <1>1, <1>6
<1>8. n - 1 \in 0 .. N /\ n \in 1 .. N /\ ~(n <= n - 1)
  BY <1>1, <1>7
<1>9. w[n - 1] \in S
  BY <1>6, <1>8
<1>10. link[w[n - 1]].up \in S
  BY <1>3, <1>8, <1>9
<1>11. w[n - 1] # NoPage
  BY <1>9, HierarchyAssumption
<1>12. UpOf(w[n - 1]) = link[w[n - 1]].up
  BY <1>10, <1>11, UpOfIs
<1> QED
  BY <1>1, <1>7, <1>8, <1>10, <1>12

-----------------------------------------------------------------------------
(* Without undo, what a step does to the places of pages. *)

\* No part of the design uses a symbol's page: a symbol has no components of its own.
SymbolsAreLeaves ==
  \A f, g, h \in Files : g \in SymbolsIn[f] => ~UsedBy(h, g)

\* Pages that are not in P stay as and where they are.
OthersStay(P) ==
  \A r \in Pages \ P :
    link'[r] = link[r] /\ phase'[r] = phase[r]

\* A page is opened at the top,
OpenedAtTop(p) ==
  /\ phase[p] = "new" /\ phase'[p] = "open"
  /\ link'[p].up = NoPage
  /\ OthersStay({p})

\* or reached from page q: a schematic only if it is not q or above it,
ReachedFrom(p, q) ==
  /\ phase[p] # "closed" /\ phase[q] = "open" /\ q # p
  /\ \/ phase[p] = "open" /\ ~InParentsList(p, q)
     \/ phase[p] = "new"
     \/ FileOf[p] \in SymbolsIn[FileOf[q]]
  /\ phase'[p] = "open" /\ link'[p].up = q
  /\ OthersStay({p})

\* or closed,
LeftDesign(p) == phase'[p] = "closed" /\ OthersStay({p})

\* or replaced by another load of its file.
ReplacedBy(old, new) ==
  /\ phase[old] = "open" /\ phase[new] = "new"
  /\ phase'[old] = "closed" /\ phase'[new] = "open"
  /\ link'[new].up = link[old].up
  /\ OthersStay({old, new})

PlaceStep ==
  \/ OthersStay({})
  \/ \E p \in Pages : OpenedAtTop(p)
  \/ \E p, q \in Pages : ReachedFrom(p, q)
  \/ \E p \in Pages : LeftDesign(p)
  \/ \E old, new \in Pages : ReplacedBy(old, new)

\* Nothing moves.
LEMMA SameIsPlaceStep ==
  ASSUME UNCHANGED <<link, phase>>
  PROVE  PlaceStep
  BY DEF PlaceStep, OthersStay

\* A handler that saves page p at place l puts it there.
LEMMA SaveMoves ==
  ASSUME HierInv, NEW p \in Pages, NEW flag, NEW c, NEW l, NEW w,
         o_undo_savestate(p, flag, c, l, w)
  PROVE  link'[p] = l /\ \A r \in Pages \ {p} : link'[r] = link[r]
  BY DEF HierInv, PagesAreGood, TypeOK, o_undo_savestate

\* Without undo the commands on the current page do not move it.
LEMMA EditIsPlaceStep ==
  ASSUME ~UndoControl, HierInv, OnCurrentPage
  PROVE  PlaceStep
<1>1. page_current \in Pages /\ UNCHANGED nav
  BY DEF HierInv, NavType, OpenPages, OnCurrentPage
<1>2. PICK flag, c, w : o_undo_savestate(page_current, flag, c, link[page_current], w)
                        /\ phase' = phase
  BY DEF OnCurrentPage, EditPage, PanZoom, EditUndo, EditRedo
<1>3. \A r \in Pages : link'[r] = link[r]
  BY <1>1, <1>2, SaveMoves
<1> QED
  BY <1>1, <1>2, <1>3 DEF PlaceStep, OthersStay, nav

\* A file that is opened directly is at the top.
LEMMA OpenIsPlaceStep ==
  ASSUME HierInv, NEW f, Open(f)
  PROVE  PlaceStep
<1>1. CASE UNCHANGED vars
  BY <1>1, SameIsPlaceStep DEF vars
<1>2. ASSUME NEW p \in Fresh(f), OpenPage(p)
      PROVE  PlaceStep
  <2>1. p \in Pages /\ phase[p] = "new"
    BY <1>2 DEF Fresh
  <2>2. PICK c \in Contents, w \in Written : o_undo_savestate(p, "UNDO_ALL", c, NoLink, w)
    BY <1>2 DEF OpenPage
  <2>3. link'[p] = NoLink /\ \A r \in Pages \ {p} : link'[r] = link[r]
    BY <2>1, <2>2, SaveMoves
  <2>4. phase'[p] = "open" /\ \A r \in Pages \ {p} : phase'[r] = phase[r]
    BY <1>2, <2>1 DEF OpenPage, HierInv, PagesAreGood, TypeOK
  <2>5. OpenedAtTop(p)
    BY <1>2, <2>1, <2>3, <2>4, HierarchyAssumption DEF OpenedAtTop, OthersStay
  <2> QED
    BY <2>1, <2>5 DEF PlaceStep
<1> QED
  BY <1>1, <1>2 DEF Open

\* Down Schematic to a page that is loaded.
LEMMA LoadedIsPlaceStep ==
  ASSUME HierInv, DescendToLoaded
  PROVE  PlaceStep
<1>1. PICK found, control :
        /\ found \in s_page_search(Head(descent.files))
        /\ ~InParentsList(found, descent.parent)
        /\ control = LoadedControl(found)
        /\ o_undo_savestate(found, "UNDO_ALL", content[found], BelowParent(control), TRUE)
        /\ Descended(found, control)
  BY DEF DescendToLoaded
<1>2. descent.files # <<>> /\ phase' = phase
  BY DEF DescendToLoaded
<1>3. found \in Pages /\ phase[found] = "open"
  BY <1>1, OpenIs DEF s_page_search, OpenPages, HierInv
<1>4. descent.parent \in Pages /\ phase[descent.parent] = "open"
  BY <1>2, HeadIsUsed, OpenIs DEF HierInv
<1>5. found # descent.parent
  BY <1>1, NotInParents
<1>6. link'[found].up = descent.parent /\ \A r \in Pages \ {found} : link'[r] = link[r]
  <2>1. link'[found] = BelowParent(control) /\ \A r \in Pages \ {found} : link'[r] = link[r]
    BY <1>1, <1>3, SaveMoves
  <2> QED
    BY <2>1 DEF BelowParent
<1>8. ReachedFrom(found, descent.parent)
  BY <1>1, <1>2, <1>3, <1>4, <1>5, <1>6 DEF ReachedFrom, OthersStay
<1> QED
  BY <1>3, <1>4, <1>8 DEF PlaceStep

\* Down Schematic to a page that has to be loaded.
LEMMA NewIsPlaceStep ==
  ASSUME HierInv, DescendToNew
  PROVE  PlaceStep
<1>1. PICK child, c, control :
        /\ child \in Fresh(Head(descent.files)) /\ c \in Contents
        /\ phase' = [phase EXCEPT ![child] = "open"]
        /\ o_undo_savestate(child, "UNDO_ALL", c, BelowParent(control), TRUE)
        /\ Descended(child, control)
  <2>1. PICK counter, control :
          /\ counter = (IF descent.page_control # 0 THEN page_control_counter
                        ELSE page_control_counter + 1)
          /\ control = (IF descent.page_control # 0 THEN descent.page_control ELSE counter)
          /\ \E child \in Fresh(Head(descent.files)), c \in Contents :
                /\ phase' = [phase EXCEPT ![child] = "open"]
                /\ o_undo_savestate(child, "UNDO_ALL", c, BelowParent(control), TRUE)
                /\ Descended(child, control)
    BY DEF DescendToNew
  <2> QED
    BY <2>1
<1>2. descent.files # <<>>
  BY DEF DescendToNew
<1>3. child \in Pages /\ phase[child] = "new"
  BY <1>1 DEF Fresh
<1>4. descent.parent \in Pages /\ phase[descent.parent] = "open"
  BY <1>2, HeadIsUsed, OpenIs DEF HierInv
<1>5. link'[child].up = descent.parent /\ \A r \in Pages \ {child} : link'[r] = link[r]
  <2>1. link'[child] = BelowParent(control) /\ \A r \in Pages \ {child} : link'[r] = link[r]
    BY <1>1, <1>3, SaveMoves
  <2> QED
    BY <2>1 DEF BelowParent
<1>7. phase'[child] = "open" /\ \A r \in Pages \ {child} : phase'[r] = phase[r]
  BY <1>1, <1>3 DEF HierInv, PagesAreGood, TypeOK
<1>8. ReachedFrom(child, descent.parent)
  BY <1>3, <1>4, <1>5, <1>7 DEF ReachedFrom, OthersStay
<1> QED
  BY <1>3, <1>4, <1>8 DEF PlaceStep

\* Down Symbol, to a page of either kind.
GoesDown(f, page) ==
  /\ FileOf[page] = f
  /\ \E c, l : l.up = page_current /\ o_undo_savestate(page, "UNDO_ALL", c, l, TRUE)
  /\ \/ page \in OpenPages /\ phase' = phase
     \/ phase[page] = "new" /\ phase' = [phase EXCEPT ![page] = "open"]

\* It reaches a page from the current one.
LEMMA SymbolIsPlaceStep ==
  ASSUME HierInv, DownSymbol, NoneIsItsOwnSymbol
  PROVE  PlaceStep
<1>1. page_current \in Pages /\ phase[page_current] = "open"
  BY CurrentIsPage DEF DownSymbol
<1>2. PICK f \in SymbolsIn[FileOf[page_current]], page \in Pages : GoesDown(f, page)
  <2>1. PICK f \in SymbolsIn[FileOf[page_current]] :
       \/ \E page \in s_page_search(f) :
            /\ o_undo_savestate(page, "UNDO_ALL", content[page],
                                [link[page] EXCEPT !.up = page_current], TRUE)
            /\ phase' = phase
       \/ \E page \in Fresh(f), c \in Contents :
            /\ phase' = [phase EXCEPT ![page] = "open"]
            /\ o_undo_savestate(page, "UNDO_ALL", c,
                   [page_control |-> page_control_counter', up |-> page_current], TRUE)
    BY DEF DownSymbol
  <2>2. \A page \in s_page_search(f) :
          /\ page \in Pages /\ FileOf[page] = f /\ page \in OpenPages
          /\ [link[page] EXCEPT !.up = page_current].up = page_current
    <3> TAKE page \in s_page_search(f)
    <3>1. page \in Pages /\ FileOf[page] = f /\ page \in OpenPages
      BY DEF s_page_search, OpenPages
    <3>2. link[page] \in Links
      BY <3>1 DEF HierInv, PagesAreGood, TypeOK
    <3> QED
      BY <3>1, <3>2, HierarchyAssumption
  <2>3. \A page \in Fresh(f) : page \in Pages /\ FileOf[page] = f /\ phase[page] = "new"
    BY DEF Fresh
  <2>4. CASE \E page \in s_page_search(f) :
            /\ o_undo_savestate(page, "UNDO_ALL", content[page],
                                [link[page] EXCEPT !.up = page_current], TRUE)
            /\ phase' = phase
    BY <2>2, <2>4 DEF GoesDown
  <2>5. CASE \E page \in Fresh(f), c \in Contents :
            /\ phase' = [phase EXCEPT ![page] = "open"]
            /\ o_undo_savestate(page, "UNDO_ALL", c,
                   [page_control |-> page_control_counter', up |-> page_current], TRUE)
    <3>1. [page_control |-> page_control_counter', up |-> page_current].up = page_current
      OBVIOUS
    <3> QED
      BY <2>3, <2>5, <3>1 DEF GoesDown
  <2> QED
    BY <2>1, <2>4, <2>5
<1>3. page # page_current
  BY <1>1, <1>2 DEF GoesDown, NoneIsItsOwnSymbol, Files
<1>4. link'[page].up = page_current /\ \A r \in Pages \ {page} : link'[r] = link[r]
  <2>1. PICK c, l : l.up = page_current /\ o_undo_savestate(page, "UNDO_ALL", c, l, TRUE)
    BY <1>2 DEF GoesDown
  <2>2. link'[page] = l /\ \A r \in Pages \ {page} : link'[r] = link[r]
    BY <2>1, SaveMoves
  <2> QED
    BY <2>1, <2>2
<1>6. page \in OpenPages => phase[page] = "open"
  BY OpenIs DEF HierInv
<1>7. /\ phase[page] # "closed" /\ phase'[page] = "open"
      /\ \A r \in Pages \ {page} : phase'[r] = phase[r]
  BY <1>2, <1>6 DEF GoesDown, HierInv, PagesAreGood, TypeOK
<1>8. ReachedFrom(page, page_current)
  BY <1>1, <1>2, <1>3, <1>4, <1>7 DEF GoesDown, ReachedFrom, OthersStay
<1> QED
  BY <1>1, <1>8 DEF PlaceStep

\* A page that is closed.
LEMMA CloseIsPlaceStep ==
  ASSUME HierInv, NEW p \in Pages, ClosePage(p)
  PROVE  PlaceStep
<1>1. LeftDesign(p)
  BY DEF ClosePage, LeftDesign, OthersStay, HierInv, PagesAreGood, TypeOK
<1> QED
  BY <1>1 DEF PlaceStep

\* Revert.
LEMMA RevertIsPlaceStep ==
  ASSUME HierInv, PageRevert
  PROVE  PlaceStep
<1> DEFINE old == page_current
<1>1. PICK new \in Pages, c \in Contents : phase[new] = "new" /\ RevertStep(old, new, c)
  BY RevertIs
<1>2. old \in Pages /\ phase[old] = "open" /\ old # new
  BY <1>1, RevertIs, CurrentIsPage
<1> HIDE DEF old
<1>3. /\ phase'[old] = "closed" /\ phase'[new] = "open"
      /\ \A q \in Pages \ {old, new} : phase'[q] = phase[q]
  BY <1>1, <1>2 DEF RevertStep, HierInv, PagesAreGood, TypeOK
<1>4. link'[new] = link[old] /\ \A q \in Pages \ {old, new} : link'[q] = link[q]
  BY <1>1, <1>2 DEF RevertStep, PlaceKept, HierInv, PagesAreGood, TypeOK
<1>6. ReplacedBy(old, new)
  BY <1>1, <1>2, <1>3, <1>4 DEF ReplacedBy, OthersStay
<1> QED
  BY <1>1, <1>2, <1>6 DEF PlaceStep

\* Every step is one of these.
LEMMA EveryPlaceStep ==
  ASSUME ~UndoControl, NoneIsItsOwnSymbol, HierInv, [HNext]_hvars
  PROVE  PlaceStep
<1>1. CASE UNCHANGED hvars
  BY <1>1, SameIsPlaceStep DEF hvars, vars, nav
<1>2. CASE \E f \in Files : Open(f)
  BY <1>2, OpenIsPlaceStep
<1>3. CASE OnCurrentPage
  BY <1>3, EditIsPlaceStep
<1>4. CASE \/ \E p \in Pages : Goto(p)
           \/ DownSchematic
           \/ DescendFails
           \/ DescentEnds
  BY <1>4, SameIsPlaceStep DEF Goto, DownSchematic, DescendFails, DescentEnds, vars
<1>5. CASE HierarchyUp
  BY <1>5, CurrentIsPage, CloseIsPlaceStep DEF HierarchyUp
<1>6. CASE \E p \in Pages : PageClose(p)
  BY <1>6, CloseIsPlaceStep DEF PageClose
<1>7. CASE DescendToLoaded \/ DescendToNew \/ DownSymbol \/ PageRevert
  BY <1>7, LoadedIsPlaceStep, NewIsPlaceStep, SymbolIsPlaceStep, RevertIsPlaceStep
<1> QED
  BY <1>1, <1>2, <1>3, <1>4, <1>5, <1>6, <1>7 DEF HNext

-----------------------------------------------------------------------------
(* What such a step keeps. *)

\* S is a set of open pages that is closed under page->up.
Closed(S) == S \in SUBSET Pages /\ \A p \in S : phase[p] = "open" /\ link[p].up \in S

\* A circle whose pages did not move was one before the step.
LEMMA ClosedBefore ==
  ASSUME NEW S, Closed(S)', NEW P, OthersStay(P), S \cap P = {}
  PROVE  Closed(S)
  BY DEF Closed, OthersStay

\* No page is below one that is not loaded yet, and none below a symbol without components.
LEMMA NobodyBelow ==
  ASSUME HierInv, NEW p \in Pages,
         \/ phase[p] = "new"
         \/ SymbolsAreLeaves /\ \E f \in Files : FileOf[p] \in SymbolsIn[f]
  PROVE  \A r \in Pages : link[r].up # p
<1> SUFFICES ASSUME NEW r \in Pages, link[r].up = p
             PROVE  FALSE
  OBVIOUS
<1>1. phase[p] # "new" /\ UsedBy(FileOf[r], FileOf[p])
  BY DEF HierInv, PagesAreGood, PlacesAreGood, GoodPlace
<1> QED
  BY <1>1 DEF SymbolsAreLeaves, Files

\* A page that is reached closes no circle: there is none through a page that nobody is
\* below, and one through a page that was loaded has that page above the one it is
\* reached from.
LEMMA ReachedNoCircle ==
  ASSUME SymbolsAreLeaves, HierInv, NoCircle, NEW p \in Pages, NEW q \in Pages,
         ReachedFrom(p, q), NEW S, Closed(S)', p \in S
  PROVE  FALSE
<1>1. S \in SUBSET Pages /\ q \in S
  BY DEF Closed, ReachedFrom
<1>2. \A r \in S \ {p} : phase[r] = "open" /\ link[r].up \in S
  BY DEF Closed, ReachedFrom, OthersStay
<1>3. CASE phase[p] = "open" /\ ~InParentsList(p, q)
  <2>1. PagesListed /\ q \in OpenPages
    BY OpenIs DEF HierInv, ReachedFrom
  <2>2. \A r \in S : phase[r] = "open"
    BY <1>2, <1>3
  <2>3. \A r \in S : r # p => link[r].up \in S
    BY <1>2
  <2> QED
    BY <1>1, <1>3, <2>1, <2>2, <2>3, CircleIsAbove
<1>4. CASE phase[p] = "new" \/ FileOf[p] \in SymbolsIn[FileOf[q]]
  <2>1. \A r \in Pages : link[r].up # p
    BY <1>4, NobodyBelow DEF Files
  <2>2. \A r \in S \ {p} : phase[r] = "open" /\ link[r].up \in S \ {p}
    BY <1>1, <1>2, <2>1
  <2>3. S \ {p} = {}
    BY <1>1, <2>2 DEF NoCircle
  <2> QED
    BY <1>1, <2>3 DEF ReachedFrom
<1> QED
  BY <1>3, <1>4 DEF ReachedFrom

\* Nor does one that takes the place of another.
LEMMA ReplacedNoCircle ==
  ASSUME HierInv, NoCircle, NEW old \in Pages, NEW new \in Pages,
         ReplacedBy(old, new), NEW S, Closed(S)', new \in S
  PROVE  FALSE
<1>1. S \in SUBSET Pages /\ link[old].up \in S
  BY DEF Closed, ReplacedBy
<1>2. old \notin S
  BY DEF Closed, ReplacedBy
<1>3. \A r \in S \ {new} : phase[r] = "open" /\ link[r].up \in S
  BY <1>2 DEF Closed, ReplacedBy, OthersStay
<1>4. \A r \in Pages : link[r].up # new
  BY NobodyBelow DEF ReplacedBy
<1>5. \A r \in S \ {new} : phase[r] = "open" /\ link[r].up \in S \ {new}
  BY <1>1, <1>3, <1>4
<1>6. S \ {new} = {}
  BY <1>1, <1>5 DEF NoCircle
<1> QED
  BY <1>1, <1>4, <1>6

\* So no circle comes to be.
LEMMA NoCircleNext ==
  ASSUME SymbolsAreLeaves, HierInv, NoCircle, PlaceStep
  PROVE  NoCircle'
<1>1. ASSUME NEW S \in SUBSET Pages, Closed(S)
      PROVE  S = {}
  BY <1>1 DEF NoCircle, Closed
<1> SUFFICES ASSUME NEW S \in SUBSET Pages, Closed(S)'
             PROVE  S = {}
  BY DEF NoCircle, Closed
<1>2. ASSUME NEW P, OthersStay(P), S \cap P = {}
      PROVE  S = {}
  BY <1>1, <1>2, ClosedBefore
<1>3. CASE OthersStay({})
  BY <1>2, <1>3
<1>4. ASSUME NEW p \in Pages, OpenedAtTop(p)
      PROVE  S = {}
  <2>1. p \notin S
    BY <1>4, HierarchyAssumption DEF OpenedAtTop, Closed
  <2> QED
    BY <1>2, <1>4, <2>1 DEF OpenedAtTop
<1>5. ASSUME NEW p \in Pages, NEW q \in Pages, ReachedFrom(p, q)
      PROVE  S = {}
  <2>1. p \notin S
    BY <1>5, ReachedNoCircle
  <2> QED
    BY <1>2, <1>5, <2>1 DEF ReachedFrom
<1>6. ASSUME NEW p \in Pages, LeftDesign(p)
      PROVE  S = {}
  <2>1. p \notin S
    BY <1>6 DEF LeftDesign, Closed
  <2> QED
    BY <1>2, <1>6, <2>1 DEF LeftDesign
<1>7. ASSUME NEW old \in Pages, NEW new \in Pages, ReplacedBy(old, new)
      PROVE  S = {}
  <2>1. new \notin S
    BY <1>7, ReplacedNoCircle
  <2>2. old \notin S
    BY <1>7 DEF ReplacedBy, Closed
  <2> QED
    BY <1>2, <1>7, <2>1, <2>2 DEF ReplacedBy
<1> QED
  BY <1>3, <1>4, <1>5, <1>6, <1>7 DEF PlaceStep

-----------------------------------------------------------------------------
(* The hierarchy stays a hierarchy. *)

\* A symbol without components is not part of itself.
LEMMA LeavesAreNotTheirOwn == SymbolsAreLeaves => NoneIsItsOwnSymbol
  BY DEF SymbolsAreLeaves, NoneIsItsOwnSymbol, UsedBy

\* At the start no page is anywhere.
LEMMA PlacesInit == HInit => NoCircle
<1>1. HInit => \A p \in Pages : phase[p] = "new"
  BY DEF HInit, Init
<1> QED
  BY <1>1 DEF NoCircle

\* Without undo and with nothing below a symbol, no circle comes to be.
LEMMA NoCircleAlways ==
  ~UndoControl /\ SymbolsAreLeaves => (HSpec => [](HierInv /\ NoCircle))
<1> SUFFICES ASSUME ~UndoControl, SymbolsAreLeaves
             PROVE  HSpec => [](HierInv /\ NoCircle)
  OBVIOUS
<1>1. HInit => NoCircle
  BY PlacesInit
<1>2. HierInv /\ NoCircle /\ [HNext]_hvars => NoCircle'
  BY LeavesAreNotTheirOwn, EveryPlaceStep, NoCircleNext
<1>3. HSpec => []HierInv
  BY LeavesAreNotTheirOwn, HierAlways
<1> QED
  BY <1>1, <1>2, <1>3, PTL DEF HSpec

\* In a design of any shape, circular source= attributes included, every walk up the
\* hierarchy ends, because Down Schematic reaches no page above the one it starts from:
\* with undo disabled, and as long as symbols have no components (Down Symbol does not look).
THEOREM CircularDesignsAreCut ==
  ~UndoControl /\ SymbolsAreLeaves => (HSpec => []HierarchyHasNoCycle)
<1> SUFFICES ASSUME ~UndoControl, SymbolsAreLeaves
             PROVE  HSpec => []HierarchyHasNoCycle
  OBVIOUS
<1>1. HierInv /\ NoCircle => HierarchyHasNoCycle
  BY WalksEnd DEF HierInv, HierarchyHasNoCycle
<1> QED
  BY <1>1, NoCircleAlways, PTL

\* Among any files of the design is one that none of them uses.
DesignHasNoCircle ==
  \A F \in SUBSET Files : F # {} => \E f \in F : \A g \in F : ~UsedBy(f, g)

\* In such a design no symbol is part of itself,
LEMMA SoundDesign == DesignHasNoCircle => NoneIsItsOwnSymbol
<1> SUFFICES ASSUME DesignHasNoCircle, NEW f \in Files, f \in SymbolsIn[f]
             PROVE  FALSE
  BY DEF NoneIsItsOwnSymbol
<1>1. {f} \in SUBSET Files /\ {f} # {}
  OBVIOUS
<1>2. UsedBy(f, f)
  BY DEF UsedBy
<1> QED
  BY <1>1, <1>2 DEF DesignHasNoCircle

\* and pages at good places form no circle.
LEMMA GoodPlacesNoCircle ==
  ASSUME DesignHasNoCircle, HierInv
  PROVE  NoCircle
<1> SUFFICES ASSUME NEW S \in SUBSET Pages, S # {},
                    \A p \in S : phase[p] = "open" /\ link[p].up \in S
             PROVE  FALSE
  BY DEF NoCircle
<1> DEFINE F == {FileOf[p] : p \in S}
<1>1. F \in SUBSET Files /\ F # {}
  BY DEF Files
<1>2. ASSUME NEW f \in F
      PROVE  \E g \in F : UsedBy(f, g)
  <2>1. PICK p \in S : f = FileOf[p]
    OBVIOUS
  <2>2. link[p].up \in S /\ GoodPlace(p, link[p])
    BY DEF HierInv, PagesAreGood, PlacesAreGood
  <2>3. UsedBy(FileOf[p], FileOf[link[p].up]) /\ FileOf[link[p].up] \in F
    BY <2>2 DEF GoodPlace
  <2> QED
    BY <2>1, <2>3
<1> HIDE DEF F
<1> QED
  BY <1>1, <1>2 DEF DesignHasNoCircle

\* In a design without circles every walk up the hierarchy ends, with undo and redo
\* restoring old places too.
THEOREM SoundDesignsStaySound ==
  DesignHasNoCircle => (HSpec => []HierarchyHasNoCycle)
<1> SUFFICES ASSUME DesignHasNoCircle
             PROVE  HSpec => []HierarchyHasNoCycle
  OBVIOUS
<1>1. HierInv => HierarchyHasNoCycle
  <2> SUFFICES ASSUME HierInv
               PROVE  HierarchyHasNoCycle
    OBVIOUS
  <2>1. NoCircle /\ PagesListed
    BY GoodPlacesNoCircle DEF HierInv
  <2> QED
    BY <2>1, WalksEnd DEF HierarchyHasNoCycle
<1>2. HSpec => []HierInv
  BY SoundDesign, HierAlways
<1> QED
  BY <1>1, <1>2, PTL

-----------------------------------------------------------------------------
(* Siblings. *)

\* A file is named by one source= list only.
ListsAreDisjoint ==
  \A g, h \in Files : \A fs \in SourcesIn[g] : \A gs \in SourcesIn[h] :
    \A i \in DOMAIN fs : \A j \in DOMAIN gs : fs[i] = gs[j] => fs = gs

\* Two files are the same, or of one list.
Related(f, g) == f = g \/ InOneList(f, g)

\* This is an equivalence.
LEMMA RelatedIs ==
  ASSUME ListsAreDisjoint, NEW f, NEW g, NEW h, Related(f, g), Related(g, h)
  PROVE  Related(f, h) /\ Related(g, f)
<1>1. Related(g, f)
  BY DEF Related, InOneList
<1>2. CASE f = g \/ g = h
  BY <1>1, <1>2
<1>3. CASE InOneList(f, g) /\ InOneList(g, h)
  <2>1. PICK a \in Files : \E fs \in SourcesIn[a] : \E i, j \in DOMAIN fs : fs[i] = f /\ fs[j] = g
    BY <1>3 DEF InOneList
  <2>2. PICK fs \in SourcesIn[a] : \E i, j \in DOMAIN fs : fs[i] = f /\ fs[j] = g
    BY <2>1
  <2>3. PICK b \in Files : \E gs \in SourcesIn[b] : \E i, j \in DOMAIN gs : gs[i] = g /\ gs[j] = h
    BY <1>3 DEF InOneList
  <2>4. PICK gs \in SourcesIn[b] : \E i, j \in DOMAIN gs : gs[i] = g /\ gs[j] = h
    BY <2>3
  <2>5. fs = gs
    BY <2>2, <2>4 DEF ListsAreDisjoint
  <2>6. InOneList(f, h)
    BY <2>2, <2>4, <2>5 DEF InOneList
  <2> QED
    BY <1>1, <2>6 DEF Related
<1> QED
  BY <1>1, <1>2, <1>3 DEF Related

\* Page p has page_control c, or a node of its undo list gives it back.
IsAt(p, c) ==
  \/ link[p].page_control = c
  \/ \E i \in DOMAIN undo[p] : undo[p][i].link.page_control = c

\* A page_control that was given out is that of the pages of one list.
ControlsAreGood ==
  /\ \A p \in Pages : \A c : IsAt(p, c) => c <= page_control_counter
  /\ \A p, q \in Pages : \A c :
       IsAt(p, c) /\ IsAt(q, c) => c = 0 \/ Related(FileOf[p], FileOf[q])

\* Pages at c are of the list that is descended.
AtOneList(c) ==
  \A p \in Pages : IsAt(p, c) => \A i \in DOMAIN descent.files : Related(FileOf[p], descent.files[i])

\* The files that are left of a descent are of one list, and so are those that were reached.
DescentIsOneList ==
  /\ \A i, j \in DOMAIN descent.files : Related(descent.files[i], descent.files[j])
  /\ descent.page_control <= page_control_counter
  /\ descent.page_control # 0 => AtOneList(descent.page_control)

\* A step gives no page a page_control that is new to it, except p the one c.
Reaches(p, c) ==
  \A q \in Pages : \A x : IsAt(q, x)' => x = 0 \/ IsAt(q, x) \/ (q = p /\ x = c)

\* Nothing but c, which is p's or of pages that p is related to, keeps this.
LEMMA ReachKeeps ==
  ASSUME HierInv, HierInv', ControlsAreGood, NEW p \in Pages, NEW c, Reaches(p, c),
         page_control_counter <= page_control_counter', c <= page_control_counter',
         ListsAreDisjoint,
         c # 0 => \A q \in Pages : IsAt(q, c) => Related(FileOf[p], FileOf[q])
  PROVE  ControlsAreGood'
<1>0. page_control_counter \in Nat /\ page_control_counter' \in Nat
  BY HierarchyAssumption DEF HierInv, NavType
<1>5. \A q \in Pages : \A x : IsAt(q, x) \/ IsAt(q, x)' => x \in Nat
  <2>1. \A l \in Links : l.page_control \in Nat
    BY HierarchyAssumption
  <2>2. \A s \in Seq(Node) : \A i \in DOMAIN s : s[i].link \in Links
    <3>1. \A s \in Seq(Node) : \A i \in DOMAIN s : s[i] \in Node
      OBVIOUS
    <3> QED
      BY <3>1 DEF Node
  <2>3. \A q \in Pages : /\ link[q] \in Links /\ undo[q] \in Seq(Node)
                         /\ link'[q] \in Links /\ undo'[q] \in Seq(Node)
    BY DEF HierInv, PagesAreGood, TypeOK
  <2> QED
    BY <2>1, <2>2, <2>3 DEF IsAt
<1>1. ASSUME NEW q \in Pages, NEW x, IsAt(q, x)'
      PROVE  x <= page_control_counter'
  <2>1. x = 0 \/ IsAt(q, x) \/ x = c
    BY <1>1 DEF Reaches
  <2>2. IsAt(q, x) => x <= page_control_counter
    BY DEF ControlsAreGood
  <2>3. x \in Nat
    BY <1>1, <1>5
  <2> QED
    BY <1>0, <2>1, <2>2, <2>3
<1>2. ASSUME NEW q \in Pages, NEW r \in Pages, NEW x, IsAt(q, x)', IsAt(r, x)', x # 0
      PROVE  Related(FileOf[q], FileOf[r])
  <2>1. IsAt(q, x) \/ (q = p /\ x = c)
    BY <1>2 DEF Reaches
  <2>2. IsAt(r, x) \/ (r = p /\ x = c)
    BY <1>2 DEF Reaches
  <2>3. \A f : Related(f, f)
    BY DEF Related
  <2>4. \A f, g : Related(f, g) => Related(g, f)
    BY DEF Related, InOneList
  <2> QED
    BY <1>2, <2>1, <2>2, <2>3, <2>4 DEF ControlsAreGood
<1> QED
  BY <1>1, <1>2 DEF ControlsAreGood, Related, InOneList

\* A page that is placed at l reaches its page_control.
LEMMA PlaceReaches ==
  ASSUME NEW p \in Pages, NEW l, PlaceIs(p, l)
  PROVE  Reaches(p, l.page_control)
  BY DEF PlaceIs, Reaches, IsAt

\* A handler that saves page p at place l lets it reach that one.
LEMMA SaveReaches ==
  ASSUME HierInv, NEW p \in Pages, NEW flag \in NodeType, NEW c \in Contents,
         NEW l \in Links, NEW w \in Written, o_undo_savestate(p, flag, c, l, w)
  PROVE  Reaches(p, l.page_control)
<1>1. TypeOK /\ Saveable(flag, c, l, w)
  BY DEF HierInv, PagesAreGood, Saveable
<1> QED
  BY <1>1, SavePlaces, PlaceReaches

\* A page at the control it has or had.
LEMMA OwnControl ==
  ASSUME HierInv, HierInv', ControlsAreGood, ListsAreDisjoint, NEW p \in Pages, NEW c,
         Reaches(p, c), c = 0 \/ IsAt(p, c), page_control_counter' = page_control_counter
  PROVE  ControlsAreGood'
<1>1. page_control_counter \in Nat
  BY HierarchyAssumption DEF HierInv, NavType
<1>2. c <= page_control_counter
  BY <1>1 DEF ControlsAreGood
<1>3. c # 0 => \A q \in Pages : IsAt(q, c) => Related(FileOf[p], FileOf[q])
  BY DEF ControlsAreGood
<1> QED
  BY <1>1, <1>2, <1>3, ReachKeeps

\* A step that moves no page.
LEMMA NothingMoves ==
  ASSUME ControlsAreGood, UNCHANGED <<link, undo, page_control_counter>>
  PROVE  ControlsAreGood'
  BY DEF ControlsAreGood, IsAt

\* Between two commands there is no list.
LEMMA NoList ==
  ASSUME HierInv', descent' = Idle
  PROVE  DescentIsOneList'
<1>1. descent'.files = <<>> /\ descent'.page_control = 0
  BY DEF Idle
<1>2. DOMAIN descent'.files = {}
  BY <1>1
<1>3. page_control_counter' \in Nat
  BY HierarchyAssumption DEF HierInv, NavType
<1> QED
  BY <1>1, <1>2, <1>3 DEF DescentIsOneList

SiblingInv == ControlsAreGood /\ DescentIsOneList

\* The commands on the current page.
LEMMA EditKeepsControls ==
  ASSUME HierInv, HierInv', ControlsAreGood, ListsAreDisjoint, OnCurrentPage
  PROVE  ControlsAreGood'
<1> DEFINE p == page_current
<1>1. p \in Pages /\ EditStep(p) /\ page_control_counter' = page_control_counter
  BY CurrentIsPage DEF OnCurrentPage, EditStep, nav
<1> HIDE DEF p
<1>2. phase[p] = "open"
  BY <1>1, EditStays
<1>3. content[p] \in Contents /\ link[p] \in Links /\ TypeOK
  BY <1>1, <1>2 DEF HierInv, PagesAreGood, PagesHaveContents, TypeOK
<1>4. IsAt(p, link[p].page_control)
  BY DEF IsAt
<1>5. ASSUME NEW flag \in NodeType, NEW c \in Contents, NEW w \in Written,
             o_undo_savestate(p, flag, c, link[p], w)
      PROVE  ControlsAreGood'
  BY <1>1, <1>3, <1>4, <1>5, SaveReaches, OwnControl
<1>6. ASSUME NEW t \in DOMAIN undo[p], undo_current[p] # 0, o_undo_callback(p, t)
      PROVE  ControlsAreGood'
  <2>1. PlaceIs(p, undo[p][t].link)
    BY <1>1, <1>3, <1>6, CallbackPlaces
  <2>2. Reaches(p, undo[p][t].link.page_control)
    BY <1>1, <2>1, PlaceReaches
  <2>3. IsAt(p, undo[p][t].link.page_control)
    BY DEF IsAt
  <2> QED
    BY <1>1, <2>2, <2>3, OwnControl
<1>7. CASE EditPage(p)
  <2>1. PICK c \in Contents, w \in Written : o_undo_savestate(p, "UNDO_ALL", c, link[p], w)
    BY <1>7 DEF EditPage
  <2> QED
    BY <1>5, <2>1 DEF NodeType
<1>8. CASE PanZoom(p)
  BY <1>3, <1>5, <1>8 DEF PanZoom, NodeType, Written
<1>9. CASE EditUndo(p)
  <2>1. undo_current[p] # 0
    BY <1>1, <1>9 DEF EditUndo, HierInv, PagesAreGood, TypeOK
  <2> QED
    BY <1>6, <1>9, <2>1 DEF EditUndo
<1>10. CASE EditRedo(p)
  BY <1>6, <1>10 DEF EditRedo
<1> QED
  BY <1>1, <1>7, <1>8, <1>9, <1>10 DEF EditStep

\* A page that is opened at the top, or closed.
LEMMA TopKeepsControls ==
  ASSUME HierInv, HierInv', ControlsAreGood, ListsAreDisjoint, NEW p \in Pages,
         OpenPage(p) \/ ClosePage(p), page_control_counter' = page_control_counter
  PROVE  ControlsAreGood'
<1>1. Reaches(p, NoLink.page_control)
  <2>1. CASE OpenPage(p)
    <3>1. PICK c \in Contents, w \in Written : o_undo_savestate(p, "UNDO_ALL", c, NoLink, w)
      BY <2>1 DEF OpenPage
    <3> QED
      BY <3>1, SaveReaches, ConstantsAssumption DEF NodeType
  <2>2. CASE ClosePage(p)
    <3>1. PlaceIs(p, NoLink)
      BY <2>2 DEF ClosePage, PlaceIs, HierInv, PagesAreGood, TypeOK
    <3> QED
      BY <3>1, PlaceReaches
  <2> QED
    BY <2>1, <2>2
<1>2. NoLink.page_control = 0
  BY HierarchyAssumption
<1> QED
  BY <1>1, <1>2, OwnControl

\* What is left after a round of Down Schematic.
LEMMA TailKeepsList ==
  ASSUME HierInv, DescentIsOneList, descent.files # <<>>, descent'.files = Tail(descent.files)
  PROVE  /\ \A i, j \in DOMAIN descent'.files : Related(descent'.files[i], descent'.files[j])
         /\ \A i \in DOMAIN descent'.files :
              /\ Related(Head(descent.files), descent'.files[i])
              /\ \E j \in DOMAIN descent.files : descent'.files[i] = descent.files[j]
<1>1. descent.files \in Seq(SourceNames)
  BY DEF HierInv, DescentOK, DescentType
<1>2. /\ Head(descent.files) = descent.files[1] /\ 1 \in DOMAIN descent.files
      /\ \A i \in DOMAIN descent'.files :
           i + 1 \in DOMAIN descent.files /\ descent'.files[i] = descent.files[i + 1]
  BY <1>1, TailIs
<1> QED
  BY <1>2 DEF DescentIsOneList

\* A page that is reached joins the pages of its list.
LEMMA RoundKeepsControls ==
  ASSUME HierInv, HierInv', SiblingInv, ListsAreDisjoint, descent.files # <<>>,
         NEW p \in Pages, FileOf[p] = Head(descent.files), NEW c,
         Descended(p, c), Reaches(p, c), c <= page_control_counter',
         page_control_counter <= page_control_counter',
         c # 0 => \A q \in Pages : IsAt(q, c) => Related(FileOf[q], FileOf[p])
  PROVE  SiblingInv'
<1>1. /\ descent'.files = Tail(descent.files) /\ descent'.page_control = c
  BY DEF Descended, HierInv, DescentOK, DescentType
<1>2. /\ \A i, j \in DOMAIN descent'.files : Related(descent'.files[i], descent'.files[j])
      /\ \A i \in DOMAIN descent'.files : Related(FileOf[p], descent'.files[i])
  BY <1>1, TailKeepsList DEF SiblingInv
<1>3. c # 0 => \A q \in Pages : IsAt(q, c) => Related(FileOf[p], FileOf[q])
  BY DEF Related, InOneList
<1>4. ControlsAreGood'
  BY <1>3, ReachKeeps DEF SiblingInv
<1>5. ASSUME c # 0, NEW q \in Pages, IsAt(q, c)', NEW i \in DOMAIN descent'.files
      PROVE  Related(FileOf[q], descent'.files[i])
  <2>1. q = p \/ IsAt(q, c)
    BY <1>5 DEF Reaches
  <2>2. Related(FileOf[q], FileOf[p])
    BY <1>5, <2>1 DEF Related
  <2>3. Related(FileOf[p], descent'.files[i])
    BY <1>2, <1>5
  <2> QED
    BY <2>2, <2>3, RelatedIs
<1>7. c # 0 => AtOneList(c)'
  BY <1>5 DEF AtOneList, Related, InOneList
<1>8. (\A i, j \in DOMAIN descent.files : Related(descent.files[i], descent.files[j]))'
  BY <1>2 DEF Related, InOneList
<1>6. DescentIsOneList'
  BY <1>1, <1>7, <1>8 DEF DescentIsOneList, AtOneList
<1> QED
  BY <1>4, <1>6 DEF SiblingInv

\* Pages at the page_control of the descent are related to the file it comes to.
LEMMA HeadIsRelated ==
  ASSUME HierInv, DescentIsOneList, descent.files # <<>>, descent.page_control # 0,
         NEW q \in Pages, IsAt(q, descent.page_control)
  PROVE  Related(FileOf[q], Head(descent.files))
<1>1. descent.files \in Seq(SourceNames)
  BY DEF HierInv, DescentOK, DescentType
<1>2. Head(descent.files) = descent.files[1] /\ 1 \in DOMAIN descent.files
  BY <1>1, TailIs
<1> QED
  BY <1>2 DEF DescentIsOneList, AtOneList

\* A round of Down Schematic to a page that is loaded.
LEMMA LoadedKeepsControls ==
  ASSUME HierInv, HierInv', SiblingInv, ListsAreDisjoint, DescendToLoaded
  PROVE  SiblingInv'
<1>1. PICK found, control :
        /\ found \in s_page_search(Head(descent.files))
        /\ ~InParentsList(found, descent.parent)
        /\ control = LoadedControl(found)
        /\ o_undo_savestate(found, "UNDO_ALL", content[found], BelowParent(control), TRUE)
        /\ Descended(found, control)
  BY DEF DescendToLoaded
<1>2. descent.files # <<>> /\ page_control_counter' = page_control_counter
  BY DEF DescendToLoaded
<1>3. found \in Pages /\ FileOf[found] = Head(descent.files) /\ phase[found] = "open"
  BY <1>1, OpenIs DEF s_page_search, OpenPages, HierInv
<1>4. content[found] \in Contents /\ link[found] \in Links
  BY <1>3 DEF HierInv, PagesAreGood, PagesHaveContents, TypeOK
<1>5. control \in 0 .. MaxControl
  BY <1>1, <1>2, <1>4, HeadIsUsed, HierarchyAssumption DEF LoadedControl
<1>6. found # descent.parent
  BY <1>1, NotInParents
<1>7. BelowParent(control) \in Links
  BY <1>2, <1>3, <1>5, <1>6, BelowParentIs
<1>8. BelowParent(control).page_control = control
  BY DEF BelowParent
<1>9. Reaches(found, control)
  <2>1. "UNDO_ALL" \in NodeType /\ TRUE \in Written
    BY DEF NodeType, Written
  <2> QED
    BY <1>1, <1>3, <1>4, <1>7, <1>8, <2>1, SaveReaches
<1>10. page_control_counter \in Nat
  BY HierarchyAssumption DEF HierInv, NavType
<1>11. CASE descent.page_control # 0
  <2>1. control = descent.page_control
    BY <1>1, <1>11 DEF LoadedControl
  <2>2. control <= page_control_counter'
    BY <1>2, <2>1 DEF SiblingInv, DescentIsOneList
  <2>3. \A q \in Pages : IsAt(q, control) => Related(FileOf[q], FileOf[found])
    BY <1>2, <1>3, <1>11, <2>1, HeadIsRelated DEF SiblingInv
  <2> QED
    BY <1>1, <1>2, <1>3, <1>9, <1>10, <2>2, <2>3, RoundKeepsControls
<1>12. CASE descent.page_control = 0
  <2>1. IsAt(found, control)
    BY <1>1, <1>12 DEF LoadedControl, IsAt
  <2>2. control <= page_control_counter'
    BY <1>2, <1>3, <2>1 DEF SiblingInv, ControlsAreGood
  <2>3. control # 0 => \A q \in Pages : IsAt(q, control) => Related(FileOf[q], FileOf[found])
    BY <1>3, <2>1 DEF SiblingInv, ControlsAreGood
  <2> QED
    BY <1>1, <1>2, <1>3, <1>9, <1>10, <2>2, <2>3, RoundKeepsControls
<1> QED
  BY <1>11, <1>12

\* A round that loads a page.
LEMMA NewKeepsControls ==
  ASSUME HierInv, HierInv', SiblingInv, ListsAreDisjoint, DescendToNew
  PROVE  SiblingInv'
<1>1. PICK counter, control :
        /\ counter = (IF descent.page_control # 0 THEN page_control_counter
                      ELSE page_control_counter + 1)
        /\ control = (IF descent.page_control # 0 THEN descent.page_control ELSE counter)
        /\ control <= MaxControl
        /\ \E child \in Fresh(Head(descent.files)), c \in Contents :
              /\ o_undo_savestate(child, "UNDO_ALL", c, BelowParent(control), TRUE)
              /\ Descended(child, control)
        /\ page_control_counter' = counter
  BY DEF DescendToNew
<1>2. PICK child \in Fresh(Head(descent.files)), c \in Contents :
        /\ o_undo_savestate(child, "UNDO_ALL", c, BelowParent(control), TRUE)
        /\ Descended(child, control)
  BY <1>1
<1>3. descent.files # <<>>
  BY DEF DescendToNew
<1>4. child \in Pages /\ FileOf[child] = Head(descent.files) /\ phase[child] = "new"
  BY DEF Fresh
<1>5. control \in 0 .. MaxControl /\ page_control_counter \in Nat
  BY <1>1, <1>3, HeadIsUsed, HierarchyAssumption DEF HierInv, NavType
<1>6. child # descent.parent
  BY <1>3, <1>4, HeadIsUsed, OpenIs DEF HierInv
<1>7. BelowParent(control) \in Links
  BY <1>3, <1>4, <1>5, <1>6, BelowParentIs
<1>8. BelowParent(control).page_control = control
  BY DEF BelowParent
<1>9. Reaches(child, control)
  <2>1. "UNDO_ALL" \in NodeType /\ TRUE \in Written
    BY DEF NodeType, Written
  <2> QED
    BY <1>2, <1>4, <1>7, <1>8, <2>1, SaveReaches
<1>10. CASE descent.page_control # 0
  <2>1. control = descent.page_control /\ page_control_counter' = page_control_counter
    BY <1>1, <1>10
  <2>2. control <= page_control_counter'
    BY <2>1 DEF SiblingInv, DescentIsOneList
  <2>3. \A q \in Pages : IsAt(q, control) => Related(FileOf[q], FileOf[child])
    BY <1>3, <1>4, <1>10, <2>1, HeadIsRelated DEF SiblingInv
  <2> QED
    BY <1>2, <1>3, <1>4, <1>5, <1>9, <2>1, <2>2, <2>3, RoundKeepsControls
<1>11. CASE descent.page_control = 0
  <2>1. control = page_control_counter + 1 /\ page_control_counter' = control
    BY <1>1, <1>11
  <2>2. \A q \in Pages : ~IsAt(q, control)
    BY <1>5, <2>1 DEF SiblingInv, ControlsAreGood
  <2>3. control <= page_control_counter' /\ page_control_counter <= page_control_counter'
    BY <1>5, <2>1
  <2> QED
    BY <1>2, <1>3, <1>4, <1>9, <2>2, <2>3, RoundKeepsControls
<1> QED
  BY <1>10, <1>11

\* Down Symbol.
LEMMA SymbolKeepsControls ==
  ASSUME HierInv, HierInv', ControlsAreGood, ListsAreDisjoint, DownSymbol
  PROVE  ControlsAreGood'
<1>1. page_current \in Pages
  BY CurrentIsPage DEF DownSymbol
<1>2. page_control_counter \in Nat
  BY HierarchyAssumption DEF HierInv, NavType
<1>3. "UNDO_ALL" \in NodeType /\ TRUE \in Written
  BY DEF NodeType, Written
<1>4. PICK f \in SymbolsIn[FileOf[page_current]] :
       \/ \E page \in s_page_search(f) :
            /\ o_undo_savestate(page, "UNDO_ALL", content[page],
                                [link[page] EXCEPT !.up = page_current], TRUE)
            /\ page_control_counter' = page_control_counter
       \/ \E page \in Fresh(f), c \in Contents :
            /\ page_control_counter < MaxControl
            /\ page_control_counter' = page_control_counter + 1
            /\ o_undo_savestate(page, "UNDO_ALL", c,
                   [page_control |-> page_control_counter', up |-> page_current], TRUE)
  BY DEF DownSymbol
<1>5. ASSUME NEW page \in s_page_search(f),
             o_undo_savestate(page, "UNDO_ALL", content[page],
                              [link[page] EXCEPT !.up = page_current], TRUE),
             page_control_counter' = page_control_counter
      PROVE  ControlsAreGood'
  <2> DEFINE l == [link[page] EXCEPT !.up = page_current]
  <2>1. page \in Pages /\ phase[page] = "open"
    BY OpenIs DEF s_page_search, OpenPages, HierInv
  <2>2. content[page] \in Contents /\ link[page] \in Links
    BY <2>1 DEF HierInv, PagesAreGood, PagesHaveContents, TypeOK
  <2>3. l \in Links /\ l.page_control = link[page].page_control
    BY <1>1, <2>2, HierarchyAssumption
  <2> HIDE DEF l
  <2>4. Reaches(page, link[page].page_control)
    BY <1>3, <1>5, <2>1, <2>2, <2>3, SaveReaches DEF l
  <2>5. IsAt(page, link[page].page_control)
    BY DEF IsAt
  <2> QED
    BY <1>5, <2>1, <2>4, <2>5, OwnControl
<1>6. ASSUME NEW page \in Fresh(f), NEW c \in Contents,
             page_control_counter < MaxControl,
             page_control_counter' = page_control_counter + 1,
             o_undo_savestate(page, "UNDO_ALL", c,
                   [page_control |-> page_control_counter', up |-> page_current], TRUE)
      PROVE  ControlsAreGood'
  <2> DEFINE l == [page_control |-> page_control_counter', up |-> page_current]
  <2>1. page \in Pages
    BY DEF Fresh
  <2>2. page_control_counter' \in 0 .. MaxControl
    BY <1>2, <1>6, HierarchyAssumption
  <2>3. l \in Links /\ l.page_control = page_control_counter'
    BY <1>1, <2>2, HierarchyAssumption
  <2> HIDE DEF l
  <2>4. Reaches(page, page_control_counter')
    BY <1>3, <1>6, <2>1, <2>3, SaveReaches DEF l
  <2>5. \A q \in Pages : ~IsAt(q, page_control_counter')
    BY <1>2, <1>6 DEF ControlsAreGood
  <2>6. page_control_counter <= page_control_counter' /\ page_control_counter' <= page_control_counter'
    BY <1>2, <1>6
  <2> QED
    BY <2>1, <2>4, <2>5, <2>6, ReachKeeps
<1> QED
  BY <1>4, <1>5, <1>6

\* Revert.
LEMMA RevertKeepsControls ==
  ASSUME HierInv, HierInv', ControlsAreGood, ListsAreDisjoint, PageRevert
  PROVE  ControlsAreGood'
<1>0. PICK old \in Pages : old = page_current
  BY RevertIs, CurrentIsPage
<1>1. PICK new \in Pages, c \in Contents :
        /\ FileOf[new] = FileOf[old] /\ phase[new] = "new"
        /\ RevertStep(old, new, c)
  BY <1>0, RevertIs
<1>2. phase[old] = "open" /\ old # new
  BY <1>0, <1>1, RevertIs, CurrentIsPage
<1>3. TypeOK /\ page_control_counter \in Nat
  BY HierarchyAssumption DEF HierInv, PagesAreGood, NavType
<1>4. /\ undo'[old] = <<>> \/ undo'[old] = undo[old]
      /\ undo'[new] = undo[new] \/ (Len(undo'[new]) = 1 /\ undo'[new][1].link = NoLink)
      /\ \A q \in Pages \ {old, new} : undo'[q] = undo[q]
      /\ undo' \in [Pages -> Seq(Node)]
  BY <1>1, <1>2, <1>3, RevertedTypes DEF RevertStep
<1>5. /\ link'[old] = NoLink /\ link'[new] = link[old]
      /\ \A q \in Pages \ {old, new} : link'[q] = link[q]
  BY <1>1, <1>2, <1>3 DEF RevertStep, PlaceKept, TypeOK
<1>6. page_control_counter' = page_control_counter
  BY <1>1 DEF RevertStep
<1>7. NoLink.page_control = 0
  BY HierarchyAssumption
<1>8. Len(undo'[new]) = 1 => DOMAIN undo'[new] = {1}
  <2>1. undo'[new] \in Seq(Node)
    BY <1>4
  <2> QED
    BY <2>1
<1>9. DOMAIN <<>> = {}
  OBVIOUS
<1>17. \A i \in DOMAIN undo'[old] : i \in DOMAIN undo[old] /\ undo'[old][i] = undo[old][i]
  BY <1>4, <1>9
<1>10. \A x : IsAt(old, x)' => x = 0 \/ IsAt(old, x)
  BY <1>5, <1>7, <1>17 DEF IsAt
<1>11. \A x : IsAt(new, x)' => x = 0 \/ IsAt(new, x) \/ x = link[old].page_control
  BY <1>4, <1>5, <1>7, <1>8 DEF IsAt
<1>12. \A q \in Pages \ {old, new} : \A x : IsAt(q, x)' => IsAt(q, x)
  BY <1>4, <1>5 DEF IsAt
<1>13. Reaches(new, link[old].page_control)
  <2> SUFFICES ASSUME NEW q \in Pages, NEW x, IsAt(q, x)'
               PROVE  x = 0 \/ IsAt(q, x) \/ (q = new /\ x = link[old].page_control)
    BY DEF Reaches
  <2>1. CASE q = old
    <3>1. IsAt(old, x)'
      BY <2>1 DEF IsAt
    <3> QED
      BY <1>10, <2>1, <3>1
  <2>2. CASE q = new
    <3>1. IsAt(new, x)'
      BY <2>2 DEF IsAt
    <3> QED
      BY <1>11, <2>2, <3>1
  <2> QED
    BY <1>12, <2>1, <2>2
<1>14. IsAt(old, link[old].page_control)
  BY DEF IsAt
<1>15. \A q \in Pages : IsAt(q, link[old].page_control) =>
         link[old].page_control = 0 \/ Related(FileOf[new], FileOf[q])
  BY <1>1, <1>2, <1>14 DEF ControlsAreGood
<1>16. link[old].page_control <= page_control_counter'
  BY <1>2, <1>6, <1>14 DEF ControlsAreGood
<1> QED
  BY <1>3, <1>6, <1>13, <1>15, <1>16, ReachKeeps

\* A list that a component names.
LEMMA DownHasList ==
  ASSUME HierInv, HierInv', DownSchematic
  PROVE  DescentIsOneList'
<1>1. PICK fs \in SourcesIn[FileOf[page_current]] :
        descent' = [Idle EXCEPT !.files = fs, !.parent = page_current]
  BY DEF DownSchematic
<1>2. descent'.files = fs /\ descent'.page_control = 0
  BY <1>1 DEF Idle
<1>3. FileOf[page_current] \in Files
  BY CurrentIsPage DEF DownSchematic, Files
<1>4. \A i, j \in DOMAIN fs : Related(fs[i], fs[j])
  BY <1>3 DEF Related, InOneList
<1>5. page_control_counter' \in Nat
  BY HierarchyAssumption DEF HierInv, NavType
<1>6. (\A i, j \in DOMAIN descent.files : Related(descent.files[i], descent.files[j]))'
  BY <1>2, <1>4 DEF Related, InOneList
<1> QED
  BY <1>2, <1>5, <1>6 DEF DescentIsOneList

\* A round that fails.
LEMMA FailsKeepsList ==
  ASSUME HierInv, HierInv', SiblingInv, DescendFails
  PROVE  DescentIsOneList'
<1>1. /\ descent.files # <<>> /\ descent' = [descent EXCEPT !.files = Tail(@)]
      /\ UNCHANGED <<vars, page_control_counter>>
  BY DEF DescendFails
<1>2. descent'.files = Tail(descent.files) /\ descent'.page_control = descent.page_control
  BY <1>1 DEF HierInv, DescentOK, DescentType
<1>3. /\ \A i, j \in DOMAIN descent'.files : Related(descent'.files[i], descent'.files[j])
      /\ \A i \in DOMAIN descent'.files :
           \E j \in DOMAIN descent.files : descent'.files[i] = descent.files[j]
  BY <1>1, <1>2, TailKeepsList DEF SiblingInv
<1>4. \A p \in Pages : \A c : IsAt(p, c)' => IsAt(p, c)
  BY <1>1 DEF IsAt, vars
<1>5. descent.page_control # 0 => \A p \in Pages : IsAt(p, descent.page_control)' =>
        \A i \in DOMAIN descent'.files : Related(FileOf[p], descent'.files[i])
  <2> SUFFICES ASSUME descent.page_control # 0, NEW p \in Pages, IsAt(p, descent.page_control)',
                      NEW i \in DOMAIN descent'.files
               PROVE  Related(FileOf[p], descent'.files[i])
    OBVIOUS
  <2>1. PICK j \in DOMAIN descent.files : descent'.files[i] = descent.files[j]
    BY <1>3
  <2>2. IsAt(p, descent.page_control)
    BY <1>1 DEF IsAt, vars
  <2>3. Related(FileOf[p], descent.files[j])
    BY <2>2 DEF SiblingInv, DescentIsOneList, AtOneList
  <2> QED
    BY <2>1, <2>3
<1>6. (\A i, j \in DOMAIN descent.files : Related(descent.files[i], descent.files[j]))'
  BY <1>3 DEF Related, InOneList
<1>7. descent.page_control # 0 => AtOneList(descent.page_control)'
  BY <1>2, <1>5 DEF AtOneList, Related, InOneList
<1> QED
  BY <1>1, <1>2, <1>6, <1>7 DEF SiblingInv, DescentIsOneList, AtOneList, IsAt

\* Every step keeps both.
LEMMA SiblingNext ==
  ASSUME ListsAreDisjoint, HierInv, HierInv', SiblingInv, [HNext]_hvars
  PROVE  SiblingInv'
<1>1. CASE UNCHANGED hvars
  <2>1. UNCHANGED <<link, undo, page_control_counter, descent>>
    BY <1>1 DEF hvars, vars, nav
  <2> QED
    BY <2>1 DEF SiblingInv, ControlsAreGood, DescentIsOneList, AtOneList, IsAt
<1>2. ASSUME NEW f, Open(f)
      PROVE  SiblingInv'
  <2>1. ControlsAreGood'
    <3>1. CASE UNCHANGED <<vars, page_control_counter>>
      BY <3>1, NothingMoves DEF SiblingInv, vars
    <3>2. ASSUME NEW p \in Fresh(f), OpenPage(p), page_control_counter' = page_control_counter
          PROVE  ControlsAreGood'
      BY <3>2, TopKeepsControls DEF SiblingInv, Fresh
    <3> QED
      BY <1>2, <3>1, <3>2 DEF Open
  <2> QED
    BY <1>2, <2>1, NoList DEF SiblingInv, Open
<1>3. ASSUME NEW p \in Pages, Goto(p)
      PROVE  SiblingInv'
  BY <1>3, NothingMoves, NoList DEF Goto, SiblingInv, vars
<1>4. CASE OnCurrentPage
  BY <1>4, EditKeepsControls, NoList DEF OnCurrentPage, SiblingInv, nav
<1>5. CASE DownSchematic
  BY <1>5, NothingMoves, DownHasList DEF DownSchematic, SiblingInv, vars
<1>6. CASE DescendToLoaded \/ DescendToNew
  BY <1>6, LoadedKeepsControls, NewKeepsControls
<1>7. CASE DescendFails
  BY <1>7, NothingMoves, FailsKeepsList DEF DescendFails, SiblingInv, vars
<1>8. CASE DescentEnds
  BY <1>8, NothingMoves, NoList DEF DescentEnds, SiblingInv, vars
<1>9. CASE DownSymbol
  BY <1>9, SymbolKeepsControls, NoList DEF DownSymbol, SiblingInv
<1>10. CASE HierarchyUp
  BY <1>10, CurrentIsPage, TopKeepsControls, NoList DEF HierarchyUp, SiblingInv
<1>11. ASSUME NEW p \in Pages, PageClose(p)
       PROVE  SiblingInv'
  BY <1>11, TopKeepsControls, NoList DEF PageClose, SiblingInv
<1>12. CASE PageRevert
  <2>1. descent' = Idle
    BY <1>12, RevertIs
  <2> QED
    BY <1>12, <2>1, RevertKeepsControls, NoList DEF SiblingInv
<1> QED
  BY <1>1, <1>2, <1>3, <1>4, <1>5, <1>6, <1>7, <1>8, <1>9, <1>10, <1>11, <1>12 DEF HNext

\* At the start no page has a page_control.
LEMMA SiblingInit == HInit => SiblingInv
<1> SUFFICES ASSUME HInit
             PROVE  SiblingInv
  OBVIOUS
<1>1. \A p \in Pages : link[p] = NoLink /\ DOMAIN undo[p] = {}
  BY DEF HInit, Init
<1>2. NoLink.page_control = 0 /\ page_control_counter = 0
  BY HierarchyAssumption DEF HInit
<1>3. \A p \in Pages : \A c : IsAt(p, c) => c = 0
  BY <1>1, <1>2 DEF IsAt
<1>4. descent.files = <<>> /\ descent.page_control = 0
  BY DEF HInit, Idle
<1>5. DOMAIN descent.files = {}
  BY <1>4
<1> QED
  BY <1>2, <1>3, <1>4, <1>5 DEF SiblingInv, ControlsAreGood, DescentIsOneList

\* page_next and page_prev keep to the files of one source= list, whatever undo and redo,
\* Revert and further descents make of page_control: in any design in which a file is named
\* by one list only and no symbol is part of itself.
THEOREM PagesKeepToTheirList ==
  NoneIsItsOwnSymbol /\ ListsAreDisjoint => (HSpec => []SiblingsShareAList)
<1> SUFFICES ASSUME NoneIsItsOwnSymbol, ListsAreDisjoint
             PROVE  HSpec => []SiblingsShareAList
  OBVIOUS
<1>1. HierInv /\ HierInv' /\ SiblingInv /\ [HNext]_hvars => SiblingInv'
  BY SiblingNext
<1>2. SiblingInv => SiblingsShareAList
  <2> SUFFICES ASSUME SiblingInv
               PROVE  SiblingsShareAList
    OBVIOUS
  <2>1. \A p \in Pages : IsAt(p, link[p].page_control)
    BY DEF IsAt
  <2>2. OpenPages \subseteq Pages
    BY DEF OpenPages
  <2> QED
    BY <2>1, <2>2 DEF SiblingInv, ControlsAreGood, SiblingsShareAList, Related
<1>3. HSpec => []HierInv
  BY HierAlways
<1> QED
  BY <1>1, <1>2, <1>3, SiblingInit, PTL DEF HSpec
=============================================================================
