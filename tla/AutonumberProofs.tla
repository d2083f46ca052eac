-------------------------- MODULE AutonumberProofs --------------------------
(***************************************************************************)
(* Autonumbering gives no number and no slot twice, for any texts, symbols *)
(* and pages.                                                              *)
(*                                                                         *)
(* While a page is numbered, the database knows the number of every text   *)
(* that is settled: respected, or already given a number.  A free slot     *)
(* belongs to a part whose number only that symbol's texts have, unless    *)
(* two texts that stay as they are shared it from the start; and nobody    *)
(* has the slot.  Texts still to be numbered are on this page's list or    *)
(* on a later page.                                                        *)
(***************************************************************************)
EXTENDS Autonumber, TLAPS

Parts == Symbols \X Nat \X Nat

ATypeOK ==
  /\ number \in [Texts -> Nat \cup {None}]
  /\ slot \in [Texts -> Nat]
  /\ opt \in Options
  /\ root \in 1 .. LastPage /\ at \in root .. LastPage
  /\ selected \subseteq Texts
  /\ phase \in {"idle", "collect", "page", "number"}
  /\ todo \subseteq Texts /\ given \subseteq Texts
  /\ used \subseteq Nat /\ free \subseteq Parts

\* The texts the database is about while page p is numbered.
Peers(p) == IF opt.skip = "hierarchy" THEN Below(root) ELSE OnPage(p)

Settled(t) == t \in given \/ Respected(t)

DatabaseReady == phase = "number" \/ (phase = "page" /\ opt.skip = "hierarchy")

\* Two settled texts that stay as they are share the number n.
SharedOn(p, n) ==
  \E v, w \in Peers(p) \ given :
     /\ v # w /\ Respected(v) /\ Respected(w)
     /\ number[v] = n /\ number[w] = n /\ ~SamePart(v, w)

\* Where the command is.
Progress ==
  /\ phase \in {"idle", "collect"} => used = {} /\ free = {}
  /\ phase # "number" => todo = {}
  /\ phase = "collect" => given = {}
  /\ phase # "idle" /\ opt.scope # "hierarchy" => at = root
  /\ opt.removenum => given = {}
  /\ \A t \in given : PageOf[t] \in root .. at /\ number[t] # None
  /\ phase = "page" => \A t \in given : PageOf[t] < at
  /\ \A t \in todo : Renumbers(t) /\ t \notin given /\ PageOf[t] = at

\* Every text to be numbered is numbered or still to come.
Coming ==
  ~opt.removenum => \A t \in Below(root) \ given :
     Renumbers(t) => \/ phase \in {"collect", "page"} /\ PageOf[t] >= at
                     \/ phase = "number" /\ (PageOf[t] > at \/ t \in todo)

\* What the database knows.
Database ==
  DatabaseReady =>
    /\ \A t \in Peers(at) : Settled(t) => number[t] \in used
    /\ \A k \in free :
         /\ opt.slotting /\ NumSlots[k[1]] > 0 /\ k[2] \in used /\ k[3] # 0
         /\ \A t \in Peers(at) : Settled(t) /\ number[t] = k[2] =>
              /\ SymbolOf[t] = k[1] \/ SharedOn(at, k[2])
              /\ SymbolOf[t] = k[1] => SlotOf(t) # k[3]
    /\ \A k, l \in free : k[2] = l[2] /\ k[1] # l[1] => SharedOn(at, k[2])

\* What has been given.
Given ==
  \A t \in given : \A u \in Peers(PageOf[t]) \ {t} :
     Settled(u) /\ number[u] = number[t] =>
       /\ (opt.slotting /\ SamePart(t, u)) \/ SharedOn(PageOf[t], number[t])
       /\ opt.slotting /\ SamePart(t, u) => SlotOf(t) # SlotOf(u)

AInv == ATypeOK /\ Progress /\ Coming /\ Database /\ Given

-----------------------------------------------------------------------------
\* What both ways of giving a number have in common.
NumberStep(t, n, s) ==
  /\ phase = "number" /\ t \in todo /\ ~opt.removenum
  /\ n \in Nat /\ s \in Nat
  /\ ApplyNewText(t, n, s)
  /\ todo' = todo \ {t}
  /\ UNCHANGED <<dialog, phase, at>>

LEMMA FreeSlotStep ==
  ASSUME AInv, NEW t \in Texts, Number(t), NEW k \in free, GiveFreeSlot(t, k)
  PROVE  k \in Parts /\ k[1] = SymbolOf[t] /\ NumberStep(t, k[2], k[3])
<1>1. k \in Parts /\ k[2] \in Nat /\ k[3] \in Nat
  BY DEF AInv, ATypeOK, Parts
<1>. QED
  BY <1>1 DEF Number, GiveFreeSlot, FreeFor, NumberStep

LEMMA NewNumberStep ==
  ASSUME AInv, NEW t \in Texts, Number(t), NEW n \in Unused, GiveNewNumber(t, n)
  PROVE  /\ n \in Nat \ used
         /\ NumberStep(t, n, IF opt.slotting /\ Slotted(t) THEN 1 ELSE 0)
<1>1. n \in Nat \ used
  <2>1. opt.startnum \in Nat /\ used \subseteq Nat
    BY AutonumberAssumption DEF AInv, ATypeOK, Options
  <2>2. n \notin used /\ (n = opt.startnum \/ \E i \in used : n = i + 1)
    BY DEF Unused
  <2>. QED
    BY <2>1, <2>2
<1>2. CASE opt.slotting /\ Slotted(t)
  BY <1>1, <1>2 DEF Number, GiveNewNumber, NumberStep
<1>3. CASE ~(opt.slotting /\ Slotted(t))
  BY <1>1, <1>3 DEF Number, GiveNewNumber, NumberStep
<1>. QED
  BY <1>2, <1>3

-----------------------------------------------------------------------------
\* Types.
LEMMA TypeInit == Init => ATypeOK
<1>. SUFFICES ASSUME Init PROVE ATypeOK
  OBVIOUS
<1>1. slot \in [Texts -> Nat]
  <2>1. {0} \cup (UNION {0 .. NumSlots[y] : y \in Symbols}) \subseteq Nat
    BY AutonumberAssumption
  <2>. QED
    BY <2>1 DEF Init
<1>2. opt \in Options
  BY AutonumberAssumption DEF Init, Options, Scopes
<1>3. root \in 1 .. LastPage /\ at \in root .. LastPage
  BY AutonumberAssumption DEF Init
<1>4. number \in [Texts -> Nat \cup {None}]
  BY AutonumberAssumption DEF Init
<1>. QED
  BY <1>1, <1>2, <1>3, <1>4 DEF Init, ATypeOK

LEMMA CollectedTypes ==
  ASSUME ATypeOK, NEW T \in SUBSET Texts
  PROVE  NumbersOf(T) \subseteq Nat /\ FreeSlots(T) \subseteq Parts
<1>1. NumbersOf(T) \subseteq Nat
  BY DEF NumbersOf, Respected, ATypeOK
<1>2. UsedSlots(T) \subseteq Parts
  BY AutonumberAssumption DEF UsedSlots, Respected, Slotted, SlotOf, ATypeOK, Parts
<1>3. ASSUME NEW y \in Symbols, NEW n \in Nat
      PROVE  SlotsOf(y, n) \subseteq Parts
  BY <1>3, AutonumberAssumption DEF SlotsOf, Parts
<1>4. \A k \in Parts : SlotsOf(k[1], k[2]) \subseteq Parts
  BY <1>3 DEF Parts
<1>. QED
  BY <1>1, <1>2, <1>4 DEF FreeSlots

LEMMA TypeStep == ASSUME AInv, [Next]_vars PROVE ATypeOK'
<1>. USE DEF ATypeOK
<1>1. ATypeOK
  BY DEF AInv
<1>2. CASE UNCHANGED vars
  BY <1>1, <1>2 DEF vars
<1>3. ASSUME NEW o \in Options, NEW r \in 1 .. LastPage, NEW S \in SUBSET OnPage(r),
             Apply(o, r, S)
      PROVE  ATypeOK'
  <2>1. opt' \in Options
    BY <1>3 DEF Apply, Options
  <2>2. selected' \subseteq Texts
    BY <1>3 DEF Apply, OnPage
  <2>3. root' \in 1 .. LastPage /\ at' \in root' .. LastPage
    BY <1>3, AutonumberAssumption DEF Apply
  <2>4. phase' \in {"page", "collect"}
    BY <1>3 DEF Apply
  <2>. QED
    BY <1>1, <1>3, <2>1, <2>2, <2>3, <2>4 DEF Apply, text
<1>4. CASE Collect
  <2>1. NumbersOf(Below(root)) \subseteq Nat /\ FreeSlots(Below(root)) \subseteq Parts
    BY <1>1, CollectedTypes DEF Below
  <2>. QED
    BY <1>1, <1>4, <2>1 DEF Collect, text, dialog
<1>5. CASE StartPage
  <2>1. NumbersOf(OnPage(at)) \subseteq Nat /\ FreeSlots(OnPage(at)) \subseteq Parts
    BY <1>1, CollectedTypes DEF OnPage
  <2>2. used' \subseteq Nat /\ free' \subseteq Parts
    BY <1>1, <1>5, <2>1 DEF StartPage
  <2>3. todo' \subseteq Texts
    BY <1>5 DEF StartPage, OnPage
  <2>. QED
    BY <1>1, <1>5, <2>2, <2>3 DEF StartPage, text, dialog
<1>6. ASSUME NEW t \in Texts, NEW n, NEW s, NumberStep(t, n, s),
             used' \subseteq Nat, free' \subseteq Parts
      PROVE  ATypeOK'
  BY <1>1, <1>6 DEF NumberStep, ApplyNewText, dialog
<1>7. ASSUME NEW t \in Texts, Number(t) PROVE ATypeOK'
  <2>1. CASE \E k \in free : GiveFreeSlot(t, k)
    <3>1. PICK k \in free : GiveFreeSlot(t, k)
      BY <2>1
    <3>. QED
      BY <1>1, <1>6, <1>7, <3>1, FreeSlotStep DEF GiveFreeSlot
  <2>2. CASE \E n \in Unused : GiveNewNumber(t, n)
    <3>1. PICK n \in Unused : GiveNewNumber(t, n)
      BY <2>2
    <3>2. n \in Nat /\ NumberStep(t, n, IF opt.slotting /\ Slotted(t) THEN 1 ELSE 0)
      BY <1>7, <3>1, NewNumberStep
    <3>3. free' \subseteq Parts
      <4>1. Slotted(t) => SlotsOf(SymbolOf[t], n) \subseteq Parts
        BY <3>2, AutonumberAssumption DEF Slotted, SlotsOf, Parts
      <4>. QED
        BY <1>1, <3>1, <4>1 DEF GiveNewNumber
    <3>4. used' \subseteq Nat
      BY <1>1, <3>1, <3>2 DEF GiveNewNumber
    <3>. QED
      BY <1>6, <3>2, <3>3, <3>4
  <2>. QED
    BY <1>7, <2>1, <2>2 DEF Number
<1>8. ASSUME NEW t \in Texts, RemoveNumber(t) PROVE ATypeOK'
  BY <1>1, <1>8 DEF RemoveNumber, dialog
<1>9. CASE EndPage
  <2>1. at' \in root .. LastPage
    BY <1>1, <1>9, AutonumberAssumption DEF EndPage
  <2>. QED
    BY <1>1, <1>9, <2>1 DEF EndPage, ClearDatabase, text, dialog
<1>. QED
  BY <1>2, <1>3, <1>4, <1>5, <1>7, <1>8, <1>9 DEF Next

-----------------------------------------------------------------------------
\* Giving t a number leaves everything as it is for the other texts.
LEMMA OthersKept ==
  ASSUME AInv, NEW t \in Texts, NEW n, NEW s, NumberStep(t, n, s),
         NEW u \in Texts, u # t
  PROVE  /\ number'[u] = number[u] /\ slot'[u] = slot[u]
         /\ Renumbers(u)' <=> Renumbers(u)
         /\ Respected(u)' <=> Respected(u)
         /\ Settled(u)' <=> Settled(u)
         /\ SlotOf(u)' = SlotOf(u)
<1>1. number'[u] = number[u] /\ slot'[u] = slot[u]
  BY DEF AInv, ATypeOK, NumberStep, ApplyNewText
<1>2. u \in given' <=> u \in given
  BY DEF NumberStep, ApplyNewText
<1>3. UNCHANGED <<opt, selected, root>>
  BY DEF NumberStep, dialog
<1>. QED
  BY <1>1, <1>2, <1>3 DEF Renumbers, Respected, Settled, SlotOf

LEMMA GivenText ==
  ASSUME AInv, NEW t \in Texts, NEW n, NEW s, NumberStep(t, n, s)
  PROVE  /\ number'[t] = n /\ given' = given \cup {t}
         /\ slot'[t] = IF s = 0 THEN slot[t] ELSE s
         /\ t \notin given /\ Renumbers(t) /\ ~Respected(t) /\ PageOf[t] = at
         /\ UNCHANGED <<opt, selected, root, phase, at>>
<1>1. number'[t] = n /\ slot'[t] = IF s = 0 THEN slot[t] ELSE s
  BY DEF AInv, ATypeOK, NumberStep, ApplyNewText
<1>2. t \notin given /\ Renumbers(t) /\ PageOf[t] = at
  BY DEF AInv, Progress, NumberStep
<1>. QED
  BY <1>1, <1>2 DEF NumberStep, ApplyNewText, dialog, Respected

\* A number given to one more text is shared only if it was.
LEMMA SharedKept ==
  ASSUME AInv, NEW t \in Texts, NEW n, NEW s, NumberStep(t, n, s),
         NEW p, NEW m, SharedOn(p, m)
  PROVE  SharedOn(p, m)'
<1>1. PICK v \in Peers(p) \ given, w \in Peers(p) \ given :
        /\ v # w /\ Respected(v) /\ Respected(w)
        /\ number[v] = m /\ number[w] = m /\ ~SamePart(v, w)
  BY DEF SharedOn
<1>2. v \in Texts /\ w \in Texts
  BY <1>1 DEF Peers, Below, OnPage
<1>3. v # t /\ w # t
  BY <1>1, GivenText
<1>4. v \in (Peers(p) \ given)' /\ w \in (Peers(p) \ given)'
  BY <1>1, <1>3, GivenText DEF Peers, Below, OnPage
<1>5. Respected(v)' /\ Respected(w)' /\ number'[v] = m /\ number'[w] = m
  BY <1>1, <1>2, <1>3, OthersKept
<1>6. ~SamePart(v, w)'
  BY <1>1, <1>5 DEF SamePart, Slotted
<1>. QED
  BY <1>1, <1>4, <1>5, <1>6 DEF SharedOn

-----------------------------------------------------------------------------
\* Where the command is, and what is still to come.
LEMMA ProgressStep == ASSUME AInv, [Next]_vars PROVE Progress'
<1>0. ATypeOK /\ Progress
  BY DEF AInv
<1>1. CASE UNCHANGED vars
  BY <1>0, <1>1 DEF vars, Progress, Renumbers
<1>2. ASSUME NEW o \in Options, NEW r \in 1 .. LastPage, NEW S \in SUBSET OnPage(r),
             Apply(o, r, S)
      PROVE  Progress'
  BY <1>0, <1>2 DEF Apply, Progress, text
<1>3. CASE Collect
  BY <1>0, <1>3 DEF Collect, Progress, text, dialog
<1>4. CASE StartPage
  <2>1. \A t \in given : number'[t] # None /\ PageOf[t] \in root .. at /\ PageOf[t] < at
    BY <1>0, <1>4 DEF StartPage, Progress, text
  <2>2. \A t \in todo' : t \in Texts /\ Renumbers(t)' /\ PageOf[t] = at /\ t \notin given
    <3>. SUFFICES ASSUME NEW t \in todo'
                  PROVE  t \in Texts /\ Renumbers(t)' /\ PageOf[t] = at /\ t \notin given
      OBVIOUS
    <3>1. t \in Texts /\ Renumbers(t) /\ PageOf[t] = at
      BY <1>4 DEF StartPage, OnPage
    <3>2. t \notin given
      BY <1>0, <2>1, <3>1, AutonumberAssumption DEF ATypeOK
    <3>. QED
      BY <1>4, <3>1, <3>2 DEF StartPage, Renumbers, text, dialog
  <2>. QED
    BY <1>0, <1>4, <2>1, <2>2 DEF StartPage, Progress, text, dialog
<1>5. ASSUME NEW t \in Texts, NEW n, NEW s, NumberStep(t, n, s) PROVE Progress'
  <2>1. \A u \in given' : PageOf[u] \in root .. at /\ number'[u] # None
    <3>. SUFFICES ASSUME NEW u \in given'
                  PROVE  PageOf[u] \in root .. at /\ number'[u] # None
      OBVIOUS
    <3>1. CASE u = t
      <4>1. n # None
        BY <1>5, AutonumberAssumption DEF NumberStep
      <4>2. at \in root .. at
        BY <1>0, AutonumberAssumption DEF ATypeOK
      <4>. QED
        BY <1>5, <3>1, <4>1, <4>2, GivenText
    <3>2. CASE u # t
      <4>1. u \in given /\ u \in Texts
        BY <1>0, <1>5, <3>2, GivenText DEF ATypeOK
      <4>. QED
        BY <1>0, <1>5, <3>2, <4>1, OthersKept DEF Progress
    <3>. QED
      BY <3>1, <3>2
  <2>2. \A u \in todo' : Renumbers(u)' /\ u \notin given' /\ PageOf[u] = at
    <3>. SUFFICES ASSUME NEW u \in todo'
                  PROVE  Renumbers(u)' /\ u \notin given' /\ PageOf[u] = at
      OBVIOUS
    <3>1. u \in todo /\ u # t /\ u \in Texts
      BY <1>0, <1>5 DEF NumberStep, ATypeOK
    <3>. QED
      BY <1>0, <1>5, <3>1, OthersKept, GivenText DEF Progress
  <2>. QED
    BY <1>0, <1>5, <2>1, <2>2 DEF NumberStep, Progress, dialog
<1>6. ASSUME NEW t \in Texts, Number(t) PROVE Progress'
  <2>1. CASE \E k \in free : GiveFreeSlot(t, k)
    BY <1>5, <1>6, <2>1, FreeSlotStep
  <2>2. CASE \E n \in Unused : GiveNewNumber(t, n)
    BY <1>5, <1>6, <2>2, NewNumberStep
  <2>. QED
    BY <1>6, <2>1, <2>2 DEF Number
<1>7. ASSUME NEW t \in Texts, RemoveNumber(t) PROVE Progress'
  <2>1. \A u \in todo' : u \in todo /\ u # t /\ number'[u] = number[u]
    BY <1>0, <1>7 DEF RemoveNumber, ATypeOK
  <2>2. given = {}
    BY <1>0, <1>7 DEF Progress, RemoveNumber
  <2>. QED
    BY <1>0, <1>7, <2>1, <2>2 DEF RemoveNumber, Progress, Renumbers, dialog
<1>8. CASE EndPage
  <2>1. CASE opt.scope = "hierarchy" /\ at < LastPage
    <3>1. \A t \in given : PageOf[t] \in root .. at' /\ PageOf[t] < at'
      BY <1>0, <1>8, <2>1, AutonumberAssumption DEF EndPage, Progress, ATypeOK
    <3>. QED
      BY <1>0, <1>8, <2>1, <3>1 DEF EndPage, Progress, ClearDatabase, text, dialog
  <2>2. CASE ~(opt.scope = "hierarchy" /\ at < LastPage)
    BY <1>0, <1>8, <2>2 DEF EndPage, Progress, ClearDatabase, text, dialog
  <2>. QED
    BY <2>1, <2>2
<1>. QED
  BY <1>1, <1>2, <1>3, <1>4, <1>6, <1>7, <1>8 DEF Next

LEMMA ComingStep == ASSUME AInv, [Next]_vars PROVE Coming'
<1>0. ATypeOK /\ Progress /\ Coming
  BY DEF AInv
<1>1. CASE UNCHANGED vars
  BY <1>0, <1>1 DEF vars, Coming, Renumbers, Below
<1>2. ASSUME NEW o \in Options, NEW r \in 1 .. LastPage, NEW S \in SUBSET OnPage(r),
             Apply(o, r, S)
      PROVE  Coming'
  <2>1. \A t \in Below(root)' : PageOf[t] >= at'
    BY <1>2, AutonumberAssumption DEF Apply, Below
  <2>. QED
    BY <1>2, <2>1 DEF Apply, Coming
<1>3. CASE Collect
  BY <1>0, <1>3 DEF Collect, Coming, Renumbers, Below, text, dialog
<1>4. CASE StartPage
  <2>. SUFFICES ASSUME ~opt.removenum, NEW t \in Below(root) \ given, Renumbers(t)
                PROVE  PageOf[t] > at \/ t \in todo'
    BY <1>4 DEF StartPage, Coming, Renumbers, Below, text, dialog
  <2>1. t \in Texts /\ PageOf[t] >= at
    BY <1>0, <1>4 DEF StartPage, Coming, Below
  <2>2. PageOf[t] \in Nat /\ at \in Nat
    BY <1>0, <2>1, AutonumberAssumption DEF ATypeOK
  <2>3. CASE PageOf[t] = at
    BY <1>4, <2>1, <2>3 DEF StartPage, OnPage
  <2>. QED
    BY <2>1, <2>2, <2>3
<1>5. ASSUME NEW t \in Texts, NEW n, NEW s, NumberStep(t, n, s) PROVE Coming'
  <2>. SUFFICES ASSUME NEW u \in (Below(root) \ given)', Renumbers(u)'
                PROVE  PageOf[u] > at \/ u \in todo'
    BY <1>5 DEF NumberStep, Coming
  <2>1. u \in Below(root) \ given /\ u # t /\ u \in Texts
    BY <1>5, GivenText DEF Below
  <2>2. Renumbers(u)
    BY <1>5, <2>1, OthersKept
  <2>. QED
    BY <1>0, <1>5, <2>1, <2>2 DEF Coming, NumberStep
<1>6. ASSUME NEW t \in Texts, Number(t) PROVE Coming'
  <2>1. CASE \E k \in free : GiveFreeSlot(t, k)
    BY <1>5, <1>6, <2>1, FreeSlotStep
  <2>2. CASE \E n \in Unused : GiveNewNumber(t, n)
    BY <1>5, <1>6, <2>2, NewNumberStep
  <2>. QED
    BY <1>6, <2>1, <2>2 DEF Number
<1>7. ASSUME NEW t \in Texts, RemoveNumber(t) PROVE Coming'
  BY <1>7 DEF RemoveNumber, Coming, dialog
<1>8. CASE EndPage
  <2>. SUFFICES ASSUME ~opt.removenum, NEW t \in Below(root) \ given, Renumbers(t)
                PROVE  phase' = "page" /\ PageOf[t] >= at'
    BY <1>8 DEF EndPage, Coming, Renumbers, Below, text, dialog
  <2>1. PageOf[t] > at /\ t \in Texts /\ phase = "number"
    BY <1>0, <1>8 DEF EndPage, Coming, Below
  <2>2. PageOf[t] \in 1 .. LastPage /\ at \in Nat /\ LastPage \in Nat /\ root \in Nat
    BY <1>0, <2>1, AutonumberAssumption DEF ATypeOK
  <2>3. opt.scope = "hierarchy"
    BY <1>0, <2>1, <2>2 DEF Progress, Renumbers
  <2>. QED
    BY <1>8, <2>1, <2>2, <2>3 DEF EndPage
<1>. QED
  BY <1>1, <1>2, <1>3, <1>4, <1>6, <1>7, <1>8 DEF Next

-----------------------------------------------------------------------------
\* The database.
LEMMA CollectedUsed ==
  ASSUME NEW p, given \cap Peers(p) = {}, NEW t \in Peers(p), Settled(t)
  PROVE  number[t] \in NumbersOf(Peers(p)) /\ Respected(t)
BY DEF Settled, NumbersOf

\* A free slot is left in the part of a respected text.
LEMMA CollectedFree ==
  ASSUME ATypeOK, NEW T \in SUBSET Texts, NEW k \in FreeSlots(T)
  PROVE  /\ \E v \in T : /\ Respected(v) /\ Slotted(v) /\ opt.slotting
                        /\ SymbolOf[v] = k[1] /\ number[v] = k[2]
         /\ k \in Parts /\ k[3] \in 1 .. NumSlots[k[1]] /\ k \notin UsedSlots(T)
<1>1. PICK l \in UsedSlots(T) : k \in SlotsOf(l[1], l[2])
  BY DEF FreeSlots
<1>2. PICK v \in T : /\ Respected(v) /\ Slotted(v) /\ opt.slotting
                     /\ l = <<SymbolOf[v], number[v], SlotOf(v)>>
  BY <1>1 DEF UsedSlots
<1>3. k[1] = SymbolOf[v] /\ k[2] = number[v] /\ k[3] \in 1 .. NumSlots[k[1]]
  BY <1>1, <1>2 DEF SlotsOf
<1>4. k \in Parts /\ k \notin UsedSlots(T)
  BY CollectedTypes DEF FreeSlots
<1>. QED
  BY <1>2, <1>3, <1>4

LEMMA CollectedDatabase ==
  ASSUME ATypeOK, NEW p, given \cap Peers(p) = {},
         NEW k \in FreeSlots(Peers(p))
  PROVE  /\ opt.slotting /\ NumSlots[k[1]] > 0 /\ k[2] \in NumbersOf(Peers(p)) /\ k[3] # 0
         /\ \A t \in Peers(p) : Settled(t) /\ number[t] = k[2] =>
              /\ SymbolOf[t] = k[1] \/ SharedOn(p, k[2])
              /\ SymbolOf[t] = k[1] => SlotOf(t) # k[3]
         /\ \A l \in FreeSlots(Peers(p)) : k[2] = l[2] /\ k[1] # l[1] => SharedOn(p, k[2])
<1>1. Peers(p) \in SUBSET Texts
  BY DEF Peers, Below, OnPage
<1>2. PICK v \in Peers(p) : /\ Respected(v) /\ Slotted(v) /\ opt.slotting
                            /\ SymbolOf[v] = k[1] /\ number[v] = k[2]
  BY <1>1, CollectedFree
<1>3. k \in Parts /\ k[3] \in 1 .. NumSlots[k[1]] /\ k \notin UsedSlots(Peers(p))
  BY <1>1, CollectedFree
<1>4. NumSlots[k[1]] > 0 /\ k[2] \in NumbersOf(Peers(p)) /\ k[3] # 0
  BY <1>2, <1>3, AutonumberAssumption DEF Slotted, NumbersOf, Parts
<1>5. ASSUME NEW w \in Peers(p), Respected(w), number[w] = k[2], SymbolOf[w] # k[1]
      PROVE  SharedOn(p, k[2])
  BY <1>2, <1>5 DEF SharedOn, SamePart
<1>6. ASSUME NEW t \in Peers(p), Settled(t), number[t] = k[2], SymbolOf[t] = k[1]
      PROVE  SlotOf(t) # k[3]
  <2>1. Respected(t) /\ Slotted(t)
    BY <1>2, <1>6, CollectedUsed DEF Slotted
  <2>2. SlotOf(t) # 0 => <<k[1], k[2], SlotOf(t)>> \in UsedSlots(Peers(p))
    BY <1>2, <1>6, <2>1 DEF UsedSlots
  <2>. QED
    BY <1>3, <1>4, <2>2 DEF Parts
<1>7. ASSUME NEW l \in FreeSlots(Peers(p)), k[2] = l[2], k[1] # l[1]
      PROVE  SharedOn(p, k[2])
  BY <1>1, <1>5, <1>7, CollectedFree
<1>. QED
  BY <1>2, <1>4, <1>5, <1>6, <1>7, CollectedUsed

\* The settled texts that have the number t gets.
LEMMA SameNumber ==
  ASSUME AInv, NEW t \in Texts, NEW k \in free, k[1] = SymbolOf[t],
         NumberStep(t, k[2], k[3]), NEW u \in Peers(at) \ {t}, Settled(u), number[u] = k[2]
  PROVE  \/ /\ opt.slotting /\ Slotted(t) /\ SymbolOf[u] = SymbolOf[t]
            /\ SlotOf(u)' # SlotOf(t)'
         \/ SymbolOf[u] # SymbolOf[t] /\ SharedOn(at, k[2])
<1>1. /\ opt.slotting /\ NumSlots[k[1]] > 0 /\ k[3] # 0
      /\ SymbolOf[u] = k[1] \/ SharedOn(at, k[2])
      /\ SymbolOf[u] = k[1] => SlotOf(u) # k[3]
  BY DEF AInv, Database, DatabaseReady, NumberStep
<1>2. Slotted(t)
  BY <1>1, AutonumberAssumption DEF AInv, ATypeOK, Parts, Slotted
<1>3. SlotOf(t)' = k[3]
  BY <1>1, GivenText DEF SlotOf
<1>4. u \in Texts /\ u # t
  BY DEF Peers, Below, OnPage
<1>5. SlotOf(u)' = SlotOf(u)
  BY <1>4, OthersKept
<1>. QED
  BY <1>1, <1>2, <1>3, <1>5

\* A new number is no settled text's.
LEMMA NoSameNumber ==
  ASSUME AInv, NEW t \in Texts, NEW n \in Nat \ used, NEW s, NumberStep(t, n, s)
  PROVE  /\ \A u \in Peers(at) : Settled(u) => number[u] # n
         /\ \A k \in free : k[2] # n
BY DEF AInv, Database, DatabaseReady, NumberStep

\* A free slot that stays free is still nobody's.
LEMMA FreeKept ==
  ASSUME AInv, NEW t \in Texts, NEW n, NEW s, NumberStep(t, n, s),
         NEW l \in free, used \subseteq used',
         n = l[2] => (SymbolOf[t] = l[1] \/ SharedOn(at, l[2])),
         n = l[2] /\ SymbolOf[t] = l[1] => s # 0 /\ s # l[3]
  PROVE  /\ opt'.slotting /\ NumSlots[l[1]] > 0 /\ l[2] \in used' /\ l[3] # 0
         /\ \A u \in Peers(at)' : Settled(u)' /\ number'[u] = l[2] =>
              /\ SymbolOf[u] = l[1] \/ SharedOn(at, l[2])'
              /\ SymbolOf[u] = l[1] => SlotOf(u)' # l[3]
<1>1. /\ opt.slotting /\ NumSlots[l[1]] > 0 /\ l[2] \in used /\ l[3] # 0
      /\ \A u \in Peers(at) : Settled(u) /\ number[u] = l[2] =>
           /\ SymbolOf[u] = l[1] \/ SharedOn(at, l[2])
           /\ SymbolOf[u] = l[1] => SlotOf(u) # l[3]
  BY DEF AInv, Database, DatabaseReady, NumberStep
<1>2. UNCHANGED <<opt, root, at>>
  BY GivenText
<1>3. SharedOn(at, l[2]) => SharedOn(at, l[2])'
  <2>1. ASSUME NEW p, p = at, SharedOn(p, l[2]) PROVE SharedOn(p, l[2])'
    BY <2>1, SharedKept
  <2>. QED
    BY <1>2, <2>1 DEF SharedOn, Peers
<1>4. ASSUME NEW u \in Peers(at)', Settled(u)', number'[u] = l[2]
      PROVE  /\ SymbolOf[u] = l[1] \/ SharedOn(at, l[2])'
             /\ SymbolOf[u] = l[1] => SlotOf(u)' # l[3]
  <2>1. u \in Peers(at) /\ u \in Texts
    BY <1>2, <1>4 DEF Peers, Below, OnPage
  <2>2. CASE u = t
    BY <1>3, <1>4, <2>2, GivenText DEF SlotOf
  <2>3. CASE u # t
    BY <1>1, <1>3, <1>4, <2>1, <2>3, OthersKept
  <2>. QED
    BY <2>2, <2>3
<1>. QED
  BY <1>1, <1>2, <1>4

\* The database after a step that gives t a number.
LEMMA DatabaseNumbers ==
  ASSUME AInv, NEW t \in Texts, NEW n, NEW s, NumberStep(t, n, s),
         used \subseteq used', n \in used'
  PROVE  \A u \in Peers(at)' : Settled(u)' => number'[u] \in used'
<1>. SUFFICES ASSUME NEW u \in Peers(at)', Settled(u)' PROVE number'[u] \in used'
  OBVIOUS
<1>1. u \in Peers(at) /\ u \in Texts
  BY GivenText DEF Peers, Below, OnPage
<1>2. CASE u = t
  BY <1>2, GivenText
<1>3. CASE u # t
  <2>1. Settled(u) /\ number'[u] = number[u]
    BY <1>1, <1>3, OthersKept
  <2>. QED
    BY <1>1, <2>1 DEF AInv, Database, DatabaseReady, NumberStep
<1>. QED
  BY <1>2, <1>3

LEMMA DatabaseFreeSlot ==
  ASSUME AInv, NEW t \in Texts, Number(t), NEW k \in free, GiveFreeSlot(t, k)
  PROVE  Database'
<1>1. k \in Parts /\ k[1] = SymbolOf[t] /\ NumberStep(t, k[2], k[3])
  BY FreeSlotStep
<1>2. used' = used /\ free' = free \ {k}
  BY DEF GiveFreeSlot
<1>3. /\ k[2] \in used /\ k[3] # 0
      /\ \A l, m \in free : l[2] = m[2] /\ l[1] # m[1] => SharedOn(at, l[2])
  BY <1>1 DEF AInv, Database, DatabaseReady, NumberStep
<1>4. \A l \in free' :
        /\ opt'.slotting /\ NumSlots[l[1]] > 0 /\ l[2] \in used' /\ l[3] # 0
        /\ \A u \in Peers(at)' : Settled(u)' /\ number'[u] = l[2] =>
              /\ SymbolOf[u] = l[1] \/ SharedOn(at, l[2])'
              /\ SymbolOf[u] = l[1] => SlotOf(u)' # l[3]
  <2>. SUFFICES ASSUME NEW l \in free'
                PROVE  /\ opt'.slotting /\ NumSlots[l[1]] > 0 /\ l[2] \in used' /\ l[3] # 0
                       /\ \A u \in Peers(at)' : Settled(u)' /\ number'[u] = l[2] =>
                            /\ SymbolOf[u] = l[1] \/ SharedOn(at, l[2])'
                            /\ SymbolOf[u] = l[1] => SlotOf(u)' # l[3]
    OBVIOUS
  <2>1. l \in free /\ l # k /\ l \in Parts
    BY <1>2 DEF AInv, ATypeOK
  <2>2. k[2] = l[2] /\ k[1] = l[1] => k[3] # l[3]
    BY <1>1, <2>1 DEF Parts
  <2>3. k[2] = l[2] => SymbolOf[t] = l[1] \/ SharedOn(at, l[2])
    BY <1>1, <1>3, <2>1
  <2>. QED
    BY <1>1, <1>2, <1>3, <2>1, <2>2, <2>3, FreeKept
<1>5. \A l, m \in free' : l[2] = m[2] /\ l[1] # m[1] => SharedOn(at, l[2])'
  <2>. SUFFICES ASSUME NEW l \in free', NEW m \in free', l[2] = m[2], l[1] # m[1]
                PROVE  SharedOn(at, l[2])'
    OBVIOUS
  <2>1. SharedOn(at, l[2])
    BY <1>2, <1>3
  <2>2. ASSUME NEW p, p = at PROVE SharedOn(p, l[2])'
    BY <1>1, <2>1, <2>2, SharedKept
  <2>. QED
    BY <1>1, <2>2, GivenText DEF SharedOn, Peers
<1>6. \A u \in Peers(at)' : Settled(u)' => number'[u] \in used'
  BY <1>1, <1>2, <1>3, DatabaseNumbers
<1>. QED
  BY <1>4, <1>5, <1>6 DEF Database

LEMMA DatabaseNewNumber ==
  ASSUME AInv, NEW t \in Texts, Number(t), NEW n \in Unused, GiveNewNumber(t, n)
  PROVE  Database'
<1>. DEFINE s == IF opt.slotting /\ Slotted(t) THEN 1 ELSE 0
<1>1. n \in Nat \ used /\ NumberStep(t, n, s)
  BY NewNumberStep
<1>2. used' = used \cup {n}
  BY DEF GiveNewNumber
<1>3. /\ \A u \in Peers(at) : Settled(u) => number[u] # n
      /\ \A k \in free : k[2] # n
  <2>. HIDE DEF s
  <2>. QED
    BY <1>1, NoSameNumber
<1>4. \A l \in free' \ free : /\ opt.slotting /\ Slotted(t) /\ l[1] = SymbolOf[t] /\ l[2] = n
                            /\ l[3] # 0 /\ l[3] # 1
  <2>. SUFFICES ASSUME NEW l \in free' \ free
                PROVE  /\ opt.slotting /\ Slotted(t) /\ l[1] = SymbolOf[t] /\ l[2] = n
                       /\ l[3] # 0 /\ l[3] # 1
    OBVIOUS
  <2>1. opt.slotting /\ Slotted(t) /\ l \in SlotsOf(SymbolOf[t], n) \ {<<SymbolOf[t], n, 1>>}
    BY DEF GiveNewNumber
  <2>2. PICK i \in 1 .. NumSlots[SymbolOf[t]] : l = <<SymbolOf[t], n, i>>
    BY <2>1 DEF SlotsOf
  <2>. QED
    BY <2>1, <2>2
<1>5. \A l \in free' :
        /\ opt'.slotting /\ NumSlots[l[1]] > 0 /\ l[2] \in used' /\ l[3] # 0
        /\ \A u \in Peers(at)' : Settled(u)' /\ number'[u] = l[2] =>
              /\ SymbolOf[u] = l[1] \/ SharedOn(at, l[2])'
              /\ SymbolOf[u] = l[1] => SlotOf(u)' # l[3]
  <2>. SUFFICES ASSUME NEW l \in free'
                PROVE  /\ opt'.slotting /\ NumSlots[l[1]] > 0 /\ l[2] \in used' /\ l[3] # 0
                       /\ \A u \in Peers(at)' : Settled(u)' /\ number'[u] = l[2] =>
                            /\ SymbolOf[u] = l[1] \/ SharedOn(at, l[2])'
                            /\ SymbolOf[u] = l[1] => SlotOf(u)' # l[3]
    OBVIOUS
  <2>1. CASE l \in free
    <3>. HIDE DEF s
    <3>. QED
      BY <1>1, <1>2, <1>3, <2>1, FreeKept
  <2>2. CASE l \notin free
    <3>1. opt'.slotting /\ NumSlots[l[1]] > 0 /\ l[2] \in used' /\ l[3] # 0
      BY <1>1, <1>2, <1>4, <2>2, GivenText DEF Slotted
    <3>2. ASSUME NEW u \in Peers(at)', Settled(u)', number'[u] = l[2]
          PROVE  SymbolOf[u] = l[1] /\ SlotOf(u)' # l[3]
      <4>1. u \in Peers(at) /\ u \in Texts
        BY <1>1, GivenText DEF Peers, Below, OnPage
      <4>2. u = t
        <5>. HIDE DEF s
        <5>. QED
          BY <1>1, <1>3, <1>4, <2>2, <3>2, <4>1, OthersKept
      <4>3. SlotOf(t)' = 1
        BY <1>1, <1>4, <2>2, GivenText DEF SlotOf
      <4>. QED
        BY <1>4, <2>2, <4>2, <4>3
    <3>. QED
      BY <3>1, <3>2
  <2>. QED
    BY <2>1, <2>2
<1>6. \A l, m \in free' : l[2] = m[2] /\ l[1] # m[1] => SharedOn(at, l[2])'
  <2>. SUFFICES ASSUME NEW l \in free', NEW m \in free', l[2] = m[2], l[1] # m[1]
                PROVE  SharedOn(at, l[2])'
    OBVIOUS
  <2>1. l \in free /\ m \in free
    BY <1>3, <1>4
  <2>2. SharedOn(at, l[2])
    BY <1>1, <2>1 DEF AInv, Database, DatabaseReady, NumberStep
  <2>3. ASSUME NEW p, p = at PROVE SharedOn(p, l[2])'
    <3>. HIDE DEF s
    <3>. QED
      BY <1>1, <2>2, <2>3, SharedKept
  <2>. QED
    BY <1>1, <2>3, GivenText DEF SharedOn, Peers
<1>7. \A u \in Peers(at)' : Settled(u)' => number'[u] \in used'
  <2>. HIDE DEF s
  <2>. QED
    BY <1>1, <1>2, DatabaseNumbers
<1>. QED
  BY <1>5, <1>6, <1>7 DEF Database

LEMMA DatabaseStep == ASSUME AInv, [Next]_vars PROVE Database'
<1>0. ATypeOK /\ Progress /\ Database
  BY DEF AInv
<1>1. ASSUME NEW p, UNCHANGED <<text, dialog, given>>
      PROVE  /\ Peers(p)' = Peers(p)
             /\ \A t : (Settled(t)' <=> Settled(t)) /\ SlotOf(t)' = SlotOf(t)
             /\ \A m : SharedOn(p, m)' <=> SharedOn(p, m)
  <2>1. Peers(p)' = Peers(p)
    BY <1>1 DEF Peers, Below, OnPage, dialog
  <2>2. \A t : (Respected(t)' <=> Respected(t)) /\ SlotOf(t)' = SlotOf(t)
    BY <1>1 DEF Respected, Renumbers, SlotOf, text, dialog
  <2>3. \A t : Settled(t)' <=> Settled(t)
    BY <1>1, <2>2 DEF Settled
  <2>4. \A m : SharedOn(p, m)' <=> SharedOn(p, m)
    BY <1>1, <2>1, <2>2 DEF SharedOn, SamePart, Slotted, text
  <2>. QED
    BY <2>1, <2>2, <2>3, <2>4
<1>2. CASE UNCHANGED vars
  <2>1. UNCHANGED <<text, dialog, given>> /\ UNCHANGED <<opt, number, at, phase, used, free>>
    BY <1>2 DEF vars, text, dialog
  <2>2. Peers(at)' = Peers(at) /\ \A m : SharedOn(at, m)' <=> SharedOn(at, m)
    BY <2>1 DEF Peers, Below, OnPage, SharedOn, SamePart, Slotted, Respected, Renumbers,
                text, dialog
  <2>. QED
    BY <1>0, <1>1, <2>1, <2>2 DEF Database, DatabaseReady
<1>3. ASSUME NEW o \in Options, NEW r \in 1 .. LastPage, NEW S \in SUBSET OnPage(r),
             Apply(o, r, S)
      PROVE  Database'
  <2>. SUFFICES ASSUME phase' = "page", opt'.skip = "hierarchy" PROVE Database'
    BY <1>3 DEF Apply, Database, DatabaseReady
  <2>1. o.skip = "hierarchy" /\ o.scope = "hierarchy" /\ opt'.overwrite
    BY <1>3 DEF Apply, Options
  <2>2. opt'.scope = "hierarchy" /\ given' = {}
    BY <1>3, <2>1 DEF Apply, Options
  <2>3. \A t : ~Settled(t)'
    BY <2>1, <2>2 DEF Settled, Respected, Renumbers
  <2>4. free' = {}
    BY <1>0, <1>3 DEF Apply, Progress
  <2>. QED
    BY <2>3, <2>4 DEF Database
<1>4. ASSUME used' = NumbersOf(Peers(at)), free' = FreeSlots(Peers(at)),
             given \cap Peers(at) = {}, UNCHANGED <<text, dialog, given, at>>
      PROVE  Database'
  <2>0. UNCHANGED <<number, at>> /\ opt' = opt
    BY <1>4 DEF text, dialog
  <2>1. /\ Peers(at)' = Peers(at)
        /\ \A t : (Settled(t)' <=> Settled(t)) /\ SlotOf(t)' = SlotOf(t)
        /\ \A m : SharedOn(at, m)' <=> SharedOn(at, m)
    <3>1. Peers(at)' = Peers(at) /\ \A m : SharedOn(at, m)' <=> SharedOn(at, m)
      BY <1>4 DEF Peers, Below, OnPage, SharedOn, SamePart, Slotted, Respected, Renumbers,
                  text, dialog
    <3>. QED
      BY <1>1, <1>4, <3>1
  <2>2. \A t \in Peers(at) : Settled(t) => number[t] \in used'
    BY <1>4, CollectedUsed
  <2>. QED
    BY <1>0, <1>4, <2>0, <2>1, <2>2, CollectedDatabase DEF Database
<1>5. CASE Collect
  <2>1. CASE opt.skip = "hierarchy"
    BY <1>0, <1>4, <1>5, <2>1 DEF Collect, Peers, Progress
  <2>2. CASE opt.skip # "hierarchy"
    BY <1>5, <2>2 DEF Collect, Database, DatabaseReady, dialog
  <2>. QED
    BY <2>1, <2>2
<1>6. CASE StartPage
  <2>1. CASE opt.skip = "hierarchy"
    <3>1. UNCHANGED <<text, dialog, given>> /\ UNCHANGED <<opt, number, at, used, free>>
      BY <1>6, <2>1 DEF StartPage, text, dialog
    <3>2. Peers(at)' = Peers(at) /\ \A m : SharedOn(at, m)' <=> SharedOn(at, m)
      BY <3>1 DEF Peers, Below, OnPage, SharedOn, SamePart, Slotted, Respected, Renumbers,
                  text, dialog
    <3>. QED
      BY <1>0, <1>1, <1>6, <2>1, <3>1, <3>2 DEF StartPage, Database, DatabaseReady
  <2>2. CASE opt.skip # "hierarchy"
    <3>1. given \cap Peers(at) = {}
      BY <1>0, <1>6, <2>2, AutonumberAssumption DEF StartPage, Progress, Peers, OnPage, ATypeOK
    <3>. QED
      BY <1>4, <1>6, <2>2, <3>1 DEF StartPage, Peers
  <2>. QED
    BY <2>1, <2>2
<1>7. ASSUME NEW t \in Texts, Number(t) PROVE Database'
  BY <1>7, DatabaseFreeSlot, DatabaseNewNumber DEF Number
<1>8. ASSUME NEW t \in Texts, RemoveNumber(t) PROVE Database'
  <2>1. Renumbers(t) /\ given = {} /\ given' = given /\ phase = "number"
    BY <1>0, <1>8 DEF RemoveNumber, Progress
  <2>2. UNCHANGED <<opt, selected, root, phase, at, used, free>>
    BY <1>8 DEF RemoveNumber, dialog
  <2>3. number'[t] = None /\ ~Respected(t) /\ ~Respected(t)'
    BY <1>0, <1>8, <2>1 DEF RemoveNumber, ATypeOK, Respected
  <2>4. \A u \in Texts \ {t} :
          /\ number'[u] = number[u] /\ SlotOf(u)' = SlotOf(u)
          /\ Respected(u)' <=> Respected(u)
    BY <1>0, <1>8, <2>2 DEF RemoveNumber, ATypeOK, SlotOf, Respected, Renumbers
  <2>5. Peers(at)' = Peers(at) /\ Peers(at) \subseteq Texts
    BY <2>2 DEF Peers, Below, OnPage
  <2>6. ASSUME NEW u \in Texts, Settled(u)' PROVE u # t /\ Settled(u)
    <3>1. Respected(u)'
      BY <2>1, <2>6 DEF Settled
    <3>2. u # t
      BY <2>3, <3>1
    <3>. QED
      BY <2>4, <3>1, <3>2 DEF Settled
  <2>7. ASSUME NEW m, SharedOn(at, m) PROVE SharedOn(at, m)'
    <3>1. PICK v \in Peers(at) \ given, w \in Peers(at) \ given :
            /\ v # w /\ Respected(v) /\ Respected(w)
            /\ number[v] = m /\ number[w] = m /\ ~SamePart(v, w)
      BY <2>7 DEF SharedOn
    <3>2. v \in Texts \ {t} /\ w \in Texts \ {t}
      BY <2>3, <2>5, <3>1
    <3>3. ~SamePart(v, w)'
      BY <2>4, <3>1, <3>2 DEF SamePart, Slotted
    <3>. QED
      BY <2>1, <2>2, <2>4, <2>5, <3>1, <3>2, <3>3 DEF SharedOn
  <2>8. /\ \A u \in Peers(at) : Settled(u) => number[u] \in used
        /\ \A k \in free :
             /\ opt.slotting /\ NumSlots[k[1]] > 0 /\ k[2] \in used /\ k[3] # 0
             /\ \A u \in Peers(at) : Settled(u) /\ number[u] = k[2] =>
                  /\ SymbolOf[u] = k[1] \/ SharedOn(at, k[2])
                  /\ SymbolOf[u] = k[1] => SlotOf(u) # k[3]
        /\ \A k, l \in free : k[2] = l[2] /\ k[1] # l[1] => SharedOn(at, k[2])
    BY <1>0, <2>1 DEF Database, DatabaseReady
  <2>9. \A u \in Peers(at)' : Settled(u)' =>
          /\ u \in Peers(at) /\ Settled(u)
          /\ number'[u] = number[u] /\ SlotOf(u)' = SlotOf(u)
    BY <2>4, <2>5, <2>6
  <2>. QED
    BY <2>2, <2>7, <2>8, <2>9 DEF Database
<1>9. CASE EndPage
  <2>. SUFFICES ASSUME phase' = "page", opt.skip = "hierarchy" PROVE Database'
    BY <1>9 DEF EndPage, Database, DatabaseReady, dialog
  <2>1. UNCHANGED <<text, dialog, given>> /\ UNCHANGED <<opt, number, used, free>>
    BY <1>9 DEF EndPage, text, dialog
  <2>2. Peers(at)' = Peers(at) /\ \A m : SharedOn(at, m)' <=> SharedOn(at, m)
    BY <2>1 DEF Peers, Below, OnPage, SharedOn, SamePart, Slotted, Respected, Renumbers,
                text, dialog
  <2>. QED
    BY <1>0, <1>1, <1>9, <2>1, <2>2 DEF EndPage, Database, DatabaseReady
<1>. QED
  BY <1>2, <1>3, <1>5, <1>6, <1>7, <1>8, <1>9 DEF Next

-----------------------------------------------------------------------------
\* What has been given.
LEMMA GivenStays ==
  ASSUME Given, UNCHANGED <<text, dialog, given>>
  PROVE  Given'
<1>1. UNCHANGED <<number, slot, opt, selected, root>>
  BY DEF text, dialog
<1>2. \A t : /\ Settled(t)' <=> Settled(t)
             /\ SlotOf(t)' = SlotOf(t)
  BY <1>1 DEF Settled, Respected, Renumbers, SlotOf
<1>3. \A t, u : SamePart(t, u)' <=> SamePart(t, u)
  BY <1>1 DEF SamePart, Slotted
<1>4. \A p : Peers(p)' = Peers(p)
  BY <1>1 DEF Peers, Below, OnPage
<1>5. \A p, n : SharedOn(p, n)' <=> SharedOn(p, n)
  BY <1>1, <1>3 DEF SharedOn, Peers, Below, OnPage, Respected, Renumbers
<1>. QED
  BY <1>1, <1>2, <1>3, <1>4, <1>5 DEF Given

\* The settled texts next to t after it got number n.
LEMMA GivenNumbers ==
  ASSUME AInv, NEW t \in Texts, NEW n, NEW s, NumberStep(t, n, s),
         \A u \in Peers(at) \ {t} : Settled(u) /\ number[u] = n =>
           \/ /\ opt.slotting /\ Slotted(t) /\ SymbolOf[u] = SymbolOf[t]
              /\ SlotOf(u)' # SlotOf(t)'
           \/ SymbolOf[u] # SymbolOf[t] /\ SharedOn(at, n)
  PROVE  Given'
<1>. SUFFICES ASSUME NEW x \in given', NEW u \in Peers(PageOf[x])' \ {x},
                     Settled(u)', number'[u] = number'[x]
              PROVE  /\ (opt'.slotting /\ SamePart(x, u)') \/ SharedOn(PageOf[x], number[x])'
                     /\ opt'.slotting /\ SamePart(x, u)' => SlotOf(x)' # SlotOf(u)'
  BY DEF Given
<1>0. ATypeOK /\ Progress /\ Given
  BY DEF AInv
<1>1. UNCHANGED <<opt, root, at>> /\ Peers(PageOf[x])' = Peers(PageOf[x])
  BY GivenText DEF Peers, Below, OnPage
<1>2. x \in Texts /\ u \in Texts
  BY <1>0, <1>1, GivenText DEF ATypeOK, Peers, Below, OnPage
<1>3. ASSUME NEW p, SharedOn(p, number'[x]) PROVE SharedOn(p, number[x])'
  <2>1. \A m : SharedOn(p, m) => SharedOn(p, m)'
    BY SharedKept
  <2>2. ASSUME NEW m, m = number'[x], SharedOn(p, m)' PROVE SharedOn(p, number[x])'
    BY <2>2 DEF SharedOn
  <2>. QED
    BY <1>3, <2>1, <2>2
<1>4. CASE x = t
  <2>1. PageOf[x] = at /\ number'[x] = n
    BY <1>4, GivenText
  <2>2. Settled(u) /\ number[u] = n
    BY <1>2, <1>4, <2>1, OthersKept
  <2>. QED
    BY <1>1, <1>2, <1>3, <1>4, <2>1, <2>2 DEF SamePart, Slotted
<1>5. CASE x # t /\ u = t
  <2>1. x \in given /\ Settled(x) /\ number[x] = n
    BY <1>2, <1>5, GivenText, OthersKept DEF Settled
  <2>2. Peers(PageOf[x]) = Peers(at) /\ x \in Peers(at)
    <3>1. CASE opt.skip = "hierarchy"
      <4>1. PageOf[x] \in root .. LastPage
        BY <1>0, <1>2, <2>1, AutonumberAssumption DEF Progress, ATypeOK
      <4>. QED
        BY <1>2, <3>1, <4>1 DEF Peers, Below
    <3>2. CASE opt.skip # "hierarchy"
      <4>1. PageOf[x] = at
        BY <1>1, <1>5, <3>2, GivenText DEF Peers, OnPage
      <4>. QED
        BY <1>2, <3>2, <4>1 DEF Peers, OnPage
    <3>. QED
      BY <3>1, <3>2
  <2>3. \/ /\ opt.slotting /\ Slotted(t) /\ SymbolOf[x] = SymbolOf[t]
           /\ SlotOf(x)' # SlotOf(t)'
        \/ SymbolOf[x] # SymbolOf[t] /\ SharedOn(at, n)
    BY <1>5, <2>1, <2>2
  <2>4. number'[x] = n
    BY <1>5, GivenText
  <2>5. SharedOn(at, n) => SharedOn(PageOf[x], number'[x])
    BY <2>2, <2>4 DEF SharedOn
  <2>. QED
    BY <1>1, <1>3, <1>5, <2>3, <2>4, <2>5 DEF SamePart, Slotted
<1>6. CASE x # t /\ u # t
  <2>1. /\ number'[x] = number[x] /\ number'[u] = number[u] /\ Settled(u)
        /\ SlotOf(x)' = SlotOf(x) /\ SlotOf(u)' = SlotOf(u)
    BY <1>2, <1>6, OthersKept
  <2>2. x \in given
    BY <1>6, GivenText
  <2>3. SamePart(x, u)' <=> SamePart(x, u)
    BY <2>1 DEF SamePart, Slotted
  <2>4. /\ (opt.slotting /\ SamePart(x, u)) \/ SharedOn(PageOf[x], number[x])
        /\ opt.slotting /\ SamePart(x, u) => SlotOf(x) # SlotOf(u)
    BY <1>0, <1>1, <2>1, <2>2 DEF Given
  <2>5. SharedOn(PageOf[x], number[x]) => SharedOn(PageOf[x], number[x])'
    BY <1>3, <2>1
  <2>. QED
    BY <1>1, <2>1, <2>3, <2>4, <2>5
<1>. QED
  BY <1>4, <1>5, <1>6

LEMMA GivenStep == ASSUME AInv, [Next]_vars PROVE Given'
<1>0. ATypeOK /\ Progress /\ Given
  BY DEF AInv
<1>1. CASE UNCHANGED vars
  BY <1>0, <1>1, GivenStays DEF vars, text, dialog
<1>2. ASSUME NEW o \in Options, NEW r \in 1 .. LastPage, NEW S \in SUBSET OnPage(r),
             Apply(o, r, S)
      PROVE  Given'
  BY <1>2 DEF Apply, Given
<1>3. CASE Collect \/ StartPage \/ EndPage
  BY <1>0, <1>3, GivenStays DEF Collect, StartPage, EndPage
<1>4. ASSUME NEW t \in Texts, Number(t) PROVE Given'
  <2>1. CASE \E k \in free : GiveFreeSlot(t, k)
    <3>1. PICK k \in free : GiveFreeSlot(t, k)
      BY <2>1
    <3>2. k[1] = SymbolOf[t] /\ NumberStep(t, k[2], k[3])
      BY <1>4, <3>1, FreeSlotStep
    <3>. QED
      BY <3>2, SameNumber, GivenNumbers
  <2>2. CASE \E n \in Unused : GiveNewNumber(t, n)
    <3>1. PICK n \in Unused : GiveNewNumber(t, n)
      BY <2>2
    <3>2. n \in Nat \ used
      BY <1>4, <3>1, NewNumberStep
    <3>3. PICK s : NumberStep(t, n, s)
      BY <1>4, <3>1, NewNumberStep
    <3>. QED
      BY <3>2, <3>3, NoSameNumber, GivenNumbers
  <2>. QED
    BY <1>4, <2>1, <2>2 DEF Number
<1>5. ASSUME NEW t \in Texts, RemoveNumber(t) PROVE Given'
  BY <1>0, <1>5 DEF RemoveNumber, Progress, Given
<1>. QED
  BY <1>1, <1>2, <1>3, <1>4, <1>5 DEF Next

-----------------------------------------------------------------------------
LEMMA InvInit == Init => AInv
<1>. SUFFICES ASSUME Init PROVE AInv
  OBVIOUS
<1>1. Progress /\ Given /\ Database
  BY DEF Init, Progress, Given, Database, DatabaseReady
<1>2. Coming
  BY DEF Init, Coming, Renumbers
<1>. QED
  BY <1>1, <1>2, TypeInit DEF AInv

\* Whenever the command runs, the database is right about the settled texts, and
\* every text to be numbered is on the list or on a page still to come.
THEOREM InvAlways == Spec => []AInv
<1>1. AInv /\ [Next]_vars => AInv'
  BY TypeStep, ProgressStep, ComingStep, DatabaseStep, GivenStep DEF AInv
<1>. QED
  BY <1>1, InvInit, PTL DEF Spec

\* When the command is over, a text in view of a numbered one that has its number
\* is settled, and so are the two that shared the number before.
LEMMA InViewSettled ==
  ASSUME AInv, phase = "idle", NEW t \in given, NEW u \in InView(t), number[u] = number[t]
  PROVE  u \in Peers(PageOf[t]) \ {t} /\ Settled(u)
<1>0. ATypeOK /\ Progress /\ Coming
  BY DEF AInv
<1>1. u \in Peers(PageOf[t]) \ {t}
  BY DEF InView, Peers, Below, OnPage
<1>2. number[u] # None /\ ~opt.removenum
  BY <1>0 DEF Progress
<1>3. CASE u \notin given
  <2>1. ~Renumbers(u)
    BY <1>0, <1>2, <1>3 DEF Coming, InView
  <2>. QED
    BY <1>1, <1>2, <1>3, <2>1 DEF Settled, Respected, InView
<1>. QED
  BY <1>1, <1>3 DEF Settled

LEMMA SharedInView ==
  ASSUME AInv, NEW t \in given, SharedOn(PageOf[t], number[t])
  PROVE  SharedBefore(t)
<1>0. ATypeOK /\ Progress
  BY DEF AInv
<1>1. PICK v \in Peers(PageOf[t]) \ given, w \in Peers(PageOf[t]) \ given :
        /\ v # w /\ Respected(v) /\ Respected(w)
        /\ number[v] = number[t] /\ number[w] = number[t] /\ ~SamePart(v, w)
  BY DEF SharedOn
<1>2. ASSUME NEW x \in Peers(PageOf[t]) \ given, Respected(x) PROVE x \in InView(t)
  <2>1. t \in Texts /\ PageOf[t] \in root .. LastPage
    BY <1>0, AutonumberAssumption DEF Progress, ATypeOK
  <2>2. x \in Below(root) /\ (opt.skip = "hierarchy" \/ PageOf[x] = PageOf[t])
    BY <1>2, <2>1 DEF Peers, OnPage, Below
  <2>. QED
    BY <1>2, <2>2 DEF InView, Respected
<1>. QED
  BY <1>1, <1>2 DEF SharedBefore

\* No number is given twice in the scope that is respected.
THEOREM NumbersAreUniqueAlways == Spec => []NumbersAreUnique
<1>1. AInv => NumbersAreUnique
  <2>. SUFFICES ASSUME AInv, phase = "idle", NEW t \in given, NEW u \in InView(t),
                       number[u] = number[t]
                PROVE  (opt.slotting /\ SamePart(t, u)) \/ SharedBefore(t)
    BY DEF NumbersAreUnique
  <2>1. u \in Peers(PageOf[t]) \ {t} /\ Settled(u)
    BY InViewSettled
  <2>2. (opt.slotting /\ SamePart(t, u)) \/ SharedOn(PageOf[t], number[t])
    BY <2>1 DEF AInv, Given
  <2>. QED
    BY <2>2, SharedInView
<1>. QED
  BY <1>1, InvAlways, PTL

\* No slot of a part is given twice.
THEOREM SlotsAreUsedOnceAlways == Spec => []SlotsAreUsedOnce
<1>1. AInv => SlotsAreUsedOnce
  <2>. SUFFICES ASSUME AInv, phase = "idle", opt.slotting,
                       NEW t \in given, NEW u \in InView(t), SamePart(t, u)
                PROVE  SlotOf(t) # SlotOf(u)
    BY DEF SlotsAreUsedOnce
  <2>1. number[u] = number[t]
    BY DEF SamePart
  <2>2. u \in Peers(PageOf[t]) \ {t} /\ Settled(u)
    BY <2>1, InViewSettled
  <2>. QED
    BY <2>1, <2>2 DEF AInv, Given
<1>. QED
  BY <1>1, InvAlways, PTL
=============================================================================
