----------------------------- MODULE Autonumber -----------------------------
(***************************************************************************)
(* The Autonumber Text command (schematic/src/x_autonumber.c), for one     *)
(* search text such as "refdes=U".                                         *)
(*                                                                         *)
(* The command walks over the schematics below the current page, collects  *)
(* the numbers and slots that must be respected in a database, and gives   *)
(* the other texts numbers.  With slotting, a text of a slotted component  *)
(* first gets a slot that is left in a part of that symbol.                *)
(*                                                                         *)
(* A text's number is None while it ends in "?".  Each component has one   *)
(* such text.  Slots are between 1 and the symbol's "numslots".  Numbers   *)
(* start at 1: freeslot_compare takes 0 for "any number".  The order in    *)
(* which the texts of a page are numbered is left open: it is the user's   *)
(* sort order.                                                             *)
(***************************************************************************)
EXTENDS Naturals

CONSTANTS Texts, Symbols, None,
          LastPage,   \* page p uses page p + 1 as a subschematic
          PageOf,     \* the page a text is on
          SymbolOf,   \* the symbol of the component it is attached to, or None
          NumSlots,   \* a symbol's "numslots" attribute, 0 if it has none
          OwnSlot,    \* the "slot" attribute inside the symbol, 0 if none
          Numbers,    \* the numbers texts may have before the first run
          Starts      \* the starting numbers the user enters

ASSUME AutonumberAssumption ==
  /\ None \notin Nat \cup Symbols
  /\ LastPage \in Nat \ {0}
  /\ PageOf \in [Texts -> 1 .. LastPage]
  /\ SymbolOf \in [Texts -> Symbols \cup {None}]
  /\ NumSlots \in [Symbols -> Nat]
  /\ OwnSlot \in [Symbols -> Nat]
  /\ \A y \in Symbols : OwnSlot[y] <= NumSlots[y]
  /\ Numbers \subseteq Nat \ {0}
  /\ 1 \in Starts /\ Starts \subseteq Nat \ {0}

Scopes == {"selected", "page", "hierarchy"}
Options == [skip : Scopes, scope : Scopes, overwrite : BOOLEAN,
            removenum : BOOLEAN, slotting : BOOLEAN, startnum : Starts]

VARIABLES
  number,      \* the number at the end of a text
  slot,        \* the "slot" attribute attached to its component, 0 if none
  opt,         \* what the dialog says (AUTONUMBER_TEXT)
  selected,    \* the texts that are selected on the root page
  root,        \* the page the command was given on
  phase,       \* "idle", "collect", "page" or "number"
  at,          \* the page the command is on
  todo,        \* o_list: the texts of that page still to be numbered
  used,        \* used_numbers
  free,        \* free_slots: <<symbol, number, slot>>
  given        \* history: the texts this run has numbered

vars == <<number, slot, opt, selected, root, phase, at, todo, used, free, given>>
text == <<number, slot>>
dialog == <<opt, selected, root>>

-----------------------------------------------------------------------------
Slotted(t) == SymbolOf[t] # None /\ NumSlots[SymbolOf[t]] > 0

\* o_attrib_search_object_attribs_by_name: attached attributes come first.
SlotOf(t) == IF slot[t] # 0 THEN slot[t] ELSE OwnSlot[SymbolOf[t]]

\* autonumber_match: AUTONUMBER_RENUMBER.
Renumbers(t) ==
  /\ PageOf[t] = root \/ opt.scope = "hierarchy"
  /\ t \in selected \/ opt.scope \in {"page", "hierarchy"}
  /\ number[t] = None \/ opt.overwrite

\* autonumber_match: AUTONUMBER_RESPECT.
Respected(t) ==
  /\ ~Renumbers(t)
  /\ number[t] # None
  /\ ~(opt.skip = "selected" /\ t \notin selected /\ PageOf[t] = root)

\* autonumber_get_used: what the database holds of the texts T.
NumbersOf(T) == {number[t] : t \in {u \in T : Respected(u)}}

UsedSlots(T) ==
  {<<SymbolOf[t], number[t], SlotOf(t)>> :
     t \in {u \in T : Respected(u) /\ Slotted(u) /\ opt.slotting /\ SlotOf(u) # 0}}

SlotsOf(y, n) == {<<y, n, i>> : i \in 1 .. NumSlots[y]}

\* A mutant's: a slot that is taken by a later text of the part stays free.
FreeBesidesFirst(T) ==
  (UNION {SlotsOf(k[1], k[2]) : k \in UsedSlots(T)})
    \ {k \in UsedSlots(T) : \A l \in UsedSlots(T) : l[1] = k[1] /\ l[2] = k[2] => k[3] <= l[3]}

FreeSlots(T) == (UNION {SlotsOf(k[1], k[2]) : k \in UsedSlots(T)}) \ UsedSlots(T)

\* freeslot_compare, for slots of one symbol.
Before(k, l) == k[2] < l[2] \/ (k[2] = l[2] /\ k[3] <= l[3])

Below(r) == {t \in Texts : PageOf[t] \in r .. LastPage}
OnPage(p) == {t \in Texts : PageOf[t] = p}

-----------------------------------------------------------------------------
\* autonumber_clear_database
ClearDatabase == used' = {} /\ free' = {}

\* autonumber_init_state; texts as the user left them.
Init ==
  /\ number \in [Texts -> Numbers \cup {None}]
  /\ slot \in [Texts -> {0} \cup (UNION {0 .. NumSlots[y] : y \in Symbols})]
  /\ \A t \in Texts : slot[t] # 0 => Slotted(t) /\ slot[t] <= NumSlots[SymbolOf[t]]
  /\ opt = [skip |-> "page", scope |-> "selected", overwrite |-> FALSE,
            removenum |-> FALSE, slotting |-> FALSE, startnum |-> 1]
  /\ selected = {} /\ root = 1 /\ phase = "idle" /\ at = 1
  /\ todo = {} /\ used = {} /\ free = {} /\ given = {}

\* autonumber_text_response: Apply, with texts selected on the current page.
\* Removing numbers overwrites.  With everything to be overwritten there is
\* nothing to collect.
Apply(o, r, S) ==
  /\ phase = "idle"
  /\ S \subseteq OnPage(r)
  /\ opt' = [o EXCEPT !.overwrite = o.overwrite \/ o.removenum]
  /\ root' = r /\ selected' = S /\ at' = r /\ given' = {}
  /\ phase' = IF o.skip = "hierarchy" /\ ~(o.scope = "hierarchy" /\ opt'.overwrite)
              THEN "collect" ELSE "page"
  /\ UNCHANGED <<text, todo, used, free>>

\* skip "hierarchy": the database of all pages.
Collect ==
  /\ phase = "collect"
  /\ used' = NumbersOf(Below(root)) /\ free' = FreeSlots(Below(root))
  /\ phase' = "page"
  /\ UNCHANGED <<text, dialog, at, todo, given>>

\* The page's database, unless there is one of all pages, and its texts to number.
StartPage ==
  /\ phase = "page"
  /\ IF opt.skip = "hierarchy"
     THEN UNCHANGED <<used, free>>
     ELSE used' = NumbersOf(OnPage(at)) /\ free' = FreeSlots(OnPage(at))
  /\ todo' = {t \in OnPage(at) : Renumbers(t)}
  /\ phase' = "number"
  /\ UNCHANGED <<text, dialog, at, given>>

\* autonumber_get_new_numbers, case 1: slots that are left for a text.
FreeFor(t) == {k \in free : opt.slotting /\ k[1] = SymbolOf[t]}

\* ... case 2: the first number from the start that is not used.  It is the start
\* or follows a used one.
Unused == {n \in {opt.startnum} \cup {i + 1 : i \in used} : n >= opt.startnum /\ n \notin used}
IsNewNumber(n) == n \in Unused /\ \A i \in Unused : n <= i

\* autonumber_apply_new_text, with o_slot_end.
ApplyNewText(t, n, s) ==
  /\ number' = [number EXCEPT ![t] = n]
  /\ slot' = [slot EXCEPT ![t] = IF s = 0 THEN @ ELSE s]
  /\ given' = given \cup {t}

GiveFreeSlot(t, k) ==
  /\ k \in FreeFor(t) /\ \A l \in FreeFor(t) : Before(k, l)
  /\ free' = free \ {k}
  /\ ApplyNewText(t, k[2], k[3])
  /\ UNCHANGED used

\* A mutant's: the new number is not remembered.
GiveForgotten(t, n) ==
  /\ FreeFor(t) = {} /\ IsNewNumber(n)
  /\ IF opt.slotting /\ Slotted(t)
     THEN /\ free' = free \cup (SlotsOf(SymbolOf[t], n) \ {<<SymbolOf[t], n, 1>>})
          /\ ApplyNewText(t, n, 1)
     ELSE UNCHANGED free /\ ApplyNewText(t, n, 0)
  /\ UNCHANGED used

GiveNewNumber(t, n) ==
  /\ FreeFor(t) = {} /\ IsNewNumber(n)
  /\ used' = used \cup {n}
  /\ IF opt.slotting /\ Slotted(t)
     THEN /\ free' = free \cup (SlotsOf(SymbolOf[t], n) \ {<<SymbolOf[t], n, 1>>})
          /\ ApplyNewText(t, n, 1)
     ELSE UNCHANGED free /\ ApplyNewText(t, n, 0)

Number(t) ==
  /\ phase = "number" /\ t \in todo /\ ~opt.removenum
  /\ \/ \E k \in free : GiveFreeSlot(t, k)
     \/ \E n \in Unused : GiveNewNumber(t, n)
  /\ todo' = todo \ {t}
  /\ UNCHANGED <<dialog, phase, at>>

\* autonumber_remove_number
RemoveNumber(t) ==
  /\ phase = "number" /\ t \in todo /\ opt.removenum
  /\ number' = [number EXCEPT ![t] = None]
  /\ slot' = [slot EXCEPT ![t] = IF opt.slotting THEN 0 ELSE @]
  /\ todo' = todo \ {t}
  /\ UNCHANGED <<dialog, phase, at, used, free, given>>

\* The page is done; only the root page is numbered unless the scope is the hierarchy.
EndPage ==
  /\ phase = "number" /\ todo = {}
  /\ IF opt.scope = "hierarchy" /\ at < LastPage
     THEN /\ phase' = "page" /\ at' = at + 1
          /\ IF opt.skip = "hierarchy" THEN UNCHANGED <<used, free>> ELSE ClearDatabase
     ELSE phase' = "idle" /\ ClearDatabase /\ UNCHANGED at
  /\ UNCHANGED <<text, dialog, todo, given>>

Next ==
  \/ \E o \in Options, r \in 1 .. LastPage : \E S \in SUBSET OnPage(r) : Apply(o, r, S)
  \/ Collect
  \/ StartPage
  \/ \E t \in Texts : Number(t) \/ RemoveNumber(t)
  \/ EndPage

Spec == Init /\ [][Next]_vars

-----------------------------------------------------------------------------
\* The texts whose numbers a run compares t's number with.
InView(t) ==
  {u \in Below(root) \ {t} :
     /\ opt.skip = "hierarchy" \/ PageOf[u] = PageOf[t]
     /\ opt.skip # "selected" \/ u \in given \cup selected \/ PageOf[u] # root}

SamePart(t, u) == SymbolOf[t] = SymbolOf[u] /\ Slotted(t) /\ number[t] = number[u]

\* Two texts in view that the run left alone share t's number.
SharedBefore(t) ==
  \E v, w \in InView(t) \ given :
     v # w /\ number[v] = number[t] /\ number[w] = number[t] /\ ~SamePart(v, w)

\* Autonumbering never gives a text the number of another text in the scope
\* the user asked it to respect, other than to make it a slot of the same part,
\* unless that number was shared before: used_numbers is complete and grows with
\* every number given, across the pages of the hierarchy.
NumbersAreUnique ==
  phase = "idle" =>
    \A t \in given : \A u \in InView(t) :
      number[u] = number[t] => (opt.slotting /\ SamePart(t, u)) \/ SharedBefore(t)

\* With slotting, no two components become the same slot of the same part: the
\* free slots never include one that a respected text has or the run has given.
SlotsAreUsedOnce ==
  phase = "idle" /\ opt.slotting =>
    \A t \in given : \A u \in InView(t) : SamePart(t, u) => SlotOf(t) # SlotOf(u)
=============================================================================
