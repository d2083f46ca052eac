---------------------------- MODULE MCAutonumber ----------------------------
(* Two pages; a slotted symbol with two slots, and a plain text.  *)
EXTENDS Autonumber, TLC

CONSTANTS t1, t2, t3, t4, sym

MCPageOf == (t1 :> 1) @@ (t2 :> 1) @@ (t3 :> 2) @@ (t4 :> 1)
MCSymbolOf == (t1 :> sym) @@ (t2 :> sym) @@ (t3 :> sym) @@ (t4 :> None)
MCNumSlots == (sym :> 2)
MCOwnSlot == (sym :> 1)

\* One run, from every state the texts may be in.  A selection only matters to a
\* scope "selected".
OneRun == /\ phase = "idle" => given = {} /\ selected = {} /\ at = 1
                               /\ opt = [skip |-> "page", scope |-> "selected",
                                         overwrite |-> FALSE, removenum |-> FALSE,
                                         slotting |-> FALSE, startnum |-> 1]
          /\ selected = {} \/ "selected" \in {opt.skip, opt.scope}

Symmetric == Permutations({t1, t2})
=============================================================================
