---------------------------- MODULE AddressSpace ----------------------------
(***************************************************************************)
(* What page tables are for: a map from pages to frames in which an update *)
(* of one page leaves every other page alone.                              *)
(***************************************************************************)
CONSTANTS
    Pages,          \* the pages the tables can tell apart
    Unmapped        \* what a page that has no translation maps to

VARIABLE space      \* space[p]: the frame of page p, or Unmapped

Init == \A p \in Pages : space[p] = Unmapped

\* One page gets another translation, or loses the one it had.
Update == \E p \in Pages : /\ space'[p] # space[p]
                           /\ \A q \in Pages \ {p} : space'[q] = space[q]

Spec == Init /\ [][Update]_space
=============================================================================
