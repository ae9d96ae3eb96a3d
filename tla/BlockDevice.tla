---------------------------- MODULE BlockDevice ----------------------------
(***************************************************************************)
(* What a disk driver promises its caller: the block it returns is the one *)
(* the caller asked for last, and nothing else changes the block returned. *)
(***************************************************************************)
CONSTANTS Sectors, NoSector

VARIABLES asked,        \* the sector a caller waits for, or NoSector
          block         \* the sector last returned

Init == asked = NoSector /\ block = NoSector

Ask == /\ asked = NoSector
       /\ asked' \in Sectors
       /\ block' = block

Answer == /\ asked # NoSector
          /\ block' = asked
          /\ asked' \in Sectors \union {NoSector}

Spec == Init /\ [][Ask \/ Answer]_<<asked, block>>
=============================================================================
