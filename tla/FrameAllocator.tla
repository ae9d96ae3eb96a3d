--------------------------- MODULE FrameAllocator ---------------------------
(***************************************************************************)
(* What a physical frame allocator promises its callers: once the boot     *)
(* code has published a pool of frames, a client is given only frames of   *)
(* the pool that nobody owns, a client gives back only what it owns, and   *)
(* the machine is stopped for want of memory only when nothing is left.    *)
(***************************************************************************)
EXTENDS FiniteSets

CONSTANT Clients    \* the contexts that call the allocator

VARIABLES
    pool,           \* the frames that may be handed out
    owned,          \* owned[c]: the frames client c holds
    halted          \* the machine was stopped for want of memory

vars == <<pool, owned, halted>>

Taken == UNION {owned[c] : c \in Clients}

Init == /\ pool = {}
        /\ owned = [c \in Clients |-> {}]
        /\ halted = FALSE

Publish == /\ pool = {}
           /\ pool' # {}
           /\ UNCHANGED <<owned, halted>>

Alloc(c) == /\ ~halted
            /\ \E f \in pool \ Taken : owned' = [owned EXCEPT ![c] = @ \cup {f}]
            /\ UNCHANGED <<pool, halted>>

Free(c) == /\ ~halted
           /\ \E f \in owned[c] : owned' = [owned EXCEPT ![c] = @ \ {f}]
           /\ UNCHANGED <<pool, halted>>

Exhausted == /\ ~halted
             /\ pool \subseteq Taken
             /\ halted' = TRUE
             /\ UNCHANGED <<pool, owned>>

Next == \/ Publish
        \/ Exhausted
        \/ \E c \in Clients : Alloc(c) \/ Free(c)

Spec == Init /\ [][Next]_vars
=============================================================================
