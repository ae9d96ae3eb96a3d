--------------------------------- MODULE Pmm ---------------------------------
(***************************************************************************)
(* The physical memory manager (kernel/pmm.c): initPMM chooses the largest *)
(* usable region of the boot loader's memory map and puts a bitmap at its  *)
(* start; kmalloc scans the bitmap for a clear bit and sets it; kfree      *)
(* clears it.                                                              *)
(*                                                                         *)
(* Addresses are counted in frames of 4096 bytes (the boot loader aligns   *)
(* usable entries to frames).  kmalloc runs in the main thread and, from   *)
(* shell commands, inside interrupt handlers: a context is a nesting       *)
(* level, 0 the main thread, and a context runs only while no context      *)
(* above it is inside the allocator.  The test of a bit (pmm.c:113) and    *)
(* the OR that sets it (pmm.c:115) are separate instructions, the OR       *)
(* itself is one; so is the AND of kfree (pmm.c:146).                      *)
(***************************************************************************)
EXTENDS Integers, Sequences

CONSTANTS
    BitsPerPage,    \* bits of one bitmap page: 32768
    LowFrames,      \* frames below 1MB: 256
    IntFrames,      \* frames below 2GB, which an int address reaches: 2^19
    MaxNest,        \* bound: interrupt handlers nested over the main thread
    MemMaps         \* the memory maps the boot loader may hand over

Entry == [base : Nat, length : Nat, usable : BOOLEAN]

ASSUME ConstantsAssumption ==
    /\ BitsPerPage \in Nat \ {0}
    /\ LowFrames \in Nat
    /\ IntFrames \in Nat \ {0}
    /\ MaxNest \in Nat
    /\ MemMaps \subseteq Seq(Entry)

Contexts == 0 .. MaxNest

VARIABLES
    memmap,         \* the memory map of this boot
    entry,          \* initPMM's loop index i, from 1
    region,         \* initPMM's locals maxBegin and maxLength
    phase,          \* "scan" (initPMM), "ready", "halted" (cli; hlt)
    largestSect,    \* kernel.largestSect; bitmapReserved in frames
    bitmap,         \* the bits that kmalloc reads as 1
    pc,             \* pc[c]: "idle", "probe" (line 113 next), "mark" (115)
    at,             \* at[c]: the bit kmalloc looks at, b * 8 + y; 0 when idle
    owned,          \* history: the bits handed to context c and not freed
    disturbed       \* history: a handler changed a bit under a running call

bootVars == <<memmap, entry, region, largestSect>>
vars == <<memmap, entry, region, phase, largestSect, bitmap, pc, at, owned, disturbed>>

\* Variant of ToInt: the field two bits narrower and unsigned.
NarrowToInt(f) == f % (IntFrames \div 4)

\* A number of frames converted to bytes, stored in an int and read back.
ToInt(f) == LET m == f % (2 * IntFrames)
            IN  IF m < IntFrames THEN m ELSE m - 2 * IntFrames

\* The bitmap's size in frames for a region of n frames (pmm.c:69-72).
BitmapPages(n) == (n + BitsPerPage - 1) \div BitsPerPage

Bits == 0 .. largestSect.bitmapReserved * BitsPerPage - 1

\* The frame that bit i stands for in kmalloc and kfree (pmm.c:107, 119, 138).
DataStart == ToInt(largestSect.maxBegin + largestSect.bitmapReserved)
FrameOf(i) == DataStart + i

Candidate(e) == e.usable /\ e.base >= LowFrames

\* c is the innermost context inside the allocator, or may enter it.
CanRun(c) == phase = "ready" /\ \A d \in Contexts : d > c => pc[d] = "idle"

-----------------------------------------------------------------------------
Init == /\ memmap \in MemMaps
        /\ entry = 1
        /\ region = [begin |-> 0, length |-> 0]
        /\ phase = "scan"
        /\ largestSect = [maxBegin |-> 0, bitmapReserved |-> 0]
        /\ bitmap = {}
        /\ pc = [c \in Contexts |-> "idle"]
        /\ at = [c \in Contexts |-> 0]
        /\ owned = [c \in Contexts |-> {}]
        /\ disturbed = FALSE

\* Variant of ScanEntry: the last candidate wins, large or small.
ScanEntryLastWins ==
    /\ phase = "scan"
    /\ entry <= Len(memmap)
    /\ entry' = entry + 1
    /\ LET e == memmap[entry]
       IN  region' = IF Candidate(e)
                     THEN [begin |-> e.base, length |-> e.length]
                     ELSE region
    /\ UNCHANGED <<memmap, phase, largestSect, bitmap, pc, at, owned, disturbed>>

\* One iteration of initPMM's search for the largest entry.
ScanEntry ==
    /\ phase = "scan"
    /\ entry <= Len(memmap)
    /\ entry' = entry + 1
    /\ LET e == memmap[entry]
       IN  region' = IF Candidate(e) /\ e.length > region.length
                     THEN [begin |-> e.base, length |-> e.length]
                     ELSE region
    /\ UNCHANGED <<memmap, phase, largestSect, bitmap, pc, at, owned, disturbed>>

\* Variant of ReserveBitmap: the loop that marks the first bits is missing.
ReserveBitmapUnmarked ==
    /\ phase = "scan"
    /\ entry > Len(memmap)
    /\ phase' = "ready"
    /\ largestSect' = [maxBegin |-> ToInt(region.begin),
                       bitmapReserved |-> BitmapPages(region.length)]
    /\ bitmap' = {}
    /\ UNCHANGED <<memmap, entry, region, pc, at, owned, disturbed>>

\* The rest of initPMM.  The bitmap is cleared and marked at the region's
\* start; kmalloc looks for it at kernel.largestSect.maxBegin, an int, and
\* when that is another place it reads whatever memory holds there.
ReserveBitmap ==
    /\ phase = "scan"
    /\ entry > Len(memmap)
    /\ phase' = "ready"
    /\ LET pages == BitmapPages(region.length)
       IN  /\ largestSect' = [maxBegin |-> ToInt(region.begin),
                              bitmapReserved |-> pages]
           /\ IF ToInt(region.begin) = region.begin
              THEN bitmap' = 0 .. pages - 1
              ELSE bitmap' \in SUBSET (0 .. pages * BitsPerPage - 1)
    /\ UNCHANGED <<memmap, entry, region, pc, at, owned, disturbed>>

-----------------------------------------------------------------------------
\* Context c calls kmalloc.
KmallocCall(c) ==
    /\ CanRun(c)
    /\ pc[c] = "idle"
    /\ pc' = [pc EXCEPT ![c] = "probe"]
    /\ at' = [at EXCEPT ![c] = 0]
    /\ UNCHANGED <<bootVars, phase, bitmap, owned, disturbed>>

\* Variant of Probe: the loop runs one bit too far.
ProbePastEnd(c) ==
    /\ CanRun(c)
    /\ pc[c] = "probe"
    /\ at[c] - 1 \in Bits \cup {-1}
    /\ \/ /\ at[c] \in bitmap
          /\ at' = [at EXCEPT ![c] = @ + 1]
          /\ pc' = pc
       \/ /\ at[c] \notin bitmap
          /\ pc' = [pc EXCEPT ![c] = "mark"]
          /\ at' = at
    /\ UNCHANGED <<bootVars, phase, bitmap, owned, disturbed>>

\* getBit on the next bit: go on past a set bit, stop at a clear one.
Probe(c) ==
    /\ CanRun(c)
    /\ pc[c] = "probe"
    /\ at[c] \in Bits
    /\ \/ /\ at[c] \in bitmap
          /\ at' = [at EXCEPT ![c] = @ + 1]
          /\ pc' = pc
       \/ /\ at[c] \notin bitmap
          /\ pc' = [pc EXCEPT ![c] = "mark"]
          /\ at' = at
    /\ UNCHANGED <<bootVars, phase, bitmap, owned, disturbed>>

\* setBit on the bit found, and return of its frame.
Mark(c) ==
    /\ CanRun(c)
    /\ pc[c] = "mark"
    /\ bitmap' = bitmap \cup {at[c]}
    /\ owned' = [owned EXCEPT ![c] = @ \cup {at[c]}]
    /\ pc' = [pc EXCEPT ![c] = "idle"]
    /\ disturbed' = (disturbed \/ \E d \in Contexts :
                        d < c /\ pc[d] = "mark" /\ at[d] = at[c])
    /\ at' = [at EXCEPT ![c] = 0]
    /\ UNCHANGED <<bootVars, phase>>

\* Variant of OutOfMemory: gives up before the last bit is looked at.
OutOfMemoryEarly(c) ==
    /\ CanRun(c)
    /\ pc[c] = "probe"
    /\ at[c] + 1 \notin Bits
    /\ phase' = "halted"
    /\ UNCHANGED <<bootVars, bitmap, pc, at, owned, disturbed>>

\* No clear bit: kmalloc stops the machine with interrupts off.
OutOfMemory(c) ==
    /\ CanRun(c)
    /\ pc[c] = "probe"
    /\ at[c] \notin Bits
    /\ phase' = "halted"
    /\ UNCHANGED <<bootVars, bitmap, pc, at, owned, disturbed>>

\* Variant of Kfree: the bit after the frame's is cleared.
KfreeNeighbour(c) ==
    /\ CanRun(c)
    /\ pc[c] = "idle"
    /\ \E i \in owned[c] :
          /\ bitmap' = bitmap \ {i + 1}
          /\ owned' = [owned EXCEPT ![c] = @ \ {i}]
          /\ disturbed' = (disturbed \/ \E d \in Contexts :
                              d < c /\ pc[d] # "idle" /\ i < at[d])
    /\ UNCHANGED <<bootVars, phase, pc, at>>

\* Context c gives back a frame it was given.
Kfree(c) ==
    /\ CanRun(c)
    /\ pc[c] = "idle"
    /\ \E i \in owned[c] :
          /\ bitmap' = bitmap \ {i}
          /\ owned' = [owned EXCEPT ![c] = @ \ {i}]
          /\ disturbed' = (disturbed \/ \E d \in Contexts :
                              d < c /\ pc[d] # "idle" /\ i < at[d])
    /\ UNCHANGED <<bootVars, phase, pc, at>>

Next == \/ ScanEntry
        \/ ReserveBitmap
        \/ \E c \in Contexts : \/ KmallocCall(c)
                               \/ Probe(c)
                               \/ Mark(c)
                               \/ OutOfMemory(c)
                               \/ Kfree(c)

Spec == Init /\ [][Next]_vars

-----------------------------------------------------------------------------
TypeOK ==
    /\ memmap \in MemMaps
    /\ entry \in Nat \ {0}
    /\ region \in [begin : Nat, length : Nat]
    /\ phase \in {"scan", "ready", "halted"}
    /\ largestSect \in [maxBegin : Int, bitmapReserved : Nat]
    /\ bitmap \subseteq Bits
    /\ pc \in [Contexts -> {"idle", "probe", "mark"}]
    /\ at \in [Contexts -> Nat]
    /\ \A c \in Contexts : pc[c] = "mark" => at[c] \in Bits
    /\ owned \in [Contexts -> SUBSET Bits]
    /\ disturbed \in BOOLEAN

\* initPMM's loop leaves the largest usable region that starts at or above
\* 1MB, whatever the order of the map (pmm.c:51-63); it leaves the empty
\* region only when there is nothing to choose.
PicksLargestRegion ==
    phase # "scan" =>
        /\ \A j \in 1 .. Len(memmap) :
              Candidate(memmap[j]) => memmap[j].length <= region.length
        /\ region.length > 0 =>
              \E j \in 1 .. Len(memmap) :
                 /\ Candidate(memmap[j])
                 /\ memmap[j].base = region.begin
                 /\ memmap[j].length = region.length

\* No two contexts hold the same frame, and the bit of every frame held is
\* set, unless a handler's kmalloc marked the very bit that a call below it
\* had tested and not yet set: the window from pmm.c:113 to 115 is the only
\* one, whatever the interleaving of kmalloc and kfree.
NoSharedFrame ==
    \A c, d \in Contexts : c # d => owned[c] \cap owned[d] = {}
OnlyTheWindowShares ==
    ~disturbed => NoSharedFrame /\ \A c \in Contexts : owned[c] \subseteq bitmap

\* kmalloc never gives out the frames where initPMM put the bitmap
\* (pmm.c:80-88 against 107-119).
BitmapNeverGranted ==
    \A c \in Contexts : \A i \in owned[c] :
        FrameOf(i) \notin region.begin .. region.begin + BitmapPages(region.length) - 1

\* The machine is stopped for want of memory (pmm.c:126-129) only when every
\* bit is set, unless a handler freed a frame behind a running scan.
HaltsOnlyWhenFull ==
    phase = "halted" /\ ~disturbed => Bits \subseteq bitmap

\* Until a handler disturbs a running call, the manager does what
\* FrameAllocator promises, over the frames its bitmap has bits for beyond
\* the ones marked at boot.
FA == INSTANCE FrameAllocator
      WITH Clients <- Contexts,
           pool <- IF phase = "scan" THEN {}
                   ELSE largestSect.bitmapReserved ..
                        largestSect.bitmapReserved * BitsPerPage - 1,
           halted <- (phase = "halted")
ImplementsFrameAllocator ==
    FA!Init /\ [][FA!Next \/ disturbed']_(FA!vars)

-----------------------------------------------------------------------------
\* What comments of pmm.c say and the code does not do.

\* pmm.c:51 "Find the largest available entry to use for allocation": every
\* frame handed out lies in the entry that was found.
GrantsInsideRegion ==
    \A c \in Contexts : \A i \in owned[c] :
        FrameOf(i) \in region.begin .. region.begin + region.length - 1

\* pmm.c:103 "Calculate bitmap base address correctly": kmalloc reads the
\* bitmap where initPMM wrote it.
BitmapBaseKept == phase # "scan" => largestSect.maxBegin = region.begin
=============================================================================
