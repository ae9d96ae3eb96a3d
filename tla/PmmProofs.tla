------------------------------ MODULE PmmProofs ------------------------------
(***************************************************************************)
(* Theorems about Pmm for every memory map, every size of bitmap page and  *)
(* every depth of nested handlers.                                         *)
(***************************************************************************)
EXTENDS Pmm, TLAPS

\* The sizes initPMM computes are natural numbers, its conversion to int
\* gives an integer, and a bitmap has at least one bit for each of its pages.
LEMMA SizesTyped ==
    /\ \A n \in Nat : BitmapPages(n) \in Nat
    /\ \A f \in Int : ToInt(f) \in Int
    /\ \A n \in Nat : n * BitsPerPage \in Nat /\ n <= n * BitsPerPage
<1> USE ConstantsAssumption
<1>1. ASSUME NEW n \in Nat PROVE BitmapPages(n) \in Nat
    BY DEF BitmapPages
<1>2. ASSUME NEW f \in Int PROVE ToInt(f) \in Int
    BY DEF ToInt
<1>3. ASSUME NEW n \in Nat
      PROVE  n * BitsPerPage \in Nat /\ n <= n * BitsPerPage
    OBVIOUS
<1> QED BY <1>1, <1>2, <1>3

\* The bitmap of a region takes no more frames than the region has.
LEMMA BitmapFits == \A n \in Nat : BitmapPages(n) <= n
<1> USE ConstantsAssumption
<1> SUFFICES ASSUME NEW n \in Nat PROVE (n + BitsPerPage - 1) \div BitsPerPage <= n
    BY DEF BitmapPages
<1>1. n + BitsPerPage - 1 < (n + 1) * BitsPerPage
    OBVIOUS
<1> QED BY <1>1

\* An address below 2GB is kept by the int it is stored in.
LEMMA IntKeeps == \A f \in 0 .. IntFrames - 1 : ToInt(f) = f
    BY ConstantsAssumption DEF ToInt

-----------------------------------------------------------------------------
\* While initPMM runs nobody is inside the allocator and no frame is held.
BootQuiet == phase = "scan" => \A c \in Contexts : pc[c] = "idle" /\ owned[c] = {}

\* Each operation of initPMM, kmalloc and kfree (pmm.c:46-148) keeps the types.
LEMMA TypeInductive ==
    /\ Init => TypeOK /\ BootQuiet
    /\ TypeOK /\ BootQuiet /\ [Next]_vars => (TypeOK /\ BootQuiet)'
<1>1. Init => TypeOK /\ BootQuiet
  <2> SUFFICES ASSUME Init PROVE TypeOK /\ BootQuiet
      OBVIOUS
  <2>1. Bits = {}
    <3>1. largestSect.bitmapReserved * BitsPerPage = 0
        BY ConstantsAssumption DEF Init
    <3> QED BY <3>1 DEF Bits
  <2>2. /\ pc \in [Contexts -> {"idle", "probe", "mark"}]
        /\ at \in [Contexts -> Nat]
        /\ owned \in [Contexts -> SUBSET Bits]
        /\ \A c \in Contexts : pc[c] = "idle" /\ owned[c] = {}
      BY DEF Init
  <2>3. /\ region \in [begin : Nat, length : Nat]
        /\ largestSect \in [maxBegin : Int, bitmapReserved : Nat]
        /\ memmap \in MemMaps /\ entry \in Nat \ {0}
      BY DEF Init
  <2>4. phase = "scan" /\ disturbed \in BOOLEAN /\ bitmap \subseteq Bits
      BY DEF Init
  <2> QED BY <2>2, <2>3, <2>4 DEF TypeOK, BootQuiet
<1>2. TypeOK /\ BootQuiet /\ [Next]_vars => (TypeOK /\ BootQuiet)'
  <2> SUFFICES ASSUME TypeOK, BootQuiet, [Next]_vars PROVE (TypeOK /\ BootQuiet)'
      OBVIOUS
  <2> USE DEF TypeOK, BootQuiet
  <2>1. CASE ScanEntry
    <3>1. memmap[entry] \in Entry
        BY <2>1, ConstantsAssumption DEF ScanEntry
    <3>2. region' \in [begin : Nat, length : Nat]
        BY <2>1, <3>1 DEF ScanEntry, Entry
    <3> QED BY <2>1, <3>2 DEF ScanEntry, Bits
  <2>2. CASE ReserveBitmap
    <3> DEFINE pages == BitmapPages(region.length)
    <3>1. /\ pages \in Nat /\ ToInt(region.begin) \in Int
          /\ pages * BitsPerPage \in Nat /\ pages <= pages * BitsPerPage
        BY SizesTyped
    <3> HIDE DEF pages
    <3>2. /\ largestSect' = [maxBegin |-> ToInt(region.begin), bitmapReserved |-> pages]
          /\ bitmap' = 0 .. pages - 1 \/ bitmap' \subseteq 0 .. pages * BitsPerPage - 1
        BY <2>2 DEF ReserveBitmap, pages
    <3>3. Bits' = 0 .. pages * BitsPerPage - 1
        BY <3>2 DEF Bits
    <3>4. bitmap' \subseteq Bits'
        BY <3>1, <3>2, <3>3
    <3>5. owned' \in [Contexts -> SUBSET Bits']
        BY <2>2 DEF ReserveBitmap
    <3> QED BY <2>2, <3>1, <3>2, <3>4, <3>5 DEF ReserveBitmap
  <2>3. ASSUME NEW c \in Contexts, KmallocCall(c) PROVE (TypeOK /\ BootQuiet)'
      BY <2>3 DEF KmallocCall, CanRun, Bits, bootVars
  <2>4. ASSUME NEW c \in Contexts, Probe(c) PROVE (TypeOK /\ BootQuiet)'
    <3>1. Bits' = Bits /\ phase' = "ready"
        BY <2>4 DEF Probe, CanRun, Bits, bootVars
    <3>2. at' \in [Contexts -> Nat] /\ pc' \in [Contexts -> {"idle", "probe", "mark"}]
        BY <2>4, at[c] + 1 \in Nat DEF Probe
    <3>3. \A d \in Contexts : pc'[d] = "mark" => at'[d] \in Bits
        BY <2>4 DEF Probe
    <3> QED BY <2>4, <3>1, <3>2, <3>3 DEF Probe, bootVars
  <2>5. ASSUME NEW c \in Contexts, Mark(c) PROVE (TypeOK /\ BootQuiet)'
    <3>1. at[c] \in Bits /\ Bits' = Bits
        BY <2>5 DEF Mark, Bits, bootVars
    <3>2. owned' \in [Contexts -> SUBSET Bits] /\ bitmap' \subseteq Bits
        BY <2>5, <3>1 DEF Mark
    <3>3. disturbed' \in BOOLEAN
        BY <2>5 DEF Mark
    <3> QED BY <2>5, <3>1, <3>2, <3>3 DEF Mark, CanRun, bootVars
  <2>6. ASSUME NEW c \in Contexts, OutOfMemory(c) PROVE (TypeOK /\ BootQuiet)'
      BY <2>6 DEF OutOfMemory, CanRun, Bits, bootVars
  <2>7. ASSUME NEW c \in Contexts, Kfree(c) PROVE (TypeOK /\ BootQuiet)'
    <3>1. Bits' = Bits
        BY <2>7 DEF Kfree, Bits, bootVars
    <3>2. PICK i \in owned[c] : /\ bitmap' = bitmap \ {i}
                               /\ owned' = [owned EXCEPT ![c] = @ \ {i}]
        BY <2>7 DEF Kfree
    <3>4. owned' \in [Contexts -> SUBSET Bits] /\ bitmap' \subseteq Bits
        BY <3>2
    <3>3. disturbed' \in BOOLEAN
        BY <2>7 DEF Kfree
    <3> QED BY <2>7, <3>1, <3>4, <3>3 DEF Kfree, CanRun, bootVars
  <2>8. CASE UNCHANGED vars
      BY <2>8 DEF vars, Bits
  <2> QED BY <2>1, <2>2, <2>3, <2>4, <2>5, <2>6, <2>7, <2>8 DEF Next
<1> QED BY <1>1, <1>2

\* Every variable keeps its type, and the bit a call is about to set is a
\* bit of the bitmap (pmm.c:110, the bound of the scan).
THEOREM TypeCorrect == Spec => [](TypeOK /\ BootQuiet)
    BY TypeInductive, PTL DEF Spec

-----------------------------------------------------------------------------
\* The loop of initPMM: region is the first of the largest candidates among
\* the entries before the loop index.
LoopInv ==
    /\ entry \in 1 .. Len(memmap) + 1
    /\ \A j \in 1 .. entry - 1 :
          Candidate(memmap[j]) => memmap[j].length <= region.length
    /\ region.length > 0 =>
          \E j \in 1 .. entry - 1 : /\ Candidate(memmap[j])
                                   /\ memmap[j].base = region.begin
                                   /\ memmap[j].length = region.length
    /\ phase # "scan" => entry = Len(memmap) + 1

\* initPMM selects the largest usable region at or above 1MB (pmm.c:51-63),
\* for every memory map.
THEOREM LargestRegion == Spec => []PicksLargestRegion
<1> USE ConstantsAssumption
<1>1. Init /\ TypeOK => LoopInv
    BY DEF Init, TypeOK, LoopInv
<1>2. TypeOK /\ LoopInv /\ [Next]_vars => LoopInv'
  <2> SUFFICES ASSUME TypeOK, LoopInv, [Next]_vars PROVE LoopInv'
      OBVIOUS
  <2>1. memmap \in Seq(Entry)
      BY DEF TypeOK
  <2>2. CASE ScanEntry
    <3> DEFINE e == memmap[entry]
    <3>1. /\ entry \in 1 .. Len(memmap) /\ entry' = entry + 1
          /\ memmap' = memmap /\ phase' = phase /\ phase = "scan"
        BY <2>2, <2>1 DEF ScanEntry, LoopInv
    <3>2. \A j \in 1 .. Len(memmap) : memmap[j].length \in Nat
      <4>1. \A j \in 1 .. Len(memmap) : memmap[j] \in Entry
          BY <2>1
      <4> QED BY <4>1 DEF Entry
    <3>3. CASE Candidate(e) /\ e.length > region.length
      <4>1. region' = [begin |-> e.base, length |-> e.length]
          BY <2>2, <3>3 DEF ScanEntry
      <4>2. region.length \in Nat
          BY DEF TypeOK
      <4>3. \A j \in 1 .. entry : Candidate(memmap[j]) => memmap[j].length <= region'.length
          BY <3>1, <3>2, <3>3, <4>1, <4>2 DEF LoopInv
      <4> QED BY <3>1, <3>3, <4>1, <4>3 DEF LoopInv
    <3>4. CASE ~(Candidate(e) /\ e.length > region.length)
      <4>1. region' = region /\ region.length \in Nat
          BY <2>2, <3>4 DEF ScanEntry, TypeOK
      <4> QED BY <3>1, <3>2, <3>4, <4>1 DEF LoopInv
    <3> QED BY <3>3, <3>4
  <2>3. CASE ReserveBitmap
      BY <2>1, <2>3 DEF ReserveBitmap, LoopInv
  <2>4. CASE UNCHANGED <<memmap, entry, region>> /\ (phase' = "scan" => phase = "scan")
                /\ (phase = "scan" => phase' = "scan")
      BY <2>4 DEF LoopInv
  <2>5. ASSUME NEW c \in Contexts,
               KmallocCall(c) \/ Probe(c) \/ Mark(c) \/ OutOfMemory(c) \/ Kfree(c)
        PROVE  LoopInv'
      BY <2>4, <2>5 DEF KmallocCall, Probe, Mark, OutOfMemory, Kfree, CanRun, bootVars
  <2>6. CASE UNCHANGED vars
      BY <2>4, <2>6 DEF vars
  <2> QED BY <2>2, <2>3, <2>5, <2>6 DEF Next
<1>3. TypeOK /\ LoopInv => PicksLargestRegion
    BY DEF TypeOK, LoopInv, PicksLargestRegion
<1>4. Spec => []LoopInv
    BY <1>1, <1>2, TypeInductive, PTL DEF Spec
<1> QED BY <1>3, <1>4, TypeCorrect, PTL

-----------------------------------------------------------------------------
\* Until a call is disturbed: the bit it is about to set is still clear,
\* every bit it has passed is still set, frames are held once and their bits
\* are set, and the machine is halted only on a full bitmap.
TestStillHolds == \A c \in Contexts : pc[c] = "mark" => at[c] \notin bitmap
ScanStillHolds == \A c \in Contexts : pc[c] # "idle" => 0 .. at[c] - 1 \subseteq bitmap
HeldIsSet      == \A c \in Contexts : owned[c] \subseteq bitmap
FullIfHalted   == phase = "halted" => Bits \subseteq bitmap
WindowInv == ~disturbed => /\ TestStillHolds
                           /\ ScanStillHolds
                           /\ NoSharedFrame
                           /\ HeldIsSet
                           /\ FullIfHalted

\* Each operation keeps this, whatever calls it comes between (pmm.c:98-148).
LEMMA WindowInductive ==
    /\ Init => WindowInv
    /\ TypeOK /\ BootQuiet /\ WindowInv /\ [Next]_vars => WindowInv'
<1> USE DEF TestStillHolds, ScanStillHolds, NoSharedFrame, HeldIsSet, FullIfHalted
<1>1. Init => WindowInv
    BY DEF Init, WindowInv
<1>2. TypeOK /\ BootQuiet /\ WindowInv /\ [Next]_vars => WindowInv'
  <2> SUFFICES ASSUME TypeOK, BootQuiet, WindowInv, [Next]_vars, ~disturbed'
               PROVE  (TestStillHolds /\ ScanStillHolds /\ NoSharedFrame
                       /\ HeldIsSet /\ FullIfHalted)'
      BY DEF WindowInv
  <2>0. /\ pc \in [Contexts -> {"idle", "probe", "mark"}]
        /\ at \in [Contexts -> Nat]
        /\ owned \in [Contexts -> SUBSET Bits]
        /\ Contexts \subseteq Int
      BY DEF TypeOK, Contexts
  <2>1. CASE ScanEntry
      BY <2>1 DEF ScanEntry, WindowInv, Bits
  <2>2. CASE ReserveBitmap
      BY <2>2 DEF ReserveBitmap, BootQuiet
  <2>3. ASSUME NEW c \in Contexts, KmallocCall(c)
        PROVE  (TestStillHolds /\ ScanStillHolds /\ NoSharedFrame
                /\ HeldIsSet /\ FullIfHalted)'
    <3>1. ~disturbed /\ UNCHANGED <<bitmap, owned, phase, largestSect>>
        BY <2>3 DEF KmallocCall, bootVars
    <3>2. TestStillHolds' /\ ScanStillHolds'
        BY <2>0, <2>3, <3>1 DEF KmallocCall, WindowInv
    <3> QED BY <3>1, <3>2 DEF WindowInv, Bits
  <2>4. ASSUME NEW c \in Contexts, Probe(c)
        PROVE  (TestStillHolds /\ ScanStillHolds /\ NoSharedFrame
                /\ HeldIsSet /\ FullIfHalted)'
    <3>1. ~disturbed /\ UNCHANGED <<bitmap, owned, phase, largestSect>>
        BY <2>4 DEF Probe, bootVars
    <3>2. CASE at[c] \in bitmap
      <4>1. at' = [at EXCEPT ![c] = @ + 1] /\ pc' = pc /\ pc[c] = "probe"
          BY <2>4, <3>2 DEF Probe
      <4>2. TestStillHolds'
          BY <2>0, <3>1, <4>1 DEF WindowInv
      <4>3. 0 .. (at[c] + 1) - 1 \subseteq bitmap
          BY <2>0, <3>1, <3>2, <4>1 DEF WindowInv
      <4>4. ScanStillHolds'
          BY <2>0, <3>1, <4>1, <4>3 DEF WindowInv
      <4> QED BY <3>1, <4>2, <4>4 DEF WindowInv, Bits
    <3>3. CASE at[c] \notin bitmap
      <4>1. at' = at /\ pc' = [pc EXCEPT ![c] = "mark"] /\ pc[c] = "probe"
          BY <2>4, <3>3 DEF Probe
      <4>2. TestStillHolds' /\ ScanStillHolds'
          BY <2>0, <3>1, <3>3, <4>1 DEF WindowInv
      <4> QED BY <3>1, <4>2 DEF WindowInv, Bits
    <3> QED BY <3>2, <3>3
  <2>5. ASSUME NEW c \in Contexts, Mark(c)
        PROVE  (TestStillHolds /\ ScanStillHolds /\ NoSharedFrame
                /\ HeldIsSet /\ FullIfHalted)'
    <3>1. /\ ~disturbed /\ UNCHANGED <<phase, largestSect>> /\ phase = "ready"
          /\ pc[c] = "mark" /\ pc' = [pc EXCEPT ![c] = "idle"]
          /\ at' = [at EXCEPT ![c] = 0]
          /\ bitmap' = bitmap \cup {at[c]}
          /\ owned' = [owned EXCEPT ![c] = @ \cup {at[c]}]
        BY <2>5 DEF Mark, CanRun, bootVars
    <3>2. ASSUME NEW d \in Contexts, d # c, pc[d] = "mark" PROVE at[d] # at[c]
      <4>1. ~(d > c)
          BY <2>5, <3>2 DEF Mark, CanRun
      <4>2. ~(d < c /\ pc[d] = "mark" /\ at[d] = at[c])
          BY <2>5, Zenon DEF Mark
      <4> QED BY <2>0, <3>2, <4>1, <4>2
    <3>3. TestStillHolds' /\ ScanStillHolds'
        BY <2>0, <3>1, <3>2 DEF WindowInv
    <3>4. \A d \in Contexts : at[c] \notin owned[d]
        BY <3>1 DEF WindowInv
    <3>5. NoSharedFrame' /\ HeldIsSet'
        BY <2>0, <3>1, <3>4 DEF WindowInv
    <3> QED BY <3>1, <3>3, <3>5
  <2>6. ASSUME NEW c \in Contexts, OutOfMemory(c)
        PROVE  (TestStillHolds /\ ScanStillHolds /\ NoSharedFrame
                /\ HeldIsSet /\ FullIfHalted)'
    <3>1. ~disturbed /\ UNCHANGED <<bitmap, owned, largestSect, pc, at>>
        BY <2>6 DEF OutOfMemory, bootVars
    <3>2. 0 .. at[c] - 1 \subseteq bitmap /\ at[c] \in Nat /\ at[c] \notin Bits
        BY <2>0, <2>6, <3>1 DEF OutOfMemory, WindowInv
    <3>3. largestSect.bitmapReserved * BitsPerPage \in Nat
        BY SizesTyped DEF TypeOK
    <3>4. Bits \subseteq 0 .. at[c] - 1
        BY <3>2, <3>3 DEF Bits
    <3> QED BY <3>1, <3>2, <3>4 DEF WindowInv, Bits
  <2>7. ASSUME NEW c \in Contexts, Kfree(c)
        PROVE  (TestStillHolds /\ ScanStillHolds /\ NoSharedFrame
                /\ HeldIsSet /\ FullIfHalted)'
    <3>1. PICK i \in owned[c] :
             /\ bitmap' = bitmap \ {i}
             /\ owned' = [owned EXCEPT ![c] = @ \ {i}]
             /\ disturbed' = (disturbed \/ \E d \in Contexts :
                                 d < c /\ pc[d] # "idle" /\ i < at[d])
        BY <2>7 DEF Kfree
    <3>0. /\ ~disturbed
          /\ \A d \in Contexts : ~(d < c /\ pc[d] # "idle" /\ i < at[d])
        BY <3>1, Zenon
    <3>2. /\ ~disturbed /\ UNCHANGED <<phase, largestSect, pc, at>>
          /\ phase = "ready" /\ pc[c] = "idle" /\ i \in Int
        BY <2>0, <2>7, <3>0 DEF Kfree, CanRun, bootVars, Bits
    <3>3. ASSUME NEW d \in Contexts, pc[d] # "idle" PROVE i \notin 0 .. at[d] - 1
      <4>1. d < c
          BY <2>0, <2>7, <3>2, <3>3 DEF Kfree, CanRun
      <4> QED BY <2>0, <3>0, <3>2, <3>3, <4>1
    <3>4. TestStillHolds' /\ ScanStillHolds'
        BY <2>0, <3>1, <3>2, <3>3 DEF WindowInv
    <3>5. NoSharedFrame' /\ HeldIsSet'
        BY <2>0, <3>1, <3>2 DEF WindowInv
    <3> QED BY <3>2, <3>4, <3>5
  <2>8. CASE UNCHANGED vars
      BY <2>8 DEF vars, WindowInv, Bits
  <2> QED BY <2>1, <2>2, <2>3, <2>4, <2>5, <2>6, <2>7, <2>8 DEF Next
<1> QED BY <1>1, <1>2

\* A frame has two owners only after a handler's kmalloc took the bit that a
\* call below it had tested and not yet set (pmm.c:113-115), for any number
\* of contexts and any interleaving.
THEOREM WindowIsTheOnlyRace == Spec => []OnlyTheWindowShares
<1>1. WindowInv => OnlyTheWindowShares
    BY DEF WindowInv, HeldIsSet, OnlyTheWindowShares
<1> QED BY <1>1, WindowInductive, TypeCorrect, PTL DEF Spec

\* kmalloc stops the machine only when its bitmap is full, unless a handler
\* freed a frame behind a running scan (pmm.c:110-129).
THEOREM NoEarlyHalt == Spec => []HaltsOnlyWhenFull
<1>1. WindowInv => HaltsOnlyWhenFull
    BY DEF WindowInv, FullIfHalted, HaltsOnlyWhenFull
<1> QED BY <1>1, WindowInductive, TypeCorrect, PTL DEF Spec

-----------------------------------------------------------------------------
\* Every region initPMM may choose ends below 2GB.
RegionsFit == \A m \in MemMaps : \A j \in 1 .. Len(m) :
                  Candidate(m[j]) => m[j].base + m[j].length < IntFrames

\* The bits of the bitmap's own frames (pmm.c:80-88).
BootBits == 0 .. largestSect.bitmapReserved - 1

\* The bits set at boot stay set and are never held; every other bit that is
\* set is held by somebody, until a call is disturbed.
RegionFits == region.begin + region.length < IntFrames
SectIsRegion ==
    phase # "scan" =>
        largestSect = [maxBegin |-> region.begin,
                       bitmapReserved |-> BitmapPages(region.length)]
BootBitsStay ==
    phase # "scan" => /\ BootBits \subseteq bitmap
                      /\ \A c \in Contexts : owned[c] \cap BootBits = {}
                      /\ \A c \in Contexts : pc[c] = "mark" => at[c] \notin BootBits
MarkedIsHeld ==
    phase # "scan" /\ ~disturbed =>
        \A b \in bitmap \ BootBits : \E c \in Contexts : b \in owned[c]
PoolInv == RegionFits /\ SectIsRegion /\ BootBitsStay /\ MarkedIsHeld

\* Each operation keeps this, from the marking of the bitmap's own frames in
\* initPMM on (pmm.c:80-93).
LEMMA PoolInductive ==
    ASSUME RegionsFit
    PROVE  /\ Init => PoolInv
           /\ TypeOK /\ BootQuiet /\ PoolInv /\ [Next]_vars => PoolInv'
<1> USE DEF PoolInv
<1>1. Init => PoolInv
    BY ConstantsAssumption
       DEF Init, RegionFits, SectIsRegion, BootBitsStay, MarkedIsHeld
<1>2. TypeOK /\ BootQuiet /\ PoolInv /\ [Next]_vars => PoolInv'
  <2> SUFFICES ASSUME TypeOK, BootQuiet, PoolInv, [Next]_vars PROVE PoolInv'
      OBVIOUS
  <2>0. /\ pc \in [Contexts -> {"idle", "probe", "mark"}]
        /\ at \in [Contexts -> Nat]
        /\ owned \in [Contexts -> SUBSET Bits]
        /\ region.begin \in Nat /\ region.length \in Nat
      BY DEF TypeOK
  <2>1. CASE ScanEntry
    <3>1. memmap \in MemMaps /\ entry \in 1 .. Len(memmap) /\ memmap[entry] \in Entry
        BY <2>1, ConstantsAssumption DEF ScanEntry, TypeOK
    <3>2. Candidate(memmap[entry]) =>
              memmap[entry].base + memmap[entry].length < IntFrames
        BY <3>1 DEF RegionsFit
    <3>3. RegionFits'
        BY <2>1, <3>2 DEF ScanEntry, RegionFits
    <3> QED BY <2>1, <3>3 DEF ScanEntry, SectIsRegion, BootBitsStay, MarkedIsHeld
  <2>2. CASE ReserveBitmap
    <3>1. ToInt(region.begin) = region.begin
        BY <2>0, IntKeeps, ConstantsAssumption DEF RegionFits
    <3>2. SectIsRegion' /\ RegionFits'
        BY <2>2, <3>1 DEF ReserveBitmap, SectIsRegion, RegionFits
    <3>3. bitmap' = BootBits' /\ UNCHANGED <<pc, owned>> /\ phase = "scan"
        BY <2>2, <3>1 DEF ReserveBitmap, BootBits
    <3> QED BY <3>2, <3>3 DEF BootQuiet, BootBitsStay, MarkedIsHeld
  <2>3. ASSUME NEW c \in Contexts, KmallocCall(c) PROVE PoolInv'
    <3>1. UNCHANGED <<region, largestSect, phase, bitmap, owned, disturbed>>
        BY <2>3 DEF KmallocCall, bootVars
    <3>2. \A d \in Contexts : pc'[d] = "mark" => pc[d] = "mark" /\ at'[d] = at[d]
        BY <2>0, <2>3 DEF KmallocCall
    <3> QED BY <3>1, <3>2
            DEF RegionFits, SectIsRegion, BootBitsStay, MarkedIsHeld, BootBits
  <2>4. ASSUME NEW c \in Contexts, Probe(c) PROVE PoolInv'
    <3>1. UNCHANGED <<region, largestSect, phase, bitmap, owned, disturbed>>
          /\ phase = "ready"
        BY <2>4 DEF Probe, CanRun, bootVars
    <3>2. \A d \in Contexts : pc'[d] = "mark" =>
              at'[d] = at[d] /\ (pc[d] = "mark" \/ at[d] \notin bitmap)
        BY <2>0, <2>4 DEF Probe
    <3> QED BY <3>1, <3>2
            DEF RegionFits, SectIsRegion, BootBitsStay, MarkedIsHeld, BootBits
  <2>5. ASSUME NEW c \in Contexts, Mark(c) PROVE PoolInv'
    <3>1. /\ UNCHANGED <<region, largestSect, phase>> /\ phase = "ready"
          /\ pc[c] = "mark" /\ bitmap' = bitmap \cup {at[c]}
          /\ owned' = [owned EXCEPT ![c] = @ \cup {at[c]}]
        BY <2>5 DEF Mark, CanRun, bootVars
    <3>2. \A d \in Contexts : pc'[d] = "mark" => pc[d] = "mark" /\ at'[d] = at[d]
        BY <2>0, <2>5 DEF Mark
    <3>3. BootBits' = BootBits /\ at[c] \notin BootBits
        BY <3>1 DEF BootBits, BootBitsStay
    <3>4. BootBitsStay'
        BY <2>0, <3>1, <3>2, <3>3 DEF BootBitsStay
    <3>5. disturbed => disturbed'
        BY <2>5, Zenon DEF Mark
    <3>6. MarkedIsHeld'
        BY <2>0, <3>1, <3>3, <3>5 DEF MarkedIsHeld
    <3> QED BY <3>1, <3>4, <3>6 DEF RegionFits, SectIsRegion
  <2>6. ASSUME NEW c \in Contexts, OutOfMemory(c) PROVE PoolInv'
      BY <2>6 DEF OutOfMemory, CanRun, bootVars,
                  RegionFits, SectIsRegion, BootBitsStay, MarkedIsHeld, BootBits
  <2>7. ASSUME NEW c \in Contexts, Kfree(c) PROVE PoolInv'
    <3>1. /\ UNCHANGED <<region, largestSect, phase, pc, at>> /\ phase = "ready"
          /\ BootBits' = BootBits
        BY <2>7 DEF Kfree, CanRun, bootVars, BootBits
    <3>2. PICK i \in owned[c] :
             /\ bitmap' = bitmap \ {i}
             /\ owned' = [owned EXCEPT ![c] = @ \ {i}]
             /\ disturbed => disturbed'
        BY <2>7, Zenon DEF Kfree
    <3>3. i \notin BootBits
        BY <3>1, <3>2 DEF BootBitsStay
    <3>4. BootBitsStay'
        BY <2>0, <3>1, <3>2, <3>3 DEF BootBitsStay
    <3>5. MarkedIsHeld'
        BY <2>0, <3>1, <3>2 DEF MarkedIsHeld
    <3> QED BY <3>1, <3>4, <3>5 DEF RegionFits, SectIsRegion
  <2>8. CASE UNCHANGED vars
      BY <2>8 DEF vars, RegionFits, SectIsRegion, BootBitsStay, MarkedIsHeld, BootBits
  <2> QED BY <2>1, <2>2, <2>3, <2>4, <2>5, <2>6, <2>7, <2>8 DEF Next
<1> QED BY <1>1, <1>2

\* When every region fits an int, kmalloc never hands out the memory that
\* holds its bitmap (pmm.c:80-88, 107, 119).
THEOREM BitmapSafe == ASSUME RegionsFit PROVE Spec => []BitmapNeverGranted
<1>1. TypeOK /\ BootQuiet /\ PoolInv => BitmapNeverGranted
  <2> SUFFICES ASSUME TypeOK, BootQuiet, PoolInv,
                      NEW c \in Contexts, NEW i \in owned[c]
               PROVE  FrameOf(i) \notin
                        region.begin .. region.begin + BitmapPages(region.length) - 1
      BY DEF BitmapNeverGranted
  <2> DEFINE pages == BitmapPages(region.length)
  <2>1. phase # "scan"
      BY DEF BootQuiet
  <2>2. /\ region.begin \in Nat /\ region.length \in Nat /\ i \in Nat
        /\ pages \in Nat /\ pages <= region.length
      BY SizesTyped, BitmapFits DEF TypeOK, Bits
  <2> HIDE DEF pages
  <2>3. largestSect.maxBegin = region.begin /\ largestSect.bitmapReserved = pages
      BY <2>1 DEF PoolInv, SectIsRegion, pages
  <2>4. DataStart = region.begin + pages
      BY <2>2, <2>3, IntKeeps, ConstantsAssumption DEF DataStart, PoolInv, RegionFits
  <2>5. i >= pages
      BY <2>1, <2>2, <2>3 DEF PoolInv, BootBitsStay, BootBits
  <2> QED BY <2>2, <2>4, <2>5 DEF FrameOf, pages
<1> QED BY <1>1, PoolInductive, TypeCorrect, PTL DEF Spec

-----------------------------------------------------------------------------
\* When every region fits an int, the manager implements FrameAllocator until
\* a handler disturbs a running call: initPMM publishes the pool, the OR of
\* kmalloc (pmm.c:115) is the allocation, the AND of kfree (pmm.c:146) the
\* release, every other step is invisible, and cli; hlt comes when the pool
\* is exhausted.
THEOREM Refinement == ASSUME RegionsFit PROVE Spec => ImplementsFrameAllocator
<1> DEFINE pool == IF phase = "scan" THEN {}
                   ELSE largestSect.bitmapReserved ..
                        largestSect.bitmapReserved * BitsPerPage - 1
           Inv == TypeOK /\ BootQuiet /\ WindowInv /\ PoolInv
<1>1. Init => FA!Init
    BY DEF Init, FA!Init
<1>2. Inv /\ Inv' /\ [Next]_vars => [FA!Next \/ disturbed']_(FA!vars)
  <2> SUFFICES ASSUME TypeOK, BootQuiet, WindowInv, PoolInv, WindowInv', [Next]_vars,
                      ~disturbed'
               PROVE  FA!Next \/ UNCHANGED FA!vars
      OBVIOUS
  <2>0. /\ owned \in [Contexts -> SUBSET Bits]
        /\ largestSect.bitmapReserved \in Nat
        /\ phase # "scan" => pool = Bits \ BootBits
      BY DEF TypeOK, Bits, BootBits
  <2> HIDE DEF pool
  <2>1. CASE ScanEntry
      BY <2>1 DEF ScanEntry, FA!vars
  <2>2. CASE ReserveBitmap
    <3>1. pool = {} /\ owned' = owned /\ phase = "scan" /\ phase' = "ready"
        BY <2>2 DEF ReserveBitmap, pool
    <3>2. CASE pool' = {}
        BY <3>1, <3>2 DEF FA!vars, pool
    <3>3. CASE pool' # {}
      <4>1. FA!Publish
          BY <3>1, <3>3 DEF FA!Publish, pool
      <4> QED BY <4>1 DEF FA!Next
    <3> QED BY <3>2, <3>3
  <2>3. ASSUME NEW c \in Contexts, KmallocCall(c) \/ Probe(c)
        PROVE  UNCHANGED FA!vars
      BY <2>3 DEF KmallocCall, Probe, bootVars, FA!vars
  <2>4. ASSUME NEW c \in Contexts, Mark(c) PROVE FA!Next
    <3>1. /\ UNCHANGED <<phase, largestSect>> /\ phase = "ready" /\ pc[c] = "mark"
          /\ owned' = [owned EXCEPT ![c] = @ \cup {at[c]}]
        BY <2>4 DEF Mark, CanRun, bootVars
    <3>2. ~disturbed
        BY <2>4, Zenon DEF Mark
    <3>3. at[c] \in Bits \ BootBits
        BY <3>1 DEF TypeOK, PoolInv, BootBitsStay
    <3>4. \A d \in Contexts : at[c] \notin owned[d]
        BY <3>1, <3>2 DEF WindowInv, TestStillHolds, HeldIsSet
    <3>5. FA!Alloc(c)
        BY <2>0, <3>1, <3>3, <3>4 DEF FA!Alloc, FA!Taken, pool
    <3> QED BY <3>5 DEF FA!Next
  <2>5. ASSUME NEW c \in Contexts, OutOfMemory(c) PROVE FA!Next
    <3>1. UNCHANGED <<owned, largestSect, bitmap, disturbed>>
          /\ phase = "ready" /\ phase' = "halted"
        BY <2>5 DEF OutOfMemory, CanRun, bootVars
    <3>2. Bits \subseteq bitmap
        BY <3>1 DEF WindowInv, FullIfHalted, Bits
    <3>3. pool \subseteq FA!Taken
        BY <2>0, <3>1, <3>2 DEF PoolInv, MarkedIsHeld, FA!Taken
    <3>4. FA!Exhausted
        BY <3>1, <3>3 DEF FA!Exhausted, pool
    <3> QED BY <3>4 DEF FA!Next
  <2>6. ASSUME NEW c \in Contexts, Kfree(c) PROVE FA!Next
    <3>1. UNCHANGED <<phase, largestSect>> /\ phase = "ready"
        BY <2>6 DEF Kfree, CanRun, bootVars
    <3>2. \E i \in owned[c] : owned' = [owned EXCEPT ![c] = @ \ {i}]
        BY <2>6 DEF Kfree
    <3>3. FA!Free(c)
        BY <3>1, <3>2 DEF FA!Free, pool
    <3> QED BY <3>3 DEF FA!Next
  <2>7. CASE UNCHANGED vars
      BY <2>7 DEF vars, FA!vars
  <2> QED BY <2>1, <2>2, <2>3, <2>4, <2>5, <2>6, <2>7 DEF Next
<1> QED BY <1>1, <1>2, WindowInductive, PoolInductive, TypeCorrect, PTL
        DEF Spec, ImplementsFrameAllocator
=============================================================================
