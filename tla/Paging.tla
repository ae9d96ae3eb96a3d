-------------------------------- MODULE Paging --------------------------------
(***************************************************************************)
(* The page tables (kernel/paging.c): init_paging builds them entry by     *)
(* entry and loads them; map_page and unmap_page change them afterwards.   *)
(*                                                                         *)
(* Addresses are counted in pages and frames.  A table is a frame with     *)
(* Fanout entries; the tables are a tree of Levels levels, and a walk uses *)
(* the low Levels digits of the page number to the base Fanout: the bits   *)
(* above bit 47 play no part in it.  Page numbers wrap at VirtPages, the   *)
(* way 64-bit addresses do.  What the code calls 2MB is one lowest table.  *)
(*                                                                         *)
(* init_paging runs on the boot loader's tables, which map all of memory   *)
(* at Hhdm and above.  Once CR3 is loaded a table can be read and written  *)
(* only where the new tables map it.  Frames come from kmalloc, which      *)
(* hands them out in ascending order as long as nobody frees any, and      *)
(* nobody does.                                                            *)
(***************************************************************************)
EXTENDS Naturals, Sequences, FiniteSets

CONSTANTS
    Fanout,         \* entries of a table: 512
    Levels,         \* levels of tables: 4
    Hhdm,           \* page where the direct map of memory starts
    StackReach,     \* pages mapped on each side of the stack pointer: 4
    MaxEarly,       \* MAX_EARLY_PAGE_TABLES: 256
    Layouts,        \* where the boot loader put code, stack and free memory
    MapPages,       \* the pages map_page and unmap_page are called for
    MaxMaps         \* bound: frames handed out in all

\* Pages that one entry of a table n levels above the lowest stands for.
Span[n \in 0 .. Levels] == IF n = 0 THEN 1 ELSE Fanout * Span[n - 1]

WalkPages == Span[Levels]
VirtPages == 2 * WalkPages
Wrap(v) == v % VirtPages
NoFrame == VirtPages

\* The page numbers of the machine.
Virt == 0 .. VirtPages - 1

\* first: the first frame kmalloc hands out; code, stack: pages of init_paging
\* and of its stack pointer; codeFrame: the frame the code lies in.
Layout == [first : Nat, code : 0 .. VirtPages - 1, codeFrame : Nat,
           stack : 0 .. VirtPages - 1]

ASSUME ConstantsAssumption ==
    /\ Fanout \in Nat \ {0, 1}
    /\ Levels \in Nat \ {0}
    /\ Hhdm \in 0 .. VirtPages - 1
    /\ StackReach \in Nat
    /\ MaxEarly \in Nat \ {0}
    /\ Layouts \subseteq Layout
    /\ MapPages \subseteq 0 .. VirtPages - 1
    /\ MaxMaps \in Nat \ {0}

VARIABLES
    layout,         \* this boot's layout
    phase,          \* "off", "boot" (tables built), "on" (loaded), "fault"
    next,           \* which of the boot's mappings comes next
    mem,            \* the present entries: <<table, index>> to frame
    used,           \* frames handed out by kmalloc
    early           \* early_page_tables

vars == <<layout, phase, next, mem, used, early>>

Frame(n) == layout.first + n
Root == Frame(0)                    \* pml4

-----------------------------------------------------------------------------
(* Walks. *)

Index(v, l) == (v \div Span[Levels - l]) % Fanout

\* The tables of page v, from the root down; NoFrame after an absent entry.
Path(m, v) ==
    LET table[l \in 1 .. Levels] ==
            IF l = 1 THEN Root
            ELSE LET e == <<table[l - 1], Index(v, l - 1)>>
                 IN  IF e \in DOMAIN m THEN m[e] ELSE NoFrame
    IN  table

Translate(m, v) ==
    LET e == <<Path(m, v)[Levels], Index(v, Levels)>>
    IN  IF e \in DOMAIN m THEN m[e] ELSE NoFrame

\* The entries m with entry e set to frame f.
Put(m, e, f) == [x \in DOMAIN m \union {e} |-> IF x = e THEN f ELSE m[x]]

\* Variant of Grow: a table is entered before kmalloc's answer is used up.
GrowSameFrame(m, n, v) ==
    LET g[l \in 1 .. Levels] ==
            IF l = 1 THEN [mem |-> m, used |-> n, table |-> Root]
            ELSE LET p == g[l - 1]
                     e == <<p.table, Index(v, l - 1)>>
                 IN  IF e \in DOMAIN p.mem
                     THEN [p EXCEPT !.table = p.mem[e]]
                     ELSE [mem |-> Put(p.mem, e, Frame(p.used - 1)),
                           used |-> p.used + 1,
                           table |-> Frame(p.used - 1)]
    IN  g[Levels]

\* Variant of Grow: the lowest table is made whether present or not.
GrowAlways(m, n, v) ==
    LET g[l \in 1 .. Levels] ==
            IF l = 1 THEN [mem |-> m, used |-> n, table |-> Root]
            ELSE LET p == g[l - 1]
                     e == <<p.table, Index(v, l - 1)>>
                 IN  IF e \in DOMAIN p.mem /\ l < Levels
                     THEN [p EXCEPT !.table = p.mem[e]]
                     ELSE [mem |-> Put(p.mem, e, Frame(p.used)),
                           used |-> p.used + 1,
                           table |-> Frame(p.used)]
    IN  g[Levels]

\* Creation of the tables that page v lacks: the entries, the frames used.
Grow(m, n, v) ==
    LET g[l \in 1 .. Levels] ==
            IF l = 1 THEN [mem |-> m, used |-> n, table |-> Root]
            ELSE LET p == g[l - 1]
                     e == <<p.table, Index(v, l - 1)>>
                 IN  IF e \in DOMAIN p.mem
                     THEN [p EXCEPT !.table = p.mem[e]]
                     ELSE [mem |-> Put(p.mem, e, Frame(p.used)),
                           used |-> p.used + 1,
                           table |-> Frame(p.used)]
    IN  g[Levels]

\* The entry of page v set to frame f in the tables g.
Entered(g, v, f) == Put(g.mem, <<g.table, Index(v, Levels)>>, f)

-----------------------------------------------------------------------------
(* init_paging. *)

\* The physical address map_range takes for a virtual one.
Direct(v) == IF v >= Hhdm THEN v - Hhdm ELSE v

Request(v, f) == [page |-> Wrap(v), frame |-> f]

\* Variant of MapRange: the range ends before its last page.
MapRangeShort(from, to) ==
    [i \in 1 .. to - from - 1 |-> Request(from + i - 1, Direct(Wrap(from + i - 1)))]

\* The pages of one call of map_range.
MapRange(from, to) ==
    [i \in 1 .. to - from |-> Request(from + i - 1, Direct(Wrap(from + i - 1)))]
Align(v) == v - (v % Fanout)

\* Frame f "in both identity and HHDM space": the entry holds f itself.
Both(f) == << Request(f, f), Request(Hhdm + f, f) >>

StackPages == [i \in 1 .. 2 * StackReach + 1 |-> layout.stack - StackReach + i - 1]
Flat(s) == LET f[i \in 0 .. Len(s)] == IF i = 0 THEN <<>> ELSE f[i - 1] \o s[i]
           IN  f[Len(s)]

\* Variant of Regions: the first 2MB are left out of the direct map.
RegionsNoDirect ==
    LET code == Align(layout.code)
        stack == Align(layout.stack)
        codeEnd == layout.code + Fanout
    IN  MapRange(0, Fanout)
        \o MapRange(code, codeEnd)
        \o MapRange(stack, stack + Fanout)
        \o MapRange(Hhdm + code, Hhdm + codeEnd)
        \o MapRange(Hhdm + stack, Hhdm + stack + Fanout)

\* Everything init_paging maps, in its order, for the tables in early.
Regions == LET code == Align(layout.code)
               stack == Align(layout.stack)
               codeEnd == layout.code + Fanout
           IN  MapRange(0, Fanout)
               \o MapRange(code, codeEnd)
               \o MapRange(stack, stack + Fanout)
               \o MapRange(Hhdm, Hhdm + Fanout)
               \o MapRange(Hhdm + code, Hhdm + codeEnd)
               \o MapRange(Hhdm + stack, Hhdm + stack + Fanout)
CodeAndStack == Both(layout.code)
                \o Flat([i \in DOMAIN StackPages |-> Both(StackPages[i])])
EarlyTables == Flat([i \in DOMAIN early |-> Both(early[i])])
               \o Flat([i \in DOMAIN early |-> MapRange(early[i], early[i] + 1)
                                            \o MapRange(Hhdm + early[i], Hhdm + early[i] + 1)])
Requests == Regions \o CodeAndStack \o EarlyTables

Init == /\ layout \in Layouts
        /\ phase = "off"
        /\ next = 1
        /\ mem = <<>>
        /\ used = 0
        /\ early = <<>>

\* Variant of AllocRoot: the PML4 is not noted.
AllocRootUnnoted ==
    /\ phase = "off"
    /\ phase' = "boot"
    /\ used' = 1
    /\ UNCHANGED <<layout, next, mem, early>>

\* The PML4 is allocated and noted.
AllocRoot ==
    /\ phase = "off"
    /\ phase' = "boot"
    /\ used' = 1
    /\ early' = <<Root>>
    /\ UNCHANGED <<layout, next, mem>>

\* The next entry is made, with the tables it needs.
MapNext ==
    /\ phase = "boot"
    /\ next <= Len(Requests)
    /\ used + Levels - 1 <= MaxMaps
    /\ LET r == Requests[next]
           g == Grow(mem, used, r.page)
       IN  /\ mem' = Entered(g, r.page, r.frame)
           /\ used' = g.used
    /\ next' = next + 1
    /\ UNCHANGED <<layout, phase, early>>

\* CR3 is loaded.  What NextInstructionMapped below denies is left aside, so
\* that the rest of the file can be looked at.
LoadCr3 ==
    /\ phase = "boot"
    /\ next > Len(Requests)
    /\ phase' = "on"
    /\ UNCHANGED <<layout, next, mem, used, early>>

-----------------------------------------------------------------------------
(* The paging API. *)

\* The frame t can be reached through the direct map.
Reach(t) == Translate(mem, Wrap(Hhdm + t)) = t

NewTables(n) == [i \in 1 .. n - used - 1 |-> Frame(used + i)]
\* Variant of Capped: the bound is met one entry late.
CappedLate(s) == SubSeq(s, 1, IF Len(s) <= MaxEarly THEN Len(s) ELSE MaxEarly + 1)
Capped(s) == SubSeq(s, 1, IF Len(s) < MaxEarly THEN Len(s) ELSE MaxEarly)

\* Somebody else takes a frame (the shell's kmalloc command).
Kmalloc ==
    /\ phase = "on"
    /\ used < MaxMaps
    /\ used' = used + 1
    /\ UNCHANGED <<layout, phase, next, mem, early>>

\* A caller takes a frame from kmalloc and maps page v to it (elf.c:155-161).
\* A table that cannot be reached ends in a page fault, and with it the machine:
\* what the call wrote before is of no account.
MapPage(v) ==
    /\ phase = "on"
    /\ used + Levels <= MaxMaps
    /\ LET g == Grow(mem, used + 1, v)
           path == Path(g.mem, v)
       IN  \/ /\ \A l \in 1 .. Levels : Reach(path[l])
              /\ mem' = Entered(g, v, Frame(used))
              /\ used' = g.used
              /\ early' = Capped(early \o NewTables(g.used))
              /\ phase' = phase
           \/ /\ \E l \in 1 .. Levels : ~Reach(path[l])
              /\ phase' = "fault"
              /\ UNCHANGED <<mem, used, early>>
    /\ UNCHANGED <<layout, next>>

\* unmap_page reads the tables through the direct map and clears the entry
\* at the table's physical address: wherever that is mapped.
UnmapPage(v) ==
    /\ phase = "on"
    /\ LET path == Path(mem, v)
           last == path[Levels]
           there == {l \in 1 .. Levels : path[l] # NoFrame}
           readable == \A l \in there \ {Levels} : Reach(path[l])
           target == Translate(mem, Wrap(last))
       IN  \/ /\ readable
              /\ Levels \in there
              /\ target # NoFrame
              /\ mem' = [e \in DOMAIN mem \ {<<target, Index(v, Levels)>>} |-> mem[e]]
              /\ phase' = phase
           \/ /\ readable
              /\ Levels \notin there
              /\ UNCHANGED <<mem, phase>>
           \/ /\ ~readable \/ (Levels \in there /\ target = NoFrame)
              /\ phase' = "fault"
              /\ mem' = mem
    /\ UNCHANGED <<layout, next, used, early>>

Next == \/ AllocRoot \/ MapNext \/ LoadCr3 \/ Kmalloc
        \/ \E v \in MapPages : MapPage(v) \/ UnmapPage(v)

Spec == Init /\ [][Next]_vars

-----------------------------------------------------------------------------
Tables(l) == LET t[k \in 1 .. Levels] ==
                     IF k = 1 THEN {Root}
                     ELSE {mem[e] : e \in {d \in DOMAIN mem : d[1] \in t[k - 1]}}
             IN  t[l]
AllTables == UNION {Tables(l) : l \in 1 .. Levels}

TypeOK ==
    /\ layout \in Layouts
    /\ phase \in {"off", "boot", "on", "fault"}
    /\ next \in 1 .. Len(Requests) + 1
    /\ \A e \in DOMAIN mem : /\ e[1] \in Frame(0) .. Frame(used - 1)
                             /\ e[2] \in 0 .. Fanout - 1
                             /\ mem[e] \in 0 .. VirtPages - 1
    /\ used \in 0 .. MaxMaps
    /\ Len(early) <= MaxEarly
    /\ \A i \in DOMAIN early : early[i] \in Frame(0) .. Frame(used - 1)

\* The tables form a tree (paging.c:61-86, 470-500): every entry above the
\* lowest level has a table of its own, which kmalloc gave, no table serves two
\* levels, and no page that map_page was asked for leads into a table.
TableTree ==
    phase # "off" =>
        /\ \A l \in 2 .. Levels :
              Cardinality(Tables(l)) = Cardinality({e \in DOMAIN mem : e[1] \in Tables(l - 1)})
        /\ \A k, l \in 1 .. Levels : k # l => Tables(k) \cap Tables(l) = {}
        /\ AllTables \subseteq Frame(0) .. Frame(used - 1)
        /\ \A e \in DOMAIN mem : e[1] \in AllTables
        /\ \A v \in MapPages : Translate(mem, v) \notin AllTables

\* When CR3 is loaded the PML4 is where pml4 and the direct map look for it
\* (paging.c:106, 279-352), wherever kmalloc put it and whatever the stack's
\* and the code's mappings, which leave bits above 47 behind, overwrote.
RootReachable ==
    phase = "on" => Translate(mem, Root) = Root /\ Reach(Root)

\* The first 2MB are mapped to themselves and in the direct map when CR3 is
\* loaded (paging.c:111-113, 129), and no later mapping disturbs them.
LowWindow ==
    phase = "on" =>
        \A p \in 0 .. Fanout - 1 : Translate(mem, p) = p /\ Reach(p)

\* map_page and unmap_page fault on a table (paging.c:463, 567) only when
\* kmalloc has come to frames above the first 2MB.
FaultOnlyBeyondWindow == phase = "fault" => Frame(used + Levels - 1) >= Fanout

\* Every step changes the translation of one page at most: building a path
\* for one page leaves every other page's translation alone, in boot and in
\* map_page and unmap_page.
Space == INSTANCE AddressSpace
         WITH Pages <- 0 .. WalkPages - 1,
              Unmapped <- NoFrame,
              space <- [p \in 0 .. WalkPages - 1 |-> Translate(mem, p)]
ImplementsAddressSpace == Space!Spec

-----------------------------------------------------------------------------
(* What the theorems suppose of layouts.  Sane is what the code relies on  *)
(* throughout: kmalloc's frames lie below the pages a walk tells apart,    *)
(* and none of the boot's mappings puts one of them at another frame's     *)
(* page, nor where map_page will be asked for a page.  WindowClear and     *)
(* RootClear say that nothing else is mapped at the pages of the first 2MB *)
(* and of the PML4.                                                        *)

\* The pages that init_paging hands to map_range (paging.c:113-133, 346-352).
RangePages(l) ==
    LET code == Align(l.code) .. l.code + Fanout - 1
        stack == Align(l.stack) .. Align(l.stack) + Fanout - 1
        low == 0 .. Fanout - 1 \union code \union stack \union {l.first}
    IN  low \union {Hhdm + v : v \in low}

\* The pages it maps one by one, in both spaces (paging.c:138-340).
SinglePages(l) ==
    {l.code, l.first} \union l.stack - StackReach .. l.stack + StackReach

\* All that init_paging may map.
BootMaps(l) ==
    {Request(v, Direct(Wrap(v))) : v \in RangePages(l)}
    \union {Request(f, f) : f \in SinglePages(l)}
    \union {Request(Hhdm + f, f) : f \in SinglePages(l)}

\* The frames that kmalloc hands out, up to the bound.
Frames(l) == l.first .. l.first + MaxMaps - 1

\* Where pages are in the tables.
Places(S) == {v % WalkPages : v \in S}

\* Physical memory is below the pages that a walk tells apart, the stack is not
\* at the very bottom, and the boot's mappings fit an entry.
Roomy(l) ==
    /\ l.first + MaxMaps <= WalkPages
    /\ StackReach <= l.stack
    /\ \A b \in BootMaps(l) : b.frame \in Virt

\* No mapping of the boot puts one of kmalloc's frames at the identity page of
\* another, or where a program's page will be.
Clean(l) ==
    \A b \in BootMaps(l) :
        /\ b.page % WalkPages \in Frames(l) =>
               b.frame = b.page % WalkPages \/ b.frame \notin Frames(l)
        /\ b.page % WalkPages \in Places(MapPages) => b.frame \notin Frames(l)

\* All layouts are like that.
Sane == \A l \in Layouts : Roomy(l) /\ Clean(l)

\* Nothing else is mapped at the first 2MB, in either space, by init_paging
\* or by map_page's callers.
WindowClear ==
    \A p \in 0 .. Fanout - 1 :
        /\ \A l \in Layouts : \A b \in BootMaps(l) :
              /\ b.page % WalkPages = p % WalkPages => b.frame = p
              /\ b.page % WalkPages = Wrap(Hhdm + p) % WalkPages => b.frame = p
        /\ \A v \in MapPages :
              /\ v % WalkPages # p % WalkPages
              /\ v % WalkPages # Wrap(Hhdm + p) % WalkPages

\* The PML4 lies below the direct map, and map_page is never asked for either of
\* its two pages.
RootClear ==
    \A l \in Layouts :
        /\ l.first < Hhdm /\ Hhdm + l.first < VirtPages
        /\ \A v \in MapPages :
              /\ v % WalkPages # l.first % WalkPages
              /\ v % WalkPages # Wrap(Hhdm + l.first) % WalkPages

-----------------------------------------------------------------------------
\* What comments of paging.c say and the code does not do.

\* paging.c:401 "Double check the identity mapping for the next instruction":
\* when CR3 is loaded the page of the running code leads to its frame.
NextInstructionMapped ==
    phase = "on" => Translate(mem, layout.code) = layout.codeFrame
=============================================================================
