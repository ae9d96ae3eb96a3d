---------------------------- MODULE PagingProofs ----------------------------
(***************************************************************************)
(* Theorems about the page tables, for any number of levels, table size,   *)
(* direct map, frames and layouts that the hypotheses below allow.         *)
(*                                                                         *)
(* The hypotheses Sane, WindowClear and RootClear are stated in Paging,    *)
(* and MCPaging supposes them of its layouts.                              *)
(*                                                                         *)
(* Argument.  TreeInv is inductive: the entries are a tree of frames of    *)
(* kmalloc's, and Tame, no page leads into a table unless it is the        *)
(* table's own page.  Tame is what makes unmap_page harmless: it writes to *)
(* a table's physical address, wherever that is mapped, and only Tame      *)
(* keeps the write out of another table.  From a tree follows that each    *)
(* step changes the translation of one page: that is the refinement.       *)
(* Window and RootKept follow the mappings of single pages through boot    *)
(* and are inductive beside TreeInv; so is Noted, which TypeOK needs.      *)
(***************************************************************************)
EXTENDS PagingLemmas

\* pml4 is the first frame that kmalloc hands out (paging.c:101).
LEMMA RootIs == layout \in Layouts => /\ layout.first \in Nat /\ Root = layout.first
                                      /\ \A k \in Nat : Frame(k) = layout.first + k
<1> SUFFICES ASSUME layout \in Layouts
             PROVE  /\ layout.first \in Nat /\ Root = layout.first
                    /\ \A k \in Nat : Frame(k) = layout.first + k
    OBVIOUS
<1>1. layout.first \in Nat
    BY ConstantsAssumption DEF ConstantsAssumption, Layout
<1> QED BY <1>1 DEF Root, Frame

\* Frames are pages of their own number: their identity page is below bit 48
\* (paging.c:283-288).
LEMMA RoomyTyped ==
    ASSUME Sane, layout \in Layouts
    PROVE  /\ layout.first \in Nat /\ MaxMaps \in Nat \ {0} /\ WalkPages \in Nat \ {0}
           /\ layout.first + MaxMaps <= WalkPages /\ WalkPages < NoFrame /\ NoFrame \in Nat
           /\ NoFrame = VirtPages
           /\ \A f \in Frames(layout) : /\ f \in Nat /\ f \in Virt /\ f % WalkPages = f /\ Wrap(f) = f
                                        /\ f # NoFrame
           /\ \A b \in BootMaps(layout) : b.frame \in Virt
<1>1. /\ layout.first \in Nat /\ MaxMaps \in Nat \ {0} /\ WalkPages \in Nat \ {0} /\ VirtPages \in Nat \ {0}
      /\ layout.first + MaxMaps <= WalkPages /\ WalkPages < VirtPages /\ NoFrame = VirtPages
    BY RootIs, SizesTyped, PagesTyped DEF Sane, Roomy
<1>2. ASSUME NEW f \in Frames(layout)
      PROVE  /\ f \in Nat /\ f \in Virt /\ f % WalkPages = f /\ Wrap(f) = f /\ f # NoFrame
  <2>1. f \in Nat /\ f < WalkPages /\ f < VirtPages
      BY <1>1 DEF Frames
  <2> QED BY <1>1, <2>1 DEF Virt, Wrap
<1>3. \A b \in BootMaps(layout) : b.frame \in Virt
    BY DEF Sane, Roomy
<1> QED BY <1>1, <1>2, <1>3

\* The regions of init_paging (paging.c:111-275) map only BootMaps, and the
\* first 2MB are among them in both spaces.
LEMMA RegionsTyped ==
    ASSUME Sane, layout \in Layouts
    PROVE  /\ Regions \in Seq(BootMaps(layout)) /\ CodeAndStack \in Seq(BootMaps(layout))
           /\ \A v \in 0 .. Fanout - 1 :
                 /\ Request(v, Direct(Wrap(v))) \in Range(Regions)
                 /\ Request(Hhdm + v, Direct(Wrap(Hhdm + v))) \in Range(Regions)
<1> DEFINE B == BootMaps(layout)
           r == layout.first
           c == layout.code
           k == layout.stack
           C == Align(c)
           K == Align(k)
<1>1. /\ Fanout \in Nat /\ Fanout >= 2 /\ Hhdm \in Nat /\ StackReach \in Nat
      /\ r \in Nat /\ c \in Nat /\ k \in Nat /\ Root = r /\ StackReach <= k
      /\ C \in Nat /\ C <= c /\ K \in Nat /\ K <= k
  <2>1. Hhdm \in Nat /\ c \in Nat /\ k \in Nat
      BY ConstantsAssumption, PagesTyped DEF ConstantsAssumption, Layout
  <2>2. StackReach <= k
      BY DEF Sane, Roomy
  <2> QED BY SizesTyped, RootIs, AlignIs, <2>1, <2>2
<1> HIDE DEF r, c, k, C, K
<1>2. /\ \A v \in (0 .. Fanout - 1) \union (C .. c + Fanout - 1) \union (K .. K + Fanout - 1) \union {r} :
            Request(v, Direct(Wrap(v))) \in B /\ Request(Hhdm + v, Direct(Wrap(Hhdm + v))) \in B
      /\ \A f \in {c, r} \union (k - StackReach .. k + StackReach) :
            Request(f, f) \in B /\ Request(Hhdm + f, f) \in B
    BY DEF BootMaps, RangePages, SinglePages, r, c, k, C, K
<1> HIDE DEF B
<1>3. MapRange(0, Fanout) \in Seq(B) /\ MapRange(Hhdm, Hhdm + Fanout) \in Seq(B)
  <2>1. \A v \in 0 .. Fanout - 1 : Request(v, Direct(Wrap(v))) \in B
      BY <1>2
  <2>2. MapRange(0, Fanout) \in Seq(B)
      BY <1>1, <2>1, RangeTyped
  <2>3. ASSUME NEW v \in Hhdm .. Hhdm + Fanout - 1 PROVE Request(v, Direct(Wrap(v))) \in B
    <3> DEFINE w == v - Hhdm
    <3>1. w \in 0 .. Fanout - 1 /\ Hhdm + w = v
        BY <1>1
    <3> HIDE DEF w
    <3> QED BY <1>2, <3>1
  <2>4. Hhdm + Fanout \in Nat /\ Hhdm <= Hhdm + Fanout
      BY <1>1
  <2>5. MapRange(Hhdm, Hhdm + Fanout) \in Seq(B)
      BY <1>1, <2>3, <2>4, RangeTyped
  <2> QED BY <2>2, <2>5
<1>4. MapRange(C, c + Fanout) \in Seq(B) /\ MapRange(Hhdm + C, Hhdm + (c + Fanout)) \in Seq(B)
  <2> DEFINE y == c + Fanout
             x == Hhdm + C
             z == Hhdm + y
  <2>1. y \in Nat /\ C <= y /\ x \in Nat /\ z \in Nat /\ x <= z
      BY <1>1
  <2>2. ASSUME NEW v \in C .. y - 1 PROVE Request(v, Direct(Wrap(v))) \in B
    <3>1. v \in C .. c + Fanout - 1
        BY <1>1
    <3> QED BY <1>2, <3>1
  <2>3. ASSUME NEW v \in x .. z - 1 PROVE Request(v, Direct(Wrap(v))) \in B
    <3> DEFINE w == v - Hhdm
    <3>1. w \in C .. c + Fanout - 1 /\ Hhdm + w = v
        BY <1>1
    <3> HIDE DEF w
    <3> QED BY <1>2, <3>1
  <2> HIDE DEF x, y, z
  <2>4. MapRange(C, y) \in Seq(B)
      BY <1>1, <2>1, <2>2, RangeTyped
  <2>5. MapRange(x, z) \in Seq(B)
      BY <2>1, <2>3, RangeTyped
  <2> QED BY <2>4, <2>5 DEF x, y, z
<1>5. MapRange(K, K + Fanout) \in Seq(B) /\ MapRange(Hhdm + K, Hhdm + K + Fanout) \in Seq(B)
  <2> DEFINE y == K + Fanout
             z == Hhdm + K + Fanout
  <2>1. y \in Nat /\ K <= y /\ Hhdm + K \in Nat /\ z \in Nat /\ Hhdm + K <= z
      BY <1>1
  <2>2. ASSUME NEW v \in K .. y - 1 PROVE Request(v, Direct(Wrap(v))) \in B
    <3>1. v \in K .. K + Fanout - 1
        BY <1>1
    <3> QED BY <1>2, <3>1
  <2>3. ASSUME NEW v \in Hhdm + K .. z - 1 PROVE Request(v, Direct(Wrap(v))) \in B
    <3> DEFINE w == v - Hhdm
    <3>1. w \in K .. K + Fanout - 1 /\ Hhdm + w = v
        BY <1>1
    <3> HIDE DEF w
    <3> QED BY <1>2, <3>1
  <2> HIDE DEF y, z
  <2>4. MapRange(K, y) \in Seq(B)
      BY <1>1, <2>1, <2>2, RangeTyped
  <2>5. MapRange(Hhdm + K, z) \in Seq(B)
      BY <2>1, <2>3, RangeTyped
  <2> QED BY <2>4, <2>5 DEF y, z
<1>6. /\ Regions \in Seq(B)
      /\ \A v \in 0 .. Fanout - 1 :
            /\ Request(v, Direct(Wrap(v))) \in Range(Regions)
            /\ Request(Hhdm + v, Direct(Wrap(Hhdm + v))) \in Range(Regions)
  <2> DEFINE s1 == MapRange(0, Fanout)
             s2 == MapRange(C, c + Fanout)
             s3 == MapRange(K, K + Fanout)
             s4 == MapRange(Hhdm, Hhdm + Fanout)
             s5 == MapRange(Hhdm + C, Hhdm + (c + Fanout))
             s6 == MapRange(Hhdm + K, Hhdm + K + Fanout)
  <2>1. Regions = s1 \o s2 \o s3 \o s4 \o s5 \o s6
      BY DEF Regions, C, K, c, k
  <2>2. /\ s1 \in Seq(B) /\ s2 \in Seq(B) /\ s3 \in Seq(B)
        /\ s4 \in Seq(B) /\ s5 \in Seq(B) /\ s6 \in Seq(B)
      BY <1>3, <1>4, <1>5
  <2>3. \A v \in 0 .. Fanout - 1 : /\ Request(v, Direct(Wrap(v))) \in Range(s1)
                                 /\ Request(Hhdm + v, Direct(Wrap(Hhdm + v))) \in Range(s4)
    <3> DEFINE zero == 0
    <3>1. zero \in Nat /\ zero + Fanout = Fanout /\ \A v \in 0 .. Fanout - 1 : zero + v = v
        BY <1>1
    <3> HIDE DEF zero
    <3>2. \A v \in 0 .. Fanout - 1 :
             Request(zero + v, Direct(Wrap(zero + v))) \in Range(MapRange(zero, zero + Fanout))
        BY <1>1, <3>1, RangeHas
    <3>3. MapRange(zero, zero + Fanout) = s1
        BY <3>1 DEF zero
    <3>4. \A v \in 0 .. Fanout - 1 : Request(v, Direct(Wrap(v))) \in Range(s1)
        BY <3>1, <3>2, <3>3
    <3> QED BY <1>1, <3>4, RangeHas
  <2> DEFINE a2 == s1 \o s2
             a3 == a2 \o s3
             a4 == a3 \o s4
             a5 == a4 \o s5
             a6 == a5 \o s6
  <2>4. Regions = a6
      BY <2>1
  <2> HIDE DEF s1, s2, s3, s4, s5, s6
  <2>5. a2 \in Seq(B) /\ Range(a2) = Range(s1) \union Range(s2)
      BY <2>2, Joined
  <2> HIDE DEF a2
  <2>6. a3 \in Seq(B) /\ Range(a3) = Range(a2) \union Range(s3)
      BY <2>2, <2>5, Joined
  <2> HIDE DEF a3
  <2>7. a4 \in Seq(B) /\ Range(a4) = Range(a3) \union Range(s4)
      BY <2>2, <2>6, Joined
  <2> HIDE DEF a4
  <2>8. a5 \in Seq(B) /\ Range(a5) = Range(a4) \union Range(s5)
      BY <2>2, <2>7, Joined
  <2> HIDE DEF a5
  <2>9. a6 \in Seq(B) /\ Range(a6) = Range(a5) \union Range(s6)
      BY <2>2, <2>8, Joined
  <2> HIDE DEF a6
  <2> QED BY <2>3, <2>4, <2>5, <2>6, <2>7, <2>8, <2>9
<1>7. ASSUME NEW f \in {c, r} \union (k - StackReach .. k + StackReach) PROVE Both(f) \in Seq(B)
  <2>1. Request(f, f) \in B /\ Request(Hhdm + f, f) \in B
      BY <1>2
  <2> DEFINE a == Request(f, f)
             b == Request(Hhdm + f, f)
  <2>2. a \in B /\ b \in B
      BY <2>1
  <2> HIDE DEF a, b
  <2>3. <<a, b>> \in Seq(B)
      BY <2>2
  <2> QED BY <2>3 DEF Both, a, b
<1>8. CodeAndStack \in Seq(B)
  <2> DEFINE n == 2 * StackReach + 1
             s == [i \in DOMAIN StackPages |-> Both(StackPages[i])]
  <2>1. n \in Nat /\ StackPages = [i \in 1 .. n |-> k - StackReach + i - 1]
      BY <1>1 DEF StackPages, k
  <2>2. ASSUME NEW i \in 1 .. n PROVE StackPages[i] \in k - StackReach .. k + StackReach
      BY <1>1, <2>1
  <2>3. DOMAIN StackPages = 1 .. n
      BY <2>1
  <2>4. \A i \in 1 .. n : Both(StackPages[i]) \in Seq(B)
      BY <1>7, <2>2
  <2>5. s \in [1 .. n -> Seq(B)]
      BY <2>3, <2>4
  <2> HIDE DEF n, s
  <2>6. s \in Seq(Seq(B))
      BY <2>1, <2>5
  <2>7. Flat(s) \in Seq(B) /\ Both(c) \in Seq(B)
      BY <1>7, <2>6, FlatTyped
  <2>8. CodeAndStack = Both(c) \o Flat(s)
      BY DEF CodeAndStack, s, c
  <2> QED BY <2>7, <2>8, ConcatProperties
<1> QED BY <1>6, <1>8 DEF B

\* All mappings of init_paging are among BootMaps, they include the first 2MB,
\* and end with the PML4's own (paging.c:111-352).
LEMMA RequestsTyped ==
    ASSUME Sane, layout \in Layouts, early = <<Root>>
    PROVE  /\ Requests \in Seq(BootMaps(layout))
           /\ \A v \in 0 .. Fanout - 1 :
                 /\ Request(v, Direct(Wrap(v))) \in Range(Requests)
                 /\ Request(Hhdm + v, Direct(Wrap(Hhdm + v))) \in Range(Requests)
           /\ Len(Requests) \in Nat /\ Len(Requests) >= 2
           /\ Requests[Len(Requests) - 1] = Request(Root, Direct(Wrap(Root)))
           /\ Requests[Len(Requests)] = Request(Hhdm + Root, Direct(Wrap(Hhdm + Root)))
<1> DEFINE B == BootMaps(layout)
           f == Root
           c == Request(f, Direct(Wrap(f)))
           d == Request(Hhdm + f, Direct(Wrap(Hhdm + f)))
           u == Regions
           w == CodeAndStack
           z == EarlyTables
<1>1. f \in Nat /\ Request(f, f) \in B /\ Request(Hhdm + f, f) \in B /\ c \in B /\ d \in B
  <2>1. f = layout.first /\ f \in Nat
      BY RootIs
  <2> HIDE DEF f
  <2> QED BY <2>1 DEF BootMaps, RangePages, SinglePages
<1>2. PICK x \in Seq(B) : z = x \o <<c, d>>
  <2> HIDE DEF B, f
  <2>1. early = <<f>>
      BY DEF f
  <2> QED BY <1>1, <2>1, EarlyEnd
<1>3. u \in Seq(B) /\ w \in Seq(B)
    BY RegionsTyped
<1>4. Requests = u \o w \o z
    BY DEF Requests
<1>5. \A v \in 0 .. Fanout - 1 : /\ Request(v, Direct(Wrap(v))) \in Range(u)
                                 /\ Request(Hhdm + v, Direct(Wrap(Hhdm + v))) \in Range(u)
    BY RegionsTyped
<1> DEFINE p == u \o w
           y == p \o x
           e == <<c, d>>
<1> HIDE DEF B, f, c, d, u, w, z
<1>6. e \in Seq(B) /\ Len(e) = 2 /\ e[1] = c /\ e[2] = d /\ z = x \o e
    BY <1>1, <1>2
<1> HIDE DEF e
<1>7. p \in Seq(B) /\ Range(p) = Range(u) \union Range(w) /\ Requests = p \o z
    BY <1>3, <1>4, Joined
<1> HIDE DEF p
<1>8. y \in Seq(B) /\ Range(y) = Range(p) \union Range(x)
    BY <1>2, <1>7, Joined
<1>9. Requests = y \o e
  <2>1. x \in Seq(B) /\ e \in Seq(B) /\ p \in Seq(B)
      BY <1>2, <1>6, <1>7
  <2>2. (p \o x) \o e = p \o (x \o e)
      BY ONLY <2>1, ConcatAssociative
  <2> QED BY <1>6, <1>7, <2>2
<1> HIDE DEF y
<1> DEFINE n == Len(y)
<1>10. n \in Nat
    BY <1>8
<1>11. e \in Seq(B) /\ Len(e) = 2 /\ e[1] = c /\ e[2] = d /\ Requests = y \o e
    BY <1>6, <1>9
<1>12. /\ Requests \in Seq(B) /\ Len(Requests) = n + 2
       /\ \A i \in 1 .. n + 2 : Requests[i] = IF i <= n THEN y[i] ELSE e[i - n]
  <2>1. /\ y \o e \in Seq(B) /\ Len(y \o e) = Len(y) + Len(e)
        /\ \A i \in 1 .. Len(y) + Len(e) : (y \o e)[i] = IF i <= Len(y) THEN y[i] ELSE e[i - Len(y)]
      BY <1>8, <1>11, ConcatProperties
  <2>2. Len(y) + Len(e) = n + 2
      BY <1>11
  <2> QED BY <1>11, <2>1, <2>2
<1>13. Range(Requests) = Range(y) \union Range(e)
    BY <1>8, <1>11, RangeConcatenation
<1> HIDE DEF n
<1>14. Requests[n + 1] = c /\ Requests[n + 2] = d
  <2> DEFINE i == n + 1
             j == n + 2
  <2>1. i \in 1 .. n + 2 /\ j \in 1 .. n + 2 /\ ~(i <= n) /\ ~(j <= n) /\ i - n = 1 /\ j - n = 2
      BY <1>10
  <2> HIDE DEF i, j
  <2>2. Requests[i] = e[i - n] /\ Requests[j] = e[j - n]
      BY <1>12, <2>1
  <2>3. Requests[i] = c /\ Requests[j] = d
      BY <1>11, <2>1, <2>2
  <2> QED BY <2>3 DEF i, j
<1>15. Len(Requests) \in Nat /\ Len(Requests) >= 2 /\ Len(Requests) - 1 = n + 1
    BY <1>10, <1>12
<1>16. \A v \in 0 .. Fanout - 1 :
                 /\ Request(v, Direct(Wrap(v))) \in Range(Requests)
                 /\ Request(Hhdm + v, Direct(Wrap(Hhdm + v))) \in Range(Requests)
    BY <1>5, <1>7, <1>8, <1>13
<1>17. Requests[Len(Requests) - 1] = c /\ Requests[Len(Requests)] = d
    BY <1>12, <1>14, <1>15
<1> QED BY <1>12, <1>15, <1>16, <1>17 DEF B, c, d, f

\* Mappings of the boot are of pages and to frames that exist (paging.c:48-92).
LEMMA BootMapsTyped ==
    ASSUME Sane, layout \in Layouts
    PROVE  \A b \in BootMaps(layout) : b.page \in Virt /\ b.frame \in Virt
<1> DEFINE r == layout.first
           c == layout.code
           k == layout.stack
           C == Align(c)
           K == Align(k)
<1>1. /\ Fanout \in Nat /\ Fanout >= 2 /\ Hhdm \in Nat /\ StackReach \in Nat
      /\ r \in Nat /\ c \in Nat /\ k \in Nat /\ StackReach <= k
      /\ C \in Nat /\ K \in Nat
  <2>1. Hhdm \in Nat /\ c \in Nat /\ k \in Nat
      BY ConstantsAssumption, PagesTyped DEF ConstantsAssumption, Layout
  <2>2. StackReach <= k
      BY DEF Sane, Roomy
  <2> QED BY SizesTyped, RootIs, AlignIs, <2>1, <2>2
<1> HIDE DEF r, c, k, C, K
<1>2. RangePages(layout) \subseteq Nat
    BY <1>1 DEF RangePages, r, c, k, C, K
<1>3. SinglePages(layout) \subseteq Nat
    BY <1>1 DEF SinglePages, r, c, k
<1>4. \A v \in Nat : Wrap(v) \in Virt /\ Wrap(Hhdm + v) \in Virt
  <2> SUFFICES ASSUME NEW v \in Nat PROVE Wrap(v) \in Virt /\ Wrap(Hhdm + v) \in Virt
      OBVIOUS
  <2> DEFINE w == Hhdm + v
  <2>1. w \in Nat
      BY <1>1
  <2> HIDE DEF w
  <2>2. Wrap(w) \in Virt /\ Wrap(v) \in Virt
      BY <2>1, PagesTyped
  <2> QED BY <2>2 DEF w
<1>5. \A v, f : Request(v, f).page = Wrap(v)
    BY DEF Request
<1>6. \A b \in BootMaps(layout) : b.page \in Virt
    BY <1>2, <1>3, <1>4, <1>5 DEF BootMaps
<1> QED BY <1>6 DEF Sane, Roomy

\* What init_paging maps depends on the layout and the tables noted, and on
\* nothing that a mapping changes (paging.c:111-352).
LEMMA SameRequests ==
    ASSUME layout' = layout, early' = early
    PROVE  Requests' = Requests
BY DEF Requests, Regions, CodeAndStack, EarlyTables, StackPages

-----------------------------------------------------------------------------
\* A walk comes to t.
IsTable(t) == t # NoFrame /\ \E v \in Virt, l \in 1 .. Levels : t = Walk(Root, mem, v)[l]

\* f was handed out, and not as a table.
IsData(f) == f \in Allotted(Root, used) /\ ~IsTable(f)

\* A page that leads to a frame of kmalloc's either has that frame's own number
\* or leads to a frame that is no table, and so does each page map_page is asked
\* for.
Tame ==
    \A v \in Virt :
        LET f == Leaf(Root, mem, v)
        IN  f \in Frames(layout) =>
                /\ v % WalkPages \in Frames(layout) => f = v % WalkPages \/ IsData(f)
                /\ v % WalkPages \in Places(MapPages) => IsData(f)

\* Between steps the tables are a tree, and Tame.
TreeInv ==
    /\ layout \in Layouts
    /\ phase \in {"off", "boot", "on", "fault"}
    /\ used \in 0 .. MaxMaps
    /\ phase = "off" => mem = <<>> /\ used = 0 /\ next = 1 /\ early = <<>>
    /\ phase = "boot" => early = <<Root>>
    /\ phase # "off" => Tree(Root, mem, used) /\ Tame
    /\ mem = [e \in DOMAIN mem |-> mem[e]] /\ \A e \in DOMAIN mem : mem[e] \in Virt
    /\ next \in Nat \ {0}

\* The tables of a page are made and its entry is written (paging.c:61-89,
\* 519-550): the tables are a tree and tame, and one page has changed.
LEMMA PutTame ==
    ASSUME Sane, layout \in Layouts, layout' = layout, Tame, Tree(Root, mem, used), used \in Nat,
           NEW v \in Virt, NEW a, NEW k, NEW t, NEW n, n \in Nat, used <= n, k <= MaxMaps,
           Grown(Root, mem, n, v, Levels, a, k, t),
           NEW f \in Virt, mem' = Put(a, <<t, Index(v, Levels)>>, f), used' = k,
           f \in Frames(layout) =>
               /\ v % WalkPages \in Frames(layout) => f = v % WalkPages \/ (f \in Allotted(Root, n) \ Allotted(Root, used))
               /\ v % WalkPages \in Places(MapPages) => f \in Allotted(Root, n) \ Allotted(Root, used)
    PROVE  /\ Tree(Root, mem, used)' /\ Tame'
           /\ \A w \in Virt : Leaf(Root, mem, w)' = IF Same(v, w) THEN f ELSE Leaf(Root, mem, w)
           /\ \A w \in Virt, h \in 1 .. Levels : Walk(Root, mem, w)[h]' = Walk(Root, a, w)[h]
           /\ \A x \in Allotted(Root, n) \ Allotted(Root, used) : IsData(x)'
<1> DEFINE r == Root
           p == mem'
<1>1. /\ k \in Nat /\ n <= k /\ Tree(r, a, k) /\ t = Walk(r, a, v)[Levels] /\ t # NoFrame
      /\ \A w \in Virt : Leaf(r, a, w) = Leaf(r, mem, w)
      /\ \A w \in Virt, h \in 1 .. Levels :
            Walk(r, a, w)[h] = Walk(r, mem, w)[h] \/ Walk(r, a, w)[h] \in r + n .. r + k - 1
    BY DEF Grown
<1>2. Root' = r /\ r \in Nat /\ NoFrame \in Nat /\ f # NoFrame /\ Levels \in 1 .. Levels
  <2>1. Root' = Root
      BY DEF Root, Frame
  <2>2. f < VirtPages
      BY PagesTyped DEF Virt
  <2> QED BY <2>1, <2>2, PagesTyped, SizesTyped, RootIs
<1> HIDE DEF r, p
<1>3. /\ Tree(r, p, k)
      /\ \A w \in Virt, h \in 1 .. Levels : Walk(r, p, w)[h] = Walk(r, a, w)[h]
      /\ \A w \in Virt : Leaf(r, p, w) = IF Same(v, w) THEN f ELSE Leaf(r, a, w)
  <2>1. p = Put(a, <<t, Index(v, Levels)>>, f)
      BY DEF p
  <2> QED BY <1>1, <1>2, <2>1, LeafPut
<1>4. Tree(Root, mem, used)'
    BY <1>2, <1>3 DEF p
<1>5. \A w \in Virt : Leaf(Root, mem, w)' = IF Same(v, w) THEN f ELSE Leaf(r, mem, w)
    BY <1>1, <1>2, <1>3 DEF p
<1>6. \A w \in Virt, h \in 1 .. Levels : Walk(Root, mem, w)[h]' = Walk(r, a, w)[h]
    BY <1>2, <1>3 DEF p
<1>7. ASSUME NEW x, IsData(x) \/ x \in Allotted(r, n) \ Allotted(r, used) PROVE IsData(x)'
  <2>1. x \in Allotted(r, n) /\ ~IsTable(x)
    <3>1. Allotted(r, used) \subseteq Allotted(r, n)
        BY <1>2 DEF Allotted
    <3>2. IsTable(x) => x \in Allotted(r, used)
        BY DEF IsTable, Tree, Within, r
    <3> QED BY <1>7, <3>1, <3>2 DEF IsData, r
  <2>2. x \in Allotted(r, k)
      BY <1>1, <1>2, <2>1 DEF Allotted
  <2>3. ASSUME NEW w \in Virt, NEW h \in 1 .. Levels, x = Walk(r, a, w)[h] PROVE FALSE
    <3>1. Walk(r, a, w)[h] \notin r + n .. r + k - 1
        BY <1>1, <1>2, <2>1, <2>3 DEF Allotted
    <3>2. x = Walk(r, mem, w)[h]
        BY <1>1, <2>3, <3>1
    <3>3. x # NoFrame
      <4>1. r + k <= NoFrame
          BY <1>1 DEF Tree
      <4> QED BY <1>1, <1>2, <2>2, <4>1 DEF Allotted
    <3> QED BY <2>1, <3>2, <3>3 DEF IsTable, r
  <2>4. ~IsTable(x)'
      BY <1>6, <2>3 DEF IsTable
  <2> QED BY <1>2, <2>2, <2>4 DEF IsData
<1>8. Tame'
  <2> SUFFICES ASSUME NEW w \in Virt, NEW g, g = Leaf(Root, mem, w)', g \in Frames(layout)
               PROVE  /\ w % WalkPages \in Frames(layout) => g = w % WalkPages \/ IsData(g)'
                      /\ w % WalkPages \in Places(MapPages) => IsData(g)'
      BY DEF Tame
  <2>1. CASE Same(v, w)
    <3>1. g = f /\ v % WalkPages = w % WalkPages
      <4>1. v \in Nat /\ w \in Nat
          BY PagesTyped DEF Virt
      <4> QED BY <1>5, <2>1, <4>1, SamePage
    <3> QED BY <1>7, <3>1 DEF r
  <2>2. CASE ~Same(v, w)
    <3>1. g = Leaf(Root, mem, w)
        BY <1>5, <2>2 DEF r
    <3>2. /\ w % WalkPages \in Frames(layout) => g = w % WalkPages \/ IsData(g)
          /\ w % WalkPages \in Places(MapPages) => IsData(g)
        BY <3>1 DEF Tame
    <3> QED BY <1>7, <3>2
  <2> QED BY <2>1, <2>2
<1> QED BY <1>4, <1>5, <1>6, <1>7, <1>8 DEF r

\* The step gives page v the frame f and leaves all other pages alone.
Updates(v, f) ==
    \A w \in Virt : Leaf(Root, mem, w)' = IF Same(v, w) THEN f ELSE Leaf(Root, mem, w)

\* The PML4 is allocated (paging.c:101-106).
LEMMA AllocRootTree ==
    ASSUME Sane, TreeInv, AllocRoot
    PROVE  TreeInv' /\ \A w \in Virt : Leaf(Root, mem, w)' = Leaf(Root, mem, w)
<1>1. /\ layout \in Layouts /\ layout' = layout /\ mem = <<>> /\ mem' = <<>> /\ used' = 1
      /\ phase' = "boot" /\ early' = <<Root>> /\ next' = next /\ next = 1
    BY DEF TreeInv, AllocRoot
<1>2. Root' = Root
    BY <1>1 DEF Root, Frame
<1>3. Root \in Nat /\ Root + 1 <= NoFrame /\ 1 \in 0 .. MaxMaps /\ NoFrame \in Nat
  <2>1. Root = layout.first
      BY <1>1, RootIs
  <2>2. /\ layout.first \in Nat /\ MaxMaps \in Nat \ {0} /\ WalkPages \in Nat \ {0}
        /\ layout.first + MaxMaps <= WalkPages /\ WalkPages < NoFrame /\ NoFrame \in Nat
      BY <1>1, RoomyTyped
  <2> QED BY <2>1, <2>2
<1>4. Tree(Root, <<>>, 1) /\ \A v \in Virt : Leaf(Root, <<>>, v) = NoFrame
    BY <1>3, EmptyTree
<1>5. Tree(Root, mem, used)'
    BY <1>1, <1>2, <1>4
<1>6. \A v \in Virt : Leaf(Root, mem, v)' = NoFrame
    BY <1>1, <1>2, <1>4
<1>7. NoFrame \notin Frames(layout)
    BY <1>1, RoomyTyped
<1>8. Tame'
    BY <1>1, <1>6, <1>7 DEF Tame
<1>9. (mem = [e \in DOMAIN mem |-> mem[e]])' /\ (\A e \in DOMAIN mem : mem[e] \in Virt)'
    BY <1>1 DEF TreeInv
<1>10. TreeInv'
    BY <1>1, <1>2, <1>3, <1>5, <1>8, <1>9 DEF TreeInv
<1>11. \A v \in Virt : Leaf(Root, mem, v) = NoFrame
    BY <1>1, <1>4
<1> QED BY <1>6, <1>10, <1>11

\* One mapping of init_paging is made (paging.c:111-352).
LEMMA MapNextTree ==
    ASSUME Sane, TreeInv, MapNext
    PROVE  /\ TreeInv' /\ Requests[next] \in BootMaps(layout) /\ used <= used'
           /\ Updates(Requests[next].page, Requests[next].frame)
<1> DEFINE b == Requests[next]
           v == b.page
           f == b.frame
           g == Grow(mem, used, v)
<1>1. /\ layout \in Layouts /\ layout' = layout /\ phase = "boot" /\ phase' = "boot"
      /\ early = <<Root>> /\ early' = early /\ next \in Nat \ {0} /\ next' = next + 1
      /\ next <= Len(Requests) /\ used + Levels - 1 <= MaxMaps
      /\ used \in 0 .. MaxMaps /\ Tree(Root, mem, used) /\ Tame
      /\ mem' = Entered(g, v, f) /\ used' = g.used
      /\ \A e \in DOMAIN mem : mem[e] \in Virt
    BY DEF TreeInv, MapNext
<1>2. b \in BootMaps(layout)
  <2> DEFINE B == BootMaps(layout)
  <2>1. Requests \in Seq(B)
      BY <1>1, RequestsTyped
  <2> HIDE DEF B
  <2>2. Requests[next] \in B
      BY <1>1, <2>1
  <2> QED BY <2>2 DEF B
<1>3. v \in Virt /\ f \in Virt
    BY <1>1, <1>2, BootMapsTyped
<1>4. /\ layout.first \in Nat /\ MaxMaps \in Nat \ {0} /\ WalkPages \in Nat \ {0}
      /\ layout.first + MaxMaps <= WalkPages /\ WalkPages < NoFrame /\ NoFrame \in Nat
      /\ Levels \in Nat /\ Levels >= 1 /\ Root = layout.first /\ used \in Nat
    BY <1>1, RoomyTyped, RootIs, SizesTyped
<1>5. layout.first + used + Levels - 1 <= NoFrame
    BY <1>1, <1>4
<1> DEFINE r == layout.first
<1>12. r = layout.first /\ r = Root
    BY <1>4
<1> HIDE DEF b, v, f, r
<1>6. PICK a, k, t : /\ g = [mem |-> a, used |-> k, table |-> t]
                     /\ Grown(r, mem, used, v, Levels, a, k, t)
  <2>1. Tree(r, mem, used) /\ r + used + Levels - 1 <= NoFrame
      BY <1>1, <1>5, <1>12
  <2> QED BY <1>3, <1>12, <2>1, GrowIs
<1>7. mem' = Put(a, <<t, Index(v, Levels)>>, f) /\ used' = k
  <2> HIDE DEF g
  <2> QED BY <1>1, <1>6 DEF Entered
<1>8. Grown(Root, mem, used, v, Levels, a, k, t) /\ k <= MaxMaps /\ k \in Nat
  <2>1. k \in Nat /\ k <= used + Levels - 1
      BY <1>6 DEF Grown
  <2> QED BY <1>1, <1>4, <1>6, <1>12, <2>1
<1>9. f \in Frames(layout) =>
          /\ v % WalkPages \in Frames(layout) =>
                 f = v % WalkPages \/ (f \in Allotted(Root, used) \ Allotted(Root, used))
          /\ v % WalkPages \in Places(MapPages) => f \in Allotted(Root, used) \ Allotted(Root, used)
    BY <1>1, <1>2 DEF Sane, Clean, v, f
<1>10. Tree(Root, mem, used)' /\ Tame' /\ Updates(v, f)
  <2> HIDE DEF g
  <2>1. used <= used
      BY <1>4
  <2> QED BY <1>1, <1>3, <1>4, <1>7, <1>8, <1>9, <2>1, PutTame DEF Updates
<1>11. (mem = [e \in DOMAIN mem |-> mem[e]])' /\ (\A e \in DOMAIN mem : mem[e] \in Virt)'
  <2> DEFINE p == mem'
             x == <<t, Index(v, Levels)>>
  <2>2. p = Put(a, <<t, Index(v, Levels)>>, f)
      BY <1>7
  <2>3. /\ Root \in Nat /\ used \in Nat /\ f \in Virt /\ p = Put(a, x, f)
        /\ \A e \in DOMAIN mem : mem[e] \in Virt
        /\ Grown(Root, mem, used, v, Levels, a, k, t)
      BY <1>1, <1>3, <1>4, <1>8, <2>2
  <2> HIDE DEF p, g, x
  <2>1. p = [e \in DOMAIN p |-> p[e]] /\ \A e \in DOMAIN p : p[e] \in Virt
      BY ONLY <2>3, ValuesTyped
  <2> QED BY <2>1 DEF p
<1>13. Root' = Root
    BY <1>1 DEF Root, Frame
<1>14. used' \in 0 .. MaxMaps /\ next' \in Nat \ {0}
    BY <1>1, <1>4, <1>7, <1>8
<1>15. TreeInv'
  <2> HIDE DEF g
  <2>1. early' = <<Root>>'
      BY <1>1, <1>13
  <2> QED BY <1>1, <1>10, <1>11, <1>14, <2>1 DEF TreeInv
<1>16. used <= used'
    BY <1>7, <1>8 DEF Grown
<1> QED BY <1>2, <1>10, <1>15, <1>16 DEF v, f, b

\* Loading CR3 changes no table (paging.c:400-455).
LEMMA LoadCr3Tree ==
    ASSUME Sane, TreeInv, LoadCr3
    PROVE  TreeInv' /\ \A w \in Virt : Leaf(Root, mem, w)' = Leaf(Root, mem, w)
<1>1. /\ layout' = layout /\ phase = "boot" /\ phase' = "on" /\ UNCHANGED <<next, mem, used, early>>
    BY DEF LoadCr3
<1>2. Root' = Root
    BY <1>1 DEF Root, Frame
<1>3. \A w \in Virt : Leaf(Root, mem, w)' = Leaf(Root, mem, w)
    BY <1>1, <1>2
<1>4. Tree(Root, mem, used)' /\ Tame'
  <2>1. Tree(Root, mem, used) /\ Tame
      BY <1>1 DEF TreeInv
  <2>2. \A f : IsData(f)' <=> IsData(f)
      BY <1>1, <1>2 DEF IsData, IsTable
  <2> QED BY <1>1, <1>2, <1>3, <2>1, <2>2 DEF Tame
<1> QED BY <1>1, <1>3, <1>4 DEF TreeInv

\* A frame that goes to somebody else disturbs no table (shell.c's kmalloc).
LEMMA KmallocTree ==
    ASSUME Sane, TreeInv, Kmalloc
    PROVE  TreeInv' /\ \A w \in Virt : Leaf(Root, mem, w)' = Leaf(Root, mem, w)
<1>1. /\ layout \in Layouts /\ layout' = layout /\ phase = "on" /\ phase' = "on"
      /\ used < MaxMaps /\ used' = used + 1 /\ UNCHANGED <<next, mem, early>>
      /\ used \in 0 .. MaxMaps /\ Tree(Root, mem, used) /\ Tame
    BY DEF Kmalloc, TreeInv
<1>2. Root' = Root
    BY <1>1 DEF Root, Frame
<1>3. \A w \in Virt : Leaf(Root, mem, w)' = Leaf(Root, mem, w)
    BY <1>1, <1>2
<1>4. /\ layout.first \in Nat /\ MaxMaps \in Nat \ {0} /\ WalkPages \in Nat \ {0}
      /\ layout.first + MaxMaps <= WalkPages /\ WalkPages < NoFrame /\ NoFrame \in Nat
      /\ Root = layout.first /\ used \in Nat
    BY <1>1, RoomyTyped, RootIs
<1>5. Tree(Root, mem, used)'
  <2> DEFINE k == used + 1
  <2>1. k \in Nat /\ used <= k /\ Root + k <= NoFrame
      BY <1>1, <1>4
  <2> HIDE DEF k
  <2>2. Tree(Root, mem, k)
      BY <1>1, <2>1, MoreFrames
  <2> QED BY <1>1, <1>2, <2>2 DEF k
<1>6. Tame'
  <2>1. \A f : IsData(f) => IsData(f)'
    <3>1. Allotted(Root, used) \subseteq Allotted(Root, used)'
        BY <1>1, <1>2, <1>4 DEF Allotted
    <3>2. \A f : IsTable(f)' <=> IsTable(f)
        BY <1>1, <1>2 DEF IsTable
    <3> QED BY <3>1, <3>2 DEF IsData
  <2> QED BY <1>1, <1>3, <2>1 DEF Tame
<1>7. used' \in 0 .. MaxMaps
    BY <1>1, <1>4
<1> QED BY <1>1, <1>3, <1>5, <1>6, <1>7 DEF TreeInv

\* map_page (paging.c:503-554), for whatever page, changes that page alone, or
\* faults and changes none.
LEMMA MapPageTree ==
    ASSUME Sane, TreeInv, NEW v \in Virt, MapPage(v)
    PROVE  /\ TreeInv'
           /\ \/ phase' = "on" /\ Updates(v, Frame(used)) /\ used' \in Nat /\ used < used'
                    /\ early' = Capped(early \o NewTables(used'))
                    /\ \A x : x = Frame(used) => IsData(x)'
              \/ phase' = "fault" /\ mem' = mem /\ used' = used /\ early' = early
                    /\ \A w \in Virt : Leaf(Root, mem, w)' = Leaf(Root, mem, w)
<1> DEFINE n == used + 1
           f == Frame(used)
           g == Grow(mem, n, v)
<1>1. /\ layout \in Layouts /\ layout' = layout /\ phase = "on" /\ next' = next
      /\ used + Levels <= MaxMaps /\ used \in 0 .. MaxMaps /\ Tree(Root, mem, used) /\ Tame
      /\ \A e \in DOMAIN mem : mem[e] \in Virt
    BY DEF MapPage, TreeInv
<1>2. Root' = Root
    BY <1>1 DEF Root, Frame
<1>3. /\ layout.first \in Nat /\ MaxMaps \in Nat \ {0} /\ WalkPages \in Nat \ {0}
      /\ layout.first + MaxMaps <= WalkPages /\ WalkPages < NoFrame /\ NoFrame \in Nat
      /\ NoFrame = VirtPages
      /\ Root = layout.first /\ used \in Nat /\ Levels \in Nat /\ Levels >= 1
      /\ f = layout.first + used
    BY <1>1, RoomyTyped, RootIs, SizesTyped
<1>4. v \in Virt
    OBVIOUS
<1>5. CASE phase' = "on"
  <2>1. mem' = Entered(g, v, f) /\ used' = g.used
      BY <1>1, <1>5 DEF MapPage
  <2>2. n \in Nat /\ used <= n /\ Root + n <= NoFrame /\ Root + n + Levels - 1 <= NoFrame
        /\ n = used + 1
      BY <1>1, <1>3
  <2>3. f \in Virt /\ f \in Frames(layout) /\ f \in Allotted(Root, n) \ Allotted(Root, used)
      BY <1>1, <1>3, <2>2 DEF Virt, Frames, Allotted
  <2> DEFINE r == layout.first
  <2>4. r = layout.first /\ r = Root
      BY <1>3
  <2> HIDE DEF n, f, r
  <2>5. Tree(Root, mem, n)
      BY <1>1, <2>2, MoreFrames
  <2>6. PICK a, k, t : /\ g = [mem |-> a, used |-> k, table |-> t]
                       /\ Grown(r, mem, n, v, Levels, a, k, t)
    <3>1. Tree(r, mem, n) /\ r + n + Levels - 1 <= NoFrame
        BY <2>2, <2>4, <2>5
    <3> QED BY <1>4, <2>4, <3>1, GrowIs
  <2>7. mem' = Put(a, <<t, Index(v, Levels)>>, f) /\ used' = k
    <3> HIDE DEF g
    <3> QED BY <2>1, <2>6 DEF Entered
  <2> HIDE DEF g
  <2>8. Grown(Root, mem, n, v, Levels, a, k, t) /\ k <= MaxMaps /\ k \in Nat /\ used <= k
    <3>1. k \in Nat /\ k <= n + Levels - 1 /\ n <= k
        BY <2>6 DEF Grown
    <3> QED BY <1>1, <1>3, <2>2, <2>4, <2>6, <3>1
  <2>9. Tree(Root, mem, used)' /\ Tame' /\ Updates(v, f) /\ \A x : x = f => IsData(x)'
    <3>1. f \in Frames(layout) =>
              /\ v % WalkPages \in Frames(layout) =>
                     f = v % WalkPages \/ (f \in Allotted(Root, n) \ Allotted(Root, used))
              /\ v % WalkPages \in Places(MapPages) => f \in Allotted(Root, n) \ Allotted(Root, used)
        BY <2>3
    <3>2. f \in Virt /\ n \in Nat /\ used <= n /\ used \in Nat
        BY <1>3, <2>2, <2>3
    <3>3. Tree(Root, mem, used)' /\ Tame' /\ Updates(v, f)
          /\ \A x \in Allotted(Root, n) \ Allotted(Root, used) : IsData(x)'
        BY <1>1, <1>4, <2>7, <2>8, <3>1, <3>2, PutTame DEF Updates
    <3> QED BY <2>3, <3>3
  <2>10. (mem = [e \in DOMAIN mem |-> mem[e]])' /\ (\A e \in DOMAIN mem : mem[e] \in Virt)'
    <3> DEFINE p == mem'
    <3>1. p = Put(a, <<t, Index(v, Levels)>>, f)
        BY <2>7
    <3> HIDE DEF p
    <3>2. p = [e \in DOMAIN p |-> p[e]] /\ \A e \in DOMAIN p : p[e] \in Virt
        BY <1>1, <1>3, <2>2, <2>3, <2>8, <3>1, ValuesTyped
    <3> QED BY <3>2 DEF p
  <2>11. used' \in 0 .. MaxMaps /\ next' \in Nat \ {0}
      BY <1>1, <1>3, <2>7, <2>8 DEF TreeInv
  <2>12. TreeInv'
      BY <1>1, <1>5, <2>9, <2>10, <2>11 DEF TreeInv
  <2>13. used < k /\ early' = Capped(early \o NewTables(used'))
    <3>1. early' = Capped(early \o NewTables(g.used))
        BY <1>1, <1>5 DEF MapPage, n, g
    <3>2. n <= k
        BY <2>8 DEF Grown
    <3> QED BY <1>3, <2>1, <2>2, <2>8, <3>1, <3>2
  <2> QED BY <1>5, <2>7, <2>8, <2>9, <2>12, <2>13 DEF f
<1>6. CASE phase' = "fault"
  <2>1. mem' = mem /\ used' = used /\ early' = early
      BY <1>1, <1>6 DEF MapPage
  <2>2. \A w \in Virt : Leaf(Root, mem, w)' = Leaf(Root, mem, w)
      BY <1>2, <2>1
  <2>3. Tree(Root, mem, used)' /\ Tame'
    <3>1. \A x : IsData(x)' <=> IsData(x)
        BY <1>2, <2>1 DEF IsData, IsTable
    <3> QED BY <1>1, <1>2, <2>1, <2>2, <3>1 DEF Tame
  <2> HIDE DEF n, f, g
  <2>4. TreeInv'
      BY <1>1, <1>6, <2>1, <2>3 DEF TreeInv
  <2> QED BY <1>6, <2>1, <2>2, <2>4
<1>7. phase' = "on" \/ phase' = "fault"
    BY <1>1 DEF MapPage
<1> QED BY <1>5, <1>6, <1>7

\* The table's physical address, read as a virtual one, leads to that table or
\* to no table at all (paging.c:567).
LEMMA UnmapTarget ==
    ASSUME Sane, TreeInv, phase = "on", NEW v \in Virt, NEW last, last = Walk(Root, mem, v)[Levels], last # NoFrame,
           NEW target, target = Leaf(Root, mem, Wrap(last)), NEW i, <<target, i>> \in DOMAIN mem
    PROVE  target = last
<1>1. /\ layout \in Layouts /\ used \in 0 .. MaxMaps /\ Tree(Root, mem, used) /\ Tame
    BY DEF TreeInv
<1>2. /\ layout.first \in Nat /\ MaxMaps \in Nat \ {0} /\ Root = layout.first /\ used \in Nat
      /\ \A f \in Frames(layout) : /\ f \in Nat /\ f \in Virt /\ f % WalkPages = f /\ Wrap(f) = f
    BY <1>1, RoomyTyped, RootIs
<1>3. Allotted(Root, used) \subseteq Frames(layout)
    BY <1>1, <1>2 DEF Allotted, Frames
<1>4. last \in Frames(layout)
  <2>1. Levels \in 1 .. Levels
      BY SizesTyped
  <2> QED BY <1>1, <1>3, <2>1, TablesAllotted
<1>5. IsTable(target) /\ target \in Frames(layout)
  <2>1. PICK w \in Virt, l \in 1 .. Levels :
           Walk(Root, mem, w)[l] # NoFrame /\ <<target, i>> = <<Walk(Root, mem, w)[l], Index(w, l)>>
      BY <1>1 DEF Tree, Owned
  <2>2. target = Walk(Root, mem, w)[l] /\ target # NoFrame
      BY <2>1
  <2>3. IsTable(target)
      BY <2>2 DEF IsTable
  <2>4. target \in Allotted(Root, used)
      BY <1>1, <2>2, TablesAllotted
  <2> QED BY <1>3, <2>3, <2>4
<1>6. target = Leaf(Root, mem, last) /\ last \in Virt /\ last % WalkPages \in Frames(layout)
    BY <1>2, <1>4
<1>7. target = last % WalkPages \/ IsData(target)
    BY <1>1, <1>5, <1>6 DEF Tame
<1> QED BY <1>2, <1>4, <1>5, <1>7 DEF IsData

\* unmap_page (paging.c:556-568) clears the entry of its page, or none.
LEMMA UnmapPageTree ==
    ASSUME Sane, TreeInv, NEW v \in MapPages, UnmapPage(v)
    PROVE  /\ TreeInv'
           /\ \/ Updates(v, NoFrame)
              \/ \A w \in Virt : Leaf(Root, mem, w)' = Leaf(Root, mem, w)
<1> DEFINE last == Walk(Root, mem, v)[Levels]
           target == Leaf(Root, mem, Wrap(last))
           i == Index(v, Levels)
<1>1. /\ layout \in Layouts /\ layout' = layout /\ phase = "on" /\ next' = next
      /\ used' = used /\ early' = early /\ phase' \in {"on", "fault"}
      /\ used \in 0 .. MaxMaps /\ Tree(Root, mem, used) /\ Tame
      /\ mem = [e \in DOMAIN mem |-> mem[e]] /\ \A e \in DOMAIN mem : mem[e] \in Virt
    BY DEF UnmapPage, TreeInv
<1>2. Root' = Root /\ v \in Virt
    BY <1>1, ConstantsAssumption DEF Root, Frame, ConstantsAssumption, Virt
<1>3. mem' = mem \/ (last # NoFrame /\ mem' = Without(mem, <<target, i>>))
    BY PathIs DEF UnmapPage, Without
<1> HIDE DEF i, last, target
<1>4. CASE mem' = mem
  <2>1. \A w \in Virt : Leaf(Root, mem, w)' = Leaf(Root, mem, w)
      BY <1>2, <1>4
  <2>2. Tree(Root, mem, used)' /\ Tame'
    <3>1. \A x : IsData(x)' <=> IsData(x)
        BY <1>1, <1>2, <1>4 DEF IsData, IsTable
    <3> QED BY <1>1, <1>2, <1>4, <2>1, <3>1 DEF Tame
  <2>3. TreeInv'
      BY <1>1, <1>4, <2>2 DEF TreeInv
  <2> QED BY <2>1, <2>3
<1>5. CASE last # NoFrame /\ mem' = Without(mem, <<target, i>>) /\ <<target, i>> \notin DOMAIN mem
  <2>1. mem' = [e \in DOMAIN mem |-> mem[e]]
    <3>1. DOMAIN mem \ {<<target, i>>} = DOMAIN mem
        BY <1>5
    <3> QED BY <1>5, <3>1 DEF Without
  <2> QED BY <1>1, <1>4, <2>1
<1>6. CASE last # NoFrame /\ mem' = Without(mem, <<target, i>>) /\ <<target, i>> \in DOMAIN mem
  <2>1. target = last
      BY <1>1, <1>2, <1>6, UnmapTarget DEF last, target
  <2>2. last = Walk(Root, mem, v)[Levels] /\ mem' = Without(mem, <<last, Index(v, Levels)>>)
      BY <1>6, <2>1 DEF last, i
  <2> DEFINE p == mem'
  <2>3. p = Without(mem, <<last, Index(v, Levels)>>)
      BY <2>2
  <2> HIDE DEF p
  <2>4. /\ Tree(Root, p, used)
        /\ \A w \in Virt, h \in 1 .. Levels : Walk(Root, p, w)[h] = Walk(Root, mem, w)[h]
        /\ \A w \in Virt : Leaf(Root, p, w) = IF Same(v, w) THEN NoFrame ELSE Leaf(Root, mem, w)
      BY <1>1, <1>2, <1>6, <2>2, <2>3, LeafCleared
  <2>5. Updates(v, NoFrame)
      BY <1>2, <2>4 DEF Updates, p
  <2>6. Tree(Root, mem, used)'
      BY <1>1, <1>2, <2>4 DEF p
  <2>7. Tame'
    <3>1. \A x : IsData(x) => IsData(x)'
      <4>1. \A w \in Virt, h \in 1 .. Levels : Walk(Root, mem, w)[h]' = Walk(Root, mem, w)[h]
          BY <1>2, <2>4 DEF p
      <4> QED BY <1>1, <1>2, <4>1 DEF IsData, IsTable
    <3>2. NoFrame \notin Frames(layout)
        BY <1>1, RoomyTyped
    <3> QED BY <1>1, <2>5, <3>1, <3>2 DEF Tame, Updates
  <2>8. mem' = [e \in DOMAIN mem' |-> mem'[e]] /\ \A e \in DOMAIN mem' : mem'[e] \in Virt
      BY <1>1, <2>2 DEF Without
  <2>9. TreeInv'
      BY <1>1, <2>6, <2>7, <2>8 DEF TreeInv
  <2> QED BY <2>5, <2>9
<1> QED BY <1>3, <1>4, <1>5, <1>6

\* Before init_paging there are no tables (paging.c:94-100).
LEMMA TreeInvInit == Init => TreeInv
<1> SUFFICES ASSUME Init PROVE TreeInv
    OBVIOUS
<1>1. mem = <<>> /\ used = 0 /\ 0 \in 0 .. MaxMaps
    BY SizesTyped DEF Init
<1>2. DOMAIN mem = {} /\ mem = [e \in DOMAIN mem |-> mem[e]]
    BY <1>1
<1> QED BY <1>1, <1>2 DEF Init, TreeInv

\* Every step of the file keeps the tree, and all pages' translations but one's
\* (paging.c:94-568).
LEMMA TreeInvNext ==
    ASSUME Sane, TreeInv, [Next]_vars
    PROVE  TreeInv' /\ \E v \in Virt : \A w \in Virt :
                          Same(v, w) \/ Leaf(Root, mem, w)' = Leaf(Root, mem, w)
<1>0. 0 \in Virt
    BY PagesTyped DEF Virt
<1>1. CASE AllocRoot
    BY <1>0, <1>1, AllocRootTree
<1>2. CASE MapNext
  <2>1. TreeInv' /\ Requests[next] \in BootMaps(layout)
        /\ Updates(Requests[next].page, Requests[next].frame)
      BY <1>2, MapNextTree
  <2>2. Requests[next].page \in Virt
      BY <2>1, BootMapsTyped DEF TreeInv
  <2> QED BY <2>1, <2>2 DEF Updates
<1>3. CASE LoadCr3
    BY <1>0, <1>3, LoadCr3Tree
<1>4. CASE Kmalloc
    BY <1>0, <1>4, KmallocTree
<1>5. ASSUME NEW v \in MapPages, MapPage(v) PROVE TreeInv' /\ \E u \in Virt : \A w \in Virt :
                          Same(u, w) \/ Leaf(Root, mem, w)' = Leaf(Root, mem, w)
  <2>1. v \in Virt
      BY ConstantsAssumption DEF ConstantsAssumption, Virt
  <2> QED BY <1>0, <1>5, <2>1, MapPageTree DEF Updates
<1>6. ASSUME NEW v \in MapPages, UnmapPage(v) PROVE TreeInv' /\ \E u \in Virt : \A w \in Virt :
                          Same(u, w) \/ Leaf(Root, mem, w)' = Leaf(Root, mem, w)
  <2>1. v \in Virt
      BY ConstantsAssumption DEF ConstantsAssumption, Virt
  <2> QED BY <1>0, <1>6, <2>1, UnmapPageTree DEF Updates
<1>7. CASE UNCHANGED vars
  <2>1. UNCHANGED <<layout, phase, next, mem, used, early>>
      BY <1>7 DEF vars
  <2>2. Root' = Root
      BY <2>1 DEF Root, Frame
  <2>3. \A w \in Virt : Leaf(Root, mem, w)' = Leaf(Root, mem, w)
      BY <2>1, <2>2
  <2>4. \A x : IsData(x)' <=> IsData(x)
      BY <2>1, <2>2 DEF IsData, IsTable
  <2>5. Tame => Tame'
      BY <2>1, <2>3, <2>4 DEF Tame
  <2>6. TreeInv'
      BY <2>1, <2>2, <2>5 DEF TreeInv
  <2> QED BY <1>0, <2>3, <2>6
<1> QED BY <1>1, <1>2, <1>3, <1>4, <1>5, <1>6, <1>7 DEF Next

-----------------------------------------------------------------------------
\* What the entries lead to above the lowest level is a table in the sense of
\* walks, and kmalloc gave it (paging.c:61-86).
TablesHeld ==
    Sane /\ TreeInv /\ phase # "off" =>
        \A x \in AllTables : IsTable(x) /\ x \in Allotted(Root, used)

\* So it is in any state, the next one included (paging.c:61-86).
LEMMA TablesAreHeld == TablesHeld
<1> SUFFICES ASSUME Sane, TreeInv, phase # "off", NEW x \in AllTables
             PROVE  IsTable(x) /\ x \in Allotted(Root, used)
    BY DEF TablesHeld
<1>1. layout \in Layouts /\ Tree(Root, mem, used)
    BY DEF TreeInv
<1>2. \A l \in 1 .. Levels : Tables(l) = Level(Root, mem, l)
    BY <1>1, TablesAre
<1>3. PICK l \in 1 .. Levels : x \in Level(Root, mem, l)
    BY <1>2 DEF AllTables
<1>4. PICK v \in Virt : x = Walk(Root, mem, v)[l] /\ x # NoFrame
    BY <1>3 DEF Level
<1> QED BY <1>1, <1>4, TablesAllotted DEF IsTable

\* In the next state (paging.c:61-86).
LEMMA TablesStayHeld == TablesHeld'
BY TablesAreHeld, PTL

\* A tree in the sense of walks is one in the sense of entries and levels
\* (paging.c:61-86, 470-500).
LEMMA TreeIsTableTree ==
    ASSUME Sane, TreeInv
    PROVE  TableTree
<1> SUFFICES ASSUME phase # "off"
             PROVE  /\ \A l \in 2 .. Levels :
                          Cardinality(Tables(l)) = Cardinality({e \in DOMAIN mem : e[1] \in Tables(l - 1)})
                    /\ \A k, l \in 1 .. Levels : k # l => Tables(k) \cap Tables(l) = {}
                    /\ AllTables \subseteq Frame(0) .. Frame(used - 1)
                    /\ \A e \in DOMAIN mem : e[1] \in AllTables
                    /\ \A v \in MapPages : Translate(mem, v) \notin AllTables
    BY DEF TableTree
<1>1. layout \in Layouts /\ Tree(Root, mem, used) /\ Tame /\ used \in 0 .. MaxMaps
    BY DEF TreeInv
<1>2. \A l \in 1 .. Levels : Tables(l) = Level(Root, mem, l)
    BY <1>1, TablesAre
<1>3. ASSUME NEW l \in 2 .. Levels
      PROVE  Cardinality(Tables(l)) = Cardinality({e \in DOMAIN mem : e[1] \in Tables(l - 1)})
  <2> DEFINE j == l - 1
             E == {e \in DOMAIN mem : e[1] \in Level(Root, mem, j)}
             T == {mem[e] : e \in E}
  <2>1. j \in 1 .. Levels - 1 /\ j \in 1 .. Levels /\ j + 1 = l /\ l \in 1 .. Levels
      BY SizesTyped
  <2>2. T = Level(Root, mem, j + 1)
    <3> HIDE DEF j
    <3> QED BY <1>1, <2>1, LevelBelow
  <2>3. T = Tables(l) /\ E = {e \in DOMAIN mem : e[1] \in Tables(l - 1)}
      BY <1>2, <2>1, <2>2
  <2>4. Cardinality(T) = Cardinality(E)
    <3> HIDE DEF j
    <3> QED BY <1>1, <2>1, OneTableEach
  <2> QED BY <2>3, <2>4
<1>4. ASSUME NEW k \in 1 .. Levels, NEW l \in 1 .. Levels, k # l PROVE Tables(k) \cap Tables(l) = {}
  <2>1. Apart(Root, mem)
      BY <1>1 DEF Tree
  <2> QED BY <1>2, <1>4, <2>1 DEF Level, Apart
<1>5. ASSUME NEW x \in AllTables PROVE IsTable(x) /\ x \in Allotted(Root, used)
    BY <1>5, TablesAreHeld DEF TablesHeld
<1>6. Allotted(Root, used) = Frame(0) .. Frame(used - 1)
  <2>1. Root = layout.first /\ layout.first \in Nat /\ used \in Nat \ {0} /\ Frame(0) = layout.first
      BY <1>1, RootIs DEF Tree, Root
  <2> DEFINE k == used - 1
  <2>2. k \in Nat /\ layout.first + used - 1 = layout.first + k
      BY <2>1
  <2> HIDE DEF k
  <2>3. Frame(k) = layout.first + k
      BY <1>1, <2>2, RootIs
  <2> QED BY <2>1, <2>2, <2>3 DEF Allotted, k
<1>7. ASSUME NEW e \in DOMAIN mem PROVE e[1] \in AllTables
  <2>1. PICK v \in Virt, l \in 1 .. Levels : Walk(Root, mem, v)[l] # NoFrame /\ e = <<Walk(Root, mem, v)[l], Index(v, l)>>
      BY <1>1 DEF Tree, Owned
  <2>2. e[1] \in Level(Root, mem, l)
      BY <2>1 DEF Level
  <2> QED BY <1>2, <2>2 DEF AllTables
<1>8. ASSUME NEW v \in MapPages, Translate(mem, v) \in AllTables PROVE FALSE
  <2>1. v \in Virt /\ v % WalkPages \in Places(MapPages)
      BY ConstantsAssumption DEF ConstantsAssumption, Virt, Places
  <2>2. Translate(mem, v) = Leaf(Root, mem, v)
      BY PathIs
  <2>3. Leaf(Root, mem, v) \in Frames(layout)
    <3>1. Leaf(Root, mem, v) \in Allotted(Root, used)
        BY <1>5, <1>8, <2>2
    <3>2. Root = layout.first /\ layout.first \in Nat
        BY <1>1, RootIs
    <3> QED BY <1>1, <3>1, <3>2, SizesTyped DEF Allotted, Frames
  <2>4. IsData(Leaf(Root, mem, v))
      BY <1>1, <2>1, <2>3 DEF Tame
  <2> QED BY <1>5, <1>8, <2>2, <2>4 DEF IsData
<1> QED BY <1>3, <1>4, <1>5, <1>6, <1>7, <1>8

\* The tables always form a tree (paging.c:61-86, 470-500): each entry above the
\* lowest level has a table of its own and map_page's pages lead into none.
THEOREM TablesFormATree ==
    ASSUME Sane
    PROVE  Spec => []TableTree
<1>1. Sane /\ TreeInv /\ [Next]_vars => TreeInv'
    BY TreeInvNext
<1>2. Sane /\ TreeInv => TableTree
    BY TreeIsTableTree
<1> QED BY TreeInvInit, <1>1, <1>2, PTL DEF Spec

\* Page tables implement a map in which one page changes at a time: init_paging,
\* map_page and unmap_page (paging.c:94-568) leave all other pages alone, while
\* tables are made on the way.
THEOREM OnePageAtATime ==
    ASSUME Sane
    PROVE  Spec => ImplementsAddressSpace
<1>1. Sane /\ TreeInv /\ [Next]_vars => TreeInv'
    BY TreeInvNext
<1>2. Init => Space!Init
  <2> SUFFICES ASSUME Init, NEW p \in 0 .. WalkPages - 1 PROVE Translate(mem, p) = NoFrame
      BY DEF Space!Init
  <2>1. DOMAIN mem = {}
      BY DEF Init
  <2> QED BY <2>1 DEF Translate
<1>3. Sane /\ TreeInv /\ [Next]_vars
      => [Space!Update]_([p \in 0 .. WalkPages - 1 |-> Translate(mem, p)])
  <2> SUFFICES ASSUME Sane, TreeInv, [Next]_vars,
                      [p \in 0 .. WalkPages - 1 |-> Translate(mem, p)]'
                      # [p \in 0 .. WalkPages - 1 |-> Translate(mem, p)]
               PROVE  Space!Update
      OBVIOUS
  <2> DEFINE s == [p \in 0 .. WalkPages - 1 |-> Translate(mem, p)]
             D == {p \in 0 .. WalkPages - 1 : s'[p] # s[p]}
  <2>1. PICK v \in Virt : \A w \in Virt : Same(v, w) \/ Leaf(Root, mem, w)' = Leaf(Root, mem, w)
      BY TreeInvNext
  <2>2. \A p \in 0 .. WalkPages - 1 : s[p] = Leaf(Root, mem, p) /\ s'[p] = Leaf(Root, mem, p)'
      BY PathIs, PathIsNext
  <2>3. \E p : p \in D
      BY DEF s
  <2>4. ASSUME NEW p \in D PROVE p = v % WalkPages
    <3>1. p \in Virt /\ p \in 0 .. WalkPages - 1 /\ v \in Nat /\ p \in Nat /\ WalkPages \in Nat \ {0}
        BY PagesTyped DEF Virt
    <3>2. Same(v, p)
        BY <2>1, <2>2, <3>1
    <3>3. v % WalkPages = p % WalkPages
        BY <3>1, <3>2, SamePage
    <3> QED BY <3>1, <3>3
  <2>5. \E p \in 0 .. WalkPages - 1 :
           /\ s'[p] # s[p]
           /\ \A q \in 0 .. WalkPages - 1 \ {p} : s'[q] = s[q]
      BY <2>3, <2>4
  <2> QED BY <2>5 DEF Space!Update
<1> QED BY TreeInvInit, <1>1, <1>2, <1>3, PTL DEF Spec, ImplementsAddressSpace, Space!Spec

-----------------------------------------------------------------------------
\* Page q leads to f from its mapping in boot on.
Kept(q, f) ==
    /\ phase = "boot" =>
           ((\E i \in 1 .. next - 1 : Same(Requests[i].page, q)) => Leaf(Root, mem, q) = f)
    /\ phase \in {"on", "fault"} => Leaf(Root, mem, q) = f

\* A page that only ever gets one frame keeps it (paging.c:89, 550, 567).
LEMMA KeptNext ==
    ASSUME Sane, TreeInv, [Next]_vars, NEW q \in Virt, NEW f,
           \A b \in BootMaps(layout) : b.page % WalkPages = q % WalkPages => b.frame = f,
           \A v \in MapPages : v % WalkPages # q % WalkPages,
           early = <<Root>> => \E i \in 1 .. Len(Requests) : Requests[i].page = q,
           Kept(q, f)
    PROVE  Kept(q, f)'
<1>1. CASE AllocRoot
  <2>1. phase' = "boot" /\ next' = 1
      BY <1>1 DEF AllocRoot, TreeInv
  <2>2. 1 .. next' - 1 = {}
      BY <2>1
  <2> QED BY <2>1, <2>2 DEF Kept
<1>2. CASE MapNext
  <2> DEFINE b == Requests[next]
  <2>1. b \in BootMaps(layout) /\ Updates(b.page, b.frame)
      BY <1>2, MapNextTree
  <2>2. /\ phase = "boot" /\ phase' = "boot" /\ next \in Nat \ {0} /\ next' = next + 1
        /\ layout' = layout /\ early' = early
      BY <1>2 DEF MapNext, TreeInv
  <2>3. b.page \in Virt
      BY <2>1, BootMapsTyped DEF TreeInv
  <2>4. Requests' = Requests
      BY <2>2, SameRequests
  <2>5. ASSUME NEW i \in 1 .. next' - 1, Same(Requests[i].page, q) PROVE Leaf(Root, mem, q)' = f
    <3>1. CASE Same(b.page, q)
      <4>1. b.page % WalkPages = q % WalkPages
          BY <2>3, <3>1, NotSame
      <4>2. b.frame = f
          BY <2>1, <4>1
      <4> QED BY <2>1, <3>1, <4>2 DEF Updates
    <3>2. CASE ~Same(b.page, q)
      <4>1. i # next
          BY <2>5, <3>2
      <4>2. i \in 1 .. next - 1
          BY <2>2, <4>1
      <4>3. Leaf(Root, mem, q) = f
          BY <2>2, <2>5, <4>2 DEF Kept
      <4> QED BY <2>1, <3>2, <4>3 DEF Updates
    <3> QED BY <3>1, <3>2
  <2> HIDE DEF b
  <2> QED BY <2>2, <2>4, <2>5 DEF Kept
<1>3. CASE LoadCr3
  <2>1. phase = "boot" /\ next > Len(Requests) /\ phase' = "on" /\ early = <<Root>> /\ next \in Nat
      BY <1>3 DEF LoadCr3, TreeInv
  <2>2. PICK i \in 1 .. Len(Requests) : Requests[i].page = q
      BY <2>1
  <2>3. Len(Requests) \in Nat
      BY <2>1, RequestsTyped DEF TreeInv
  <2>4. i \in 1 .. next - 1 /\ Same(Requests[i].page, q)
      BY <2>1, <2>2, <2>3 DEF Same, Agree
  <2>5. Leaf(Root, mem, q) = f
      BY <2>1, <2>4 DEF Kept
  <2>6. Leaf(Root, mem, q)' = f
      BY <1>3, <2>5, LoadCr3Tree
  <2> QED BY <2>1, <2>6 DEF Kept
<1>4. CASE Kmalloc
  <2>1. phase = "on" /\ phase' = "on"
      BY <1>4 DEF Kmalloc
  <2> QED BY <1>4, <2>1, KmallocTree DEF Kept
<1>5. ASSUME NEW v \in MapPages, MapPage(v) PROVE Kept(q, f)'
  <2>1. v \in Virt /\ phase = "on"
      BY <1>5, ConstantsAssumption DEF ConstantsAssumption, Virt, MapPage
  <2>2. ~Same(v, q)
      BY <2>1, NotSame
  <2>3. Leaf(Root, mem, q) = f
      BY <2>1 DEF Kept
  <2>4. phase' \in {"on", "fault"} /\ Leaf(Root, mem, q)' = f
      BY <1>5, <2>1, <2>2, <2>3, MapPageTree DEF Updates
  <2> QED BY <2>4 DEF Kept
<1>6. ASSUME NEW v \in MapPages, UnmapPage(v) PROVE Kept(q, f)'
  <2>1. v \in Virt /\ phase = "on" /\ phase' \in {"on", "fault"}
      BY <1>6, ConstantsAssumption DEF ConstantsAssumption, Virt, UnmapPage
  <2>2. ~Same(v, q)
      BY <2>1, NotSame
  <2>3. Leaf(Root, mem, q) = f
      BY <2>1 DEF Kept
  <2>4. Leaf(Root, mem, q)' = f
      BY <1>6, <2>2, <2>3, UnmapPageTree DEF Updates
  <2> QED BY <2>1, <2>4 DEF Kept
<1>7. CASE UNCHANGED vars
  <2>1. UNCHANGED <<layout, phase, next, mem, used, early>>
      BY <1>7 DEF vars
  <2>2. Requests' = Requests /\ Root' = Root
      BY <2>1, SameRequests DEF Root, Frame
  <2> QED BY <2>1, <2>2 DEF Kept
<1> QED BY <1>1, <1>2, <1>3, <1>4, <1>5, <1>6, <1>7 DEF Next

\* Each page of the first 2MB is kept, in both spaces.
Window == \A p \in 0 .. Fanout - 1 : Kept(p, p) /\ Kept(Wrap(Hhdm + p), p)

\* The first 2MB's pages exist in both spaces (paging.c:113, 129).
LEMMA WindowPages ==
    /\ Hhdm \in Nat
    /\ \A p \in 0 .. Fanout - 1 : p \in Virt /\ Wrap(p) = p /\ Wrap(Hhdm + p) \in Virt
<1>1. Hhdm \in Nat /\ Fanout \in Nat /\ Fanout >= 2
    BY ConstantsAssumption, PagesTyped, SizesTyped DEF ConstantsAssumption
<1>2. Fanout <= WalkPages
  <2> DEFINE l == Levels - 1
  <2>1. l \in 0 .. Levels - 1 /\ l + 1 = Levels /\ l \in 0 .. Levels
      BY SizesTyped
  <2> HIDE DEF l
  <2>2. Span[l + 1] = Fanout * Span[l]
      BY <2>1, SpanIs
  <2> DEFINE s == Span[l]
  <2>3. s \in Nat \ {0} /\ WalkPages = Fanout * s
      BY <2>1, <2>2, SpanTyped DEF WalkPages
  <2> HIDE DEF s
  <2> QED BY <1>1, <2>3
<1>3. WalkPages \in Nat /\ VirtPages \in Nat \ {0} /\ WalkPages < VirtPages
    BY PagesTyped
<1>4. ASSUME NEW p \in 0 .. Fanout - 1 PROVE p \in Virt /\ Wrap(p) = p /\ Wrap(Hhdm + p) \in Virt
  <2>1. p \in Nat /\ p < VirtPages
      BY <1>1, <1>2, <1>3
  <2>2. p \in Virt /\ Wrap(p) = p
      BY <1>3, <2>1 DEF Virt, Wrap
  <2> DEFINE h == Hhdm + p
  <2>3. h \in Nat
      BY <1>1, <2>1
  <2> HIDE DEF h
  <2>4. Wrap(h) \in Virt
      BY <2>3, PagesTyped
  <2> QED BY <2>2, <2>4 DEF h
<1> QED BY <1>1, <1>4

\* What init_paging maps it maps at some point of its order (paging.c:111-352).
LEMMA InRequests ==
    ASSUME Sane, layout \in Layouts, early = <<Root>>, NEW b \in Range(Requests)
    PROVE  \E i \in 1 .. Len(Requests) : Requests[i] = b
<1> DEFINE B == BootMaps(layout)
           s == Requests
<1>1. s \in Seq(B)
    BY RequestsTyped
<1> HIDE DEF B, s
<1>2. DOMAIN s = 1 .. Len(s)
    BY <1>1
<1>3. b \in Range(s)
    BY DEF s
<1> QED BY <1>2, <1>3 DEF Range, s

\* It maps the first 2MB, in both spaces (paging.c:113, 129).
LEMMA WindowRequested ==
    ASSUME Sane, layout \in Layouts, early = <<Root>>, NEW p \in 0 .. Fanout - 1
    PROVE  /\ \E i \in 1 .. Len(Requests) : Requests[i].page = p
           /\ \E i \in 1 .. Len(Requests) : Requests[i].page = Wrap(Hhdm + p)
<1> DEFINE b == Request(p, Direct(Wrap(p)))
           c == Request(Hhdm + p, Direct(Wrap(Hhdm + p)))
<1>1. b \in Range(Requests) /\ c \in Range(Requests)
    BY RequestsTyped
<1>2. b.page = p /\ c.page = Wrap(Hhdm + p)
    BY WindowPages DEF Request
<1> HIDE DEF b, c
<1> QED BY <1>1, <1>2, InRequests

\* Every step keeps the first 2MB mapped (paging.c:113, 129, 550, 567).
LEMMA WindowNext ==
    ASSUME Sane, WindowClear, TreeInv, [Next]_vars, Window
    PROVE  Window'
<1> SUFFICES ASSUME NEW p \in 0 .. Fanout - 1
             PROVE  Kept(p, p)' /\ Kept(Wrap(Hhdm + p), p)'
    BY DEF Window
<1>1. layout \in Layouts /\ p \in Virt /\ Wrap(Hhdm + p) \in Virt
    BY WindowPages DEF TreeInv
<1>2. Kept(p, p)'
  <2>1. \A b \in BootMaps(layout) : b.page % WalkPages = p % WalkPages => b.frame = p
      BY <1>1 DEF WindowClear
  <2>2. \A v \in MapPages : v % WalkPages # p % WalkPages
      BY DEF WindowClear
  <2>3. early = <<Root>> => \E i \in 1 .. Len(Requests) : Requests[i].page = p
      BY <1>1, WindowRequested
  <2>4. Kept(p, p)
      BY DEF Window
  <2> QED BY <1>1, <2>1, <2>2, <2>3, <2>4, KeptNext
<1>3. Kept(Wrap(Hhdm + p), p)'
  <2> DEFINE q == Wrap(Hhdm + p)
  <2>1. \A b \in BootMaps(layout) : b.page % WalkPages = q % WalkPages => b.frame = p
      BY <1>1 DEF WindowClear
  <2>2. \A v \in MapPages : v % WalkPages # q % WalkPages
      BY DEF WindowClear
  <2>3. early = <<Root>> => \E i \in 1 .. Len(Requests) : Requests[i].page = q
      BY <1>1, WindowRequested
  <2>4. Kept(q, p)
      BY DEF Window
  <2>5. q \in Virt
      BY <1>1
  <2>6. q' = q
      OBVIOUS
  <2> HIDE DEF q
  <2>7. Kept(q, p)'
      BY <2>1, <2>2, <2>3, <2>4, <2>5, KeptNext
  <2> QED BY <2>6, <2>7 DEF q
<1> QED BY <1>2, <1>3

\* Before boot nothing is promised (paging.c:94).
LEMMA WindowInit == Init => Window
BY DEF Init, Window, Kept

\* Once CR3 is loaded the first 2MB can be reached in both spaces
\* (paging.c:113, 129).
LEMMA WindowStands ==
    ASSUME Window
    PROVE  phase \in {"on", "fault"} => \A p \in 0 .. Fanout - 1 : Translate(mem, p) = p /\ Reach(p)
<1>1. \A v : Translate(mem, v) = Leaf(Root, mem, v)
    BY PathIs
<1> QED BY <1>1 DEF Window, Kept, Reach

\* The first 2MB are mapped to themselves and in the direct map from the loading
\* of CR3 on (paging.c:111-113, 129), whatever is mapped and unmapped later.
THEOREM FirstTwoMegabytes ==
    ASSUME Sane, WindowClear
    PROVE  Spec => []LowWindow
<1>1. Sane /\ WindowClear /\ TreeInv /\ Window /\ [Next]_vars => TreeInv' /\ Window'
    BY TreeInvNext, WindowNext
<1>2. Window => LowWindow
    BY WindowStands DEF LowWindow
<1> QED BY TreeInvInit, WindowInit, <1>1, <1>2, PTL DEF Spec

-----------------------------------------------------------------------------
\* The last two mappings of init_paging give the PML4 its pages, over whatever
\* the stack's and the code's mappings left there; nothing takes them away.
RootKept ==
    /\ phase = "boot" /\ next > 1 =>
           /\ next >= Len(Requests) => Leaf(Root, mem, Root) = Root
           /\ next > Len(Requests) => Leaf(Root, mem, Wrap(Hhdm + Root)) = Root
    /\ phase \in {"on", "fault"} =>
           Leaf(Root, mem, Root) = Root /\ Leaf(Root, mem, Wrap(Hhdm + Root)) = Root

\* The PML4's two pages exist and lead to it by map_range's subtraction
\* (paging.c:51).
LEMMA RootPages ==
    ASSUME Sane, RootClear, layout \in Layouts
    PROVE  /\ Root \in Virt /\ Wrap(Root) = Root /\ Direct(Wrap(Root)) = Root
           /\ Wrap(Hhdm + Root) \in Virt /\ Direct(Wrap(Hhdm + Root)) = Root
           /\ \A v \in MapPages : v \in Virt /\ ~Same(v, Root) /\ ~Same(v, Wrap(Hhdm + Root))
<1>1. /\ Root = layout.first /\ Root \in Nat /\ Hhdm \in Nat /\ VirtPages \in Nat \ {0}
      /\ Root < Hhdm /\ Hhdm + Root < VirtPages
    BY RootIs, PagesTyped, WindowPages DEF RootClear
<1>2. /\ \A v \in MapPages : /\ v % WalkPages # Root % WalkPages
                             /\ v % WalkPages # Wrap(Hhdm + Root) % WalkPages
    BY <1>1 DEF RootClear
<1> DEFINE r == Root
           h == Hhdm + r
<1>3. r \in Nat /\ r < Hhdm /\ h \in Nat /\ h < VirtPages /\ r < VirtPages /\ h >= Hhdm /\ h - Hhdm = r
    BY <1>1
<1>4. \A v \in MapPages : v \in Virt
    BY ConstantsAssumption DEF ConstantsAssumption, Virt
<1> HIDE DEF r, h
<1>5. Wrap(r) = r /\ Wrap(h) = h /\ r \in Virt /\ h \in Virt
    BY <1>1, <1>3 DEF Wrap, Virt
<1>6. Direct(r) = r /\ Direct(h) = r
    BY <1>1, <1>3 DEF Direct
<1>7. \A v \in MapPages : ~Same(v, r) /\ ~Same(v, h)
    BY <1>2, <1>4, <1>5, NotSame DEF r, h
<1> QED BY <1>4, <1>5, <1>6, <1>7 DEF r, h

\* Every step keeps what the PML4's pages lead to (paging.c:346-352, 550, 567).
LEMMA RootNext ==
    ASSUME Sane, RootClear, TreeInv, [Next]_vars, RootKept
    PROVE  RootKept'
<1> DEFINE h == Wrap(Hhdm + Root)
           N == Len(Requests)
<1>1. /\ layout \in Layouts /\ Root \in Virt /\ h \in Virt
      /\ Wrap(Root) = Root /\ Direct(Wrap(Root)) = Root /\ Direct(h) = Root
      /\ \A v \in MapPages : v \in Virt /\ ~Same(v, Root) /\ ~Same(v, h)
    BY RootPages DEF TreeInv
<1>2. layout' = layout
    BY DEF Next, AllocRoot, MapNext, LoadCr3, Kmalloc, MapPage, UnmapPage, vars
<1>3. Root' = Root /\ h' = h
    BY <1>2 DEF Root, Frame
<1>4. Same(h, h) /\ Same(Root, Root)
    BY DEF Same, Agree
<1>5. ASSUME early = <<Root>>
      PROVE  /\ N \in Nat /\ N >= 2
             /\ Requests[N - 1].page = Root /\ Requests[N - 1].frame = Root
             /\ Requests[N].page = h /\ Requests[N].frame = Root
  <2>1. /\ Len(Requests) \in Nat /\ Len(Requests) >= 2
        /\ Requests[Len(Requests) - 1] = Request(Root, Direct(Wrap(Root)))
        /\ Requests[Len(Requests)] = Request(Hhdm + Root, Direct(Wrap(Hhdm + Root)))
      BY <1>1, <1>5, RequestsTyped
  <2>2. \A v, f : Request(v, f).page = Wrap(v) /\ Request(v, f).frame = f
      BY DEF Request
  <2> QED BY <1>1, <2>1, <2>2
<1>6. ASSUME early' = early PROVE N' = N
    BY <1>2, <1>6, SameRequests
<1> HIDE DEF h, N
<1>7. /\ phase = "boot" /\ next > 1 /\ next >= N => Leaf(Root, mem, Root) = Root
      /\ phase = "boot" /\ next > 1 /\ next > N => Leaf(Root, mem, h) = Root
      /\ phase \in {"on", "fault"} => Leaf(Root, mem, Root) = Root /\ Leaf(Root, mem, h) = Root
    BY DEF RootKept, h, N
<1>8. ASSUME phase' = "boot" /\ next' > 1 /\ next' >= N' => Leaf(Root, mem, Root)' = Root,
             phase' = "boot" /\ next' > 1 /\ next' > N' => Leaf(Root, mem, h)' = Root,
             phase' \in {"on", "fault"} => Leaf(Root, mem, Root)' = Root /\ Leaf(Root, mem, h)' = Root
      PROVE  RootKept'
    BY <1>3, <1>8 DEF RootKept, h, N
<1>9. CASE AllocRoot
  <2>1. phase' = "boot" /\ next' = 1
      BY <1>9 DEF AllocRoot, TreeInv
  <2> QED BY <1>8, <2>1
<1>10. CASE MapNext
  <2> DEFINE b == Requests[next]
  <2>1. Updates(b.page, b.frame)
      BY <1>10, MapNextTree
  <2>2. /\ phase = "boot" /\ phase' = "boot" /\ next \in Nat \ {0} /\ next' = next + 1
        /\ early' = early /\ early = <<Root>> /\ next <= N
      BY <1>10 DEF MapNext, TreeInv, N
  <2>3. N' = N /\ N \in Nat /\ N >= 2
      BY <1>5, <1>6, <2>2
  <2>4. CASE next = N - 1
    <3>1. b.page = Root /\ b.frame = Root
        BY <1>5, <2>2, <2>4
    <3>2. Leaf(Root, mem, Root)' = Root
        BY <1>1, <1>3, <1>4, <2>1, <3>1 DEF Updates
    <3>3. ~(next' > N')
        BY <2>2, <2>3, <2>4
    <3> QED BY <1>8, <2>2, <3>2, <3>3
  <2>5. CASE next = N
    <3>1. b.page = h /\ b.frame = Root
        BY <1>5, <2>2, <2>5
    <3>2. Leaf(Root, mem, h)' = Root
        BY <1>1, <1>3, <1>4, <2>1, <3>1 DEF Updates
    <3>3. Leaf(Root, mem, Root) = Root
        BY <1>7, <2>2, <2>3, <2>5
    <3>4. Leaf(Root, mem, Root)' = Root
        BY <1>1, <1>3, <2>1, <3>1, <3>3 DEF Updates
    <3> QED BY <1>8, <2>2, <3>2, <3>4
  <2>6. CASE next < N - 1
    <3>1. ~(next' >= N') /\ ~(next' > N')
        BY <2>2, <2>3, <2>6
    <3> QED BY <1>8, <2>2, <3>1
  <2> QED BY <2>2, <2>3, <2>4, <2>5, <2>6
<1>11. CASE LoadCr3
  <2>1. /\ phase = "boot" /\ phase' = "on" /\ next \in Nat /\ next > N /\ early = <<Root>>
        /\ Leaf(Root, mem, Root)' = Leaf(Root, mem, Root) /\ Leaf(Root, mem, h)' = Leaf(Root, mem, h)
      BY <1>1, <1>3, <1>11, LoadCr3Tree DEF LoadCr3, TreeInv, N
  <2>2. N \in Nat /\ N >= 2
      BY <1>5, <2>1
  <2> QED BY <1>7, <1>8, <2>1, <2>2
<1>12. CASE Kmalloc
  <2>1. /\ phase = "on" /\ phase' = "on"
        /\ Leaf(Root, mem, Root)' = Leaf(Root, mem, Root) /\ Leaf(Root, mem, h)' = Leaf(Root, mem, h)
      BY <1>1, <1>3, <1>12, KmallocTree DEF Kmalloc
  <2> QED BY <1>7, <1>8, <2>1
<1>13. ASSUME NEW v \in MapPages, MapPage(v) PROVE RootKept'
  <2>1. /\ phase = "on" /\ phase' \in {"on", "fault"}
        /\ Leaf(Root, mem, Root)' = Leaf(Root, mem, Root) /\ Leaf(Root, mem, h)' = Leaf(Root, mem, h)
      BY <1>1, <1>3, <1>13, MapPageTree DEF MapPage, Updates
  <2> QED BY <1>7, <1>8, <2>1
<1>14. ASSUME NEW v \in MapPages, UnmapPage(v) PROVE RootKept'
  <2>1. /\ phase = "on" /\ phase' \in {"on", "fault"}
        /\ Leaf(Root, mem, Root)' = Leaf(Root, mem, Root) /\ Leaf(Root, mem, h)' = Leaf(Root, mem, h)
      BY <1>1, <1>3, <1>14, UnmapPageTree DEF UnmapPage, Updates
  <2> QED BY <1>7, <1>8, <2>1
<1>15. CASE UNCHANGED vars
  <2>1. UNCHANGED <<layout, phase, next, mem, used, early>> /\ N' = N
      BY <1>6, <1>15 DEF vars
  <2> QED BY <1>3, <1>7, <1>8, <2>1
<1> QED BY <1>9, <1>10, <1>11, <1>12, <1>13, <1>14, <1>15 DEF Next

\* With that the PML4 is where map_page looks for it (paging.c:463).
LEMMA RootStands ==
    ASSUME Sane, RootClear, layout \in Layouts, RootKept
    PROVE  RootReachable
<1>1. \A v : Translate(mem, v) = Leaf(Root, mem, v)
    BY PathIs
<1> QED BY <1>1 DEF RootReachable, RootKept, Reach

\* From the loading of CR3 on the PML4 is where pml4 and the direct map look for
\* it (paging.c:106, 279-352), wherever kmalloc put it.
THEOREM RootStaysReachable ==
    ASSUME Sane, RootClear
    PROVE  Spec => []RootReachable
<1>1. Init => RootKept
    BY DEF Init, RootKept
<1>2. Sane /\ RootClear /\ TreeInv /\ RootKept /\ [Next]_vars => TreeInv' /\ RootKept'
    BY TreeInvNext, RootNext
<1>3. Sane /\ RootClear /\ TreeInv /\ RootKept => RootReachable
    BY RootStands DEF TreeInv
<1> QED BY TreeInvInit, <1>1, <1>2, <1>3, PTL DEF Spec

-----------------------------------------------------------------------------
\* A table within the first 2MB can be reached, so that a fault in map_page or
\* unmap_page (paging.c:463, 567) needs a table above them.
LEMMA FaultNext ==
    ASSUME Sane, TreeInv, Window, [Next]_vars, FaultOnlyBeyondWindow
    PROVE  FaultOnlyBeyondWindow'
<1> DEFINE top == Frame(used + Levels - 1)
<1>1. /\ layout \in Layouts /\ layout.first \in Nat /\ Root = layout.first /\ used \in Nat
      /\ Levels \in Nat /\ Levels >= 1 /\ Fanout \in Nat
      /\ top = layout.first + used + Levels - 1
  <2>1. layout \in Layouts /\ used \in Nat /\ Levels \in Nat /\ Levels >= 1 /\ Fanout \in Nat
      BY SizesTyped DEF TreeInv
  <2> DEFINE k == used + Levels - 1
  <2>2. k \in Nat /\ layout.first + used + Levels - 1 = layout.first + k
      BY <2>1, RootIs
  <2> HIDE DEF k
  <2>3. Frame(k) = layout.first + k
      BY <2>1, <2>2, RootIs
  <2> QED BY <2>1, <2>2, <2>3, RootIs DEF k
<1> HIDE DEF top
<1>2. ASSUME phase = "on", NEW x \in Nat, x <= top, top < Fanout PROVE Translate(mem, x) = x /\ Reach(x)
  <2>1. x \in 0 .. Fanout - 1
      BY <1>1, <1>2
  <2> QED BY <1>2, <2>1, WindowStands
<1>3. ASSUME NEW v \in MapPages, MapPage(v), phase' = "fault", top < Fanout PROVE FALSE
  <2> DEFINE n == used + 1
             g == Grow(mem, n, v)
  <2>1. /\ phase = "on" /\ used + Levels <= MaxMaps /\ Tree(Root, mem, used) /\ v \in Virt
      BY <1>3, ConstantsAssumption DEF ConstantsAssumption, Virt, MapPage, TreeInv
  <2>2. PICK l \in 1 .. Levels : ~Reach(Path(g.mem, v)[l])
      BY <1>3, <2>1 DEF MapPage
  <2>3. n \in Nat /\ used <= n /\ Root + n <= NoFrame /\ Root + n + Levels - 1 <= NoFrame
        /\ n = used + 1
      BY <1>1, <2>1, RoomyTyped
  <2> DEFINE r == layout.first
  <2>4. r = layout.first /\ r = Root
      BY <1>1
  <2> HIDE DEF n, r
  <2>5. Tree(Root, mem, n)
      BY <2>1, <2>3, MoreFrames
  <2>6. PICK a, k, t : /\ g = [mem |-> a, used |-> k, table |-> t]
                       /\ Grown(r, mem, n, v, Levels, a, k, t)
    <3>1. Tree(r, mem, n) /\ r + n + Levels - 1 <= NoFrame
        BY <2>3, <2>4, <2>5
    <3> QED BY <2>1, <2>4, <3>1, GrowIs
  <2>7. g.mem = a
    <3> HIDE DEF g
    <3> QED BY <2>6
  <2> HIDE DEF g
  <2> DEFINE x == Walk(r, a, v)[l]
  <2>8. ~Reach(x)
      BY <2>2, <2>4, <2>7, PathIs
  <2>9. x \in Allotted(r, k) /\ k \in Nat /\ k <= n + Levels - 1
    <3>1. Tree(r, a, k) /\ k \in Nat /\ k <= n + Levels - 1 /\ Walk(r, a, v)[Levels] # NoFrame
        BY <2>6 DEF Grown
    <3>2. x # NoFrame
        BY <2>1, <3>1, WalkWhole
    <3> QED BY <2>1, <3>1, <3>2, TablesAllotted
  <2> HIDE DEF x
  <2>10. x \in Nat /\ x <= top
      BY <1>1, <2>3, <2>4, <2>9 DEF Allotted
  <2> QED BY <1>2, <1>3, <2>1, <2>8, <2>10
<1>4. ASSUME NEW v \in MapPages, UnmapPage(v), phase' = "fault", top < Fanout PROVE FALSE
  <2>1. /\ phase = "on" /\ Tree(Root, mem, used) /\ v \in Virt
      BY <1>4, ConstantsAssumption DEF ConstantsAssumption, Virt, UnmapPage, TreeInv
  <2>2. ASSUME NEW l \in 1 .. Levels, Path(mem, v)[l] # NoFrame
        PROVE  LET x == Path(mem, v)[l] IN x \in Nat /\ x <= top /\ Wrap(x) = x
    <3> DEFINE x == Path(mem, v)[l]
    <3>1. x \in Allotted(Root, used)
        BY <2>1, <2>2, PathIs, TablesAllotted
    <3> HIDE DEF x
    <3>2. x \in Nat /\ x <= top
        BY <1>1, <3>1 DEF Allotted
    <3>3. x \in Frames(layout)
      <4>1. used <= MaxMaps /\ MaxMaps \in Nat
          BY SizesTyped DEF TreeInv
      <4> QED BY <1>1, <3>1, <4>1 DEF Allotted, Frames
    <3>4. Wrap(x) = x
        BY <1>1, <3>3, RoomyTyped
    <3> QED BY <3>2, <3>4 DEF x
  <2>3. ASSUME NEW l \in 1 .. Levels, Path(mem, v)[l] # NoFrame
        PROVE  Reach(Path(mem, v)[l]) /\ Translate(mem, Wrap(Path(mem, v)[l])) # NoFrame
    <3> DEFINE x == Path(mem, v)[l]
    <3>1. x \in Nat /\ x <= top /\ Wrap(x) = x /\ x # NoFrame
        BY <2>2, <2>3
    <3> HIDE DEF x
    <3>2. Translate(mem, x) = x /\ Reach(x)
        BY <1>2, <1>4, <2>1, <3>1
    <3>3. Reach(x) /\ Translate(mem, Wrap(x)) # NoFrame
        BY <3>1, <3>2
    <3> QED BY <3>3 DEF x
  <2>4. Levels \in 1 .. Levels
      BY SizesTyped
  <2> QED BY <1>4, <2>1, <2>3, <2>4 DEF UnmapPage
<1>5. SUFFICES ASSUME phase' = "fault" PROVE top' >= Fanout
    BY DEF FaultOnlyBeyondWindow, top
<1>6. top' = top /\ (phase = "fault" \/ \E v \in MapPages : MapPage(v) \/ UnmapPage(v))
  <2>1. CASE \E v \in MapPages : MapPage(v) \/ UnmapPage(v)
    <3>1. layout' = layout /\ used' = used
        BY <1>5, <2>1 DEF MapPage, UnmapPage
    <3> QED BY <2>1, <3>1 DEF top, Frame
  <2>2. CASE UNCHANGED vars
      BY <1>5, <2>2 DEF vars, top, Frame
  <2> QED BY <1>5, <2>1, <2>2 DEF Next, AllocRoot, MapNext, LoadCr3, Kmalloc, TreeInv
<1>7. top >= Fanout
  <2>1. CASE phase = "fault"
      BY <2>1 DEF FaultOnlyBeyondWindow, top
  <2>2. CASE \E v \in MapPages : MapPage(v) \/ UnmapPage(v)
      BY <1>1, <1>3, <1>4, <1>5, <2>2
  <2> QED BY <1>6, <2>1, <2>2
<1> QED BY <1>6, <1>7

\* map_page and unmap_page fault on a table (paging.c:463, 567) only when kmalloc
\* has come to frames above the first 2MB.
THEOREM FaultsAreBeyondWindow ==
    ASSUME Sane, WindowClear
    PROVE  Spec => []FaultOnlyBeyondWindow
<1>1. Init => FaultOnlyBeyondWindow
    BY DEF Init, FaultOnlyBeyondWindow
<1>2. Sane /\ WindowClear /\ TreeInv /\ Window /\ FaultOnlyBeyondWindow /\ [Next]_vars
      => TreeInv' /\ Window' /\ FaultOnlyBeyondWindow'
    BY TreeInvNext, WindowNext, FaultNext
<1> QED BY TreeInvInit, WindowInit, <1>1, <1>2, PTL DEF Spec

-----------------------------------------------------------------------------
\* There are four mappings for each table noted, and the rest do not depend on
\* the tables.
RequestsLong ==
    Sane /\ layout \in Layouts /\ early \in Seq(Nat) =>
        /\ Len(Regions) \in Nat /\ Len(CodeAndStack) \in Nat
        /\ Len(Requests) = Len(Regions) + Len(CodeAndStack) + 4 * Len(early)

\* That is how many mappings init_paging makes (paging.c:111-352).
LEMMA RequestsAreLong == RequestsLong
<1> SUFFICES ASSUME Sane, layout \in Layouts, early \in Seq(Nat)
             PROVE  /\ Len(Regions) \in Nat /\ Len(CodeAndStack) \in Nat
                    /\ Len(Requests) = Len(Regions) + Len(CodeAndStack) + 4 * Len(early)
    BY DEF RequestsLong
<1> DEFINE E(v) == { Request(early[v], early[v]), Request(Hhdm + early[v], early[v]),
                     Request(early[v], Direct(Wrap(early[v]))),
                     Request(Hhdm + early[v], Direct(Wrap(Hhdm + early[v]))) }
           B == BootMaps(layout) \union UNION {E(i) : i \in 1 .. Len(early)}
           u == Regions
           w == CodeAndStack
           z == EarlyTables
<1>1. u \in Seq(B) /\ w \in Seq(B)
  <2>1. u \in Seq(BootMaps(layout)) /\ w \in Seq(BootMaps(layout))
      BY RegionsTyped
  <2> DEFINE A == BootMaps(layout)
  <2>2. u \in Seq(A) /\ w \in Seq(A) /\ A \subseteq B
      BY <2>1
  <2> HIDE DEF A, B, u, w
  <2> QED BY <2>2, SeqMonotonic
<1>2. \A i \in 1 .. Len(early) :
              /\ Request(early[i], early[i]) \in B /\ Request(Hhdm + early[i], early[i]) \in B
              /\ Request(early[i], Direct(Wrap(early[i]))) \in B
              /\ Request(Hhdm + early[i], Direct(Wrap(Hhdm + early[i]))) \in B
    OBVIOUS
<1> HIDE DEF B
<1>3. z \in Seq(B) /\ Len(z) = 4 * Len(early)
    BY <1>2, EarlyTyped
<1>4. Requests = u \o w \o z
    BY DEF Requests
<1> HIDE DEF u, w, z
<1>5. u \o w \in Seq(B) /\ Len(u \o w) = Len(u) + Len(w)
    BY <1>1, Joined
<1>6. Len(Requests) = Len(u \o w) + Len(z)
    BY <1>3, <1>4, <1>5, Joined
<1>7. Len(u) \in Nat /\ Len(w) \in Nat
    BY <1>1
<1> QED BY <1>3, <1>5, <1>6, <1>7 DEF u, w

\* And so it is after a step (paging.c:111-352).
LEMMA RequestsStayLong == RequestsLong'
BY RequestsAreLong, PTL

\* When more tables are noted there are no fewer mappings (paging.c:280, 346).
LEMMA LongerRequests ==
    ASSUME Sane, layout \in Layouts, layout' = layout, early \in Seq(Nat), early' \in Seq(Nat),
           Len(early) <= Len(early')
    PROVE  Len(Requests) \in Nat /\ Len(Requests)' \in Nat /\ Len(Requests) <= Len(Requests)'
<1>1. Len(early) \in Nat /\ Len(early') \in Nat
    OBVIOUS
<1>2. /\ Len(Regions) \in Nat /\ Len(CodeAndStack) \in Nat
      /\ Len(Requests) = Len(Regions) + Len(CodeAndStack) + 4 * Len(early)
    BY RequestsAreLong DEF RequestsLong
<1>3. Sane'
    BY DEF Sane, Roomy, Clean, BootMaps, RangePages, SinglePages, Frames
<1>4. Len(Requests)' = Len(Regions)' + Len(CodeAndStack)' + 4 * Len(early')
    BY RequestsStayLong, <1>3 DEF RequestsLong
<1>5. Regions' = Regions /\ CodeAndStack' = CodeAndStack
    BY DEF Regions, CodeAndStack, StackPages
<1> QED BY <1>1, <1>2, <1>4, <1>5

\* The tables noted are frames of kmalloc's and fit their array; the boot's
\* place in its order is within it.
Noted ==
    /\ early \in Seq(Nat) /\ Len(early) <= MaxEarly
    /\ \A i \in 1 .. Len(early) : early[i] \in Allotted(Root, used)
    /\ next \in 1 .. Len(Requests) + 1

\* Noted outlasts further frames (shell.c's kmalloc, elf.c:155).
LEMMA NotedMore ==
    ASSUME Sane, TreeInv, Noted, layout' = layout, early' = early, used' \in Nat, used <= used',
           next' = next
    PROVE  Noted'
<1>1. layout \in Layouts /\ used \in Nat /\ Root \in Nat /\ Root' = Root
    BY RootIs DEF TreeInv, Root, Frame
<1>2. Allotted(Root, used) \subseteq Allotted(Root, used)'
  <2> DEFINE m == used'
             r == Root
  <2>1. m \in Nat /\ used <= m /\ used \in Nat /\ r \in Nat
      BY <1>1
  <2> HIDE DEF m, r
  <2>2. Allotted(r, used) \subseteq Allotted(r, m)
      BY <2>1 DEF Allotted
  <2>3. Allotted(Root, used)' = Allotted(r, m)
      BY <1>1 DEF Allotted, r, m
  <2> QED BY <2>2, <2>3 DEF r
<1>3. Requests' = Requests
    BY SameRequests
<1> QED BY <1>1, <1>2, <1>3 DEF Noted

\* map_page keeps it for whatever page (paging.c:503-554): the tables made are
\* noted as far as there is room.
LEMMA NotedMapped ==
    ASSUME Sane, TreeInv, Noted, NEW v \in Virt, MapPage(v)
    PROVE  Noted'
<1>0. layout \in Layouts /\ used \in Nat /\ Root = layout.first /\ layout.first \in Nat
    BY RootIs DEF TreeInv
<1>1. layout' = layout /\ next' = next
    BY DEF MapPage
<1>2. CASE phase' = "fault"
  <2>1. used' = used /\ early' = early
      BY <1>2, MapPageTree
  <2> QED BY <1>0, <1>1, <2>1, NotedMore
<1>3. CASE phase' = "on"
  <2>1. used' \in Nat /\ used < used' /\ early' = Capped(early \o NewTables(used'))
      BY <1>3, MapPageTree
  <2> DEFINE m == used'
             n == m - used - 1
             t == NewTables(m)
             A == Allotted(Root, m)
  <2>0. m \in Nat /\ used < m /\ early' = Capped(early \o t)
      BY <2>1
  <2>13. m = used'
      OBVIOUS
  <2> HIDE DEF m
  <2>2. n \in Nat /\ t = [i \in 1 .. n |-> Frame(used + i)]
      BY <1>0, <2>0 DEF NewTables
  <2>3. ASSUME NEW i \in 1 .. n PROVE Frame(used + i) \in A
    <3> DEFINE k == used + i
    <3>1. k \in Nat /\ k < m
        BY <1>0, <2>0
    <3> HIDE DEF k
    <3>2. Frame(k) = layout.first + k
        BY <1>0, <3>1, RootIs
    <3>3. Frame(k) \in A
        BY <1>0, <2>0, <3>1, <3>2 DEF Allotted
    <3> QED BY <3>3 DEF k
  <2> HIDE DEF n
  <2>4. t \in Seq(A)
    <3>1. t \in [1 .. n -> A]
        BY <2>2, <2>3
    <3> HIDE DEF t, A
    <3> QED BY <2>2, <3>1
  <2>5. early \in Seq(A) /\ Len(early) <= MaxEarly
    <3>1. Allotted(Root, used) \subseteq A
        BY <1>0, <2>0 DEF Allotted
    <3>2. \A i \in 1 .. Len(early) : early[i] \in A
        BY <3>1 DEF Noted
    <3> HIDE DEF A
    <3>3. early \in Seq(Nat)
        BY DEF Noted
    <3> QED BY <3>2, <3>3 DEF Noted
  <2> HIDE DEF A, t
  <2>6. /\ early' \in Seq(A) /\ Len(early) <= Len(early') /\ Len(early') <= MaxEarly
      BY <2>0, <2>4, <2>5, CappedIs
  <2>7. A \subseteq Nat
      BY <1>0, <2>0 DEF Allotted, A
  <2>8. early' \in Seq(Nat) /\ early \in Seq(Nat) /\ \A i \in 1 .. Len(early') : early'[i] \in A
    <3>1. early' \in Seq(Nat)
        BY <2>6, <2>7, SeqMonotonic
    <3> DEFINE e == early'
    <3>2. e \in Seq(A)
        BY <2>6
    <3> HIDE DEF e
    <3>3. \A i \in 1 .. Len(e) : e[i] \in A
        BY <3>2
    <3> QED BY <3>1, <3>3 DEF Noted, e
  <2>9. Len(Requests) \in Nat /\ Len(Requests)' \in Nat /\ Len(Requests) <= Len(Requests)'
      BY <1>0, <1>1, <2>6, <2>8, LongerRequests
  <2>10. Root' = Root
      BY <1>1 DEF Root, Frame
  <2>11. next' \in 1 .. Len(Requests)' + 1
      BY <1>1, <2>9 DEF Noted
  <2>12. A = Allotted(Root, used)'
      BY <2>10, <2>13 DEF A, Allotted
  <2> QED BY <2>6, <2>8, <2>11, <2>12 DEF Noted
<1> QED BY <1>2, <1>3, MapPageTree

\* Every step keeps it (paging.c:101-106, 487 and add_early_page_table).
LEMMA NotedNext ==
    ASSUME Sane, TreeInv, [Next]_vars, Noted
    PROVE  Noted'
<1>1. layout \in Layouts /\ used \in Nat /\ Root = layout.first /\ layout.first \in Nat
    BY RootIs DEF TreeInv
<1>2. CASE AllocRoot
  <2>1. layout' = layout /\ early = <<>> /\ early' = <<Root>> /\ used' = 1 /\ next' = 1
      BY <1>2 DEF AllocRoot, TreeInv
  <2>2. Root' = Root
      BY <2>1 DEF Root, Frame
  <2>3. early' \in Seq(Nat) /\ Len(early') = 1 /\ early'[1] = Root
      BY <1>1, <2>1
  <2>4. Len(Requests)' \in Nat
      BY <1>1, <2>1, <2>3, LongerRequests DEF Noted
  <2>5. Root \in Allotted(Root, 1)
      BY <1>1 DEF Allotted
  <2> HIDE DEF Root
  <2> QED BY <2>1, <2>2, <2>3, <2>4, <2>5, SizesTyped DEF Noted
<1>3. CASE MapNext
  <2>1. /\ layout' = layout /\ early' = early /\ next <= Len(Requests) /\ next' = next + 1
        /\ used' \in Nat /\ used <= used' /\ early = <<Root>>
      BY <1>3, MapNextTree DEF MapNext, TreeInv
  <2>2. Root' = Root
      BY <2>1 DEF Root, Frame
  <2>3. Requests' = Requests /\ Len(Requests) \in Nat
      BY <1>1, <2>1, SameRequests, RequestsTyped
  <2>4. Allotted(Root, used) \subseteq Allotted(Root, used)'
      BY <1>1, <2>1, <2>2 DEF Allotted
  <2>5. next' \in 1 .. Len(Requests) + 1
      BY <2>1, <2>3 DEF Noted
  <2> QED BY <2>1, <2>2, <2>3, <2>4, <2>5 DEF Noted
<1>4. CASE LoadCr3
    BY <1>1, <1>4, NotedMore DEF LoadCr3
<1>5. CASE Kmalloc
    BY <1>1, <1>5, NotedMore DEF Kmalloc
<1>6. ASSUME NEW v \in MapPages, MapPage(v) PROVE Noted'
  <2>1. v \in Virt
      BY ConstantsAssumption DEF ConstantsAssumption, Virt
  <2> QED BY <1>6, <2>1, NotedMapped
<1>7. ASSUME NEW v \in MapPages, UnmapPage(v) PROVE Noted'
    BY <1>1, <1>7, NotedMore DEF UnmapPage
<1>8. CASE UNCHANGED vars
    BY <1>1, <1>8, NotedMore DEF vars
<1> QED BY <1>2, <1>3, <1>4, <1>5, <1>6, <1>7, <1>8 DEF Next

\* It holds before init_paging (paging.c:98).
LEMMA NotedInit == ASSUME Sane, Init PROVE Noted
<1>1. layout \in Layouts /\ early = <<>> /\ next = 1
    BY DEF Init
<1>2. early \in Seq(Nat) /\ Len(early) = 0
    BY <1>1
<1>3. Len(Requests) \in Nat
  <2>1. /\ Len(Regions) \in Nat /\ Len(CodeAndStack) \in Nat
        /\ Len(Requests) = Len(Regions) + Len(CodeAndStack) + 4 * Len(early)
      BY <1>1, <1>2, RequestsAreLong DEF RequestsLong
  <2> QED BY <1>2, <2>1
<1> QED BY <1>1, <1>2, <1>3, SizesTyped DEF Noted

\* Tree and notes together give the types (paging.c:22-45).
LEMMA TypesStand ==
    ASSUME Sane, TreeInv, Noted
    PROVE  TypeOK
<1>1. /\ layout \in Layouts /\ phase \in {"off", "boot", "on", "fault"} /\ used \in 0 .. MaxMaps
      /\ \A e \in DOMAIN mem : mem[e] \in Virt
      /\ phase # "off" => Tree(Root, mem, used)
      /\ phase = "off" => mem = <<>>
    BY DEF TreeInv
<1>2. layout.first \in Nat /\ Root = layout.first /\ used \in Nat
    BY <1>1, RootIs
<1>3. ASSUME NEW x \in Allotted(Root, used) PROVE x \in Frame(0) .. Frame(used - 1)
  <2> DEFINE k == used - 1
  <2>1. x \in Nat /\ k \in Nat /\ Root <= x /\ x <= Root + k
      BY <1>2 DEF Allotted
  <2> HIDE DEF k
  <2>2. Frame(k) = layout.first + k /\ Frame(0) = Root
      BY <1>1, <2>1, RootIs DEF Root
  <2>3. x \in Frame(0) .. Frame(k)
      BY <1>2, <2>1, <2>2
  <2> QED BY <2>3 DEF k
<1>4. ASSUME NEW e \in DOMAIN mem
      PROVE  e[1] \in Frame(0) .. Frame(used - 1) /\ e[2] \in 0 .. Fanout - 1
  <2>1. Tree(Root, mem, used)
      BY <1>1, <1>4
  <2>2. PICK v \in Virt, l \in 1 .. Levels :
           Walk(Root, mem, v)[l] # NoFrame /\ e = <<Walk(Root, mem, v)[l], Index(v, l)>>
      BY <2>1 DEF Tree, Owned
  <2>3. e[1] \in Allotted(Root, used)
      BY <2>1, <2>2, TablesAllotted
  <2>4. v \in Nat
      BY PagesTyped DEF Virt
  <2>5. e[2] \in 0 .. Fanout - 1
      BY <2>2, <2>4, IndexTyped
  <2> QED BY <1>3, <2>3, <2>5
<1>5. \A i \in DOMAIN early : early[i] \in Frame(0) .. Frame(used - 1)
  <2>1. DOMAIN early = 1 .. Len(early)
      BY DEF Noted
  <2> QED BY <1>3, <2>1 DEF Noted
<1>6. next \in 1 .. Len(Requests) + 1 /\ Len(early) <= MaxEarly
    BY DEF Noted
<1> QED BY <1>1, <1>4, <1>5, <1>6 DEF TypeOK, Virt

\* The types hold always: entries hold frames that exist and are in tables that
\* kmalloc gave, and early_page_tables never overflows (paging.c:94-568).
THEOREM TypeCorrect ==
    ASSUME Sane
    PROVE  Spec => []TypeOK
<1>1. Sane /\ Init => TreeInv /\ Noted
    BY TreeInvInit, NotedInit
<1>2. Sane /\ TreeInv /\ Noted /\ [Next]_vars => TreeInv' /\ Noted'
    BY TreeInvNext, NotedNext
<1>3. Sane /\ TreeInv /\ Noted => TypeOK
    BY TypesStand
<1> QED BY <1>1, <1>2, <1>3, PTL DEF Spec
=============================================================================
